------------------------------ MODULE Mailbox ------------------------------
(***************************************************************************)
(* The mailbox between the cores of the RP2350 (comms.rs) with the MAVLink *)
(* link on core 0 (link.rs) and the UART tasks on core 1 (pico2w's         *)
(* veloxity.rs). Core 0 queues messages by kind; core 1 numbers, encodes   *)
(* and sends them, and queues the frames it receives by priority. Every    *)
(* operation is one critical section; its counters are updated in a        *)
(* critical section of their own, so the other core gets in between.       *)
(*                                                                         *)
(* The queue of encoded frames (push_tx_frame) stays empty in this build:  *)
(* the mailbox takes every message, so the link never encodes on core 0.   *)
(***************************************************************************)
EXTENDS Integers, Sequences, SequencesExt, FiniteSets

CONSTANTS
  Sent,        \* kinds of messages core 0 sends in this instance
  Heard,       \* kinds of frames that arrive in this instance
  CritCap,     \* DOWNLINK_CRITICAL_CAPACITY
  RxCap,       \* RX_FRAME_CAPACITY
  Wrap,        \* where the counters wrap
  MaxSent,     \* bound: messages told apart, later ones share the last number
  MaxHeard     \* bound: frames told apart

\* send_status .. send_version, send_cmd_ack, send_statustext, send_hard_error
Answers == {"Status", "Timesync", "ParamValue", "Heartbeat", "Version"}
Reports == {"Statustext", "HardError"}
Acks == {"CmdAck"}
\* send_diff_pressure .. send_gnss, and the streams sent besides them
Samples == {"DiffPressure", "Baro", "Imu", "Attitude", "OutputRaw", "RcRaw", "Range", "Mag", "Gnss"}
Slow == {"RcChannels", "BatteryStatus"}
Kinds == Answers \cup Acks \cup Reports \cup Samples \cup Slow
RxKinds == {"Heartbeat", "ParamSet", "Timesync", "Cmd", "ParamRead", "ParamList", "Offboard",
            "AuxCmd", "ExtAttitude", "Other"}

MailboxAssumption ==
  /\ Sent \subseteq Kinds /\ Heard \subseteq RxKinds
  /\ {CritCap, RxCap, Wrap} \subseteq Nat \ {0} /\ {MaxSent, MaxHeard} \subseteq Nat

VARIABLES
  crit,        \* downlink_critical: <<kind, n>>, n the number of the message
  tele,        \* downlink_telemetry: the message waiting per stream, 0 if none
  ready,       \* downlink_telemetry_ready
  stats,       \* downlink_enqueued, _drained, _dropped, _replaced
  count0,      \* the counter core 0 has still to add to
  count1,      \* the counter core 1 has still to add to
  sent,        \* messages core 0 has sent
  newest,      \* history: last message sent per stream
  wire,        \* history: last message on the wire: critical ones, per stream
  rx,          \* rx_frames: <<kind, n>> by slot
  heard,       \* frames core 1 has queued
  stored,      \* Messages: the last frame of each kind core 0 took
  crowded,     \* history: three frames have been waiting since rx was empty
  critHeard    \* history: critical frames queued, less those taken

downVars == <<crit, tele, ready, stats, count0, count1, sent, newest, wire>>
rxVars == <<rx, heard, stored, crowded, critHeard>>
vars == <<downVars, rxVars>>

-----------------------------------------------------------------------------
\* downlink_telemetry_stream
Stream(kind) == IF kind = "RcChannels" THEN "RcRaw" ELSE kind
Streams == {Stream(kind) : kind \in Samples \cup Slow}

\* The priority link.rs sends a kind with.
Replaceable(kind) == kind \in Samples \cup Slow

\* mavlink_rx_priority, by message id
RxPriority(kind) ==
  CASE kind \in {"Heartbeat", "ParamSet", "Timesync", "Cmd"} -> 224
    [] kind \in {"ParamRead", "ParamList", "Offboard", "AuxCmd", "ExtAttitude"} -> 128
    [] kind = "Other" -> 32

Init ==
  /\ crit = <<>> /\ tele = [s \in Streams |-> 0] /\ ready = <<>>
  /\ stats = [enqueued |-> 0, drained |-> 0, dropped |-> 0, replaced |-> 0]
  /\ count0 = "none" /\ count1 = "none"
  /\ sent = 0 /\ newest = [s \in Streams |-> 0] /\ wire = [s \in Streams \cup {"crit"} |-> 0]
  /\ rx = <<>> /\ heard = 0 /\ stored = [k \in RxKinds |-> 0] /\ crowded = FALSE /\ critHeard = 0

Least(a, b) == IF a < b THEN a ELSE b
ThisSent == Least(sent + 1, MaxSent)
ThisHeard == Least(heard + 1, MaxHeard)
Added(counter) == [stats EXCEPT ![counter] = (@ + 1) % Wrap]
Pending == {s \in Streams : tele[s] # 0}

-----------------------------------------------------------------------------
(* Core 0: send_downlink_or_message, enqueue_downlink, push_downlink_message. *)
ToCritical(kind) ==
  /\ UNCHANGED <<tele, ready, stats>>
  /\ IF Len(crit) < CritCap
     THEN crit' = Append(crit, <<kind, ThisSent>>) /\ count0' = "enqueued"
     ELSE crit' = crit /\ count0' = "dropped"

ToStream(kind) ==
  /\ UNCHANGED crit
  /\ tele' = [tele EXCEPT ![Stream(kind)] = ThisSent]
  /\ count0' = "enqueued"
  /\ IF tele[Stream(kind)] # 0
     THEN stats' = Added("replaced") /\ UNCHANGED ready
     ELSE ready' = Append(ready, Stream(kind)) /\ UNCHANGED stats

Send(kind) ==
  /\ count0 = "none"
  /\ IF Replaceable(kind) THEN ToStream(kind) ELSE ToCritical(kind)
  /\ sent' = ThisSent
  /\ newest' = IF Replaceable(kind) THEN [newest EXCEPT ![Stream(kind)] = ThisSent] ELSE newest
  /\ UNCHANGED <<count1, wire, rxVars>>

\* update_stats of enqueue_downlink
Count0 ==
  /\ count0 # "none" /\ stats' = Added(count0) /\ count0' = "none"
  /\ UNCHANGED <<crit, tele, ready, count1, sent, newest, wire, rxVars>>

(* Mutated form: streams go before critical messages. *)
PopStreamFirst ==
  \/ ready # <<>> /\ tele' = [tele EXCEPT ![Head(ready)] = 0] /\ ready' = Tail(ready)
     /\ wire' = [wire EXCEPT ![Head(ready)] = tele[Head(ready)]] /\ UNCHANGED crit
  \/ ready = <<>> /\ crit # <<>> /\ crit' = Tail(crit)
     /\ wire' = [wire EXCEPT !["crit"] = Head(crit)[2]] /\ UNCHANGED <<tele, ready>>

(* Core 1: pop_downlink_message, encode_downlink and the UART write of     *)
(* uart_tx_task, which numbers what it hands to the UART.                   *)
Pop ==
  \/ crit # <<>> /\ crit' = Tail(crit)
     /\ wire' = [wire EXCEPT !["crit"] = Head(crit)[2]] /\ UNCHANGED <<tele, ready>>
  \/ crit = <<>> /\ ready # <<>> /\ tele' = [tele EXCEPT ![Head(ready)] = 0]
     /\ ready' = Tail(ready) /\ wire' = [wire EXCEPT ![Head(ready)] = tele[Head(ready)]]
     /\ UNCHANGED crit

UartTx ==
  /\ count1 = "none" /\ Pop /\ count1' = "drained"
  /\ UNCHANGED <<stats, count0, sent, newest, rxVars>>

Count1 ==
  /\ count1 # "none" /\ stats' = Added(count1) /\ count1' = "none"
  /\ UNCHANGED <<crit, tele, ready, count0, sent, newest, wire, rxVars>>

-----------------------------------------------------------------------------
(* Frames received: push_rx_frame and pop_rx_frame.                        *)
Priority(slot) == RxPriority(rx[slot][1])
Slots == 1 .. Len(rx)

\* highest_rx_priority_slot and lowest_rx_priority_slot: the first of equals
Highest ==
  CHOOSE i \in Slots : /\ \A j \in Slots : Priority(j) <= Priority(i)
                       /\ \A j \in 1 .. i - 1 : Priority(j) < Priority(i)
Lowest ==
  CHOOSE i \in Slots : /\ \A j \in Slots : Priority(j) >= Priority(i)
                       /\ \A j \in 1 .. i - 1 : Priority(j) > Priority(i)

\* remove_rx_slot: the last slot moves into the gap.
RemovedAt(slot) == Front([rx EXCEPT ![slot] = Last(rx)])

Outranks(kind) == RxPriority(kind) > Priority(Lowest)

Critical(kind) == RxPriority(kind) = 224

\* push_rx_frame
PushRx(kind) ==
  \/ Len(rx) < RxCap /\ rx' = Append(rx, <<kind, ThisHeard>>)
  \/ Len(rx) = RxCap /\ Outranks(kind) /\ rx' = [rx EXCEPT ![Lowest] = <<kind, ThisHeard>>]
  \/ Len(rx) = RxCap /\ ~Outranks(kind) /\ UNCHANGED rx

\* uart_rx_task with a frame its parser completed
UartRx(kind) ==
  /\ heard' = ThisHeard /\ PushRx(kind)
  /\ critHeard' = IF Critical(kind) /\ rx' # rx THEN critHeard + 1 ELSE critHeard
  /\ crowded' = (crowded \/ Len(rx') > 2)
  /\ UNCHANGED <<downVars, stored>>

\* serial_rx_frame_read in handle_incoming_messages, once per frame
RxFrameRead ==
  /\ rx # <<>>
  /\ LET f == rx[Highest]
     IN  /\ stored' = IF f[1] = "Other" THEN stored ELSE [stored EXCEPT ![f[1]] = f[2]]
         /\ critHeard' = IF Critical(f[1]) THEN critHeard - 1 ELSE critHeard
  /\ rx' = RemovedAt(Highest)
  /\ crowded' = (crowded /\ rx' # <<>>)
  /\ UNCHANGED <<downVars, heard>>

Next ==
  \/ \E kind \in Sent : Send(kind)
  \/ Count0 \/ UartTx \/ Count1
  \/ \E kind \in Heard : UartRx(kind)
  \/ RxFrameRead

\* Core 1's transmit task and both cores' counters go on; what is sent and
\* heard is up to the rest.
Spec == Init /\ [][Next]_vars /\ WF_vars(UartTx) /\ WF_vars(Count0) /\ WF_vars(Count1)

-----------------------------------------------------------------------------
(* The queues keep to their capacities. *)
TypeOK ==
  /\ critHeard \in 0 .. RxCap
  /\ Len(crit) <= CritCap /\ Len(rx) <= RxCap /\ Len(ready) <= Cardinality(Streams)
  /\ DOMAIN tele = Streams /\ \A s \in Streams : tele[s] \in 0 .. MaxSent
  /\ stats \in [{"enqueued", "drained", "dropped", "replaced"} -> 0 .. Wrap - 1]

(* A stream with a message waiting stands in the ready queue exactly once, *)
(* so that no stream is forgotten and none is sent twice.                  *)
ReadyIsPending == IsInjective(ready) /\ ToSet(ready) = Pending

(* What waits for a stream is the newest message core 0 sent there, however *)
(* long core 1 was busy with critical messages.                             *)
NewestWaits == \A s \in Pending : tele[s] = newest[s]

(* Critical messages reach the wire in the order they were sent, and no    *)
(* telemetry while one is waiting.                                         *)
CriticalFirstInOrder ==
  [][wire' # wire =>
       /\ crit # <<>> => \A s \in Streams : wire'[s] = wire[s]
       /\ wire'["crit"] >= wire["crit"]]_vars

(* Nothing disappears uncounted: once both cores have updated their        *)
(* counters, every message accepted was sent, replaced or is waiting.      *)
StatsBalance ==
  (count0 = "none" /\ count1 = "none") =>
     (stats.enqueued - stats.drained - stats.replaced - Len(crit) - Cardinality(Pending)) % Wrap = 0

(* Every stream is served unless critical messages keep arriving. *)
StreamsServed == \A s \in Streams : []<>(tele[s] = 0 \/ crit # <<>>)

(* An accepted critical frame stays until core 0 takes it. *)
CriticalFramesKept == critHeard = Cardinality({i \in Slots : Critical(rx[i][1])})

(* As long as no three frames have been waiting, frames of a kind are      *)
(* stored in the order they arrived; with three, the slot of the frame     *)
(* taken is filled from the end and an older frame can be stored last.     *)
InOrderUnlessCrowded ==
  [][~crowded => \A k \in RxKinds : stored'[k] >= stored[k]]_vars
=============================================================================
