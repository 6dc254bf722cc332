--------------------------- MODULE SbusReceiver ---------------------------
(* The SBUS task of the STM32 boards and the queue to the flight loop. The  *)
(* task reads into one buffer until the line goes idle and looks at the     *)
(* header and the footer, not at how much was read: of a short read the     *)
(* rest of the buffer is what the reads before left there.                  *)
EXTENDS Integers, Sequences

CONSTANTS Capacity,      \* RC_QUEUE_CAPACITY
          MaxFrames      \* bound: frames the receiver sends

SbusAssumption == Capacity \in Nat \ {0} /\ MaxFrames \in Nat

VARIABLES
  sent,        \* frames the receiver has sent so far; frames are numbered
  buffer,      \* header, two parts of the channels, footer: the frame each
               \* is of, 0 as initialised, -1 garbage
  whole,       \* frames that were read whole
  rcChan,      \* rc_chan: the channels of the last frame taken for valid
  late,        \* more than a second has passed since the last good read
  pc,          \* reading, publishing, checking the timeout, publishing a loss
  packet,      \* the packet being sent to the queue
  queue,       \* RC_CHANNEL
  got          \* the last packet the flight loop took

vars == <<sent, buffer, whole, rcChan, late, pc, packet, queue, got>>

Cells == 1 .. 4
(* A packet: its timestamp, counted in frames sent, and the channels; the   *)
(* frame's own loss-of-link bits are data of its last part.                 *)
Zero == [timestamp |-> 0, chan |-> <<0, 0>>, timeout |-> FALSE]
Packets == [timestamp : 0 .. MaxFrames, chan : (-1 .. MaxFrames) \X (-1 .. MaxFrames),
            timeout : BOOLEAN]

(* One type invariant. *)
TypeOK ==
  /\ sent \in 0 .. MaxFrames
  /\ buffer \in [Cells -> -1 .. sent] /\ whole \subseteq 1 .. sent
  /\ pc \in {"read", "publish", "check", "publishLoss"} /\ late \in BOOLEAN
  /\ packet \in Packets /\ got \in Packets
  /\ rcChan \in (-1 .. MaxFrames) \X (-1 .. MaxFrames)
  /\ Len(queue) <= Capacity

Init ==
  /\ sent = 0 /\ buffer = [i \in Cells |-> 0] /\ whole = {}
  /\ rcChan = <<0, 0>> /\ late = FALSE /\ pc = "read"
  /\ packet = Zero /\ queue = <<>> /\ got = Zero

-----------------------------------------------------------------------------
(* read_until_idle puts the first cells of a frame, or of garbage, into the *)
(* buffer, and succeeds or fails.                                           *)
Overwritten(n, with) == [i \in Cells |-> IF i <= n THEN with ELSE buffer[i]]

(* valid_header and valid_footer. A zero is a footer, and no header.        *)
Valid(cells) == cells[1] > 0 /\ cells[4] >= 0

Good(cells) == [timestamp |-> sent', chan |-> <<cells[2], cells[3]>>, timeout |-> FALSE]
Loss == [timestamp |-> sent, chan |-> rcChan, timeout |-> TRUE]

Read(cells, ok) ==
  /\ pc = "read"
  /\ buffer' = cells
  /\ late' = IF ok THEN FALSE ELSE late
  /\ IF ok /\ Valid(cells)
     THEN /\ pc' = "publish"
          /\ packet' = Good(cells)
          /\ rcChan' = Good(cells).chan
     ELSE /\ pc' = "check"
          /\ UNCHANGED <<packet, rcChan>>
  /\ UNCHANGED <<queue, got>>

ReadFrame ==
  /\ sent < MaxFrames
  /\ sent' = sent + 1
  /\ \E n \in Cells, ok \in BOOLEAN :
       /\ Read(Overwritten(n, sent + 1), ok)
       /\ whole' = IF n = 4 /\ ok THEN whole \cup {sent + 1} ELSE whole

ReadNoise ==
  /\ UNCHANGED <<sent, whole>>
  /\ \E n \in 0 .. 4, ok \in BOOLEAN : Read(Overwritten(n, -1), ok)

(* publish_rc waits while the queue is full.                                *)
Sends(next) ==
  /\ Len(queue) < Capacity
  /\ queue' = Append(queue, packet)
  /\ pc' = next

PublishRc ==
  /\ pc = "publish"
  /\ Sends("check")
  /\ UNCHANGED <<sent, buffer, whole, rcChan, late, packet, got>>

(* Mutated form: the time is looked at after good reads only. *)
CheckTimeoutAfterGood ==
  /\ pc = "check"
  /\ IF late /\ Valid(buffer)
     THEN pc' = "publishLoss" /\ packet' = Loss /\ late' = FALSE
     ELSE pc' = "read" /\ UNCHANGED <<packet, late>>
  /\ UNCHANGED <<sent, buffer, whole, rcChan, queue, got>>

(* After every read: a second without a good one is a loss of the link.     *)
CheckTimeout ==
  /\ pc = "check"
  /\ IF late
     THEN pc' = "publishLoss" /\ packet' = Loss /\ late' = FALSE
     ELSE pc' = "read" /\ UNCHANGED <<packet, late>>
  /\ UNCHANGED <<sent, buffer, whole, rcChan, queue, got>>

PublishLoss ==
  /\ pc = "publishLoss"
  /\ Sends("read")
  /\ UNCHANGED <<sent, buffer, whole, rcChan, late, packet, got>>

(* A second passes, while the task reads or waits for room in the queue.    *)
Timeout ==
  /\ ~late /\ late' = TRUE
  /\ UNCHANGED <<sent, buffer, whole, rcChan, pc, packet, queue, got>>

(* The flight loop takes one packet in a pass.                              *)
TryReceive ==
  /\ queue # <<>>
  /\ got' = Head(queue) /\ queue' = Tail(queue)
  /\ UNCHANGED <<sent, buffer, whole, rcChan, late, pc, packet>>

Next ==
  \/ ReadFrame \/ ReadNoise \/ PublishRc \/ CheckTimeout \/ PublishLoss
  \/ Timeout \/ TryReceive

Spec == Init /\ [][Next]_vars

(* Ready tasks run, the flight loop polls the queue, and the line is not    *)
(* silent: reads end, with whatever result.                                 *)
FairSpec ==
  /\ Spec
  /\ WF_vars(ReadNoise) /\ WF_vars(PublishRc) /\ WF_vars(CheckTimeout)
  /\ WF_vars(PublishLoss) /\ WF_vars(TryReceive)

-----------------------------------------------------------------------------
(* The flight loop is never shown the sticks of an earlier moment after     *)
(* those of a later one, however long it left the queue full.               *)
NeverOlder == [][got'.timestamp >= got.timestamp]_got

(* A second without a good read reaches the flight loop as a loss of the    *)
(* link, unless a read succeeds first, as long as the line is not silent.   *)
LossHeard == (late ~> ~late) /\ (pc = "publishLoss" ~> got.timeout)

(* Of the channels of one packet the later ones are never of a newer frame  *)
(* than the earlier ones: a short read replaces the front of the buffer.    *)
FrontIsNewer ==
  \A i \in 1 .. Len(queue) :
    LET c == queue[i].chan IN (c[1] > 0 /\ c[2] > 0) => c[1] >= c[2]

=============================================================================
