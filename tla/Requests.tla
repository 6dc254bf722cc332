------------------------------ MODULE Requests ------------------------------
(***************************************************************************)
(* What the companion computer asks of the flight controller and what it   *)
(* hears back: parameter reads, lists and sets, commands, the responses    *)
(* they queue, the log and the hard error kept over a reset.               *)
(* (params/service.rs, command/service.rs, comm.rs, companion.rs, log.rs,  *)
(* events.rs and the stages of world/service.rs that call them.)           *)
(*                                                                         *)
(* Messages wait in `inbox` until the communication stage takes them all.  *)
(* The stage runs to its end without interruption, so the request queues   *)
(* it fills are empty again when it returns; the responses and the         *)
(* parameter changes of the sensor stage are what remains between stages.  *)
(***************************************************************************)
EXTENDS Integers, Sequences, SequencesExt

CONSTANTS
  NumParams,    \* entries of PARAM_DEFINITIONS
  MaxValue,     \* parameter values are 0 .. MaxValue
  Commands,     \* the commands the companion sends
  Targets,      \* the system ids it addresses
  ChangeCap,    \* PARAM_CHANGED_QUEUE_CAPACITY
  RespCap,      \* COMM_RESPONSE_QUEUE_CAPACITY
  InboxCap,     \* PARAM_SET_INGRESS_QUEUE_CAPACITY, and that of reads
  LogCap,       \* LOG_QUEUE_SIZE
  Realtime,     \* the realtime scheduler sends one response per step
  Faults,       \* resets by a hard fault occur
  MaxSent       \* bound: messages the companion sends

CapsAssumption ==
  /\ NumParams \in Nat \ {0, 1} /\ MaxValue \in Nat \ {0}
  /\ {ChangeCap, RespCap, InboxCap, LogCap} \subseteq Nat \ {0}
  /\ Realtime \in BOOLEAN /\ Faults \in BOOLEAN

VARIABLES inbox, fc, gcs

vars == <<inbox, fc, gcs>>

P == 1 .. NumParams
SYSTEM_ID == 1
BARO_BIAS == NumParams
Value == 0 .. MaxValue
None == "none"
Default == [p \in P |-> IF p = SYSTEM_ID THEN 1 ELSE 0]

Responses == [kind : {"value"}, p : P, v : Value]
             \cup [kind : {"ack"}, cmd : Commands, ok : BOOLEAN]
             \cup [kind : {"version", "text", "hard_error"}]

(***************************************************************************)
(* Bounded queues that refuse what is new and log it, and the log, a ring  *)
(* that forgets its oldest entry (only how many there are is kept).        *)
(***************************************************************************)
LogWarn(s) == [s EXCEPT !.logs = IF @ < LogCap THEN @ + 1 ELSE @]

PushResponse(s, r) ==
  IF Len(s.responses) < RespCap
  THEN [s EXCEPT !.responses = Append(@, r)]
  ELSE LogWarn([s EXCEPT !.refused = @ \cup {IF r.kind = "ack" THEN r.cmd ELSE r.kind}])

Report(s, p) ==
  LET r == PushResponse(s, [kind |-> "value", p |-> p, v |-> s.params[p]])
  IN  [r EXCEPT !.quiet = IF r.responses = s.responses THEN @ \cup {p} ELSE @ \ {p}]

EmitParamChange(s, p) ==
  IF Len(s.changes) < ChangeCap THEN [s EXCEPT !.changes = Append(@, p)] ELSE LogWarn(s)

\* set_param_and_emit_change: nothing at all when the value is the same.
SetParamAndEmitChange(s, p, v) ==
  IF s.params[p] = v THEN s ELSE EmitParamChange([s EXCEPT !.params[p] = v], p)

\* The same for a change that no response reports (`quiet` is history).
SetQuietly(s, p, v) ==
  LET t == SetParamAndEmitChange(s, p, v)
  IN  [t EXCEPT !.quiet = IF s.params[p] = v THEN @ ELSE @ \cup {p}]

MarkAllParamsChanged(s) == [s EXCEPT !.refresh = TRUE]

(* Mutated form: a refusal is not answered. *)
EmitCmdAckArmedSilent(s, c, ok) == IF ok THEN PushResponse(s, [kind |-> "ack", cmd |-> c, ok |-> ok]) ELSE s

EmitCmdAck(s, c, ok) == PushResponse(s, [kind |-> "ack", cmd |-> c, ok |-> ok])

(***************************************************************************)
(* The parts of the stage, in the order it runs them.                      *)
(***************************************************************************)
EmitPendingHardError(s) ==
  IF s.connected /\ s.hardError
  THEN PushResponse([s EXCEPT !.hardError = FALSE], [kind |-> "hard_error"])
  ELSE s

ApplyCompanionInputs(s) == EmitPendingHardError([s EXCEPT !.connected = @ \/ inbox.heartbeat])

ApplyCalibration(s, c) ==
  IF s.armed THEN EmitCmdAck(s, c, FALSE)
  ELSE EmitCmdAck(SetQuietly([s EXCEPT !.calibrating = TRUE], BARO_BIAS, 0), c, TRUE)

(* Mutated form: nothing is told of the defaults. *)
ApplyParamDefaultsQuietly(s, c) ==
  EmitCmdAck(IF s.armed THEN s ELSE [s EXCEPT !.params = Default, !.quiet = P], c, ~s.armed)

ApplyParamDefaults(s, c) ==
  EmitCmdAck(IF s.armed THEN s ELSE MarkAllParamsChanged([s EXCEPT !.params = Default, !.quiet = P]),
             c, ~s.armed)

\* The trim is added to a parameter: any new value.
ApplyRcTrim(s, c, v) ==
  EmitCmdAck(IF s.armed THEN s ELSE SetQuietly(s, BARO_BIAS, v), c, ~s.armed)

\* Reads, writes and resets, which the board performs and may fail.
ApplyBoardCommand(s, c, ok) ==
  LET done == ~s.armed /\ ok /\ (c = "read" => s.stored # <<>>)
      s1 == CASE ~done -> s
              [] c = "read" -> MarkAllParamsChanged([s EXCEPT !.params = s.stored, !.quiet = P])
              [] c = "write" -> [s EXCEPT !.stored = s.params]
  IN  IF c = "reboot"
      THEN EmitCmdAck([s EXCEPT !.resetPending = @ \/ ~s.armed], c, ~s.armed)
      ELSE EmitCmdAck(s1, c, done)

ApplyVersion(s, c) ==
  IF s.armed THEN EmitCmdAck(s, c, FALSE)
  ELSE EmitCmdAck(PushResponse(s, [kind |-> "version"]), c, TRUE)

\* Resetting the origin and sending all configuration are not implemented.
Refuse(s, c) == EmitCmdAck(s, c, FALSE)

ApplyCommandRequests(s, ok, v) ==
  LET c == inbox.cmd IN
  CASE c = None -> s
    [] c = "calibrate" -> ApplyCalibration(s, c)
    [] c = "defaults" -> ApplyParamDefaults(s, c)
    [] c = "rc_trim" -> ApplyRcTrim(s, c, v)
    [] c \in {"read", "write", "reboot"} -> ApplyBoardCommand(s, c, ok)
    [] c = "version" -> ApplyVersion(s, c)
    [] c = "origin" -> Refuse(s, c)

Addressed(s, m) == m.to = s.sysid

ServiceReads(s) == FoldLeft(LAMBDA t, m : IF Addressed(s, m) THEN Report(t, m.p) ELSE t, s, inbox.reads)

\* The list goes on with one parameter per stage; 0 is "no list".
NextIndex(i) == IF i < NumParams THEN i + 1 ELSE 0

ServiceList(s) ==
  LET i == IF inbox.list # 0 /\ inbox.list = s.sysid THEN 1 ELSE s.listNext
  IN  IF i = 0 THEN s ELSE [Report(s, i) EXCEPT !.listNext = NextIndex(i)]

\* A value of the wrong type or out of range is dropped without a word.
ApplySet(s, m) ==
  IF m.v \notin Value THEN s
  ELSE Report(SetParamAndEmitChange(s, m.p, m.v), m.p)

ApplyParamRequests(s) == FoldLeft(LAMBDA t, m : IF Addressed(s, m) THEN ApplySet(t, m) ELSE t, s, inbox.sets)

\* The mixer, RC, command manager, telemetry and battery monitor take over
\* the parameters that changed, or all of them.
ApplyParamReactions(s) ==
  [s EXCEPT !.inForce = [p \in P |-> IF s.refresh \/ p \in Range(s.changes) THEN s.params[p] ELSE @[p]],
            !.changes = <<>>, !.refresh = FALSE]

(***************************************************************************)
(* The companion: `told` is the last value it was told of each parameter,  *)
(* `acked` the commands answered since they were last sent.                *)
(***************************************************************************)
NoMessages == [heartbeat |-> FALSE, reads |-> <<>>, list |-> 0, sets |-> <<>>, cmd |-> None]

\* World::init. `stored` is what board storage holds, <<>> when nothing.
Start(stored, fault) ==
  LET ps == IF stored = <<>> THEN Default ELSE stored IN
  [params |-> ps, stored |-> stored, inForce |-> ps, changes |-> <<>>, refresh |-> FALSE,
   responses |-> <<>>, listNext |-> 0, connected |-> FALSE, hardError |-> fault, logs |-> 0,
   sysid |-> 1, armed |-> FALSE, calibrating |-> FALSE, resetPending |-> FALSE,
   quiet |-> P, refused |-> {}, faulted |-> fault]

Init ==
  /\ inbox = NoMessages
  /\ fc = Start(<<>>, FALSE)
  /\ gcs = [told |-> [p \in P |-> -1], acked |-> {}, heardError |-> FALSE, sent |-> 0]

Bounded(q, m) == IF Len(q) < InboxCap THEN Append(q, m) ELSE q

Sent(box, g) == gcs.sent < MaxSent /\ inbox' = box /\ gcs' = [g EXCEPT !.sent = @ + 1] /\ UNCHANGED fc

\* Store::store: reads and sets queue up, anything else replaces its slot.
SendHeartbeat == Sent([inbox EXCEPT !.heartbeat = TRUE], gcs)
SendRead(p, to) == Sent([inbox EXCEPT !.reads = Bounded(@, [p |-> p, to |-> to])], gcs)
SendList(to) == Sent([inbox EXCEPT !.list = to], gcs)
SendSet(p, v, to) == Sent([inbox EXCEPT !.sets = Bounded(@, [p |-> p, v |-> v, to |-> to])], gcs)
SendCommand(c) == Sent([inbox EXCEPT !.cmd = c], [gcs EXCEPT !.acked = @ \ {c}])

\* run_communication_and_parameter_service_stage: everything in the inbox,
\* commands before reads, the list and sets, reactions last.
CommunicationStage(ok, v) ==
  /\ inbox' = NoMessages
  /\ UNCHANGED gcs
  /\ \E commanded \in {ApplyCommandRequests(ApplyCompanionInputs(fc), ok, v)} :
     \E read \in {ServiceReads(commanded)} :
     \E listed \in {ServiceList(read)} :
     \E set \in {ApplyParamRequests(listed)} :
       fc' = ApplyParamReactions(set)

\* process_sensor_bus_after_update when the barometer calibration ends: the
\* processor has written the bias and a change is queued for the next stage.
CalibrationCompletes(v) ==
  /\ fc.calibrating
  /\ fc' = EmitParamChange([fc EXCEPT !.calibrating = FALSE, !.params[BARO_BIAS] = v,
                                      !.quiet = @ \cup {BARO_BIAS}], BARO_BIAS)
  /\ UNCHANGED <<inbox, gcs>>

\* send_comm_responses_limited for one response: a SYS_ID that is reported
\* takes effect here.
Deliver(g, r) ==
  CASE r.kind = "value" -> [g EXCEPT !.told[r.p] = r.v]
    [] r.kind = "ack" -> [g EXCEPT !.acked = @ \cup {r.cmd}]
    [] r.kind = "hard_error" -> [g EXCEPT !.heardError = fc.connected]
    [] OTHER -> g

\* One log entry becomes a text, lost when there is no room for it.
DrainLogs(s) ==
  IF s.connected /\ s.logs > 0
  THEN [s EXCEPT !.logs = @ - 1,
                 !.responses = IF Len(@) < RespCap THEN Append(@, [kind |-> "text"]) ELSE @]
  ELSE s

SendResponses ==
  LET s == DrainLogs(fc)
      n == IF Realtime /\ s.responses # <<>> THEN 1 ELSE Len(s.responses)
      out == SubSeq(s.responses, 1, n)
      Id(x, r) == IF r.kind = "value" /\ r.p = SYSTEM_ID THEN r.v ELSE x
  IN  /\ s # fc \/ n > 0
      /\ fc' = [s EXCEPT !.responses = SubSeq(@, n + 1, Len(@)), !.sysid = FoldLeft(Id, @, out)]
      /\ gcs' = FoldLeft(Deliver, gcs, out)
      /\ UNCHANGED inbox

\* run_deferred_board_actions. In run_once the responses of the loop are out
\* by then; the realtime scheduler may still hold some.
Reboot ==
  /\ fc.resetPending /\ (Realtime \/ fc.responses = <<>>)
  /\ fc' = Start(fc.stored, FALSE) /\ inbox' = NoMessages
  /\ UNCHANGED gcs

\* A hard fault leaves its record in backup memory, which init takes and clears.
HardFault ==
  /\ Faults
  /\ fc' = Start(fc.stored, TRUE) /\ inbox' = NoMessages
  /\ gcs' = [gcs EXCEPT !.heardError = FALSE]

\* Arming is decided elsewhere (StateMachine).
ToggleArmed == fc' = [fc EXCEPT !.armed = ~@] /\ UNCHANGED <<inbox, gcs>>

Sending ==
  \/ SendHeartbeat
  \/ \E to \in Targets :
       \/ SendList(to)
       \/ \E p \in P : SendRead(p, to) \/ \E v \in Value \cup {-1} : SendSet(p, v, to)
  \/ \E c \in Commands : SendCommand(c)

Stage == \E ok \in BOOLEAN, v \in Value : CommunicationStage(ok, v)

Next ==
  \/ Sending
  \/ Stage
  \/ \E v \in Value : CalibrationCompletes(v)
  \/ SendResponses
  \/ Reboot
  \/ HardFault
  \/ ToggleArmed

\* The scheduler keeps running its stages; nothing else must happen.
Spec == Init /\ [][Next]_vars /\ WF_vars(Stage) /\ WF_vars(SendResponses)

-----------------------------------------------------------------------------
(* Types of the controller's and the companion's state. *)
TypeOK ==
  /\ fc.params \in [P -> Value] /\ fc.inForce \in [P -> Value]
  /\ fc.stored = <<>> \/ fc.stored \in [P -> Value]
  /\ \A i \in DOMAIN fc.responses : fc.responses[i] \in Responses
  /\ Len(fc.responses) <= RespCap /\ Len(fc.changes) <= ChangeCap
  /\ fc.listNext \in 0 .. NumParams /\ fc.logs \in 0 .. LogCap
  /\ gcs.told \in [P -> Value \cup {-1}] /\ gcs.acked \subseteq Commands

(* The subsystems work with the parameters as they are: once a change or a *)
(* refresh is taken over, what is in force is what the table says, however *)
(* sets, defaults, reads from storage and calibrations follow each other.  *)
(* True while no more than ChangeCap parameters change in one stage.       *)
InForceIsTable ==
  fc.changes = <<>> /\ ~fc.refresh => fc.inForce = fc.params

(* The last word on a parameter, sent or queued, is its value, unless it   *)
(* changed without a report: the companion's table converges.              *)
LastWord(p) ==
  LET said == SelectSeq(fc.responses, LAMBDA r : r.kind = "value" /\ r.p = p)
  IN  IF said = <<>> THEN gcs.told[p] ELSE Last(said).v
ReportsAreCurrent == \A p \in P \ fc.quiet : LastWord(p) = fc.params[p]

(* A list leaves no parameter out: all before the next one are reported or *)
(* on their way, unless a response was refused for want of room.           *)
ListLeavesNoneOut ==
  \A p \in P : p < fc.listNext => LastWord(p) # -1 \/ "value" \in fc.refused

(* Every command taken from the inbox is answered, refused ones included,  *)
(* unless the response queue had no room for the answer, another command   *)
(* replaced it, or the controller was reset.                               *)
CommandAnswered ==
  \A c \in Commands : inbox.cmd = c ~>
    (c \in gcs.acked \/ c \in fc.refused \/ fc.resetPending
       \/ (inbox.cmd # None /\ inbox.cmd # c))

(* A hard error found at the start is heard by the companion that connects *)
(* later, whatever the order of its heartbeat and the stages, unless the   *)
(* response queue had no room for it or a reset comes first.               *)
HardErrorHeard ==
  (fc.faulted /\ fc.connected) ~> (gcs.heardError \/ "hard_error" \in fc.refused \/ ~fc.connected)

=============================================================================
