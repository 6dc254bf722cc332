------------------------------ MODULE Telemetry ------------------------------
(***************************************************************************)
(* The telemetry of the communication manager (comm.rs, world/telemetry.rs): *)
(* streams with rates that parameters change in flight, samples that the     *)
(* sensors replace, and two ways to send, all that is due at once (run_once) *)
(* or the stream with the earliest deadline, again and again, as far as the  *)
(* control loop leaves slack (the realtime scheduler).                       *)
(*                                                                         *)
(* Time is a tick; a rate is the interval it stands for, in ticks, 0 for the *)
(* rate 0 and Off for a disabled one.  In place of clock values the model  *)
(* keeps how long ago a stream's period began.                               *)
(***************************************************************************)
EXTENDS Integers, FiniteSets

CONSTANTS
  Streams,     \* some of NamedTelemetryStream
  Place,       \* their order in select_due_named_telemetry_stream
  Source,      \* the sensor a stream sends samples of, "none" for a stream of state
  Intervals,   \* what each stream's rate parameter may be set to
  Defaults,    \* what it is at the start
  Capacity,    \* the messages there is slack for in a tick
  Realtime,    \* the realtime scheduler, or run_once
  Refreshes,   \* parameters may be read in full
  Priorities,  \* the streams a board sends out of turn
  MaxAge       \* bound: a longer wait is reduced by whole intervals

(* The interval of a disabled stream, and the age of a period that never began. *)
Off == -1
New == -1

Sampled == {s \in Streams : Source[s] # "none"}
Sources == {Source[s] : s \in Sampled}
Fixed   == Streams \ Sampled

TelemetryAssumption ==
  /\ IsFiniteSet(Streams) /\ DOMAIN Defaults = Streams /\ Capacity \in Nat \ {0} /\ MaxAge \in Nat
  /\ Realtime \in BOOLEAN /\ Refreshes \in BOOLEAN
  /\ Priorities \subseteq Streams
  /\ \A s \in Streams : /\ Place[s] \in Nat
                        /\ Defaults[s] \in Intervals[s]
                        /\ \A i \in Intervals[s] : i = Off \/ (i \in Nat /\ 2 * i <= MaxAge)
  /\ \A s, t \in Streams : Place[s] = Place[t] => s = t

VARIABLES
  interval,  \* telemetry_rates
  age,       \* now - last sent period, New for a last_us of 0
  present,   \* the sources with a sample in processed_sensors
  sent,      \* the streams that sent the sample their source has now
  slack,     \* messages that still fit before the next tick
  copies,    \* observed: how often a stream sent the sample its source has now
  debt       \* observed: interval per message sent, less the time since, to 3 intervals

vars == <<interval, age, present, sent, slack, copies, debt>>

TypeOK ==
  /\ \A s \in Streams : interval[s] \in Intervals[s]
  /\ age \in [Streams -> -1..MaxAge]
  /\ present \subseteq Sources
  /\ sent \subseteq Sampled
  /\ slack \in 0..Capacity
  /\ copies \in [Sampled -> 0..2]
  /\ debt \in [Streams -> 0..3 * MaxAge]

(* CommManager::new, and configure_telemetry_from_params of World::init. *)
Init ==
  /\ interval = Defaults
  /\ age = [s \in Streams |-> IF s \in Fixed THEN 0 ELSE New]
  /\ present = {} /\ sent = {}
  /\ slack = 0
  /\ copies = [s \in Sampled |-> 0]
  /\ debt = [s \in Streams |-> 0]

-----------------------------------------------------------------------------
(* When a stream is due *)

(* telemetry_freshness and telemetry_stream_sample_timestamp. *)
Fresh(s) == s \in Fixed \/ (Source[s] \in present /\ s \notin sent)

(* stream_due and fixed_rate_due, for a rate and the age of the period. *)
RateDue(s) ==
  /\ interval[s] # Off
  /\ interval[s] = 0 \/ age[s] = New \/ age[s] >= interval[s]

(* OUTPUT_RAW at rate 0 follows a divisor of the IMU samples, which          *)
(* from_params and update_telemetry_param make 0: then it is never due.      *)
StreamDue(s) ==
  /\ Fresh(s)
  /\ RateDue(s)
  /\ s = "OutputRaw" => interval[s] # 0

(* fixed_rate_due_deadline_us and stream_due_deadline_us, less now: the      *)
(* streams of every sample come after those that are late, and those whose   *)
(* period never began before all.                                            *)
Deadline(s) ==
  CASE s \in Sampled /\ age[s] = New -> - (MaxAge + 1)
    [] interval[s] = 0 /\ (s \in Fixed \/ age[s] # New) -> 0
    [] OTHER -> interval[s] - age[s]

(* select_due_named_telemetry_stream: the earliest, in the order of the code. *)
Selected(s) ==
  /\ StreamDue(s)
  /\ \A t \in Streams \ {s} : StreamDue(t) =>
       \/ Deadline(s) < Deadline(t)
       \/ Deadline(s) = Deadline(t) /\ Place[s] < Place[t]

-----------------------------------------------------------------------------
(* Sending *)

(* Mutated form: a period that was missed is made up for, one by one. *)
NextAgeCatchUp(s) ==
  CASE s \in Fixed -> 0
    [] s \in Sampled /\ age[s] = New -> 0
    [] s \in Sampled /\ age[s] # New -> IF interval[s] = 0 THEN age[s] ELSE age[s] - interval[s]

(* The period a message begins: now for heartbeat and status, and for the    *)
(* others the last multiple of the interval, so that they keep their beat.   *)
NextAge(s) ==
  CASE s \in Fixed -> 0
    [] s \in Sampled /\ age[s] = New -> 0
    [] s \in Sampled /\ age[s] # New -> IF interval[s] = 0 THEN age[s] ELSE age[s] % interval[s]

AtMost(n, max) == IF n > max THEN max ELSE n

(* The messages of the streams S go out; used are those whose sample counts  *)
(* as sent.                                                                  *)
Sends(S, used, nextAge) ==
  /\ age' = [s \in Streams |-> IF s \in S THEN nextAge[s] ELSE age[s]]
  /\ sent' = sent \cup (used \cap Sampled)
  /\ copies' = [s \in Sampled |-> IF s \in S THEN AtMost(copies[s] + 1, 2) ELSE copies[s]]
  /\ debt' = [s \in Streams |->
       IF s \in S /\ interval[s] # Off THEN AtMost(debt[s] + interval[s], 3 * interval[s]) ELSE debt[s]]
  /\ UNCHANGED <<interval, present>>

InTurn == [s \in Streams |-> IF StreamDue(s) THEN NextAge(s) ELSE age[s]]

(* send_one_named_telemetry_stream, as long as there is slack. *)
SendRealtimeTelemetryStream ==
  /\ Realtime /\ slack > 0
  /\ \E s \in Streams : Selected(s) /\ Sends({s}, {s}, InTurn)
  /\ slack' = slack - 1

(* send_imu_if_fresh: its period begins now. *)
SendImuIfFresh(s) == s = "Imu" /\ Fresh(s) /\ Sends({s}, {s}, [t \in Streams |-> 0])

(* send_named_telemetry_stream_with_gate: the board's streams out of turn,   *)
(* the IMU without waiting for its rate.                                     *)
SendPriorityStream ==
  /\ Realtime /\ slack > 0
  /\ \E s \in Priorities :
       \/ StreamDue(s) /\ Sends({s}, {s}, InTurn)
       \/ SendImuIfFresh(s)
  /\ slack' = slack - 1

(* run_telemetry_stage: every stream that is due.  A fresh sample uses up    *)
(* the raw output's turn when its rate is 0.                                 *)
SendNamedTelemetryStreams ==
  LET due  == {s \in Streams : StreamDue(s)}
      idle == {s \in Streams : s = "OutputRaw" /\ Fresh(s) /\ interval[s] = 0}
  IN  /\ ~ Realtime /\ slack > 0
      /\ due # {}
      /\ Sends(due, due \cup idle, InTurn)
      /\ slack' = 0

-----------------------------------------------------------------------------
(* Parameters *)

(* update_telemetry_param: the stream begins a new period now. *)
UpdateTelemetryParam ==
  \E s \in Streams : \E i \in Intervals[s] \ {interval[s]} :
    /\ interval' = [interval EXCEPT ![s] = i]
    /\ age' = [age EXCEPT ![s] = 0]
    /\ debt' = [debt EXCEPT ![s] = 0]
    /\ UNCHANGED <<present, sent, slack, copies>>

(* configure_telemetry_from_params, on a full refresh: the rates are the     *)
(* parameters' already, the periods of all but heartbeat and status never    *)
(* began, and what was sent stays sent.                                      *)
ConfigureTelemetryFromParams ==
  /\ Refreshes
  /\ age' = [s \in Streams |-> IF s \in Fixed THEN age[s] ELSE New]
  /\ debt' = [s \in Streams |-> 0]
  /\ UNCHANGED <<interval, present, sent, slack, copies>>

-----------------------------------------------------------------------------
(* Time and sensors *)

Older(s) ==
  CASE age[s] = New \/ interval[s] \in {Off, 0} -> age[s]
    [] OTHER -> IF age[s] = MaxAge THEN MaxAge + 1 - interval[s] ELSE age[s] + 1

(* A tick, at whose end some sources have new samples, which replace the old *)
(* ones, and some of the others none.  The scheduler comes back when its     *)
(* slack is used up or nothing is due.                                       *)
Tick(new, gone) ==
  /\ slack = 0 \/ \A s \in Streams : ~ StreamDue(s)
  /\ age' = [s \in Streams |-> Older(s)]
  /\ debt' = [s \in Streams |-> IF debt[s] = 0 THEN 0 ELSE debt[s] - 1]
  /\ present' = (present \cup new) \ gone
  /\ sent' = {s \in sent : Source[s] \notin new}
  /\ copies' = [s \in Sampled |-> IF Source[s] \in new THEN 0 ELSE copies[s]]
  /\ slack' = Capacity
  /\ UNCHANGED interval

NextTick == \E new \in SUBSET Sources : \E gone \in SUBSET (Sources \ new) : Tick(new, gone)

Next ==
  \/ SendRealtimeTelemetryStream
  \/ SendPriorityStream
  \/ SendNamedTelemetryStreams
  \/ UpdateTelemetryParam
  \/ ConfigureTelemetryFromParams
  \/ NextTick

(* What the realtime scheduler does by itself, at fixed rates. *)
NextScheduler ==
  \/ SendRealtimeTelemetryStream
  \/ NextTick

Spec == Init /\ [][Next]_vars

(* Time goes on, and each source has samples again and again. *)
SchedulerSpec ==
  /\ Init /\ [][NextScheduler]_vars
  /\ WF_vars(SendRealtimeTelemetryStream)
  /\ \A src \in Sources : WF_vars(\E new \in {n \in SUBSET Sources : src \in n} : Tick(new, {}))

-----------------------------------------------------------------------------
(* Properties *)

(* No sample is sent twice on a stream, whichever way it is sent and         *)
(* whatever happens to the rates meanwhile (comm.rs:448).                    *)
NoSampleTwice == \A s \in Sampled : copies[s] <= 1

(* Over any stretch of time a stream with a rate sends at that rate and at   *)
(* most one message more: a stream that was held up, or had no samples for a *)
(* while, does not make up for it.                                           *)
RateKept ==
  \A s \in Streams \ Priorities : interval[s] \notin {Off, 0} => debt[s] <= 2 * interval[s]

(* With slack for one message in a tick, streams of every sample do not hold *)
(* up heartbeat and status, nor does a stream that was without samples for   *)
(* long: they are late by no more than a turn of each of the others.         *)
LatenessBounded ==
  \A s \in Fixed : age[s] <= interval[s] + Cardinality(Streams \ {s})

(* With slack for every stream each sample of a stream whose rate is 0 is    *)
(* sent before the next replaces it (world/service.rs:168).                  *)
NoFreshSampleLost ==
  [][(\E s \in Sampled \ sent :
         interval[s] = 0 /\ s # "OutputRaw" /\ Source[s] \in present) => ~ NextTick]_vars

=============================================================================
