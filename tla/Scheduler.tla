----------------------------- MODULE Scheduler -----------------------------
(***************************************************************************)
(* The realtime scheduler (world/control.rs, world/service.rs): the main   *)
(* loop asks for the next step, which is to take an IMU sample, to run the *)
(* control update of a fixed-rate deadline on the average of the samples,  *)
(* to do service work if enough time is left before the deadline, or       *)
(* nothing. Service work is a list of stages; before each one the IMU and  *)
(* the deadline are looked at again. An IMU interrupt may come at any time.*)
(*                                                                         *)
(* Time is counted in ticks since last_control_update_us; beyond three     *)
(* intervals only the remainder is kept. phase is the time in the interval *)
(* of an ideal clock of the control rate.                                  *)
(***************************************************************************)
EXTENDS Integers, Sequences

CONSTANTS
  Interval,          \* 1 / control_hz
  Slack,             \* REALTIME_SERVICE_MIN_CONTROL_SLACK_US
  MinSpacing,        \* RealtimeServicePolicy::min_spacing_us
  ContinueWhenIdle,  \* RealtimeServicePolicy::continue_when_idle
  ImuGap,            \* least time between two IMU interrupts
  ImuCost,           \* longest IMU tick or control update
  StageCost,         \* longest service stage
  MaxAcc             \* bound: accumulated samples that are counted

SchedulerAssumption ==
  /\ Interval \in Nat \ {0} /\ Slack \in Nat /\ MinSpacing \in Nat /\ ImuGap \in Nat
  /\ ImuCost \in Nat \ {0} /\ StageCost \in Nat \ {0} /\ MaxAcc \in Nat \ {0}
  /\ ContinueWhenIdle \in BOOLEAN

VARIABLES
  elapsed,   \* clock_micros() - last_control_update_us
  phase,     \* history: time in the current interval of the ideal clock
  acc,       \* control_imu_accumulator.count
  pending,   \* imu_pending()
  gap,       \* time until the IMU may interrupt again
  pc,        \* 0 in the main loop, else the service stage that is next
  busy,      \* what is left of the work under way
  wait,      \* next_realtime_service_us
  active,    \* the service step saw activity
  hist       \* history: control ran in this interval; how long it was due

vars == <<elapsed, phase, acc, pending, gap, pc, busy, wait, active, hist>>

Stages == <<"telemetry", "sensors", "input", "rc", "responses", "flush", "deferred">>

Init ==
  /\ elapsed = 0 /\ phase = 0 /\ acc = 0 /\ pending = FALSE /\ gap = 0
  /\ pc = 0 /\ busy = 0 /\ wait = 0 /\ active = FALSE
  /\ hist = [ran |-> FALSE, late |-> 0, order |-> <<>>]

-----------------------------------------------------------------------------
DueAt(e) == e >= Interval
CanRun == DueAt(elapsed) /\ acc > 0

HasSlack == acc = 0 \/ elapsed + Slack < Interval

CanContinue == ~pending /\ ~CanRun /\ HasSlack

\* realtime_scheduler_step
NextStep ==
  CASE pending -> "imu"
    [] ~pending /\ CanRun -> "control"
    [] ~pending /\ ~CanRun /\ wait = 0 /\ HasSlack -> "service"
    [] OTHER -> "idle"

AtLoop(step) == pc = 0 /\ busy = 0 /\ NextStep = step

(* Mutated form: the next interval starts now. *)
ConsumedNow(e) == 0

\* consume_control_update_deadline: last_control_update_us goes forward by
\* whole intervals.
Consumed(e) == e % Interval

\* run_control_and_mixing_stage_with_accumulated_imu
RunControl ==
  /\ elapsed' = Consumed(elapsed) /\ acc' = 0
  /\ hist' = [hist EXCEPT !.ran = TRUE, !.late = 0]

\* ImuSampleAccumulator::push; count saturates.
Accumulated(sample) == IF acc < MaxAcc THEN acc + sample ELSE acc

ImuTick ==
  /\ AtLoop("imu") /\ pending' = FALSE
  /\ \E sample \in 0 .. 1 :                        \* 0: the reading is an error
       IF DueAt(elapsed) /\ acc + sample > 0 THEN RunControl
       ELSE /\ acc' = Accumulated(sample)
            /\ UNCHANGED <<elapsed, hist>>
  /\ busy' \in 1 .. ImuCost
  /\ UNCHANGED <<phase, gap, pc, wait, active>>

ControlTick ==
  /\ AtLoop("control") /\ RunControl /\ busy' \in 1 .. ImuCost
  /\ UNCHANGED <<phase, pending, gap, pc, wait, active>>

ServicePass ==
  /\ AtLoop("service") /\ pc' = 1 /\ active' = FALSE
  /\ hist' = [hist EXCEPT !.order = <<>>]
  /\ UNCHANGED <<elapsed, phase, acc, pending, gap, busy, wait>>

\* One stage of run_prioritized_service_step.
RunStage ==
  /\ pc \in 1 .. Len(Stages) /\ busy = 0 /\ pc' = pc + 1
  /\ IF CanContinue
     THEN /\ busy' \in 1 .. StageCost
          /\ active' \in {active} \cup (IF Stages[pc] \in {"telemetry", "sensors", "input"} THEN {TRUE} ELSE {})
          /\ hist' = [hist EXCEPT !.order = Append(@, Stages[pc])]
     ELSE UNCHANGED <<busy, active, hist>>
  /\ UNCHANGED <<elapsed, phase, acc, pending, gap, wait>>

\* The end of a step in run_prioritized_service_steps_with_policy.
StepDone ==
  /\ pc = Len(Stages) + 1 /\ busy = 0
  /\ IF CanContinue /\ MinSpacing = 0 /\ (active \/ ContinueWhenIdle)
     THEN pc' = 1 /\ UNCHANGED wait
     ELSE pc' = 0 /\ wait' = MinSpacing
  /\ active' = FALSE
  /\ hist' = [hist EXCEPT !.order = <<>>]
  /\ UNCHANGED <<elapsed, phase, acc, pending, gap, busy>>

\* Time passes in work and when the main loop has nothing to do.
Less(n) == IF n > 0 THEN n - 1 ELSE 0

Tick ==
  /\ busy > 0 \/ AtLoop("idle")
  /\ elapsed' = IF elapsed + 1 < 3 * Interval THEN elapsed + 1 ELSE elapsed + 1 - Interval
  /\ phase' = (phase + 1) % Interval
  /\ gap' = Less(gap) /\ busy' = Less(busy) /\ wait' = Less(wait)
  /\ hist' = [hist EXCEPT !.ran = @ /\ phase' # 0,
                          !.late = IF DueAt(elapsed) /\ (acc > 0 \/ pending) THEN @ + 1 ELSE 0]
  /\ UNCHANGED <<acc, pending, pc, active>>

Interrupt ==
  /\ gap = 0 /\ ~pending /\ pending' = TRUE /\ gap' = ImuGap
  /\ UNCHANGED <<elapsed, phase, acc, pc, busy, wait, active, hist>>

MainLoop == ImuTick \/ ControlTick \/ ServicePass \/ RunStage \/ StepDone

Next == MainLoop \/ Tick \/ Interrupt

\* The main loop and the clock go on. The IMU promises nothing.
Spec == Init /\ [][Next]_vars /\ WF_vars(MainLoop) /\ WF_vars(Tick)

-----------------------------------------------------------------------------
(* Types of the clocks, the accumulator and the position in the stages. *)
TypeOK ==
  /\ elapsed \in 0 .. 3 * Interval - 1 /\ phase \in 0 .. Interval - 1
  /\ acc \in 0 .. MaxAcc /\ pending \in BOOLEAN /\ gap \in 0 .. ImuGap
  /\ pc \in 0 .. Len(Stages) + 1 /\ wait \in 0 .. MinSpacing
  /\ busy \in 0 .. ImuCost + StageCost
  /\ active \in BOOLEAN

(* However late updates are, the deadlines stay on the grid of the control *)
(* rate: the control loop does not drift.                                  *)
DeadlinesDoNotDrift == elapsed % Interval = phase

(* Two control updates never fall into one interval of the control rate,   *)
(* also not to catch up after a delay.                                     *)
OncePerInterval ==
  [][hist.ran => ~ (ControlTick \/ (ImuTick /\ hist' # hist))]_vars

(* A control update whose deadline has passed waits for one service stage  *)
(* and one IMU tick at most; with stages that fit in the slack and samples *)
(* at hand before the deadline it waits for an IMU tick only.              *)
ControlOnTime ==
  /\ hist.late <= StageCost + ImuCost
  /\ acc > 0 /\ StageCost <= Slack => hist.late <= ImuCost

(* With an IMU that leaves time for it, or that has fallen silent, the RC  *)
(* stage, which also finds that the link is lost, runs again and again.    *)
RcServed == []<><<RunStage /\ hist'.order # hist.order /\ Stages[pc] = "rc">>_vars

=============================================================================
