----------------------------- MODULE SimHandoff -----------------------------
(***************************************************************************)
(* The simulated firmware behind its C interface (sim/firmware/src/ffi.rs): *)
(* the simulator hands over sensor snapshots and waits for the latest IMU  *)
(* sample to be processed; a worker thread runs the realtime scheduler,    *)
(* publishes the PWM outputs with the generation of the sample behind them *)
(* and wakes the simulator.                                                *)
(*                                                                         *)
(* A sample is its generation, a PWM frame the generation of the newest    *)
(* sample the control stage that wrote it had seen.                        *)
(***************************************************************************)
EXTENDS Integers, FiniteSets, FiniteSetsExt

CONSTANTS
  Slow,       \* sensors besides the IMU
  MaxGen,     \* bound: IMU samples
  MaxClock    \* bound: clock of the slow sensors' stamps

ASSUME SimHandoffAssumption == IsFiniteSet(Slow) /\ MaxGen \in Nat \ {0} /\ MaxClock \in Nat

VARIABLES
  \* SharedSensors
  pending,    \* [imu |-> BOOLEAN, slow |-> stamps or -1]
  latest, pendingGen, consumed,
  \* FfiBoard
  last,       \* last_*_timestamp_us
  \* the worker
  wpc,        \* "loop", "imu", "tick", "count", "copy", "publish", "stopped"; after a panic
              \* "panicked", "notify", "storing", "dead"
  est,        \* newest sample the world has seen
  outputs,    \* shared PWM outputs
  gen,        \* generation to publish, 0 for None
  frame,      \* copy of the outputs
  \* FirmwareProgress, shutdown
  progress, shutdown,
  \* the simulator
  cpc,        \* "idle", "sleep", "awake", "timeout", "returned", "joining", "gone"
  target, result,
  \* history
  clock, submitted, ticked, controlled

workerVars == <<wpc, est, outputs, gen, frame>>
callerVars == <<cpc, target, result>>
sensorVars == <<pending, latest, pendingGen, consumed, last>>
vars == <<sensorVars, workerVars, progress, shutdown, callerVars, clock, submitted, ticked, controlled>>

Init ==
  /\ pending = [imu |-> FALSE, slow |-> [s \in Slow |-> -1]]
  /\ latest = 0 /\ pendingGen = 0 /\ consumed = 0 /\ last = [s \in Slow |-> 0]
  /\ wpc = "loop" /\ est = 0 /\ outputs = 0 /\ gen = 0 /\ frame = 0
  /\ progress = [processed |-> 0, pwm |-> 0, failed |-> FALSE] /\ shutdown = FALSE
  /\ cpc = "idle" /\ target = 0 /\ result = FALSE
  /\ clock = 0 /\ submitted = [s \in Slow |-> 0] /\ ticked = 0 /\ controlled = {}

-----------------------------------------------------------------------------
(* The simulator's calls. *)

\* merge: a newer value replaces an older one that was not consumed.
Merge(slow) == [s \in Slow |-> IF s \in slow THEN clock ELSE pending.slow[s]]

(* veloxity_sim_set_sensors, from any thread of the simulator. *)
SetSensors(imu, slow) ==
  /\ cpc \notin {"joining", "gone"} /\ (imu => latest < MaxGen)
  /\ pending' = [imu |-> pending.imu \/ imu, slow |-> Merge(slow)]
  /\ latest' = IF imu THEN latest + 1 ELSE latest
  /\ pendingGen' = IF imu THEN latest + 1 ELSE pendingGen
  /\ submitted' = [s \in Slow |-> IF s \in slow THEN clock ELSE submitted[s]]
  /\ UNCHANGED <<consumed, last, workerVars, progress, shutdown, callerVars, clock, ticked, controlled>>

\* wait_for_imu_generation: condition of the wait, and the answer
Waits == progress.processed < target /\ ~progress.failed /\ ~shutdown
Answer == ~progress.failed /\ ~shutdown /\ progress.processed >= target

(* veloxity_sim_sync_latest_imu up to the lock of the progress. *)
SyncLatestImu ==
  /\ cpc = "idle"
  /\ target' = latest
  /\ IF latest = 0 THEN cpc' = "returned" /\ result' = TRUE
     ELSE cpc' = "awake" /\ UNCHANGED result
  /\ UNCHANGED <<sensorVars, workerVars, progress, shutdown, clock, submitted, ticked, controlled>>

\* The lock is held: look at the condition, sleep or return.
Look ==
  /\ cpc \in {"awake", "timeout"}
  /\ IF cpc = "awake" /\ Waits THEN cpc' = "sleep" /\ UNCHANGED result
     ELSE cpc' = "returned" /\ result' = Answer
  /\ UNCHANGED <<sensorVars, workerVars, progress, shutdown, target, clock, submitted, ticked, controlled>>

\* FIRMWARE_SYNC_TIMEOUT runs out.
Timeout ==
  /\ cpc = "sleep" /\ cpc' = "timeout"
  /\ UNCHANGED <<sensorVars, workerVars, progress, shutdown, target, result, clock, submitted, ticked, controlled>>

(* veloxity_sim_get_pwm, which the simulator calls after a wait that       *)
(* succeeded.                                                              *)
GetPwm ==
  /\ cpc = "returned" /\ cpc' = "idle" /\ target' = 0 /\ result' = FALSE
  /\ UNCHANGED <<sensorVars, workerVars, progress, shutdown, clock, submitted, ticked, controlled>>

(* veloxity_sim_destroy: no other call is under way. *)
Destroy ==
  /\ cpc = "idle" /\ cpc' = "joining" /\ shutdown' = TRUE
  /\ UNCHANGED <<sensorVars, workerVars, progress, target, result, clock, submitted, ticked, controlled>>

Join ==
  /\ cpc = "joining" /\ wpc \in {"stopped", "dead"} /\ cpc' = "gone"
  /\ UNCHANGED <<sensorVars, workerVars, progress, shutdown, target, result, clock, submitted, ticked, controlled>>

-----------------------------------------------------------------------------
(* run_firmware_worker. *)

\* notify_all
Woken == IF cpc = "sleep" THEN "awake" ELSE cpc

\* Head of the loop: the scheduler's choice. Which of the steps without an
\* IMU sample is due depends on the clock; without one the loop spins.
Loop ==
  /\ wpc = "loop"
  /\ wpc' \in IF shutdown THEN {"stopped"}
              ELSE IF pending.imu THEN {"imu"} ELSE {"control", "service", "loop"}
  /\ UNCHANGED <<est, outputs, gen, frame, sensorVars, progress, shutdown, callerVars, clock, submitted, ticked, controlled>>

\* update_imu_sensor: take_imu
TakeImu ==
  /\ wpc = "imu" /\ wpc' = "tick"
  /\ pending' = [pending EXCEPT !.imu = FALSE]
  /\ consumed' = pendingGen /\ est' = pendingGen
  /\ UNCHANGED <<latest, pendingGen, last, outputs, gen, frame, progress, shutdown, callerVars, clock, submitted,
                 ticked, controlled>>

\* The rest of run_imu_control_tick; the control stage runs when it is due.
ImuTick ==
  /\ wpc = "tick" /\ wpc' = "count"
  /\ ticked' = est
  /\ \/ outputs' = est /\ controlled' = controlled \cup {est}
     \/ UNCHANGED <<outputs, controlled>>
  /\ UNCHANGED <<est, gen, frame, sensorVars, progress, shutdown, callerVars, clock, submitted>>

(* Mutated form: the generation pending is read for the one consumed. *)
CountPending ==
  /\ wpc = "count" /\ wpc' = "copy" /\ gen' = pendingGen
  /\ UNCHANGED <<est, outputs, frame, sensorVars, progress, shutdown, callerVars, clock, submitted, ticked, controlled>>

\* consumed_imu_generation is read under a lock of its own.
Count ==
  /\ wpc = "count" /\ wpc' = "copy" /\ gen' = consumed
  /\ UNCHANGED <<est, outputs, frame, sensorVars, progress, shutdown, callerVars, clock, submitted, ticked, controlled>>

\* run_control_update_tick
ControlUpdate ==
  /\ wpc = "control" /\ wpc' = "copy" /\ gen' = 0
  /\ outputs' = est
  /\ UNCHANGED <<est, frame, sensorVars, progress, shutdown, callerVars, clock, submitted, ticked, controlled>>

\* take_snapshot(FALSE)
TakeSnapshot == [pending EXCEPT !.slow = [s \in Slow |-> -1]]

\* update_sensor_bus_impl(FALSE): what is newer than the last one of its
\* kind goes to the bus; the IMU sample stays.
Service ==
  /\ wpc = "service" /\ wpc' = "copy" /\ gen' = 0
  /\ last' = [s \in Slow |-> IF pending.slow[s] > last[s] THEN pending.slow[s] ELSE last[s]]
  /\ pending' = TakeSnapshot
  /\ UNCHANGED <<latest, pendingGen, consumed, est, outputs, frame, progress, shutdown, callerVars, clock, submitted,
                 ticked, controlled>>

Copy ==
  /\ wpc = "copy" /\ wpc' = "publish" /\ frame' = outputs
  /\ UNCHANGED <<est, outputs, gen, sensorVars, progress, shutdown, callerVars, clock, submitted, ticked, controlled>>

(* Mutated form: the outputs wait for a step without a sample. *)
PublishLateFrame ==
  /\ wpc = "publish" /\ wpc' = "loop" /\ gen' = 0 /\ frame' = 0
  /\ progress' = [progress EXCEPT !.pwm = IF gen = 0 THEN frame ELSE @, !.processed = Max({@, gen})]
  /\ cpc' = Woken
  /\ UNCHANGED <<est, outputs, sensorVars, shutdown, target, result, clock, submitted, ticked, controlled>>

Publish ==
  /\ wpc = "publish" /\ wpc' = "loop" /\ gen' = 0 /\ frame' = 0
  /\ progress' = [progress EXCEPT !.pwm = frame, !.processed = Max({@, gen})]
  /\ cpc' = Woken
  /\ UNCHANGED <<est, outputs, sensorVars, shutdown, target, result, clock, submitted, ticked, controlled>>

(* The world panics in one of its steps; catch_unwind hands over. *)
Panic ==
  /\ wpc \in {"tick", "control", "service"} /\ wpc' = "panicked"
  /\ UNCHANGED <<est, outputs, gen, frame, sensorVars, progress, shutdown, callerVars, clock, submitted, ticked, controlled>>

Caught ==
  \/ /\ wpc = "panicked" /\ wpc' = "notify" /\ progress' = [progress EXCEPT !.failed = TRUE]
     /\ UNCHANGED <<est, outputs, gen, frame, sensorVars, shutdown, callerVars, clock, submitted, ticked, controlled>>
  \/ /\ wpc = "notify" /\ wpc' = "storing" /\ cpc' = Woken
     /\ UNCHANGED <<est, outputs, gen, frame, sensorVars, progress, shutdown, target, result, clock, submitted,
                    ticked, controlled>>
  \/ /\ wpc = "storing" /\ wpc' = "dead" /\ shutdown' = TRUE
     /\ UNCHANGED <<est, outputs, gen, frame, sensorVars, progress, callerVars, clock, submitted, ticked, controlled>>

Tick ==
  /\ clock < MaxClock /\ clock' = clock + 1
  /\ UNCHANGED <<sensorVars, workerVars, progress, shutdown, callerVars, submitted, ticked, controlled>>

Gone == cpc = "gone" /\ UNCHANGED vars

-----------------------------------------------------------------------------
Worker == Loop \/ TakeImu \/ ImuTick \/ Count \/ ControlUpdate \/ Service \/ Copy \/ Publish \/ Caught
Simulator == SyncLatestImu \/ Look \/ GetPwm \/ Join

Next ==
  \/ Worker \/ Simulator \/ Timeout \/ Destroy \/ Panic \/ Tick \/ Gone
  \/ \E imu \in BOOLEAN, slow \in SUBSET Slow : SetSensors(imu, slow)

Spec == Init /\ [][Next]_vars /\ WF_vars(Worker) /\ WF_vars(Look) /\ WF_vars(Join)

-----------------------------------------------------------------------------
TypeOK ==
  /\ consumed <= pendingGen /\ pendingGen <= latest /\ progress.processed <= consumed
  /\ est <= consumed /\ outputs <= est /\ frame <= est /\ progress.pwm <= est

(* A wait that succeeds means that the control tick of the sample that was *)
(* the latest at the call, or of one that replaced it, has ended, whatever *)
(* arrived meanwhile and however the timeout raced with the worker.        *)
SyncedIsProcessed == cpc = "returned" /\ result => ticked >= target

(* The outputs read after it are not older than those the control stage    *)
(* wrote for that sample or for any before it.                             *)
SyncedOutputs ==
  [][(cpc = "returned" /\ cpc' = "idle" /\ result) =>
       \A g \in controlled : g <= target => progress.pwm >= g]_vars

(* No sample of a slow sensor is lost: the newest one handed over waits or *)
(* has been put on the bus.                                                *)
SlowNotLost ==
  \A s \in Slow : pending.slow[s] = submitted[s] \/ (pending.slow[s] = -1 /\ last[s] = submitted[s])

(* A wait ends by itself, without its timeout, as the worker either        *)
(* processes the sample or fails.                                          *)
SyncReturns == (cpc = "sleep") ~> (cpc # "sleep")

(* Destroying the firmware ends its worker. *)
DestroyReturns == (cpc = "joining") ~> (cpc = "gone")
=============================================================================
