-------------------------- MODULE FlightLoopProofs --------------------------
(***************************************************************************)
(* The simulator's handshake with the firmware's worker, for every set of   *)
(* sensors and any number of samples: what a wait that succeeded is worth.  *)
(* Then the suite of the flight loop, where the handshake, the command      *)
(* manager, arming, calibration and telemetry run beside each other as they *)
(* do in the firmware: what each promises in every behaviour of the suite.  *)
(***************************************************************************)
EXTENDS MCFlightLoop, FiniteSetTheorems, TLAPS

Progresses == [processed : Nat, pwm : Nat, failed : BOOLEAN]

Typed ==
  /\ latest \in Nat /\ pendingGen \in Nat /\ consumed \in Nat /\ est \in Nat
  /\ outputs \in Nat /\ gen \in Nat /\ frame \in Nat /\ ticked \in Nat /\ target \in Nat
  /\ progress \in Progresses /\ result \in BOOLEAN /\ controlled \subseteq Nat
  /\ DOMAIN pending = {"imu", "slow"} /\ pending.imu \in BOOLEAN

(* How far a sample has come, from the simulator to what it may read back. *)
Ordered ==
  /\ consumed <= pendingGen /\ pendingGen <= latest
  /\ est = consumed /\ ticked <= est /\ gen <= ticked /\ progress.processed <= ticked
  /\ outputs <= est /\ frame <= est /\ progress.pwm <= est

(* The sample the worker is about to take is one it has not consumed, and  *)
(* the generation it will publish is that of a tick that has ended.        *)
WorkerPlace ==
  /\ pending.imu => consumed < pendingGen
  /\ wpc = "imu" => pending.imu
  /\ wpc = "tick" => progress.processed < est
  /\ wpc = "count" => ticked = consumed
  /\ wpc = "publish" => frame = outputs

(* The outputs are those of the newest control stage, and the copy handed  *)
(* to the simulator is not behind a sample that counts as processed.       *)
OutputsFollow ==
  \A g \in controlled : g <= outputs /\ (g <= progress.processed => g <= progress.pwm)

ResultTrue == cpc = "returned" /\ result => target <= progress.processed

IInv == Typed /\ Ordered /\ WorkerPlace /\ OutputsFollow /\ ResultTrue

LEMMA InitIInv == Init => IInv
  <1> SUFFICES ASSUME Init PROVE IInv
    OBVIOUS
  <1> USE SimHandoffAssumption DEF Init
  <1>1. progress \in Progresses /\ progress.processed = 0 /\ progress.pwm = 0
    BY DEF Progresses
  <1>2. DOMAIN pending = {"imu", "slow"} /\ pending.imu = FALSE
    OBVIOUS
  <1>3. Typed
    BY <1>1, <1>2 DEF Typed
  <1>4. Ordered
    BY <1>1 DEF Ordered
  <1>5. WorkerPlace /\ OutputsFollow /\ ResultTrue
    BY <1>2 DEF WorkerPlace, OutputsFollow, ResultTrue
  <1> QED
    BY <1>3, <1>4, <1>5 DEF IInv

(* The greater of two generations. *)
LEMMA MaxOfTwo ==
  ASSUME NEW a \in Nat, NEW b \in Nat
  PROVE  Max({a, b}) \in {a, b} /\ Max({a, b}) >= a /\ Max({a, b}) >= b
  <1>1. \E x \in {a, b} : \A y \in {a, b} : x >= y
    OBVIOUS
  <1> QED
    BY <1>1 DEF Max

-----------------------------------------------------------------------------
LEMMA NextIInv == IInv /\ [Next]_vars => IInv'
  <1> SUFFICES ASSUME IInv, [Next]_vars PROVE IInv'
    OBVIOUS
  <1> USE DEF workerVars, callerVars, sensorVars
  <1>1. ASSUME NEW imu \in BOOLEAN, NEW slow \in SUBSET Slow, SetSensors(imu, slow) PROVE IInv'
    BY <1>1 DEF SetSensors, IInv, Typed, Ordered, WorkerPlace, OutputsFollow, ResultTrue
  <1>2. CASE SyncLatestImu
    <2>1. target' \in Nat /\ result' \in BOOLEAN /\ ResultTrue'
      <3>1. target' = latest /\ latest \in Nat /\ progress' = progress /\ progress.processed \in Nat
        BY <1>2 DEF SyncLatestImu, IInv, Typed, Progresses
      <3>2. CASE latest = 0
        <4>1. result' = TRUE
          BY <1>2, <3>2 DEF SyncLatestImu
        <4> QED
          BY <3>1, <3>2, <4>1 DEF ResultTrue
      <3>3. CASE latest # 0
        <4>1. cpc' = "awake" /\ result' = result
          BY <1>2, <3>3 DEF SyncLatestImu
        <4> QED
          BY <3>1, <4>1 DEF IInv, Typed, ResultTrue
      <3> QED
        BY <3>2, <3>3
    <2>2. UNCHANGED <<sensorVars, workerVars, progress, ticked, controlled>>
      BY <1>2 DEF SyncLatestImu
    <2> QED
      BY <2>1, <2>2 DEF IInv, Typed, Ordered, WorkerPlace, OutputsFollow
  <1>3. CASE Look
    <2>1. progress.failed \in BOOLEAN /\ progress.processed \in Nat /\ target \in Nat
      BY DEF IInv, Typed, Progresses
    <2>2. result' \in BOOLEAN
      BY <1>3 DEF Look, Answer, IInv, Typed
    <2>3. ResultTrue'
      BY <1>3, <2>1 DEF Look, Answer, ResultTrue
    <2>4. UNCHANGED <<sensorVars, workerVars, progress, target, ticked, controlled>>
      BY <1>3 DEF Look
    <2> QED
      BY <2>2, <2>3, <2>4 DEF IInv, Typed, Ordered, WorkerPlace, OutputsFollow
  <1>4. CASE Timeout \/ GetPwm \/ Destroy \/ Join
    <2>1. UNCHANGED <<sensorVars, workerVars, progress, ticked, controlled>>
      BY <1>4 DEF Timeout, GetPwm, Destroy, Join
    <2>2. cpc' # "returned" /\ target' \in Nat
      BY <1>4 DEF Timeout, GetPwm, Destroy, Join, IInv, Typed
    <2>3. result' \in BOOLEAN
      <3>1. result' \in {FALSE, result}
        BY <1>4, Zenon DEF Timeout, GetPwm, Destroy, Join
      <3> QED
        BY <3>1 DEF IInv, Typed
    <2> QED
      BY <2>1, <2>2, <2>3 DEF IInv, Typed, Ordered, WorkerPlace, OutputsFollow, ResultTrue
  <1>5. CASE Loop
    BY <1>5 DEF Loop, IInv, Typed, Ordered, WorkerPlace, OutputsFollow, ResultTrue
  <1>6. CASE TakeImu
    <2>1. Typed'
      BY <1>6 DEF TakeImu, IInv, Typed
    <2>2. consumed' = pendingGen /\ est' = pendingGen /\ consumed < pendingGen /\ pending'.imu = FALSE
      BY <1>6 DEF TakeImu, IInv, Typed, WorkerPlace
    <2>3. Ordered' /\ WorkerPlace'
      BY <1>6, <2>2 DEF TakeImu, IInv, Typed, Progresses, Ordered, WorkerPlace
    <2>4. OutputsFollow' /\ ResultTrue'
      BY <1>6 DEF TakeImu, IInv, OutputsFollow, ResultTrue
    <2> QED
      BY <2>1, <2>3, <2>4 DEF IInv
  <1>7. CASE ImuTick
    <2>1. est \in Nat /\ outputs' \in {est, outputs} /\ controlled' \in {controlled, controlled \cup {est}}
      BY <1>7 DEF ImuTick, IInv, Typed
    <2>2. Typed'
      BY <1>7, <2>1 DEF ImuTick, IInv, Typed
    <2>3. Ordered'
      BY <1>7, <2>1 DEF ImuTick, IInv, Typed, Progresses, Ordered
    <2>4. WorkerPlace' /\ ResultTrue'
      BY <1>7 DEF ImuTick, IInv, Ordered, WorkerPlace, ResultTrue
    <2>5. OutputsFollow'
      <3>1. progress' = progress /\ progress.processed < est /\ est \in Nat /\ outputs <= est
        BY <1>7 DEF ImuTick, IInv, Typed, Ordered, WorkerPlace
      <3>2. \A g \in controlled : g \in Nat /\ g <= outputs /\ (g <= progress.processed => g <= progress.pwm)
        BY DEF IInv, Typed, OutputsFollow
      <3>3. outputs \in Nat /\ progress.processed \in Nat /\ progress.pwm \in Nat
        BY DEF IInv, Typed, Progresses
      <3>4. CASE outputs' = est /\ controlled' = controlled \cup {est}
        BY <3>1, <3>2, <3>3, <3>4 DEF OutputsFollow
      <3>5. CASE outputs' = outputs /\ controlled' = controlled
        BY <3>1, <3>2, <3>5 DEF OutputsFollow
      <3> QED
        BY <1>7, <3>4, <3>5 DEF ImuTick
    <2> QED
      BY <2>2, <2>3, <2>4, <2>5 DEF IInv
  <1>8. CASE Count
    BY <1>8 DEF Count, IInv, Typed, Progresses, Ordered, WorkerPlace, OutputsFollow, ResultTrue
  <1>9. CASE ControlUpdate
    <2>1. Typed' /\ Ordered' /\ WorkerPlace' /\ ResultTrue'
      BY <1>9 DEF ControlUpdate, IInv, Typed, Progresses, Ordered, WorkerPlace, ResultTrue
    <2>2. OutputsFollow'
      BY <1>9 DEF ControlUpdate, IInv, Typed, Progresses, Ordered, OutputsFollow
    <2> QED
      BY <2>1, <2>2 DEF IInv
  <1>10. CASE Service
    BY <1>10 DEF Service, TakeSnapshot, IInv, Typed, Ordered, WorkerPlace, OutputsFollow, ResultTrue
  <1>11. CASE Copy
    BY <1>11 DEF Copy, IInv, Typed, Ordered, WorkerPlace, OutputsFollow, ResultTrue
  <1>12. CASE Publish
    <2> DEFINE p == Max({progress.processed, gen})
    <2>1. progress.processed \in Nat /\ gen \in Nat /\ frame \in Nat /\ ticked \in Nat
      BY DEF IInv, Typed, Progresses
    <2>2. p \in Nat /\ p >= progress.processed /\ p \in {progress.processed, gen}
      BY <2>1, MaxOfTwo
    <2>3. progress' = [progress EXCEPT !.pwm = frame, !.processed = p]
      BY <1>12 DEF Publish
    <2>4. progress'.pwm = frame /\ progress'.processed = p /\ progress' \in Progresses
      BY <2>1, <2>2, <2>3 DEF IInv, Typed, Progresses
    <2> HIDE DEF p
    <2>5. Typed'
      BY <1>12, <2>4 DEF Publish, IInv, Typed
    <2>6. Ordered'
      BY <1>12, <2>1, <2>2, <2>4 DEF Publish, IInv, Typed, Ordered
    <2>7. WorkerPlace'
      BY <1>12 DEF Publish, IInv, WorkerPlace
    <2>8. OutputsFollow'
      BY <1>12, <2>4 DEF Publish, IInv, WorkerPlace, OutputsFollow
    <2>9. ResultTrue'
      <3>1. target' = target /\ result' = result /\ (cpc' = "returned" => cpc = "returned")
        BY <1>12 DEF Publish, Woken
      <3> QED
        BY <2>1, <2>2, <2>4, <3>1 DEF IInv, Typed, ResultTrue
    <2> QED
      BY <2>5, <2>6, <2>7, <2>8, <2>9 DEF IInv
  <1>13. CASE Panic \/ Tick \/ Gone
    <2>1. /\ UNCHANGED <<est, outputs, gen, frame, sensorVars, progress, callerVars, ticked, controlled>>
          /\ wpc' \in {wpc, "panicked"}
      BY <1>13 DEF Panic, Tick, Gone, vars
    <2> QED
      BY <2>1 DEF IInv, Typed, Ordered, WorkerPlace, OutputsFollow, ResultTrue
  <1>14. CASE Caught
    <2>1. progress' \in Progresses /\ progress'.processed = progress.processed /\ progress'.pwm = progress.pwm
      BY <1>14 DEF Caught, IInv, Typed, Progresses
    <2>2. (cpc' = "returned" => cpc = "returned") /\ target' = target /\ result' = result
      BY <1>14 DEF Caught, Woken
    <2>3. /\ UNCHANGED <<est, outputs, gen, frame, sensorVars, ticked, controlled>>
          /\ wpc' \in {"notify", "storing", "dead"}
      BY <1>14 DEF Caught
    <2> QED
      BY <2>1, <2>2, <2>3 DEF IInv, Typed, Ordered, WorkerPlace, OutputsFollow, ResultTrue
  <1>15. CASE UNCHANGED vars
    BY <1>15 DEF vars, IInv, Typed, Ordered, WorkerPlace, OutputsFollow, ResultTrue
  <1> QED
    BY <1>1, <1>2, <1>3, <1>4, <1>5, <1>6, <1>7, <1>8, <1>9, <1>10, <1>11, <1>12, <1>13, <1>14,
       <1>15 DEF Next, Worker, Simulator

-----------------------------------------------------------------------------
(* A sample is counted as processed after it was consumed, and consumed    *)
(* after it was handed over (run_firmware_worker, SharedSensors).          *)
THEOREM TypeCorrect == Spec => []TypeOK
  <1>1. IInv => TypeOK
    BY DEF IInv, Typed, Progresses, Ordered, TypeOK
  <1> QED
    BY InitIInv, NextIInv, <1>1, PTL DEF Spec

(* A wait that succeeds means that the control tick of the sample that was *)
(* the latest at the call, or of a later one, has ended                    *)
(* (wait_for_imu_generation).                                              *)
THEOREM Synced == Spec => []SyncedIsProcessed
  <1>1. IInv => SyncedIsProcessed
    BY DEF IInv, Typed, Progresses, Ordered, ResultTrue, SyncedIsProcessed
  <1> QED
    BY InitIInv, NextIInv, <1>1, PTL DEF Spec

(* A result that is TRUE is read with outputs that follow its sample.        *)
LEMMA ReadsFollow ==
  ASSUME IInv, result, cpc = "returned", NEW g \in controlled, g <= target
  PROVE  progress.pwm >= g
  <1>1. g \in Nat /\ target \in Nat /\ progress.processed \in Nat /\ progress.pwm \in Nat
    BY DEF IInv, Typed, Progresses
  <1>2. target <= progress.processed
    BY DEF IInv, ResultTrue
  <1>3. g <= progress.processed
    BY <1>1, <1>2
  <1> QED
    BY <1>1, <1>3 DEF IInv, OutputsFollow

(* The outputs read after such a wait are not older than those the control *)
(* stage wrote for that sample or any before it (veloxity_sim_get_pwm).    *)
THEOREM SyncedReads == Spec => SyncedOutputs
  <1>1. IInv =>
          [(cpc = "returned" /\ cpc' = "idle" /\ result) =>
             \A g \in controlled : g <= target => progress.pwm >= g]_vars
    BY ReadsFollow
  <1> QED
    BY InitIInv, NextIInv, <1>1, PTL DEF Spec, SyncedOutputs

-----------------------------------------------------------------------------
(* The slow sensors *)

Stamps == Nat \cup {-1}

SlowTyped ==
  /\ clock \in Nat /\ DOMAIN pending = {"imu", "slow"} /\ pending.slow \in [Slow -> Stamps]
  /\ last \in [Slow -> Nat] /\ submitted \in [Slow -> Nat]

(* What is on the bus is no newer than what was handed over.                 *)
SlowInv ==
  /\ SlowTyped /\ SlowNotLost
  /\ \A s \in Slow : last[s] <= submitted[s] /\ submitted[s] <= clock

LEMMA InitSlowInv == Init => SlowInv
  <1> SUFFICES ASSUME Init PROVE SlowInv
    OBVIOUS
  <1>1. pending.slow = [s \in Slow |-> -1] /\ DOMAIN pending = {"imu", "slow"}
    BY DEF Init
  <1> QED
    BY <1>1 DEF Init, SlowInv, SlowTyped, SlowNotLost, Stamps

(* update_sensor_bus_impl puts a stamp on the bus that is newer than the     *)
(* last one; one that waits is never older.                                  *)
LEMMA ServiceSlow ==
  ASSUME SlowInv, Service
  PROVE  SlowInv'
  <1>1. /\ last' = [s \in Slow |-> IF pending.slow[s] > last[s] THEN pending.slow[s] ELSE last[s]]
        /\ pending' = [pending EXCEPT !.slow = [s \in Slow |-> -1]]
        /\ UNCHANGED <<clock, submitted>>
    BY DEF Service, TakeSnapshot
  <1>2. pending'.slow = [s \in Slow |-> -1] /\ DOMAIN pending' = {"imu", "slow"}
    BY <1>1 DEF SlowInv, SlowTyped
  <1>3. \A s \in Slow : /\ pending.slow[s] \in Stamps /\ last[s] \in Nat /\ submitted[s] \in Nat
                        /\ last[s] <= submitted[s]
                        /\ \/ pending.slow[s] = submitted[s]
                           \/ pending.slow[s] = -1 /\ last[s] = submitted[s]
    BY DEF SlowInv, SlowTyped, SlowNotLost
  <1>4. \A s \in Slow : last'[s] = submitted[s]
    BY <1>1, <1>3 DEF Stamps
  <1>5. last' \in [Slow -> Nat]
    BY <1>1, <1>3, <1>4
  <1> QED
    BY <1>1, <1>2, <1>4, <1>5 DEF SlowInv, SlowTyped, SlowNotLost, Stamps

LEMMA SetSensorsSlow ==
  ASSUME SlowInv, NEW imu \in BOOLEAN, NEW slow \in SUBSET Slow, SetSensors(imu, slow)
  PROVE  SlowInv'
  <1>1. /\ pending' = [imu |-> pending.imu \/ imu,
                       slow |-> [s \in Slow |-> IF s \in slow THEN clock ELSE pending.slow[s]]]
        /\ submitted' = [s \in Slow |-> IF s \in slow THEN clock ELSE submitted[s]]
        /\ UNCHANGED <<clock, last>>
    BY DEF SetSensors, Merge, sensorVars
  <1>2. /\ pending'.slow = [s \in Slow |-> IF s \in slow THEN clock ELSE pending.slow[s]]
        /\ DOMAIN pending' = {"imu", "slow"}
    BY <1>1
  <1> QED
    BY <1>1, <1>2 DEF SlowInv, SlowTyped, SlowNotLost, Stamps

LEMMA NextSlowInv == SlowInv /\ [Next]_vars => SlowInv'
  <1> SUFFICES ASSUME SlowInv, [Next]_vars PROVE SlowInv'
    OBVIOUS
  <1> USE DEF sensorVars
  <1>1. ASSUME NEW imu \in BOOLEAN, NEW slow \in SUBSET Slow, SetSensors(imu, slow) PROVE SlowInv'
    BY <1>1, SetSensorsSlow
  <1>2. CASE Service
    BY <1>2, ServiceSlow
  <1>3. CASE TakeImu
    <2>1. /\ pending' = [pending EXCEPT !.imu = FALSE]
          /\ UNCHANGED <<last, submitted, clock>>
      BY <1>3 DEF TakeImu
    <2>2. pending'.slow = pending.slow /\ DOMAIN pending' = {"imu", "slow"}
      BY <2>1 DEF SlowInv, SlowTyped
    <2> QED
      BY <2>1, <2>2 DEF SlowInv, SlowTyped, SlowNotLost
  <1>4. CASE Tick
    BY <1>4 DEF Tick, SlowInv, SlowTyped, SlowNotLost
  <1>5. CASE \/ Loop \/ ImuTick \/ Count \/ ControlUpdate \/ Copy \/ Publish \/ Caught
             \/ Simulator \/ Timeout \/ Destroy \/ Panic \/ Gone \/ UNCHANGED vars
    <2>1. UNCHANGED <<pending, last, submitted, clock>>
      BY <1>5 DEF Loop, ImuTick, Count, ControlUpdate, Copy, Publish, Caught, Simulator,
                  SyncLatestImu, Look, GetPwm, Join, Timeout, Destroy, Panic, Gone, vars
    <2> QED
      BY <2>1 DEF SlowInv, SlowTyped, SlowNotLost
  <1> QED
    BY <1>1, <1>2, <1>3, <1>4, <1>5 DEF Next, Worker

-----------------------------------------------------------------------------
(* The suite *)

(* Only the handshake's own steps move its variables.                        *)
LEMMA HandoffMoves == [SuiteNext]_suiteVars => [Next]_vars
  BY DEF SuiteNext, Still, suiteVars

(* No sample of a slow sensor is lost, and the outputs read after a wait are *)
(* not older than those written for its sample (sim/firmware/src/ffi.rs).    *)
THEOREM Outputs == SuiteSpec => OutputsOfItsSample
  <1>1. SuiteInit => IInv /\ SlowInv
    BY InitIInv, InitSlowInv DEF SuiteInit
  <1>2. IInv /\ [SuiteNext]_suiteVars => IInv'
    BY NextIInv, HandoffMoves
  <1>3. SlowInv /\ [SuiteNext]_suiteVars => SlowInv'
    BY NextSlowInv, HandoffMoves
  <1>4. IInv /\ SlowInv => (subject = "handoff" => TypeOK /\ SlowNotLost)
    BY DEF IInv, Typed, Progresses, Ordered, TypeOK, SlowInv
  <1>5. IInv =>
          [(cpc = "returned" /\ cpc' = "idle" /\ result) =>
             \A g \in controlled : g <= target => progress.pwm >= g]_vars
    BY ReadsFollow
  <1> QED
    BY <1>1, <1>2, <1>3, <1>4, <1>5, PTL DEF SuiteSpec, OutputsOfItsSample, SyncedOutputs

(* The command manager's variables move by its own steps only; those of the  *)
(* lockout also with a pilot who lets go of the switch.                      *)
LEMMA CommandsMove ==
  [SuiteNext]_suiteVars =>
    [Mux!Next]_(Mux!vars) /\ ([Lock!Next]_(Lock!vars) \/ [Unlock!Next]_(Unlock!vars))
  BY DEF SuiteNext, Still, suiteVars, muxVars, lockVars, Mux!vars, Lock!vars, Unlock!vars

(* The invariant does not depend on what the pilot does or what changes.     *)
LEMMA SameLockout == Lock!IInv <=> Unlock!IInv
  <1>1. /\ Lock!TypeOK <=> Unlock!TypeOK
        /\ Lock!LockedOutFliesRate <=> Unlock!LockedOutFliesRate
    BY DEF Lock!TypeOK, Unlock!TypeOK, Lock!Settings, Unlock!Settings, Lock!Packets,
           Unlock!Packets, Lock!Offboards, Unlock!Offboards, Lock!Types, Unlock!Types,
           Lock!Throttle, Unlock!Throttle, Lock!Channels, Unlock!Channels, Lock!Axes,
           Unlock!Axes, Lock!Lockouts, Unlock!Lockouts, Lock!LockedOutFliesRate,
           Unlock!LockedOutFliesRate
  <1>2. /\ Lock!AgesOrdered <=> Unlock!AgesOrdered
        /\ Lock!Interpreted <=> Unlock!Interpreted
        /\ Lock!DeniedLocked <=> Unlock!DeniedLocked
    BY DEF Lock!AgesOrdered, Unlock!AgesOrdered, Lock!Axes, Unlock!Axes, Lock!Interpreted,
           Unlock!Interpreted, Lock!AngleKept, Unlock!AngleKept, Lock!RcAngleModeSelected,
           Unlock!RcAngleModeSelected, Lock!DeniedLocked, Unlock!DeniedLocked, MCAttSwitches
  <1> QED
    BY <1>1, <1>2 DEF Lock!IInv, Unlock!IInv

(* Whose command is flown, and when the pilot is locked out of angle mode,   *)
(* beside the other components and with a pilot who lets go (command.rs).    *)
THEOREM Commanded == SuiteSpec => CommandSound
  <1>1. SuiteInit => Mux!IInv /\ Lock!IInv
    BY CommandsAssumed, Mux!InitIInv, Lock!InitIInv DEF SuiteInit
  <1>2. Mux!IInv /\ [SuiteNext]_suiteVars => Mux!IInv'
    BY CommandsAssumed, CommandsMove, Mux!NextIInv
  <1>3. Lock!IInv /\ [SuiteNext]_suiteVars => Lock!IInv'
    <2>1. Lock!IInv' <=> Unlock!IInv'
      BY SameLockout, PTL
    <2> QED
      BY <2>1, CommandsAssumed, CommandsMove, SameLockout, Lock!NextIInv, Unlock!NextIInv
  <1>4. /\ Mux!IInv => (subject = "mux" => Mux!TypeOK)
        /\ Lock!IInv => (subject = "lock" => Lock!TypeOK /\ Lock!LockedOutFliesRate)
    BY DEF Mux!IInv, Lock!IInv
  <1>5. []Mux!IInv => /\ Mux!OffboardFlownOnlyFresh /\ Mux!OverrideOnlyByPilot
                      /\ Mux!PilotCapsThrottle
    BY CommandsAssumed, Mux!KeptByStages
  <1>6. []Lock!IInv => Lock!AngleAfterSwitchReset
    BY CommandsAssumed, Lock!KeptByStages
  <1>7. []Lock!IInv => Lock!AngleDeniedUnlessStickOverride
    BY CommandsAssumed, Lock!AnglesKept DEF Lock!AngleKept, MCAttSwitches
  <1> QED
    BY <1>1, <1>2, <1>3, <1>4, <1>5, <1>6, <1>7, PTL DEF SuiteSpec, CommandSound

-----------------------------------------------------------------------------
(* The scheduler that is the subject keeps its invariant; the others, which  *)
(* stand still, keep that of the first.                                      *)
SchedulerInv ==
  /\ subject = "late" => Late!IInv
  /\ subject = "rc" => Rc!IInv
  /\ subject \notin {"late", "rc"} => Timing!IInv

LEMMA InitSchedulerInv == SuiteInit => SchedulerInv
  <1> SUFFICES ASSUME SuiteInit PROVE SchedulerInv
    OBVIOUS
  <1>1. Timing!Init /\ Late!Init /\ Rc!Init
    BY DEF SuiteInit, Timing!Init, Late!Init, Rc!Init
  <1> QED
    BY <1>1, SchedulersAssumed, Timing!InitIInv, Late!InitIInv, Rc!InitIInv DEF SchedulerInv

LEMMA SchedulersMove ==
  [SuiteNext]_suiteVars =>
    \/ subject' = subject /\ subject = "late" /\ [Late!Next]_(Late!vars)
    \/ subject' = subject /\ subject = "rc" /\ [Rc!Next]_(Rc!vars)
    \/ subject' = subject /\ subject \notin {"late", "rc"} /\ [Timing!Next]_(Timing!vars)
  BY DEF SuiteNext, Still, suiteVars, schedVars, Timing!vars, Late!vars, Rc!vars

LEMMA NextSchedulerInv == SchedulerInv /\ [SuiteNext]_suiteVars => SchedulerInv'
  BY SchedulersAssumed, SchedulersMove, Timing!NextIInv, Late!NextIInv, Rc!NextIInv
     DEF SchedulerInv

(* After an update the time since the last one goes on, whichever scheduler  *)
(* runs.                                                                     *)
LEMMA AnyRanGoesOn ==
  ASSUME SchedulerInv, [SuiteNext]_suiteVars, sched_hist.ran
  PROVE  sched_elapsed \in Nat /\ sched_elapsed' \in Int /\ sched_elapsed' >= sched_elapsed
  <1>1. sched_elapsed \in Nat /\ sched_elapsed' >= sched_elapsed
    BY SchedulersAssumed, SchedulersMove, Timing!RanGoesOn, Late!RanGoesOn, Rc!RanGoesOn
       DEF SchedulerInv
  <1>2. SchedulerInv'
    BY NextSchedulerInv
  <1>3. sched_elapsed' \in Int
    BY <1>2 DEF SchedulerInv, Timing!IInv, Late!IInv, Rc!IInv, Timing!Typed, Late!Typed,
                Rc!Typed, Timing!Clocks, Late!Clocks, Rc!Clocks
  <1> QED
    BY <1>1, <1>3

(* Deadlines do not drift, updates run once in an interval and in time, with *)
(* stages that fit in the slack and with stages that do not                  *)
(* (world/control.rs, world/service.rs).                                     *)
THEOREM InTime == SuiteSpec => RealtimeKeepsTime
  <1>1. SuiteInit => SchedulerInv
    BY InitSchedulerInv
  <1>2. SchedulerInv /\ [SuiteNext]_suiteVars => SchedulerInv'
    BY NextSchedulerInv
  <1>3. SchedulerInv =>
          (subject = "timing" => Timing!TypeOK /\ Timing!DeadlinesDoNotDrift /\ Timing!ControlOnTime)
    BY SchedulersAssumed, Timing!ImpliesTypeOK, Timing!ImpliesGrid, Timing!ImpliesOnTime
       DEF SchedulerInv
  <1>4. SchedulerInv =>
          (subject = "late" => Late!TypeOK /\ Late!DeadlinesDoNotDrift /\ Late!ControlOnTime)
    BY SchedulersAssumed, Late!ImpliesTypeOK, Late!ImpliesGrid, Late!ImpliesOnTime
       DEF SchedulerInv
  <1>5. SchedulerInv /\ [SuiteNext]_suiteVars =>
          [sched_hist.ran => ~ (Timing!ControlTick \/ (Timing!ImuTick /\ sched_hist' # sched_hist))]_(Timing!vars)
    <2>1. ASSUME SchedulerInv, [SuiteNext]_suiteVars, sched_hist.ran,
                 Timing!ControlTick \/ (Timing!ImuTick /\ sched_hist' # sched_hist)
          PROVE  FALSE
      <3>1. sched_elapsed \in Nat /\ sched_elapsed' \in Int /\ sched_elapsed' >= sched_elapsed
        BY <2>1, AnyRanGoesOn
      <3>2. sched_elapsed' < sched_elapsed
        BY <2>1, <3>1, SchedulersAssumed, Timing!ControlGoesBack DEF Timing!ImuLeavesTime
      <3> QED
        BY <3>1, <3>2
    <2> QED
      BY <2>1
  <1>6. SchedulerInv /\ [SuiteNext]_suiteVars =>
          [sched_hist.ran => ~ (Late!ControlTick \/ (Late!ImuTick /\ sched_hist' # sched_hist))]_(Late!vars)
    <2>1. ASSUME SchedulerInv, [SuiteNext]_suiteVars, sched_hist.ran,
                 Late!ControlTick \/ (Late!ImuTick /\ sched_hist' # sched_hist)
          PROVE  FALSE
      <3>1. sched_elapsed \in Nat /\ sched_elapsed' \in Int /\ sched_elapsed' >= sched_elapsed
        BY <2>1, AnyRanGoesOn
      <3>2. sched_elapsed' < sched_elapsed
        BY <2>1, <3>1, SchedulersAssumed, Late!ControlGoesBack DEF Late!ImuLeavesTime
      <3> QED
        BY <3>1, <3>2
    <2> QED
      BY <2>1
  <1> QED
    BY <1>1, <1>2, <1>3, <1>4, <1>5, <1>6, PTL
       DEF SuiteSpec, RealtimeKeepsTime, Timing!OncePerInterval, Late!OncePerInterval

-----------------------------------------------------------------------------
(* Arming by the pilot. The lemmas about the arming state machine are those  *)
(* of the flight core: its operators have no state, so any instance has      *)
(* them; what is varied here is the machine that RcArming keeps.             *)
Core == INSTANCE FlightCoreProofs WITH
  Scheduler <- "run_once", Sources <- {}, MutableParams <- {},
  state <- gest_state, params <- Gesture!Params,
  rc <- [inOrder |-> gest_inOrder, stale |-> gest_packetAge > RcTimeout],
  freshRc <- "none", imu <- FALSE, imuAged <- FALSE, calFlags <- {}, primed <- FALSE,
  combined <- gest_combined, stage <- "comm", imuPending <- FALSE, samples <- FALSE,
  gyroCalibrated <- FALSE

(* The operators of the state machine are the same in both. *)
LEMMA SameTransition ==
  /\ \A n : Gesture!Signal(n) = Core!Signal(n)
  /\ \A F : Gesture!Occurred(F) = Core!Occurred(F) /\ Gesture!Cleared(F) = Core!Cleared(F)
  /\ \A m, e : Gesture!Mark(m, e) = Core!Mark(m, e)
  /\ \A m, e, p : Gesture!Transition(m, e, p) = Core!Transition(m, e, p)
  <1>1. /\ \A n : Gesture!Signal(n) = Core!Signal(n)
        /\ \A F : Gesture!Occurred(F) = Core!Occurred(F) /\ Gesture!Cleared(F) = Core!Cleared(F)
        /\ \A m, e : Gesture!Mark(m, e) = Core!Mark(m, e)
    BY DEF Gesture!Signal, Core!Signal, Gesture!Occurred, Core!Occurred, Gesture!Cleared,
           Core!Cleared, Gesture!Mark, Core!Mark
  <1>2. /\ \A m, t : Gesture!Goto(m, t) = Core!Goto(m, t)
        /\ \A m, t : Gesture!PreflightOr(m, t) = Core!PreflightOr(m, t)
        /\ \A m, p : Gesture!ArmFromPreflight(m, p) = Core!ArmFromPreflight(m, p)
        /\ \A m, p : Gesture!ArmingBlockingErrors(m, p) = Core!ArmingBlockingErrors(m, p)
    BY DEF Gesture!Goto, Core!Goto, Gesture!PreflightOr, Core!PreflightOr,
           Gesture!ArmFromPreflight, Core!ArmFromPreflight,
           Gesture!ArmingBlockingErrors, Core!ArmingBlockingErrors
  <1>3. /\ \A m, e : Gesture!FromInit(m, e) = Core!FromInit(m, e)
        /\ \A m, e, p : Gesture!FromPreflight(m, e, p) = Core!FromPreflight(m, e, p)
        /\ \A m, e : Gesture!FromCalibrating(m, e) = Core!FromCalibrating(m, e)
        /\ \A m, e : Gesture!FromArmed(m, e) = Core!FromArmed(m, e)
        /\ \A m, e : Gesture!FromFailsafe(m, e) = Core!FromFailsafe(m, e)
        /\ \A m, e, p : Gesture!FromErrorPresent(m, e, p) = Core!FromErrorPresent(m, e, p)
        /\ \A m, e : Gesture!FromErrorFailsafe(m, e) = Core!FromErrorFailsafe(m, e)
    BY <1>1, <1>2
    DEF Gesture!FromInit, Core!FromInit, Gesture!FromPreflight, Core!FromPreflight,
        Gesture!FromCalibrating, Core!FromCalibrating, Gesture!FromArmed, Core!FromArmed,
        Gesture!FromFailsafe, Core!FromFailsafe, Gesture!FromErrorFailsafe,
        Core!FromErrorFailsafe, Gesture!FromErrorPresent, Core!FromErrorPresent
  <1> QED
    BY <1>1, <1>3 DEF Gesture!Transition, Core!Transition

LEMMA SameMachine ==
  /\ Gesture!StateManagers = Core!StateManagers
  /\ Gesture!NewStateManager = Core!NewStateManager
  /\ \A n : Gesture!Signal(n) = Core!Signal(n)
  /\ \A F : Gesture!Occurred(F) = Core!Occurred(F) /\ Gesture!Cleared(F) = Core!Cleared(F)
  /\ \A m, e, p : Gesture!ManagerUpdate(m, e, p) = Core!ManagerUpdate(m, e, p)
  /\ \A m, p : Gesture!ManagerRun(m, p) = Core!ManagerRun(m, p)
  /\ \A m, f, b, p : Gesture!SetErrorFlag(m, f, b, p) = Core!SetErrorFlag(m, f, b, p)
  /\ \A m, l, o : Gesture!UpdateArmingSafety(m, l, o) = Core!UpdateArmingSafety(m, l, o)
  <1>1. /\ Gesture!StateManagers = Core!StateManagers
        /\ Gesture!NewStateManager = Core!NewStateManager
        /\ \A m, l, o : Gesture!UpdateArmingSafety(m, l, o) = Core!UpdateArmingSafety(m, l, o)
    BY DEF Gesture!StateManagers, Core!StateManagers, Gesture!Modes, Core!Modes,
           Gesture!ErrorFlags, Core!ErrorFlags, Gesture!NewStateManager, Core!NewStateManager,
           Gesture!UpdateArmingSafety, Core!UpdateArmingSafety
  <1>2. /\ \A m, p : Gesture!ArmingBlockingErrors(m, p) = Core!ArmingBlockingErrors(m, p)
        /\ \A m, p : Gesture!ArmingSafetyAllowsArm(m, p) <=> Core!ArmingSafetyAllowsArm(m, p)
    BY DEF Gesture!ArmingSafetyAllowsArm, Core!ArmingSafetyAllowsArm,
           Gesture!ArmingBlockingErrors, Core!ArmingBlockingErrors
  <1>3. \A m, p : Gesture!ArmingAttemptCanTransition(m, p) <=> Core!ArmingAttemptCanTransition(m, p)
    BY <1>2 DEF Gesture!ArmingAttemptCanTransition, Core!ArmingAttemptCanTransition
  <1>4. \A m, e, p : Gesture!ManagerUpdate(m, e, p) = Core!ManagerUpdate(m, e, p)
    BY <1>2, <1>3, SameTransition
    DEF Gesture!ManagerUpdate, Core!ManagerUpdate, Gesture!MachineUpdate, Core!MachineUpdate
  <1>5. /\ \A m, p : Gesture!ManagerRun(m, p) = Core!ManagerRun(m, p)
        /\ \A m, f, b, p : Gesture!SetErrorFlag(m, f, b, p) = Core!SetErrorFlag(m, f, b, p)
    BY <1>4, SameTransition
    DEF Gesture!ManagerRun, Core!ManagerRun, Gesture!SetErrorFlag, Core!SetErrorFlag
  <1> QED
    BY <1>1, <1>4, <1>5, SameTransition

LEMMA CoreAssumed == Core!FlightCoreAssumption
  BY DEF Core!FlightCoreAssumption

(* The queries are the same, and the phase tells what they tell.             *)
LEMMA SameQueries ==
  ASSUME NEW m \in Core!StateManagers
  PROVE  /\ Gesture!PhaseOf(m) = Core!PhaseOf(m)
         /\ Gesture!IsArmed(m) <=> Core!IsArmed(m)
         /\ Gesture!IsCalibrating(m) <=> Core!IsCalibrating(m)
         /\ Gesture!IsInFailsafe(m) <=> Core!IsInFailsafe(m)
         /\ Core!IsArmed(m) <=> Core!PhaseOf(m) \in {"flying", "failsafe"}
         /\ Core!IsCalibrating(m) <=> Core!PhaseOf(m) = "calibrating"
         /\ Gesture!Disarmed(m) <=> Core!PhaseOf(m) = "disarmed"
  BY DEF Gesture!PhaseOf, Core!PhaseOf, Gesture!IsArmed, Core!IsArmed, Gesture!IsCalibrating,
         Core!IsCalibrating, Gesture!IsInFailsafe, Core!IsInFailsafe, Gesture!Disarmed,
         Core!StateManagers, Core!Modes

(* What the sticks and the switch ask for is one of the gestures that the    *)
(* flight core leaves open.                                                  *)
LEMMA StickIsGesture ==
  ASSUME NEW m \in Core!StateManagers, NEW pk, NEW held
  PROVE  Gesture!StickArming(m, pk, held) =
           Core!LookForArmDisarm(m, IF held > ArmHold THEN "request" ELSE "none",
                                 pk.low, pk.override, Gesture!Params)
  BY SameMachine, SameQueries DEF Gesture!StickArming, Core!LookForArmDisarm

SwitchGesture(m, pk) ==
  IF pk.arm THEN IF Core!IsArmed(m) THEN "hold" ELSE "request"
            ELSE IF Core!IsArmed(m) THEN "request" ELSE "none"

LEMMA SwitchIsGesture ==
  ASSUME NEW m \in Core!StateManagers, NEW pk \in Gesture!Packets
  PROVE  Gesture!SwitchArming(m, pk) =
           Core!LookForArmDisarm(m, SwitchGesture(m, pk), pk.low, pk.override, Gesture!Params)
  <1>1. pk.arm \in BOOLEAN
    BY DEF Gesture!Packets
  <1> QED
    BY <1>1, SameMachine, SameQueries
    DEF Gesture!SwitchArming, Core!LookForArmDisarm, SwitchGesture

(* The invariant: the timer is behind the clock, the mode tells the truth    *)
(* about the flags, and a link that is up is not flagged as lost.            *)
GestureInv ==
  /\ Gesture!TypeOK
  /\ Gesture!TimerBehindClock
  /\ Core!Told(gest_state)
  /\ Gesture!Healthy => "RC_LOST" \notin gest_state.flags

LEMMA InitGestureInv == Gesture!Init => GestureInv
  <1> SUFFICES ASSUME Gesture!Init PROVE GestureInv
    OBVIOUS
  <1>1. /\ gest_state \in Core!StateManagers /\ Core!Told(gest_state)
        /\ gest_state.flags = {}
    BY CoreAssumed, SameMachine, Core!InitializedTold DEF Gesture!Init
  <1>2. ArmHold \in Nat /\ RcTimeout \in Nat
    BY ArmingAssumed DEF Gesture!RcArmingAssumption
  <1>3. gest_armMapped \in BOOLEAN
    BY DEF Gesture!Init, Gesture!Mapped
  <1>4. /\ gest_inOrder = FALSE /\ gest_packetAge = 0 /\ gest_lookAge = 0 /\ gest_holdTime = 0
        /\ gest_combined = "default" /\ gest_sinceContrary = 0 /\ gest_holding = FALSE
    BY DEF Gesture!Init
  <1>5. Gesture!TimerBehindClock
    BY <1>2, <1>4 DEF Gesture!TimerBehindClock, Gesture!Plus
  <1>6. Gesture!TypeOK
    <2>1. gest_packetAge \in 0 .. (RcTimeout + 1) /\ gest_lookAge \in 0 .. (ArmHold + 1)
          /\ gest_holdTime \in 0 .. (ArmHold + 1) /\ gest_sinceContrary \in 0 .. (ArmHold + 1)
      BY <1>2, <1>4
    <2> QED
      BY <1>1, <1>3, <1>4, <2>1, SameMachine DEF Gesture!TypeOK
  <1> QED
    BY <1>1, <1>5, <1>6 DEF GestureInv

(* The machine after the link is reported back, before the pilot acts.       *)
Back == Core!ManagerUpdate(gest_state, Core!Cleared({"RC_LOST"}), Gesture!Params)

LEMMA BackTold ==
  ASSUME GestureInv
  PROVE  /\ gest_state \in Core!StateManagers
         /\ Back \in Core!StateManagers /\ Core!Told(Back)
         /\ Back.mode # "Failsafe" /\ "RC_LOST" \notin Back.flags
         /\ Core!PhaseOf(Back) = IF Core!PhaseOf(gest_state) = "failsafe"
                                 THEN "flying" ELSE Core!PhaseOf(gest_state)
  <1>1. gest_state \in Core!StateManagers /\ Core!Told(gest_state)
    BY SameMachine DEF GestureInv, Gesture!TypeOK
  <1>2. "RC_LOST" \in Core!ErrorFlags
    BY DEF Core!ErrorFlags
  <1>3. Core!Cleared({"RC_LOST"}) \in Core!Events
    BY <1>2, CoreAssumed, Core!EventTypes
  <1>4. Back \in Core!StateManagers
    BY <1>1, <1>3, CoreAssumed, Core!UpdateType DEF Back
  <1>5. Core!Told(Back)
    BY <1>1, <1>2, CoreAssumed, Core!ClearedTold DEF Back
  <1>6. Back.mode # "Failsafe" /\ "RC_LOST" \notin Back.flags
    BY <1>1, CoreAssumed, Core!LinkBackLeavesFailsafe, Core!LinkBack DEF Back
  <1>7. Core!PhaseOf(Back) = IF Core!PhaseOf(gest_state) = "failsafe"
                             THEN "flying" ELSE Core!PhaseOf(gest_state)
    BY <1>1, CoreAssumed, Core!LinkBackPhase DEF Back
  <1> QED
    BY <1>1, <1>4, <1>5, <1>6, <1>7

(* The end of the stage on a link that is up.                                *)
LEMMA FinishedUp ==
  ASSUME NEW s \in Core!StateManagers, Core!HalfTold(s), s.mode # "Failsafe",
         "RC_LOST" \notin s.flags, Gesture!FinishStage(s, TRUE)
  PROVE  /\ gest_state' \in Core!StateManagers /\ Core!Told(gest_state')
         /\ "RC_LOST" \notin gest_state'.flags
         /\ gest_combined' = "muxed"
         /\ \/ Core!PhaseOf(gest_state') = Core!PhaseOf(s)
            \/ Core!PhaseOf(s) = "calibrating" /\ Core!PhaseOf(gest_state') = "disarmed"
  <1>1. /\ gest_state' = Core!ManagerRun(s, Gesture!Params)
        /\ gest_combined' = IF Core!IsInFailsafe(s) THEN "failsafe" ELSE "muxed"
    BY SameMachine, SameQueries DEF Gesture!FinishStage
  <1>2. gest_state' \in Core!StateManagers
    BY <1>1, CoreAssumed, Core!ManagerRunType
  <1>3. Core!Told(gest_state')
    BY <1>1, CoreAssumed, Core!RunTold
  <1>4. gest_state'.flags = s.flags
    BY <1>1, CoreAssumed, Core!RunKeepsLink
  <1>5. \/ Core!PhaseOf(gest_state') = Core!PhaseOf(s)
        \/ Core!PhaseOf(s) = "calibrating" /\ Core!PhaseOf(gest_state') = "disarmed"
    BY <1>1, CoreAssumed, Core!RunPhase
  <1>6. gest_combined' = "muxed"
    BY <1>1 DEF Core!IsInFailsafe, Core!HalfTold
  <1> QED
    BY <1>2, <1>3, <1>4, <1>5, <1>6

(* The end of the stage on a link that is down.                              *)
LEMMA FinishedDown ==
  ASSUME NEW s \in Core!StateManagers, Core!Told(s), Gesture!FinishStage(s, FALSE)
  PROVE  /\ gest_state' \in Core!StateManagers /\ Core!Told(gest_state')
         /\ "RC_LOST" \in gest_state'.flags
         /\ Core!PhaseOf(gest_state') = Core!LostPhase(Core!PhaseOf(s))
         /\ gest_combined' = IF Core!PhaseOf(gest_state') = "failsafe" THEN "failsafe" ELSE "muxed"
  <1> DEFINE checked == Core!ManagerUpdate(s, Core!Occurred({"RC_LOST"}), Gesture!Params)
  <1>0. "RC_LOST" \in Core!ErrorFlags
    BY DEF Core!ErrorFlags
  <1>1. Core!Occurred({"RC_LOST"}) \in Core!Events
    BY <1>0, CoreAssumed, Core!EventTypes
  <1>2. checked \in Core!StateManagers
    BY <1>1, CoreAssumed, Core!UpdateType
  <1>3. Core!Told(checked)
    BY <1>0, CoreAssumed, Core!OccurredTold
  <1>4. "RC_LOST" \in checked.flags /\ checked.mode # "Armed"
    BY CoreAssumed, Core!LinkLost
  <1>5. Core!PhaseOf(checked) = Core!LostPhase(Core!PhaseOf(s))
    BY CoreAssumed, Core!LinkLostPhase
  <1>6. /\ gest_state' = Core!ManagerRun(checked, Gesture!Params)
        /\ gest_combined' = IF Gesture!IsInFailsafe(checked) THEN "failsafe" ELSE "muxed"
    BY SameMachine DEF Gesture!FinishStage
  <1> HIDE DEF checked
  <1>7. gest_state' \in Core!StateManagers
    BY <1>2, <1>6, CoreAssumed, Core!ManagerRunType
  <1>8. Core!HalfTold(checked)
    BY <1>3 DEF Core!Told
  <1>9. Core!Told(gest_state')
    BY <1>2, <1>6, <1>8, CoreAssumed, Core!RunTold
  <1>10. gest_state'.flags = checked.flags
    BY <1>2, <1>6, <1>8, CoreAssumed, Core!RunKeepsLink
  <1>11. \/ Core!PhaseOf(gest_state') = Core!PhaseOf(checked)
         \/ Core!PhaseOf(checked) = "calibrating" /\ Core!PhaseOf(gest_state') = "disarmed"
    BY <1>2, <1>4, <1>6, <1>8, CoreAssumed, Core!RunPhase
  <1>12. Core!PhaseOf(gest_state') = Core!PhaseOf(checked)
    BY <1>5, <1>11 DEF Core!LostPhase
  <1>13. gest_combined' = IF Core!PhaseOf(checked) = "failsafe" THEN "failsafe" ELSE "muxed"
    BY <1>2, <1>6, <1>8 DEF Gesture!IsInFailsafe, Core!PhaseOf, Core!HalfTold
  <1> QED
    BY <1>4, <1>5, <1>7, <1>9, <1>10, <1>12, <1>13

(* The machine after the pilot acted, and the gesture that it stands for.    *)
HeldNow(pk) == Gesture!Held(Back, pk, gest_holdTime, gest_lookAge)
Acted(pk) ==
  IF gest_armMapped THEN Gesture!SwitchArming(Back, pk)
                    ELSE Gesture!StickArming(Back, pk, HeldNow(pk))

GestureOf(pk) ==
  IF gest_armMapped THEN SwitchGesture(Back, pk)
                    ELSE IF HeldNow(pk) > ArmHold THEN "request" ELSE "none"

LEMMA ActedIsGesture ==
  ASSUME GestureInv, NEW pk \in Gesture!Packets
  PROVE  Acted(pk) = Core!LookForArmDisarm(Back, GestureOf(pk), pk.low, pk.override, Gesture!Params)
  BY BackTold, StickIsGesture, SwitchIsGesture DEF Acted, GestureOf

(* A request that arms is made with the throttle low.                        *)
LEMMA RequestArmsLow ==
  ASSUME NEW m \in Core!StateManagers, Core!Told(m), Core!PhaseOf(m) = "disarmed", NEW gesture,
         NEW low \in BOOLEAN, NEW override \in BOOLEAN,
         Core!PhaseOf(Core!LookForArmDisarm(m, gesture, low, override, Gesture!Params)) # "disarmed",
         Core!LookForArmDisarm(m, gesture, low, override, Gesture!Params) \in Core!StateManagers
  PROVE  low /\ (TakeMin \/ override)
  <1> DEFINE n == Core!LookForArmDisarm(m, gesture, low, override, Gesture!Params)
             safe == Core!UpdateArmingSafety(m, low, override)
  <1>1. ~ Core!IsArmed(m) /\ ~ Core!IsCalibrating(m)
    BY SameQueries
  <1>2. n # m
    OBVIOUS
  <1>3. gesture = "request" /\ n = Core!ManagerUpdate(safe, Core!Signal("REQUEST_ARM"), Gesture!Params)
    BY <1>1, <1>2 DEF Core!LookForArmDisarm
  <1>4. safe \in Core!StateManagers /\ safe.throttleLow = low /\ safe.overrideSwitch = override
    BY DEF Core!UpdateArmingSafety, Core!StateManagers
  <1>5. Core!Signal("REQUEST_ARM") \in Core!Events
    BY CoreAssumed, Core!EventTypes DEF Core!SignalNames
  <1>6. n.throttleLow = low /\ n.overrideSwitch = override
    <2> HIDE DEF safe
    <2> QED
      BY <1>3, <1>4, <1>5, CoreAssumed, Core!UpdateType
  <1>7. n \in Core!StateManagers
    OBVIOUS
  <1>8. Core!IsArmed(n) \/ Core!IsCalibrating(n)
    <2> HIDE DEF n
    <2>1. Core!PhaseOf(n) # "disarmed"
      BY DEF n
    <2> QED
      BY <1>7, <2>1, CoreAssumed, Core!PhaseType, SameQueries
  <1>9. Core!ArmingSafetyAllowsArm(n, Gesture!Params)
    BY <1>1, <1>8, CoreAssumed, Core!GestureArms
  <1>10. n.throttleLow /\ (Gesture!Params.takeMinThrottle \/ n.overrideSwitch)
    BY <1>9 DEF Core!ArmingSafetyAllowsArm
  <1>11. Gesture!Params.takeMinThrottle = TakeMin
    BY DEF Gesture!Params
  <1> QED
    BY <1>6, <1>10, <1>11

LEMMA ActedTold ==
  ASSUME GestureInv, NEW pk \in Gesture!Packets
  PROVE  /\ Acted(pk) \in Core!StateManagers /\ Core!HalfTold(Acted(pk))
         /\ Acted(pk).mode # "Failsafe" /\ "RC_LOST" \notin Acted(pk).flags
         /\ Core!PhaseOf(Acted(pk)) \in
              IF Core!PhaseOf(Back) = "calibrating" THEN {"calibrating"}
              ELSE Core!PilotPhases(Core!PhaseOf(Back))
         /\ Core!PhaseOf(Back) = "disarmed" /\ Core!PhaseOf(Acted(pk)) # "disarmed" =>
              pk.low /\ (TakeMin \/ pk.override)
         /\ ~ gest_armMapped /\ Acted(pk) # Back => HeldNow(pk) > ArmHold
  <1>1. Acted(pk) = Core!LookForArmDisarm(Back, GestureOf(pk), pk.low, pk.override, Gesture!Params)
    BY ActedIsGesture
  <1>2. pk.low \in BOOLEAN /\ pk.override \in BOOLEAN
    BY DEF Gesture!Packets
  <1>3. /\ Back \in Core!StateManagers /\ Core!Told(Back)
        /\ Back.mode # "Failsafe" /\ "RC_LOST" \notin Back.flags
    BY BackTold
  <1>4. Acted(pk) \in Core!StateManagers
    BY <1>1, <1>2, <1>3, CoreAssumed, Core!LookForArmDisarmType
  <1>5. /\ Core!HalfTold(Acted(pk)) /\ Acted(pk).mode # "Failsafe"
        /\ "RC_LOST" \notin Acted(pk).flags
    BY <1>1, <1>2, <1>3, CoreAssumed, Core!GestureOnLiveLink
  <1>6. Core!PhaseOf(Acted(pk)) \in
          IF Core!PhaseOf(Back) = "calibrating" THEN {"calibrating"}
          ELSE Core!PilotPhases(Core!PhaseOf(Back))
    BY <1>1, <1>2, <1>3, CoreAssumed, Core!GesturePhase
  <1>7. Core!PhaseOf(Back) = "disarmed" /\ Core!PhaseOf(Acted(pk)) # "disarmed" =>
          pk.low /\ (TakeMin \/ pk.override)
    BY <1>1, <1>2, <1>3, <1>4, RequestArmsLow
  <1>8. ASSUME ~ gest_armMapped, ~ (HeldNow(pk) > ArmHold)
        PROVE  Acted(pk) = Back
    <2>1. GestureOf(pk) = "none"
      BY <1>8 DEF GestureOf
    <2> QED
      BY <1>1, <2>1 DEF Core!LookForArmDisarm
  <1> QED
    BY <1>4, <1>5, <1>6, <1>7, <1>8

(* A good packet is one of the contract's stages of the pilot.               *)
LEMMA GoodPacketSteps ==
  ASSUME GestureInv, NEW pk \in Gesture!Packets, Gesture!GoodPacket(pk)
  PROVE  /\ gest_state' \in Core!StateManagers /\ Core!Told(gest_state')
         /\ "RC_LOST" \notin gest_state'.flags /\ gest_combined' = "muxed"
         /\ Gesture!FinishStage(Acted(pk), TRUE)
         /\ Core!PhaseOf(gest_state') \in Core!PilotPhases(Core!PhaseOf(gest_state))
         /\ Core!PhaseOf(gest_state) = "disarmed" /\ Core!PhaseOf(gest_state') # "disarmed" =>
              pk.low /\ (TakeMin \/ pk.override)
         /\ ~ gest_armMapped /\ HeldNow(pk) <= ArmHold =>
              /\ Core!PhaseOf(gest_state) = "disarmed" => Core!PhaseOf(gest_state') = "disarmed"
              /\ Core!PhaseOf(gest_state) \in {"flying", "failsafe"} =>
                   Core!PhaseOf(gest_state') = "flying"
  <1>1. Gesture!ManagerUpdate(gest_state, Gesture!Cleared({"RC_LOST"}), Gesture!Params) = Back
    BY SameMachine DEF Back
  <1>2. Gesture!FinishStage(Acted(pk), TRUE)
    BY <1>1 DEF Gesture!GoodPacket, Acted, HeldNow
  <1>3. /\ Acted(pk) \in Core!StateManagers /\ Core!HalfTold(Acted(pk))
        /\ Acted(pk).mode # "Failsafe" /\ "RC_LOST" \notin Acted(pk).flags
        /\ Core!PhaseOf(Acted(pk)) \in
              IF Core!PhaseOf(Back) = "calibrating" THEN {"calibrating"}
              ELSE Core!PilotPhases(Core!PhaseOf(Back))
        /\ Core!PhaseOf(Back) = "disarmed" /\ Core!PhaseOf(Acted(pk)) # "disarmed" =>
              pk.low /\ (TakeMin \/ pk.override)
        /\ ~ gest_armMapped /\ Acted(pk) # Back => HeldNow(pk) > ArmHold
    BY ActedTold
  <1>4. /\ gest_state' \in Core!StateManagers /\ Core!Told(gest_state')
        /\ "RC_LOST" \notin gest_state'.flags /\ gest_combined' = "muxed"
        /\ \/ Core!PhaseOf(gest_state') = Core!PhaseOf(Acted(pk))
           \/ Core!PhaseOf(Acted(pk)) = "calibrating" /\ Core!PhaseOf(gest_state') = "disarmed"
    BY <1>2, <1>3, FinishedUp
  <1>5. Core!PhaseOf(Back) = IF Core!PhaseOf(gest_state) = "failsafe"
                             THEN "flying" ELSE Core!PhaseOf(gest_state)
    BY BackTold
  <1>6. Core!PhaseOf(gest_state) \in {"disarmed", "calibrating", "flying", "failsafe"}
    BY CoreAssumed, Core!PhaseType
  <1>7. Core!PhaseOf(gest_state') \in Core!PilotPhases(Core!PhaseOf(gest_state))
    BY <1>3, <1>4, <1>5, <1>6 DEF Core!PilotPhases
  <1>8. Core!PhaseOf(gest_state) = "disarmed" /\ Core!PhaseOf(gest_state') # "disarmed" =>
          pk.low /\ (TakeMin \/ pk.override)
    BY <1>3, <1>4, <1>5
  <1>9. ASSUME ~ gest_armMapped, HeldNow(pk) <= ArmHold
        PROVE  /\ Core!PhaseOf(gest_state) = "disarmed" => Core!PhaseOf(gest_state') = "disarmed"
               /\ Core!PhaseOf(gest_state) \in {"flying", "failsafe"} =>
                    Core!PhaseOf(gest_state') = "flying"
    <2>1. ~ (HeldNow(pk) > ArmHold)
      <3>1. HeldNow(pk) \in Int /\ ArmHold \in Int
        BY ArmingAssumed
        DEF HeldNow, Gesture!Held, Gesture!Plus, Gesture!RcArmingAssumption, GestureInv, Gesture!TypeOK
      <3> QED
        BY <1>9, <3>1
    <2>2. Acted(pk) = Back
      BY <1>3, <1>9, <2>1
    <2> QED
      BY <1>4, <1>5, <2>2
  <1> QED
    BY <1>2, <1>4, <1>7, <1>8, <1>9

-----------------------------------------------------------------------------
(* The steps on a link that is up without a packet, on one that is down, of  *)
(* the other stages, and the clocks under each of them.                       *)

(* A link that is up keeps a truthful machine out of failsafe.               *)
LEMMA NoPacketUp ==
  ASSUME GestureInv, Gesture!NoPacket, Gesture!Healthy
  PROVE  /\ gest_state' \in Core!StateManagers /\ Core!Told(gest_state')
         /\ "RC_LOST" \notin gest_state'.flags /\ gest_combined' = "muxed"
         /\ Core!PhaseOf(gest_state') = Core!PhaseOf(gest_state)
  <1>1. /\ gest_state \in Core!StateManagers /\ Core!Told(gest_state) /\ Core!HalfTold(gest_state)
        /\ "RC_LOST" \notin gest_state.flags
    BY SameMachine DEF GestureInv, Gesture!TypeOK, Core!Told
  <1>2. gest_state.mode # "Failsafe"
    BY <1>1 DEF Core!HalfTold
  <1>3. Gesture!FinishStage(gest_state, TRUE)
    BY Zenon DEF Gesture!NoPacket, Gesture!FinishStage
  <1>4. /\ gest_state' \in Core!StateManagers /\ Core!Told(gest_state')
        /\ "RC_LOST" \notin gest_state'.flags /\ gest_combined' = "muxed"
        /\ \/ Core!PhaseOf(gest_state') = Core!PhaseOf(gest_state)
           \/ Core!PhaseOf(gest_state) = "calibrating" /\ Core!PhaseOf(gest_state') = "disarmed"
    BY <1>1, <1>2, <1>3, FinishedUp
  <1>5. Core!PhaseOf(gest_state) = "calibrating" => Core!PhaseOf(gest_state') = "calibrating"
    <2> SUFFICES ASSUME Core!PhaseOf(gest_state) = "calibrating"
                 PROVE  gest_state' = gest_state
      OBVIOUS
    <2>1. gest_state.mode = "Calibrating" /\ gest_state.flags = {}
      BY <1>1 DEF Core!PhaseOf, Core!Told
    <2>2. gest_state' = Core!ManagerRun(gest_state, Gesture!Params)
      BY <1>3, SameMachine DEF Gesture!FinishStage
    <2>3. gest_state.flags \ {} = gest_state.flags
      BY <1>1 DEF Core!StateManagers
    <2>4. Core!Mark(gest_state, Core!Cleared({})) = gest_state
      BY <1>1, <2>3 DEF Core!Mark, Core!Cleared, Core!StateManagers
    <2> QED
      BY <2>1, <2>2, <2>4
      DEF Core!ManagerRun, Core!ManagerUpdate, Core!MachineUpdate, Core!Transition,
          Core!FromCalibrating, Core!Cleared
  <1> QED
    BY <1>4, <1>5

(* A link that is down, told of in the stage or found out at its end.        *)
LEMMA DownSteps ==
  ASSUME GestureInv, Gesture!BadPacket \/ (Gesture!NoPacket /\ ~ Gesture!Healthy)
  PROVE  /\ gest_state' \in Core!StateManagers /\ Core!Told(gest_state')
         /\ "RC_LOST" \in gest_state'.flags
         /\ Core!PhaseOf(gest_state') = Core!LostPhase(Core!PhaseOf(gest_state))
         /\ gest_combined' = IF Core!PhaseOf(gest_state') = "failsafe" THEN "failsafe" ELSE "muxed"
  <1>1. gest_state \in Core!StateManagers /\ Core!Told(gest_state)
    BY SameMachine DEF GestureInv, Gesture!TypeOK
  <1>2. CASE Gesture!BadPacket
    <2> DEFINE s == Core!ManagerUpdate(gest_state, Core!Occurred({"RC_LOST"}), Gesture!Params)
    <2>1. Gesture!FinishStage(s, FALSE)
      BY <1>2, SameMachine DEF Gesture!BadPacket
    <2>2. "RC_LOST" \in Core!ErrorFlags
      BY DEF Core!ErrorFlags
    <2>3. Core!Occurred({"RC_LOST"}) \in Core!Events
      BY <2>2, CoreAssumed, Core!EventTypes
    <2>4. s \in Core!StateManagers
      BY <1>1, <2>3, CoreAssumed, Core!UpdateType
    <2>5. Core!Told(s)
      BY <1>1, <2>2, CoreAssumed, Core!OccurredTold
    <2>6. Core!PhaseOf(s) = Core!LostPhase(Core!PhaseOf(gest_state))
      BY <1>1, CoreAssumed, Core!LinkLostPhase
    <2> HIDE DEF s
    <2>7. /\ gest_state' \in Core!StateManagers /\ Core!Told(gest_state')
          /\ "RC_LOST" \in gest_state'.flags
          /\ Core!PhaseOf(gest_state') = Core!LostPhase(Core!PhaseOf(s))
          /\ gest_combined' = IF Core!PhaseOf(gest_state') = "failsafe" THEN "failsafe" ELSE "muxed"
      BY <2>1, <2>4, <2>5, FinishedDown
    <2> QED
      BY <2>6, <2>7 DEF Core!LostPhase
  <1>3. CASE Gesture!NoPacket /\ ~ Gesture!Healthy
    <2>1. Gesture!FinishStage(gest_state, FALSE)
      BY <1>3, Zenon DEF Gesture!NoPacket, Gesture!FinishStage
    <2> QED
      BY <1>1, <2>1, FinishedDown
  <1> QED
    BY <1>2, <1>3

(* The other stages carry the machine on.                                    *)
LEMMA OtherSteps ==
  ASSUME GestureInv, Gesture!OtherStage
  PROVE  Core!Carries(gest_state, gest_state')
  <1>1. gest_state \in Core!StateManagers /\ Core!Told(gest_state)
    BY SameMachine DEF GestureInv, Gesture!TypeOK
  <1>2. ASSUME NEW present \in BOOLEAN,
               gest_state' = Gesture!SetErrorFlag(gest_state, "UNHEALTHY_ESTIMATOR", present, Gesture!Params)
        PROVE  Core!Carries(gest_state, gest_state')
    <2>1. "UNHEALTHY_ESTIMATOR" \in Core!ErrorFlags \ {"RC_LOST"}
      BY DEF Core!ErrorFlags
    <2>2. gest_state' = Core!SetErrorFlag(gest_state, "UNHEALTHY_ESTIMATOR", present, Gesture!Params)
      BY <1>2, SameMachine
    <2> QED
      BY <1>1, <2>1, <2>2, CoreAssumed, Core!SetOtherFlagCarries
  <1>3. ASSUME Gesture!IsCalibrating(gest_state),
               NEW end \in {"CALIBRATION_COMPLETE", "CALIBRATION_FAILED"},
               gest_state' = Gesture!ManagerUpdate(gest_state, Gesture!Signal(end), Gesture!Params)
        PROVE  Core!Carries(gest_state, gest_state')
    <2>1. gest_state' = Core!ManagerUpdate(gest_state, Core!Signal(end), Gesture!Params)
      BY <1>3, SameMachine
    <2>2. gest_state.mode = "Calibrating"
      BY <1>3 DEF Gesture!IsCalibrating
    <2>3. Core!Signal(end) \in Core!Events
      BY CoreAssumed, Core!EventTypes DEF Core!SignalNames
    <2>4. gest_state' \in Core!StateManagers
      BY <1>1, <2>1, <2>3, CoreAssumed, Core!UpdateType
    <2>5. Core!Told(gest_state')
      BY <1>1, <2>1, <2>2, CoreAssumed, Core!CalibrationTold
    <2>6. Core!KeepsLink(gest_state, gest_state')
      BY <1>1, <2>1, <2>2, CoreAssumed, Core!CalibrationKeepsLink
    <2> QED
      BY <2>4, <2>5, <2>6 DEF Core!Carries
  <1> QED
    BY <1>2, <1>3 DEF Gesture!OtherStage

(* The clocks: what the packets and the ticks make of the ages.              *)
LEMMA PlusType ==
  ASSUME NEW a \in Nat, NEW b \in Nat, NEW bound \in Nat
  PROVE  Gesture!Plus(a, b, bound) \in 0 .. bound
  BY DEF Gesture!Plus

LEMMA TickKeepsBehind ==
  ASSUME NEW H \in Nat, NEW held \in 0 .. H, NEW look \in 0 .. H, NEW contrary \in 0 .. H,
         Gesture!Plus(held, look, H) <= contrary
  PROVE  Gesture!Plus(held, Gesture!Plus(look, 1, H), H) <= Gesture!Plus(contrary, 1, H)
  BY DEF Gesture!Plus

LEMMA HeldKeepsBehind ==
  ASSUME NEW H \in Nat, NEW held \in 0 .. H, NEW look \in 0 .. H, NEW contrary \in 0 .. H,
         Gesture!Plus(held, look, H) <= contrary
  PROVE  /\ Gesture!Plus(Gesture!Plus(held, look, H), 0, H) <= contrary
         /\ Gesture!Plus(held, 0, H) <= contrary
         /\ Gesture!Plus(0, 0, H) <= contrary
         /\ Gesture!Plus(0, 0, H) <= 0
  BY DEF Gesture!Plus

Clocks ==
  /\ gest_armMapped \in BOOLEAN /\ gest_inOrder \in BOOLEAN /\ gest_holding \in BOOLEAN
  /\ gest_packetAge \in 0 .. (RcTimeout + 1)
  /\ gest_lookAge \in 0 .. (ArmHold + 1) /\ gest_holdTime \in 0 .. (ArmHold + 1)
  /\ gest_sinceContrary \in 0 .. (ArmHold + 1)
  /\ Gesture!TimerBehindClock

LEMMA GestureInvParts ==
  GestureInv <=> /\ Clocks
                 /\ gest_state \in Core!StateManagers /\ Core!Told(gest_state)
                 /\ gest_combined \in {"default", "failsafe", "muxed"}
                 /\ Gesture!Healthy => "RC_LOST" \notin gest_state.flags
  BY SameMachine DEF GestureInv, Gesture!TypeOK, Clocks

LEMMA GoodPacketClocks ==
  ASSUME Clocks, NEW pk \in Gesture!Packets, Gesture!GoodPacket(pk)
  PROVE  Clocks'
  <1>1. ArmHold \in Nat /\ RcTimeout \in Nat
    BY ArmingAssumed DEF Gesture!RcArmingAssumption
  <1>2. /\ gest_inOrder' = TRUE /\ gest_packetAge' = 0 /\ gest_lookAge' = 0
        /\ gest_armMapped' = gest_armMapped
    BY DEF Gesture!GoodPacket
  <1>3. /\ gest_packetAge' \in 0 .. (RcTimeout + 1)
        /\ gest_lookAge' \in 0 .. (ArmHold + 1)
        /\ 0 \in 0 .. (ArmHold + 1) /\ ArmHold + 1 \in Nat
    BY <1>1, <1>2
  <1>4. /\ gest_holdTime \in 0 .. (ArmHold + 1) /\ gest_lookAge \in 0 .. (ArmHold + 1)
        /\ gest_sinceContrary \in 0 .. (ArmHold + 1)
        /\ Gesture!Plus(gest_holdTime, gest_lookAge, ArmHold + 1) <= gest_sinceContrary
    BY DEF Clocks, Gesture!TimerBehindClock
  <1> DEFINE sum == Gesture!Plus(gest_holdTime, gest_lookAge, ArmHold + 1)
  <1>5. sum \in 0 .. (ArmHold + 1)
    BY <1>3, <1>4, PlusType
  <1>6. /\ Gesture!Plus(sum, 0, ArmHold + 1) <= gest_sinceContrary
        /\ Gesture!Plus(gest_holdTime, 0, ArmHold + 1) <= gest_sinceContrary
        /\ Gesture!Plus(0, 0, ArmHold + 1) <= gest_sinceContrary
        /\ Gesture!Plus(0, 0, ArmHold + 1) <= 0
    BY <1>3, <1>4, HeldKeepsBehind
  <1> HIDE DEF sum
  <1>7. gest_holding' \in BOOLEAN
    <2>1. pk.low \in BOOLEAN
      BY DEF Gesture!Packets
    <2>2. gest_holding' = FALSE \/ gest_holding' = (pk.low /\ pk.yaw = "right")
      BY Zenon DEF Gesture!GoodPacket, Gesture!ArmGesture
    <2> QED
      BY <2>1, <2>2
  <1>8. \/ gest_holdTime' = gest_holdTime /\ gest_sinceContrary' = gest_sinceContrary
        \/ gest_holdTime' = sum /\ gest_sinceContrary' = gest_sinceContrary
        \/ gest_holdTime' = 0 /\ gest_sinceContrary' = 0
    <2>1. CASE gest_armMapped
      BY <2>1, Zenon DEF Gesture!GoodPacket
    <2>2. CASE ~ gest_armMapped
      <3> DEFINE back == Gesture!ManagerUpdate(gest_state, Gesture!Cleared({"RC_LOST"}), Gesture!Params)
                 held == Gesture!Held(back, pk, gest_holdTime, gest_lookAge)
      <3>1. /\ gest_holdTime' = Gesture!HeldAfter(back, held)
            /\ gest_sinceContrary' =
                   IF ~ Gesture!Counts(back, pk) \/ (held > ArmHold /\ Gesture!IsArmed(back))
                   THEN 0 ELSE gest_sinceContrary
        BY <2>2, Zenon DEF Gesture!GoodPacket
      <3>2. held = IF Gesture!Counts(back, pk) THEN sum ELSE 0
        BY Zenon DEF Gesture!Held, sum
      <3> HIDE DEF back, held
      <3>3. CASE ~ Gesture!Counts(back, pk)
        <4>1. gest_sinceContrary' = 0
          BY <3>1, <3>3, Zenon
        <4>2. held = 0
          BY <3>2, <3>3, Zenon
        <4>3. gest_holdTime' = 0
          BY <3>1, <4>2, Zenon DEF Gesture!HeldAfter
        <4> QED
          BY <4>1, <4>3
      <3>4. CASE Gesture!Counts(back, pk)
        <4>1. held = sum
          BY <3>2, <3>4, Zenon
        <4>2. CASE held > ArmHold /\ Gesture!IsArmed(back)
          BY <3>1, <4>2, Zenon DEF Gesture!HeldAfter
        <4>3. CASE ~ (held > ArmHold /\ Gesture!IsArmed(back))
          BY <3>1, <3>4, <4>1, <4>3, Zenon DEF Gesture!HeldAfter
        <4> QED
          BY <4>2, <4>3
      <3> QED
        BY <3>3, <3>4
    <2> QED
      BY <2>1, <2>2
  <1>9. /\ gest_holdTime' \in 0 .. (ArmHold + 1) /\ gest_sinceContrary' \in 0 .. (ArmHold + 1)
        /\ Gesture!Plus(gest_holdTime', 0, ArmHold + 1) <= gest_sinceContrary'
    BY <1>3, <1>4, <1>5, <1>6, <1>8
  <1>10. Gesture!TimerBehindClock'
    BY <1>2, <1>9 DEF Gesture!TimerBehindClock
  <1> QED
    BY <1>2, <1>3, <1>7, <1>9, <1>10 DEF Clocks

LEMMA BadPacketClocks == ASSUME Clocks, Gesture!BadPacket PROVE Clocks'
  <1>1. gest_packetAge' = 0 /\ RcTimeout \in Nat
    BY ArmingAssumed DEF Gesture!BadPacket, Gesture!RcArmingAssumption
  <1>2. gest_packetAge' \in 0 .. (RcTimeout + 1)
    BY <1>1
  <1>3. Gesture!TimerBehindClock'
    BY DEF Gesture!BadPacket, Gesture!TimerBehindClock, Clocks
  <1> QED
    BY <1>2, <1>3 DEF Gesture!BadPacket, Clocks

LEMMA TickClocks == ASSUME Clocks, Gesture!Tick PROVE Clocks'
  <1>1. ArmHold + 1 \in Nat /\ RcTimeout + 1 \in Nat
    BY ArmingAssumed DEF Gesture!RcArmingAssumption
  <1>2. /\ gest_holdTime \in 0 .. (ArmHold + 1) /\ gest_lookAge \in 0 .. (ArmHold + 1)
        /\ gest_sinceContrary \in 0 .. (ArmHold + 1) /\ gest_packetAge \in 0 .. (RcTimeout + 1)
        /\ Gesture!Plus(gest_holdTime, gest_lookAge, ArmHold + 1) <= gest_sinceContrary
    BY DEF Clocks, Gesture!TimerBehindClock
  <1>3. /\ gest_packetAge' = Gesture!Plus(gest_packetAge, 1, RcTimeout + 1)
        /\ gest_lookAge' = Gesture!Plus(gest_lookAge, 1, ArmHold + 1)
        /\ gest_sinceContrary' = Gesture!Plus(gest_sinceContrary, 1, ArmHold + 1)
        /\ gest_holdTime' = gest_holdTime
    BY DEF Gesture!Tick
  <1>4. /\ Gesture!Plus(gest_packetAge, 1, RcTimeout + 1) \in 0 .. (RcTimeout + 1)
        /\ Gesture!Plus(gest_lookAge, 1, ArmHold + 1) \in 0 .. (ArmHold + 1)
        /\ Gesture!Plus(gest_sinceContrary, 1, ArmHold + 1) \in 0 .. (ArmHold + 1)
    BY <1>1, <1>2, PlusType
  <1>5. Gesture!Plus(gest_holdTime', gest_lookAge', ArmHold + 1) <= gest_sinceContrary'
    BY <1>1, <1>2, <1>3, TickKeepsBehind
  <1>6. Gesture!TimerBehindClock'
    BY <1>5 DEF Gesture!TimerBehindClock
  <1> QED
    BY <1>2, <1>3, <1>4, <1>6 DEF Gesture!Tick, Clocks

LEMMA OtherClocks ==
  ASSUME Clocks, Gesture!NoPacket \/ Gesture!ParamChangeCallback \/ Gesture!OtherStage
                   \/ UNCHANGED Gesture!vars
  PROVE  Clocks'
  <1>1. UNCHANGED <<gest_inOrder, gest_packetAge, gest_lookAge, gest_holdTime,
                    gest_sinceContrary, gest_holding>>
    BY DEF Gesture!NoPacket, Gesture!ParamChangeCallback, Gesture!OtherStage, Gesture!vars
  <1>2. gest_armMapped' \in BOOLEAN
    BY DEF Gesture!NoPacket, Gesture!ParamChangeCallback, Gesture!OtherStage, Gesture!vars,
           Gesture!Mapped, Clocks
  <1>3. Gesture!TimerBehindClock'
    BY <1>1 DEF Gesture!TimerBehindClock, Clocks
  <1> QED
    BY <1>1, <1>2, <1>3 DEF Clocks

-----------------------------------------------------------------------------
LEMMA NextGestureInv == GestureInv /\ [Gesture!Next]_(Gesture!vars) => GestureInv'
  <1> SUFFICES ASSUME GestureInv, [Gesture!Next]_(Gesture!vars) PROVE GestureInv'
    OBVIOUS
  <1>0. /\ Clocks /\ gest_state \in Core!StateManagers /\ Core!Told(gest_state)
        /\ gest_combined \in {"default", "failsafe", "muxed"}
        /\ Gesture!Healthy => "RC_LOST" \notin gest_state.flags
    BY GestureInvParts
  <1>a. ASSUME Clocks', gest_state' \in Core!StateManagers, Core!Told(gest_state'),
               gest_combined' \in {"default", "failsafe", "muxed"},
               Gesture!Healthy' => "RC_LOST" \notin gest_state'.flags
        PROVE  GestureInv'
    BY <1>a, SameMachine DEF GestureInv, Gesture!TypeOK, Clocks
  <1>1. ASSUME NEW pk \in Gesture!Packets, Gesture!GoodPacket(pk)
        PROVE  GestureInv'
    BY <1>0, <1>1, <1>a, GoodPacketSteps, GoodPacketClocks
  <1>2. CASE Gesture!BadPacket
    <2>1. ~ Gesture!Healthy'
      BY <1>2 DEF Gesture!BadPacket, Gesture!Healthy
    <2> QED
      BY <1>0, <1>2, <1>a, <2>1, DownSteps, BadPacketClocks
  <1>3. CASE Gesture!NoPacket
    <2>1. Gesture!Healthy' <=> Gesture!Healthy
      BY <1>3 DEF Gesture!NoPacket, Gesture!Healthy
    <2>2. Clocks'
      BY <1>0, <1>3, OtherClocks
    <2> QED
      BY <1>3, <1>a, <2>1, <2>2, DownSteps, NoPacketUp
  <1>4. CASE Gesture!OtherStage
    <2>1. /\ Gesture!Healthy' <=> Gesture!Healthy
          /\ gest_combined' = gest_combined
      BY <1>4 DEF Gesture!OtherStage, Gesture!Healthy
    <2>2. Clocks'
      BY <1>0, <1>4, OtherClocks
    <2>3. Core!Carries(gest_state, gest_state')
      BY <1>4, OtherSteps
    <2>4. /\ gest_state' \in Core!StateManagers /\ Core!Told(gest_state')
          /\ "RC_LOST" \in gest_state'.flags <=> "RC_LOST" \in gest_state.flags
      BY <2>3 DEF Core!Carries, Core!KeepsLink
    <2> QED
      BY <1>0, <1>a, <2>1, <2>2, <2>4
  <1>5. CASE Gesture!Tick
    <2>1. UNCHANGED <<gest_state, gest_combined, gest_inOrder>>
      BY <1>5 DEF Gesture!Tick
    <2>2. Gesture!Healthy' => Gesture!Healthy
      <3>1. RcTimeout \in Nat /\ gest_packetAge \in 0 .. (RcTimeout + 1)
        BY <1>0, ArmingAssumed DEF Clocks, Gesture!RcArmingAssumption
      <3>2. gest_packetAge' <= RcTimeout => gest_packetAge <= RcTimeout
        BY <1>5, <3>1 DEF Gesture!Tick, Gesture!Plus
      <3> QED
        BY <2>1, <3>2 DEF Gesture!Healthy
    <2>3. Clocks'
      BY <1>0, <1>5, TickClocks
    <2> QED
      BY <1>0, <1>a, <2>1, <2>2, <2>3
  <1>6. CASE Gesture!ParamChangeCallback \/ UNCHANGED Gesture!vars
    <2>1. UNCHANGED <<gest_state, gest_combined, gest_inOrder, gest_packetAge>>
      BY <1>6 DEF Gesture!ParamChangeCallback, Gesture!vars
    <2>2. Clocks'
      BY <1>0, <1>6, OtherClocks
    <2> QED
      BY <1>0, <1>a, <2>1, <2>2 DEF Gesture!Healthy
  <1> QED
    BY <1>1, <1>2, <1>3, <1>4, <1>5, <1>6 DEF Gesture!Next, Gesture!RcStage

(* By the sticks nothing arms or disarms before the gesture has lasted.      *)
LEMMA StageUninterrupted ==
  ASSUME GestureInv, gest_state' \in Core!StateManagers, Gesture!RcStage, ~ gest_armMapped,
         \/ Gesture!Disarmed(gest_state) /\ ~ Gesture!Disarmed(gest_state')
         \/ Gesture!IsArmed(gest_state) /\ ~ Gesture!IsArmed(gest_state')
  PROVE  gest_sinceContrary > ArmHold
  <1>0. gest_state \in Core!StateManagers /\ Clocks
    BY GestureInvParts
  <1>1. \/ /\ Core!PhaseOf(gest_state) = "disarmed"
           /\ Core!PhaseOf(gest_state') # "disarmed"
        \/ /\ Core!PhaseOf(gest_state) \in {"flying", "failsafe"}
           /\ Core!PhaseOf(gest_state') \notin {"flying", "failsafe"}
    BY <1>0, SameQueries
  <1>2. ~ (Gesture!BadPacket \/ (Gesture!NoPacket /\ ~ Gesture!Healthy))
    BY <1>1, DownSteps DEF Core!LostPhase
  <1>3. ~ (Gesture!NoPacket /\ Gesture!Healthy)
    BY <1>1, NoPacketUp
  <1>4. PICK pk \in Gesture!Packets : Gesture!GoodPacket(pk)
    BY <1>2, <1>3 DEF Gesture!RcStage
  <1>5. ~ (HeldNow(pk) <= ArmHold)
    BY <1>1, <1>4, GoodPacketSteps
  <1>6. ArmHold \in Nat
    BY ArmingAssumed DEF Gesture!RcArmingAssumption
  <1>7. /\ gest_holdTime \in 0 .. (ArmHold + 1) /\ gest_lookAge \in 0 .. (ArmHold + 1)
        /\ gest_sinceContrary \in 0 .. (ArmHold + 1)
        /\ Gesture!Plus(gest_holdTime, gest_lookAge, ArmHold + 1) <= gest_sinceContrary
    BY <1>0 DEF Clocks, Gesture!TimerBehindClock
  <1>8. HeldNow(pk) \in {0, Gesture!Plus(gest_holdTime, gest_lookAge, ArmHold + 1)}
    BY Zenon DEF HeldNow, Gesture!Held
  <1> QED
    BY <1>5, <1>6, <1>7, <1>8 DEF Gesture!Plus

(* Whoever arms does it with the throttle low.                               *)
LEMMA ArmedLow ==
  ASSUME GestureInv, gest_state' \in Core!StateManagers,
         Gesture!Disarmed(gest_state), ~ Gesture!Disarmed(gest_state'),
         NEW pk \in Gesture!Packets, Gesture!GoodPacket(pk)
  PROVE  pk.low /\ (TakeMin \/ pk.override)
  <1>0. gest_state \in Core!StateManagers
    BY GestureInvParts
  <1>1. /\ Core!PhaseOf(gest_state) = "disarmed"
        /\ Core!PhaseOf(gest_state') # "disarmed"
    BY <1>0, SameQueries
  <1> QED
    BY <1>1, GoodPacketSteps

(* Every step is one of the contract's or is not seen.                       *)
LEMMA GestureImplements ==
  GestureInv /\ [Gesture!Next]_(Gesture!vars) =>
    [Gesture!Contract!Next]_(Gesture!Contract!vars)
  <1> SUFFICES ASSUME GestureInv, [Gesture!Next]_(Gesture!vars)
               PROVE  [Gesture!Contract!Next]_(Gesture!Contract!vars)
    OBVIOUS
  <1>0. gest_state \in Core!StateManagers /\ Clocks
    BY GestureInvParts
  <1>p. /\ Gesture!PhaseOf(gest_state) = Core!PhaseOf(gest_state)
        /\ gest_state' \in Core!StateManagers =>
             Gesture!PhaseOf(gest_state') = Core!PhaseOf(gest_state')
    BY <1>0, SameQueries
  <1>1. ASSUME gest_state' \in Core!StateManagers, Gesture!Healthy',
               "RC_LOST" \notin gest_state'.flags, gest_combined' = "muxed",
               Core!PhaseOf(gest_state') \in Core!PilotPhases(Core!PhaseOf(gest_state))
        PROVE  Gesture!Contract!PilotStage
    BY <1>1, <1>p DEF Gesture!Contract!PilotStage, Core!PilotPhases
  <1>2. ASSUME NEW pk \in Gesture!Packets, Gesture!GoodPacket(pk)
        PROVE  Gesture!Contract!PilotStage
    <2>1. Gesture!Healthy'
      <3>1. gest_inOrder' = TRUE /\ gest_packetAge' = 0 /\ RcTimeout \in Nat
        BY <1>2, ArmingAssumed DEF Gesture!GoodPacket, Gesture!RcArmingAssumption
      <3> QED
        BY <3>1 DEF Gesture!Healthy
    <2> QED
      BY <1>1, <1>2, <2>1, GoodPacketSteps
  <1>3. CASE Gesture!NoPacket /\ Gesture!Healthy
    <2>1. Gesture!Healthy'
      BY <1>3 DEF Gesture!NoPacket, Gesture!Healthy
    <2>2. /\ gest_state' \in Core!StateManagers /\ "RC_LOST" \notin gest_state'.flags
          /\ gest_combined' = "muxed" /\ Core!PhaseOf(gest_state') = Core!PhaseOf(gest_state)
          /\ Core!HalfTold(gest_state) /\ "RC_LOST" \notin gest_state.flags
      BY <1>3, NoPacketUp DEF GestureInv, Core!Told
    <2>3. Core!PhaseOf(gest_state) \in Core!PilotPhases(Core!PhaseOf(gest_state))
      BY <2>2 DEF Core!PilotPhases, Core!PhaseOf, Core!HalfTold
    <2>4. Core!PhaseOf(gest_state') \in Core!PilotPhases(Core!PhaseOf(gest_state))
      BY <2>2, <2>3, Zenon
    <2> QED
      BY <1>1, <2>1, <2>2, <2>4 DEF Gesture!Contract!Next
  <1>4. CASE Gesture!BadPacket \/ (Gesture!NoPacket /\ ~ Gesture!Healthy)
    <2>1. ~ Gesture!Healthy'
      BY <1>4 DEF Gesture!BadPacket, Gesture!NoPacket, Gesture!Healthy
    <2> QED
      BY <1>4, <1>p, <2>1, DownSteps
      DEF Gesture!Contract!Next, Gesture!Contract!LossStage, Core!LostPhase
  <1>5. CASE Gesture!OtherStage
    <2>1. /\ Gesture!Healthy' = Gesture!Healthy
          /\ gest_combined' = gest_combined
      BY <1>5 DEF Gesture!OtherStage, Gesture!Healthy
    <2>2. /\ gest_state' \in Core!StateManagers
          /\ Core!KeepsLink(gest_state, gest_state')
      BY <1>5, OtherSteps DEF Core!Carries
    <2>3. ("RC_LOST" \in gest_state'.flags) = ("RC_LOST" \in gest_state.flags)
      BY <2>2 DEF Core!KeepsLink
    <2>4. \/ Core!PhaseOf(gest_state') = Core!PhaseOf(gest_state)
          \/ /\ Core!PhaseOf(gest_state) = "calibrating"
             /\ Core!PhaseOf(gest_state') \in {"flying", "disarmed"}
      BY <2>2 DEF Core!KeepsLink, Core!PhaseOf
    <2> QED
      BY <1>p, <2>1, <2>2, <2>3, <2>4
      DEF Gesture!Contract!Next, Gesture!Contract!OtherStage, Gesture!Contract!vars
  <1>6. CASE Gesture!Tick \/ Gesture!ParamChangeCallback \/ UNCHANGED Gesture!vars
    <2>1. UNCHANGED <<gest_state, gest_combined, gest_inOrder>>
      BY <1>6 DEF Gesture!Tick, Gesture!ParamChangeCallback, Gesture!vars
    <2>2. Gesture!Healthy' => Gesture!Healthy
      <3>1. RcTimeout \in Nat /\ gest_packetAge \in 0 .. (RcTimeout + 1)
        BY <1>0, ArmingAssumed DEF Clocks, Gesture!RcArmingAssumption
      <3>2. \/ gest_packetAge' = gest_packetAge
            \/ gest_packetAge' = Gesture!Plus(gest_packetAge, 1, RcTimeout + 1)
        BY <1>6 DEF Gesture!Tick, Gesture!ParamChangeCallback, Gesture!vars
      <3>3. gest_packetAge' <= RcTimeout => gest_packetAge <= RcTimeout
        BY <3>1, <3>2 DEF Gesture!Plus
      <3> QED
        BY <2>1, <3>3 DEF Gesture!Healthy
    <2>3. /\ Gesture!PhaseOf(gest_state') = Gesture!PhaseOf(gest_state)
          /\ ("RC_LOST" \in gest_state'.flags) = ("RC_LOST" \in gest_state.flags)
          /\ gest_combined' = gest_combined
      BY <2>1
    <2>4. CASE ~ Gesture!Healthy'
      BY <2>3, <2>4 DEF Gesture!Contract!Next, Gesture!Contract!LinkDies
    <2>5. CASE Gesture!Healthy'
      <3>1. Gesture!Healthy' = Gesture!Healthy
        BY <2>2, <2>5 DEF Gesture!Healthy
      <3> QED
        BY <2>3, <3>1, Zenon DEF Gesture!Contract!vars
    <2> QED
      BY <2>4, <2>5
  <1> QED
    BY <1>2, <1>3, <1>4, <1>5, <1>6
    DEF Gesture!Next, Gesture!RcStage, Gesture!Contract!Next

LEMMA GestureStarts == Gesture!Init => Gesture!Contract!Init
  <1> SUFFICES ASSUME Gesture!Init PROVE Gesture!Contract!Init
    OBVIOUS
  <1>1. /\ gest_state.flags = {} /\ gest_state.mode = "Preflight"
    BY DEF Gesture!Init, Gesture!ManagerUpdate, Gesture!MachineUpdate, Gesture!Mark,
           Gesture!Transition, Gesture!FromInit, Gesture!Goto, Gesture!NewStateManager,
           Gesture!Signal
  <1>2. ~ Gesture!Healthy /\ gest_combined = "default"
    BY DEF Gesture!Init, Gesture!Healthy
  <1> QED
    BY <1>1, <1>2 DEF Gesture!Contract!Init, Gesture!Contract!Boot, Gesture!PhaseOf

LEMMA GestureMoves == [SuiteNext]_suiteVars => [Gesture!Next]_(Gesture!vars)
  BY DEF SuiteNext, Still, suiteVars, gestVars, Gesture!vars

(* For every hold time, timeout of the link, set of arming channels and      *)
(* setting of the parameters, the pilot arms and disarms by the sticks only  *)
(* after a gesture that no packet interrupted, arms on a low throttle        *)
(* however he asks, and the RC stage with its timers keeps the safety part   *)
(* of the flight contract (rc.rs, rc/command_state.rs).                      *)
THEOREM PilotArms == SuiteSpec => ArmingByPilot
  <1>1. SuiteInit => GestureInv
    BY InitGestureInv DEF SuiteInit
  <1>2. GestureInv /\ [SuiteNext]_suiteVars => GestureInv'
    BY GestureMoves, NextGestureInv
  <1>3. GestureInv => (subject = "gesture" => Gesture!TypeOK /\ Gesture!TimerBehindClock)
    BY DEF GestureInv
  <1>4. GestureInv' => gest_state' \in Core!StateManagers
    BY SameMachine DEF GestureInv, Gesture!TypeOK
  <1>5. GestureInv /\ [SuiteNext]_suiteVars =>
          [/\ \/ Gesture!Disarmed(gest_state) /\ ~ Gesture!Disarmed(gest_state')
              \/ Gesture!IsArmed(gest_state) /\ ~ Gesture!IsArmed(gest_state')
           /\ ~ gest_armMapped /\ Gesture!RcStage
           => gest_sinceContrary > ArmHold]_(Gesture!vars)
    BY <1>2, <1>4, StageUninterrupted
  <1>6. GestureInv /\ [SuiteNext]_suiteVars =>
          [Gesture!Disarmed(gest_state) /\ ~ Gesture!Disarmed(gest_state') =>
             \A pk \in Gesture!Packets : Gesture!GoodPacket(pk) =>
               pk.low /\ (TakeMin \/ pk.override)]_(Gesture!vars)
    BY <1>2, <1>4, ArmedLow
  <1>7. SuiteInit => Gesture!Contract!Init
    BY GestureStarts DEF SuiteInit
  <1>8. GestureInv /\ [SuiteNext]_suiteVars => [Gesture!Contract!Next]_(Gesture!Contract!vars)
    BY GestureMoves, GestureImplements
  <1> QED
    BY <1>1, <1>2, <1>3, <1>5, <1>6, <1>7, <1>8, PTL
    DEF SuiteSpec, ArmingByPilot, Gesture!GestureUninterrupted, Gesture!ArmsWithThrottleLow,
        Gesture!Contract!SafeSpec

-----------------------------------------------------------------------------
(* Sensors and calibrations. The three instances differ in the loop, in what *)
(* is fitted and in what is asked for; the operators on windows are the same *)
(* and so are the lemmas about them.                                         *)

Kinds == {"imu", "baro", "pitot", "battery", "other"}
Windowed == {"BARO", "PITOT"}
Fast == {"GYRO", "ACCEL"}
Calibrations == Windowed \cup Fast
Failures == {"BARO_FAILED", "PITOT_FAILED", "GYRO_FAILED", "ACCEL_FAILED"}
FailureOf(c) == CASE c = "BARO" -> "BARO_FAILED" [] c = "PITOT" -> "PITOT_FAILED"
                  [] c = "GYRO" -> "GYRO_FAILED" [] OTHER -> "ACCEL_FAILED"
Given == {"absent", "error", "still", "moving"}
Shown == {"none", "still", "moving"}

LEMMA CalibrationNames ==
  /\ Split!Kinds = Kinds /\ Split!Windowed = Windowed /\ Split!Fast = Fast
  /\ Split!Cals = Calibrations
  /\ \A c \in Calibrations : Split!Failed[c] = FailureOf(c) /\ FailureOf(c) \in Failures
  /\ Failures \cap Calibrations = {}
  /\ {Split!Failed[c] : c \in Split!Cals} \subseteq Failures
  /\ \A c \in Calibrations : FailureOf(c) = "GYRO_FAILED" <=> c = "GYRO"
  BY DEF Split!Kinds, Split!Windowed, Split!Fast, Split!Cals, Split!Failed, Kinds, Windowed,
         Fast, Calibrations, Failures, FailureOf

LEMMA FailuresAreAll == {Split!Failed[c] : c \in Split!Cals} = Failures
  <1>1. \A f \in Failures : \E c \in Calibrations : f = FailureOf(c)
    BY DEF Failures, Calibrations, Windowed, Fast, FailureOf
  <1> QED
    BY <1>1, CalibrationNames

WindowStates == [n : 0 .. CalDelay + CalWindow, moved : BOOLEAN, waits : BOOLEAN,
                 early : BOOLEAN, done : BOOLEAN, active : BOOLEAN]
CalStates == [flags : SUBSET (Calibrations \cup Failures), win : [Calibrations -> WindowStates],
              bias : [Calibrations -> {"zero", "measured"}]]

(* A window of the IMU is only open under its flag, so no sample in it is    *)
(* older than the request; a slow one that a request restarted is under its  *)
(* flag until it answers it.                                                 *)
WindowsAnswer(s) ==
  /\ s \in CalStates
  /\ \A c \in Fast : ~ s.win[c].early /\ (c \notin s.flags => s.win[c].n = 0)
  /\ \A c \in Windowed : s.win[c].active => c \in s.flags /\ ~ s.win[c].early

(* What a request may do to the flags.                                       *)
LEMMA RaisedAnswers ==
  ASSUME NEW s, WindowsAnswer(s), NEW c \in Calibrations
  PROVE  /\ WindowsAnswer(Split!Raised(s, c))
         /\ Split!Raised(s, c).flags = (s.flags \ {FailureOf(c)}) \cup {c}
  <1> DEFINE t == Split!Raised(s, c)
  <1>1. s \in CalStates /\ Split!Failed[c] = FailureOf(c) /\ FailureOf(c) \in Failures
        /\ FailureOf(c) \notin Calibrations
    BY CalibrationNames DEF WindowsAnswer
  <1>2. s.flags \subseteq Calibrations \cup Failures /\ s.win \in [Calibrations -> WindowStates]
        /\ s.bias \in [Calibrations -> {"zero", "measured"}]
    BY <1>1 DEF CalStates
  <1>3. /\ t.flags = (s.flags \ {FailureOf(c)}) \cup {c}
        /\ t.win = [s.win EXCEPT ![c] = [s.win[c] EXCEPT !.early = @ \/ (c \notin s.flags /\ s.win[c].n > 0)]]
        /\ t.bias = [s.bias EXCEPT ![c] = IF c = "BARO" THEN @ ELSE "zero"]
        /\ t = [flags |-> t.flags, win |-> t.win, bias |-> t.bias]
    <2>0. s = [flags |-> s.flags, win |-> s.win, bias |-> s.bias]
      BY <1>1 DEF CalStates
    <2>1. t.flags = (s.flags \ {FailureOf(c)}) \cup {c}
      BY <1>1 DEF Split!Raised, CalStates
    <2>2. t.win = [s.win EXCEPT ![c] = [s.win[c] EXCEPT !.early = @ \/ (c \notin s.flags /\ s.win[c].n > 0)]]
      BY <1>1, <1>2 DEF Split!Raised, CalStates
    <2>3. t.bias = [s.bias EXCEPT ![c] = IF c = "BARO" THEN @ ELSE "zero"]
      BY <1>1, <1>2 DEF Split!Raised, CalStates
    <2>4. t = [flags |-> t.flags, win |-> t.win, bias |-> t.bias]
      <3> DEFINE F == (s.flags \ {Split!Failed[c]}) \cup {c}
                 W == [s.win EXCEPT ![c].early = @ \/ (c \notin s.flags /\ s.win[c].n > 0)]
                 B == [s.bias EXCEPT ![c] = IF c = "BARO" THEN @ ELSE "zero"]
      <3>1. t = [s EXCEPT !.flags = F, !.win = W, !.bias = B]
        BY <2>0 DEF Split!Raised
      <3> HIDE DEF F, W, B, t
      <3>2. t = [flags |-> F, win |-> W, bias |-> B]
        BY <2>0, <3>1
      <3> QED
        BY <3>2
    <2> QED
      BY <2>1, <2>2, <2>3, <2>4
  <1> HIDE DEF t
  <1>4. s.win[c] \in WindowStates
    BY <1>2
  <1> DEFINE late == c \notin s.flags /\ s.win[c].n > 0
             w == [s.win[c] EXCEPT !.early = @ \/ late]
  <1>5. /\ w \in WindowStates /\ w.n = s.win[c].n /\ w.active = s.win[c].active
        /\ w.early <=> (s.win[c].early \/ late)
    BY <1>4 DEF WindowStates
  <1>6. /\ t.win[c] = w
        /\ \A d \in Calibrations : d # c => t.win[d] = s.win[d]
        /\ t.win \in [Calibrations -> WindowStates]
    <2> HIDE DEF w
    <2>1. t.win = [s.win EXCEPT ![c] = w]
      BY <1>3 DEF w
    <2> QED
      BY <1>2, <1>5, <2>1
  <1>7. t \in CalStates
    <2>1. t.bias \in [Calibrations -> {"zero", "measured"}]
      BY <1>2, <1>3
    <2> QED
      BY <1>1, <1>2, <1>3, <1>6, <2>1 DEF CalStates
  <1> HIDE DEF w
  <1>8. ASSUME NEW d \in Fast
        PROVE  ~ t.win[d].early /\ (d \notin t.flags => t.win[d].n = 0)
    <2>1. d \in Calibrations /\ ~ s.win[d].early /\ (d \notin s.flags => s.win[d].n = 0)
      BY DEF WindowsAnswer, Calibrations
    <2>2. CASE d = c
      <3>1. ~ late
        BY <2>1, <2>2
      <3> QED
        BY <1>3, <1>5, <1>6, <2>1, <2>2, <3>1
    <2>3. CASE d # c
      BY <1>1, <1>3, <1>6, <2>1, <2>3
    <2> QED
      BY <2>2, <2>3
  <1>9. ASSUME NEW d \in Windowed, t.win[d].active
        PROVE  d \in t.flags /\ ~ t.win[d].early
    <2>1. d \in Calibrations /\ (s.win[d].active => d \in s.flags /\ ~ s.win[d].early)
      BY DEF WindowsAnswer, Calibrations
    <2>2. CASE d = c
      <3>1. s.win[c].active
        BY <1>5, <1>6, <1>9, <2>2
      <3> QED
        BY <1>3, <1>5, <1>6, <2>1, <2>2, <3>1
    <2>3. CASE d # c
      BY <1>1, <1>3, <1>6, <1>9, <2>1, <2>3
    <2> QED
      BY <2>2, <2>3
  <1> QED
    BY <1>3, <1>7, <1>8, <1>9 DEF t, WindowsAnswer

(* What a sample may do: it changes one window, withdraws its flag only as   *)
(* the answer to it, and raises no failure but its own.                      *)
Takes(s, t, c) ==
  /\ WindowsAnswer(t)
  /\ \A d \in Calibrations : d # c => t.win[d] = s.win[d] /\ (d \in t.flags <=> d \in s.flags)
  /\ c \in s.flags \ t.flags => ~ s.win[c].early
  /\ \A f \in Failures : f # FailureOf(c) => (f \in t.flags <=> f \in s.flags)

(* It is enough to say which window and which flags come out.                *)
LEMMA OneWindow ==
  ASSUME NEW s, WindowsAnswer(s), NEW c \in Calibrations, NEW t,
         NEW F, NEW w \in WindowStates, NEW b \in [Calibrations -> {"zero", "measured"}],
         t = [flags |-> F, win |-> [s.win EXCEPT ![c] = w], bias |-> b],
         F \in {s.flags, s.flags \ {c}, s.flags \cup {FailureOf(c)},
                (s.flags \ {c}) \cup {FailureOf(c)}},
         c \in Fast => ~ w.early /\ (c \notin F => w.n = 0),
         c \in Windowed => (w.active => c \in F /\ ~ w.early),
         c \in s.flags \ F => ~ s.win[c].early
  PROVE  Takes(s, t, c)
  <1>1. /\ s \in CalStates /\ FailureOf(c) \in Failures /\ FailureOf(c) \notin Calibrations
        /\ c \notin Failures /\ \A d \in Calibrations : d \notin Failures
    BY CalibrationNames DEF WindowsAnswer
  <1>2. s.flags \subseteq Calibrations \cup Failures /\ s.win \in [Calibrations -> WindowStates]
    BY <1>1 DEF CalStates
  <1>3. F \subseteq Calibrations \cup Failures
    BY <1>1, <1>2
  <1>4. /\ t.flags = F /\ t.win = [s.win EXCEPT ![c] = w] /\ t.bias = b
    OBVIOUS
  <1>5. /\ t.win[c] = w /\ t.win \in [Calibrations -> WindowStates]
        /\ \A d \in Calibrations : d # c => t.win[d] = s.win[d]
    BY <1>2, <1>4
  <1>6. t \in CalStates
    BY <1>3, <1>4, <1>5 DEF CalStates
  <1>7. /\ \A d \in Calibrations : d # c => (d \in F <=> d \in s.flags)
        /\ \A f \in Failures : f # FailureOf(c) => (f \in F <=> f \in s.flags)
    BY <1>1
  <1>8. ASSUME NEW d \in Fast
        PROVE  ~ t.win[d].early /\ (d \notin t.flags => t.win[d].n = 0)
    <2>1. d \in Calibrations /\ ~ s.win[d].early /\ (d \notin s.flags => s.win[d].n = 0)
      BY DEF WindowsAnswer, Calibrations
    <2> QED
      BY <1>4, <1>5, <1>7, <2>1
  <1>9. ASSUME NEW d \in Windowed, t.win[d].active
        PROVE  d \in t.flags /\ ~ t.win[d].early
    <2>1. d \in Calibrations /\ (s.win[d].active => d \in s.flags /\ ~ s.win[d].early)
      BY DEF WindowsAnswer, Calibrations
    <2> QED
      BY <1>4, <1>5, <1>7, <1>9, <2>1
  <1>10. WindowsAnswer(t)
    BY <1>6, <1>8, <1>9 DEF WindowsAnswer
  <1> QED
    BY <1>4, <1>5, <1>7, <1>10 DEF Takes

LEMMA FastTakes ==
  ASSUME NEW s, WindowsAnswer(s), NEW c \in Fast, NEW reading
  PROVE  Takes(s, Split!FastStep(s, c, reading), c)
  <1> DEFINE t == Split!FastStep(s, c, reading)
             w == [s.win[c] EXCEPT !.n = @ + 1, !.moved = @ \/ reading = "moving"]
  <1>1. /\ c \in Calibrations /\ c \notin Windowed /\ Split!Failed[c] = FailureOf(c)
        /\ FailureOf(c) \in Failures /\ FailureOf(c) # c /\ c \notin Failures
    BY CalibrationNames DEF Calibrations, Fast, Windowed, FailureOf
  <1>2. /\ CalDelay \in Nat /\ CalWindow \in Nat \ {0}
    BY SensorsAssumed DEF Split!SensorsAssumption
  <1>3. /\ s \in CalStates /\ s.win[c] \in WindowStates
        /\ s.win \in [Calibrations -> WindowStates]
        /\ s.bias \in [Calibrations -> {"zero", "measured"}]
        /\ ~ s.win[c].early
        /\ s = [flags |-> s.flags, win |-> s.win, bias |-> s.bias]
    BY <1>1 DEF WindowsAnswer, CalStates
  <1>4. CASE c \notin s.flags
    <2>1. t = s
      BY <1>4 DEF Split!FastStep
    <2> QED
      BY <2>1 DEF Takes
  <1>5. CASE c \in s.flags
    <2>1. s.win[c].n \in 0 .. CalDelay + CalWindow
      BY <1>3 DEF WindowStates
    <2>2. /\ w.n = s.win[c].n + 1 /\ ~ w.early /\ w = [w EXCEPT !.n = s.win[c].n + 1]
          /\ w.n \in 0 .. CalDelay + CalWindow => w \in WindowStates
      BY <1>3 DEF WindowStates
    <2>3. CASE w.n <= CalWindow
      <3>1. w.n \in 0 .. CalDelay + CalWindow
        BY <1>2, <2>1, <2>2, <2>3
      <3>2. t = [s EXCEPT !.win[c] = w]
        BY <1>5, <2>3 DEF Split!FastStep
      <3> HIDE DEF w, t
      <3>3. t = [flags |-> s.flags, win |-> [s.win EXCEPT ![c] = w], bias |-> s.bias]
        BY <1>3, <3>2
      <3>4. Takes(s, t, c)
        BY <1>1, <1>3, <1>5, <2>2, <3>1, <3>3, OneWindow
      <3> QED
        BY <3>4 DEF t
    <2>4. CASE ~ (w.n <= CalWindow)
      <3> DEFINE F == (s.flags \ {c}) \cup (IF w.moved THEN {FailureOf(c)} ELSE {})
                 B == IF w.moved THEN s.bias ELSE [s.bias EXCEPT ![c] = "measured"]
      <3>1. t = [flags |-> F, win |-> [s.win EXCEPT ![c] = Split!NewWindow], bias |-> B]
        BY <1>1, <1>5, <2>4 DEF Split!FastStep
      <3>2. /\ Split!NewWindow \in WindowStates /\ Split!NewWindow.n = 0
            /\ Split!NewWindow.early = FALSE
        BY <1>2 DEF Split!NewWindow, WindowStates
      <3>3. B \in [Calibrations -> {"zero", "measured"}]
        BY <1>3
      <3>4. F \in {s.flags \ {c}, (s.flags \ {c}) \cup {FailureOf(c)}}
        OBVIOUS
      <3> HIDE DEF F, B, t
      <3>5. Takes(s, t, c)
        BY <1>1, <1>3, <3>1, <3>2, <3>3, <3>4, OneWindow
      <3> QED
        BY <3>5 DEF t
    <2> QED
      BY <2>3, <2>4
  <1> QED
    BY <1>4, <1>5

(* A slow window that takes a sample.                                        *)
LEMMA SlowWindowTakes ==
  ASSUME NEW s, WindowsAnswer(s), NEW c \in Windowed, NEW reading,
         c \in s.flags => s.win[c].active
  PROVE  Takes(s, Split!SlowWindow(s, c, reading), c)
  <1> DEFINE t == Split!SlowWindow(s, c, reading)
             w == [s.win[c] EXCEPT !.n = @ + 1, !.waits = TRUE]
  <1>1. /\ c \in Calibrations /\ c \notin Fast /\ Split!Failed[c] = FailureOf(c)
        /\ FailureOf(c) \in Failures /\ FailureOf(c) # c /\ c \notin Failures
    BY CalibrationNames DEF Calibrations, Fast, Windowed, FailureOf
  <1>2. /\ CalDelay \in Nat /\ CalWindow \in Nat \ {0}
    BY SensorsAssumed DEF Split!SensorsAssumption
  <1>3. /\ s \in CalStates /\ s.win[c] \in WindowStates
        /\ s.win \in [Calibrations -> WindowStates]
        /\ s.bias \in [Calibrations -> {"zero", "measured"}]
        /\ s.win[c].active => c \in s.flags /\ ~ s.win[c].early
        /\ s = [flags |-> s.flags, win |-> s.win, bias |-> s.bias]
    BY <1>1 DEF WindowsAnswer, CalStates
  <1>4. /\ s.win[c].n \in 0 .. CalDelay + CalWindow
        /\ w.n = s.win[c].n + 1 /\ w.active = s.win[c].active /\ w.early = s.win[c].early
    BY <1>3 DEF WindowStates
  <1>5. CASE w.n <= CalDelay + CalWindow
    <2> DEFINE v == [w EXCEPT !.moved = @ \/ (w.n > CalDelay /\ reading = "moving")]
    <2>1. t = [s EXCEPT !.win[c] = v]
      BY <1>5 DEF Split!SlowWindow
    <2>2. w.n \in 0 .. CalDelay + CalWindow
      BY <1>2, <1>4, <1>5
    <2>3. w \in WindowStates
      BY <1>3, <2>2 DEF WindowStates
    <2>4. v \in WindowStates /\ v.active = s.win[c].active /\ v.early = s.win[c].early
      <3> HIDE DEF w
      <3> QED
        BY <1>4, <2>3 DEF WindowStates
    <2> HIDE DEF v, t
    <2>5. t = [flags |-> s.flags, win |-> [s.win EXCEPT ![c] = v], bias |-> s.bias]
      BY <1>3, <2>1
    <2>6. Takes(s, t, c)
      BY <1>1, <1>3, <2>4, <2>5, OneWindow
    <2> QED
      BY <2>6 DEF t
  <1>6. CASE ~ (w.n <= CalDelay + CalWindow) /\ w.moved
    <2> DEFINE v == [w EXCEPT !.n = 0, !.moved = FALSE, !.early = FALSE]
    <2>1. t = [s EXCEPT !.flags = @ \cup {FailureOf(c)}, !.win[c] = v]
      BY <1>1, <1>6 DEF Split!SlowWindow
    <2>2. 0 \in 0 .. CalDelay + CalWindow
      BY <1>2
    <2>3. v \in WindowStates /\ v.active = s.win[c].active /\ v.early = FALSE
      BY <1>3, <2>2 DEF WindowStates
    <2> HIDE DEF v, t
    <2>4. t = [flags |-> s.flags \cup {FailureOf(c)}, win |-> [s.win EXCEPT ![c] = v], bias |-> s.bias]
      BY <1>3, <2>1
    <2>5. Takes(s, t, c)
      BY <1>1, <1>3, <2>3, <2>4, OneWindow
    <2> QED
      BY <2>5 DEF t
  <1>7. CASE ~ (w.n <= CalDelay + CalWindow) /\ ~ w.moved
    <2> DEFINE v == [Split!NewWindow EXCEPT !.waits = TRUE, !.done = TRUE]
               B == [s.bias EXCEPT ![c] = "measured"]
    <2>1. t = [flags |-> s.flags \ {c}, win |-> [s.win EXCEPT ![c] = v], bias |-> B]
      BY <1>1, <1>7 DEF Split!SlowWindow
    <2>2. 0 \in 0 .. CalDelay + CalWindow
      BY <1>2
    <2>3. v \in WindowStates /\ v.active = FALSE /\ v.early = FALSE
      BY <2>2 DEF WindowStates, Split!NewWindow
    <2>4. B \in [Calibrations -> {"zero", "measured"}]
      BY <1>3
    <2> HIDE DEF v, t, B
    <2>5. Takes(s, t, c)
      BY <1>1, <1>3, <2>1, <2>3, <2>4, OneWindow
    <2> QED
      BY <2>5 DEF t
  <1> QED
    BY <1>5, <1>6, <1>7

(* A slow window that starts over has no answer in the same step.            *)
LEMMA SlowTakes ==
  ASSUME NEW s, WindowsAnswer(s), NEW c \in Windowed, NEW reading
  PROVE  Takes(s, Split!SlowStep(s, c, reading), c)
  <1>1. /\ c \in Calibrations /\ c \notin Fast
    BY DEF Calibrations, Fast, Windowed
  <1>2. /\ CalDelay \in Nat /\ CalWindow \in Nat \ {0}
    BY SensorsAssumed DEF Split!SensorsAssumption
  <1>3. /\ s \in CalStates /\ s.win[c] \in WindowStates
        /\ s.win \in [Calibrations -> WindowStates]
        /\ s.bias \in [Calibrations -> {"zero", "measured"}]
        /\ s = [flags |-> s.flags, win |-> s.win, bias |-> s.bias]
    BY <1>1 DEF WindowsAnswer, CalStates
  <1>4. CASE c \in s.flags /\ ~ s.win[c].active
    <2> DEFINE v == [Split!NewWindow EXCEPT !.active = TRUE]
               r == [s EXCEPT !.win[c] = v]
               u == [v EXCEPT !.n = @ + 1, !.waits = TRUE]
    <2>0. 0 \in 0 .. CalDelay + CalWindow /\ 1 \in 0 .. CalDelay + CalWindow
      BY <1>2
    <2>1. v \in WindowStates /\ v.n = 0 /\ v.early = FALSE /\ v.done = FALSE /\ v.waits = FALSE
          /\ v.active = TRUE
      BY <2>0 DEF Split!NewWindow, WindowStates
    <2>2. u.n = 1 /\ 1 <= CalDelay + CalWindow
      <3> HIDE DEF v
      <3>1. 1 <= CalDelay + CalWindow /\ v.n + 1 = 1
        BY <1>2, <2>1
      <3> QED
        BY <2>1, <3>1 DEF WindowStates
    <2>3. r = [flags |-> s.flags, win |-> [s.win EXCEPT ![c] = v], bias |-> s.bias] /\ r.win[c] = v
      <3> HIDE DEF v
      <3> QED
        BY <1>1, <1>3
    <2>4. Split!SlowStep(s, c, reading) = Split!SlowWindow(r, c, reading)
      <3> HIDE DEF v
      <3> QED
        BY <1>4, <2>1, <2>3 DEF Split!SlowStep, v
    <2> DEFINE x == [u EXCEPT !.moved = @ \/ (u.n > CalDelay /\ reading = "moving")]
    <2>5. Split!SlowWindow(r, c, reading) = [r EXCEPT !.win[c] = x]
      <3> HIDE DEF v, r
      <3> QED
        BY <2>2, <2>3 DEF Split!SlowWindow
    <2>7. u \in WindowStates /\ u.early = FALSE /\ u.active = TRUE
      <3> HIDE DEF v
      <3> QED
        BY <2>0, <2>1, <2>2 DEF WindowStates
    <2>8. x \in WindowStates /\ x.early = FALSE /\ x.active = TRUE
      <3> HIDE DEF u
      <3> QED
        BY <2>7 DEF WindowStates
    <2> HIDE DEF x, u, v, r
    <2>9. [r EXCEPT !.win[c] = x] = [flags |-> s.flags, win |-> [s.win EXCEPT ![c] = x], bias |-> s.bias]
      BY <1>1, <1>3, <2>3
    <2> QED
      BY <1>1, <1>3, <1>4, <2>4, <2>5, <2>8, <2>9, OneWindow
  <1>5. CASE ~ (c \in s.flags /\ ~ s.win[c].active)
    <2>1. \/ Split!SlowStep(s, c, reading) = s
          \/ Split!SlowStep(s, c, reading) = Split!SlowWindow(s, c, reading)
      BY <1>5 DEF Split!SlowStep
    <2>2. Takes(s, s, c)
      BY DEF Takes
    <2> QED
      BY <1>5, <2>1, <2>2, SlowWindowTakes
  <1> QED
    BY <1>4, <1>5

LEMMA StepTakes ==
  ASSUME NEW s, WindowsAnswer(s), NEW c \in Calibrations, NEW reading
  PROVE  Takes(s, Split!Step(s, c, reading), c)
  <1>1. Takes(s, s, c)
    BY DEF Takes
  <1>2. \/ Split!Step(s, c, reading) = s
        \/ c \in Windowed /\ Split!Step(s, c, reading) = Split!SlowStep(s, c, reading)
        \/ c \in Fast /\ Split!Step(s, c, reading) = Split!FastStep(s, c, reading)
    BY CalibrationNames DEF Split!Step, Calibrations
  <1> QED
    BY <1>1, <1>2, SlowTakes, FastTakes

(* A sample of every sensor: a flag is withdrawn as the answer to it only.   *)
LEMMA CalibratedAnswers ==
  ASSUME NEW s, WindowsAnswer(s), NEW r
  PROVE  /\ WindowsAnswer(Split!Calibrated(s, r))
         /\ \A c \in Calibrations : c \in s.flags \ Split!Calibrated(s, r).flags => ~ s.win[c].early
  <1> DEFINE g == Split!Step(s, "GYRO", r["imu"])
             a == Split!Step(g, "ACCEL", r["imu"])
             b == Split!Step(a, "BARO", r["baro"])
             p == Split!Step(b, "PITOT", r["pitot"])
  <1>0. /\ Calibrations = {"GYRO", "ACCEL", "BARO", "PITOT"}
        /\ "GYRO" \in Calibrations /\ "ACCEL" \in Calibrations /\ "BARO" \in Calibrations
        /\ "PITOT" \in Calibrations
    BY DEF Calibrations, Windowed, Fast
  <1>1. Split!Calibrated(s, r) = p
    BY DEF Split!Calibrated
  <1>2. Takes(s, g, "GYRO")
    BY <1>0, StepTakes
  <1>3. Takes(g, a, "ACCEL")
    BY <1>0, <1>2, StepTakes DEF Takes
  <1>4. Takes(a, b, "BARO")
    BY <1>0, <1>3, StepTakes DEF Takes
  <1>5. Takes(b, p, "PITOT")
    BY <1>0, <1>4, StepTakes DEF Takes
  <1> HIDE DEF g, a, b, p
  <1> QED
    BY <1>0, <1>1, <1>2, <1>3, <1>4, <1>5 DEF Takes

(* The operators are the same in the three instances.                        *)
LEMMA SameWindows ==
  /\ Once!State = Split!State /\ Ends!State = Split!State
  /\ \A s, r : Once!Calibrated(s, r) = Split!Calibrated(s, r) /\ Ends!Calibrated(s, r) = Split!Calibrated(s, r)
  /\ \A s, c : Once!Raised(s, c) = Split!Raised(s, c) /\ Ends!Raised(s, c) = Split!Raised(s, c)
  <1>0. /\ Once!Kinds = Split!Kinds /\ Ends!Kinds = Split!Kinds
        /\ Once!Windowed = Split!Windowed /\ Ends!Windowed = Split!Windowed
        /\ Once!Fast = Split!Fast /\ Ends!Fast = Split!Fast
        /\ Once!NewWindow = Split!NewWindow /\ Ends!NewWindow = Split!NewWindow
        /\ Once!State = Split!State /\ Ends!State = Split!State
        /\ \A x : (Once!IsSample(x) <=> Split!IsSample(x)) /\ (Ends!IsSample(x) <=> Split!IsSample(x))
    BY DEF Once!Kinds, Split!Kinds, Ends!Kinds, Once!Windowed, Split!Windowed, Ends!Windowed,
           Once!Fast, Split!Fast, Ends!Fast, Once!NewWindow, Split!NewWindow, Ends!NewWindow,
           Once!State, Split!State, Ends!State, Once!IsSample, Split!IsSample, Ends!IsSample
  <1>1. Once!Cals = Split!Cals /\ Ends!Cals = Split!Cals
    BY <1>0 DEF Once!Cals, Split!Cals, Ends!Cals
  <1>2. Once!Failed = Split!Failed /\ Ends!Failed = Split!Failed
    BY <1>1 DEF Once!Failed, Split!Failed, Ends!Failed
  <1>3. \A s, c : Once!Raised(s, c) = Split!Raised(s, c) /\ Ends!Raised(s, c) = Split!Raised(s, c)
    BY <1>2 DEF Once!Raised, Split!Raised, Ends!Raised
  <1>4. /\ \A s, c, x : Once!FastStep(s, c, x) = Split!FastStep(s, c, x)
        /\ \A s, c, x : Ends!FastStep(s, c, x) = Split!FastStep(s, c, x)
    BY <1>0, <1>2 DEF Once!FastStep, Split!FastStep, Ends!FastStep
  <1>5. /\ \A s, c, x : Once!SlowWindow(s, c, x) = Split!SlowWindow(s, c, x)
        /\ \A s, c, x : Ends!SlowWindow(s, c, x) = Split!SlowWindow(s, c, x)
    BY <1>0, <1>2 DEF Once!SlowWindow, Split!SlowWindow, Ends!SlowWindow
  <1>6. /\ \A s, c, x : Once!SlowStep(s, c, x) = Split!SlowStep(s, c, x)
        /\ \A s, c, x : Ends!SlowStep(s, c, x) = Split!SlowStep(s, c, x)
    BY <1>0, <1>5 DEF Once!SlowStep, Split!SlowStep, Ends!SlowStep
  <1>7. /\ \A s, c, x : Once!Step(s, c, x) = Split!Step(s, c, x)
        /\ \A s, c, x : Ends!Step(s, c, x) = Split!Step(s, c, x)
    BY <1>0, <1>4, <1>6 DEF Once!Step, Split!Step, Ends!Step
  <1>8. /\ \A s, r : Once!Calibrated(s, r) = Split!Calibrated(s, r)
        /\ \A s, r : Ends!Calibrated(s, r) = Split!Calibrated(s, r)
    BY <1>7 DEF Once!Calibrated, Split!Calibrated, Ends!Calibrated
  <1> QED
    BY <1>0, <1>3, <1>8

LEMMA SameSensors ==
  /\ Once!Kinds = Split!Kinds /\ Ends!Kinds = Split!Kinds
  /\ \A s, x : Once!Commanded(s, x) = Split!Commanded(s, x) /\ Ends!Commanded(s, x) = Split!Commanded(s, x)
  /\ \A s : Once!GyroRequested(s) = Split!GyroRequested(s) /\ Ends!GyroRequested(s) = Split!GyroRequested(s)
  /\ \A k, x : Once!Processed(k, x) = Split!Processed(k, x) /\ Ends!Processed(k, x) = Split!Processed(k, x)
  /\ \A r : Once!LastRead(r) = Split!LastRead(r) /\ Ends!LastRead(r) = Split!LastRead(r)
  /\ \A r : Ends!Restored(r) = Split!Restored(r)
  /\ \A r, p : (Once!Ingest(r, p) <=> Split!Ingest(r, p)) /\ (Ends!Ingest(r, p) <=> Split!Ingest(r, p))
  /\ Once!TypeOK <=> Split!TypeOK
  <1>0. /\ Once!Kinds = Split!Kinds /\ Ends!Kinds = Split!Kinds
        /\ Once!Windowed = Split!Windowed /\ Ends!Windowed = Split!Windowed
        /\ Once!Fast = Split!Fast /\ Ends!Fast = Split!Fast
        /\ \A x : (Once!IsSample(x) <=> Split!IsSample(x)) /\ (Ends!IsSample(x) <=> Split!IsSample(x))
    BY DEF Once!Kinds, Split!Kinds, Ends!Kinds, Once!Windowed, Split!Windowed, Ends!Windowed,
           Once!Fast, Split!Fast, Ends!Fast, Once!IsSample, Split!IsSample, Ends!IsSample
  <1>1. Once!Cals = Split!Cals /\ Ends!Cals = Split!Cals
    BY <1>0 DEF Once!Cals, Split!Cals, Ends!Cals
  <1>2. Once!Failed = Split!Failed /\ Ends!Failed = Split!Failed
    BY <1>1 DEF Once!Failed, Split!Failed, Ends!Failed
  <1>3. /\ \A s, x : Once!Commanded(s, x) = Split!Commanded(s, x) /\ Ends!Commanded(s, x) = Split!Commanded(s, x)
        /\ \A s : Once!GyroRequested(s) = Split!GyroRequested(s) /\ Ends!GyroRequested(s) = Split!GyroRequested(s)
    BY SameWindows DEF Once!Commanded, Split!Commanded, Ends!Commanded, Once!GyroRequested,
                       Split!GyroRequested, Ends!GyroRequested
  <1>4. /\ \A k, x : Once!Processed(k, x) = Split!Processed(k, x) /\ Ends!Processed(k, x) = Split!Processed(k, x)
        /\ \A r : Once!LastRead(r) = Split!LastRead(r) /\ Ends!LastRead(r) = Split!LastRead(r)
    BY <1>0 DEF Once!Processed, Split!Processed, Ends!Processed, Once!LastRead, Split!LastRead,
                Ends!LastRead
  <1>5. \A r : Ends!Restored(r) = Split!Restored(r)
    BY <1>0, <1>4 DEF Ends!Restored, Split!Restored
  <1>6. /\ \A s, l : Once!Health(s, l) <=> Split!Health(s, l)
        /\ \A s, l : Ends!Health(s, l) <=> Split!Health(s, l)
    BY <1>2 DEF Once!Health, Split!Health, Ends!Health
  <1>7. /\ \A r, p : Once!Ingest(r, p) <=> Split!Ingest(r, p)
        /\ \A r, p : Ends!Ingest(r, p) <=> Split!Ingest(r, p)
    BY <1>4, <1>6, SameWindows DEF Once!Ingest, Split!Ingest, Ends!Ingest
  <1>8. Once!TypeOK <=> Split!TypeOK
    BY <1>0, <1>1, <1>2 DEF Once!TypeOK, Split!TypeOK
  <1> QED
    BY <1>0, <1>3, <1>4, <1>5, <1>7, <1>8

(* The invariant: the windows answer, a failure of the gyro that is still    *)
(* flagged has failed no arming yet, and under the realtime scheduler what   *)
(* is shown is what was read.                                                *)
Histories == [last : [Kinds -> Shown], blame : BOOLEAN, unfounded : BOOLEAN]

SensorsInv ==
  /\ WindowsAnswer(Split!State)
  /\ sens_proc \in [Kinds -> Shown] /\ sens_hist \in Histories
  /\ sens_mode \in {"idle", "calibrating", "armed"}
  /\ "GYRO_FAILED" \in sens_flags => sens_hist.blame
  /\ ~ sens_hist.unfounded
  /\ subject # "once" => sens_proc = sens_hist.last

FlagsAnswered == \A c \in Calibrations : c \in sens_flags \ sens_flags' => ~ sens_win[c].early

LEMMA StateFields ==
  /\ Split!State.flags = sens_flags /\ Split!State.win = sens_win /\ Split!State.bias = sens_bias
  /\ \A F, W, B : Split!State = [flags |-> F, win |-> W, bias |-> B] <=>
                    sens_flags = F /\ sens_win = W /\ sens_bias = B
  BY DEF Split!State

LEMMA InitSensorsInv == Once!Init => SensorsInv
  <1> SUFFICES ASSUME Once!Init PROVE SensorsInv
    OBVIOUS
  <1>0. /\ Once!Kinds = Kinds /\ Once!Cals = Calibrations
    BY DEF Once!Kinds, Kinds, Once!Cals, Calibrations, Once!Windowed, Windowed, Once!Fast, Fast
  <1>1. /\ sens_flags = {} /\ sens_win = [c \in Calibrations |-> Once!NewWindow]
        /\ sens_bias = [c \in Calibrations |-> "zero"]
        /\ sens_proc = [k \in Kinds |-> "none"] /\ sens_mode = "idle"
        /\ sens_hist = [last |-> [k \in Kinds |-> "none"], blame |-> FALSE, unfounded |-> FALSE]
    BY <1>0 DEF Once!Init
  <1>2. 0 \in 0 .. CalDelay + CalWindow
    BY SensorsAssumed DEF Split!SensorsAssumption
  <1>3. /\ Once!NewWindow \in WindowStates /\ Once!NewWindow.n = 0
        /\ Once!NewWindow.early = FALSE /\ Once!NewWindow.active = FALSE
    BY <1>2 DEF Once!NewWindow, WindowStates
  <1>4. sens_win \in [Calibrations -> WindowStates] /\ \A c \in Calibrations : sens_win[c] = Once!NewWindow
    BY <1>1, <1>3
  <1>5. Split!State \in CalStates
    BY <1>1, <1>4 DEF Split!State, CalStates
  <1>6. WindowsAnswer(Split!State)
    BY <1>3, <1>4, <1>5, StateFields DEF WindowsAnswer, Calibrations
  <1>7. sens_proc \in [Kinds -> Shown] /\ sens_hist \in Histories /\ sens_proc = sens_hist.last
    BY <1>1 DEF Shown, Histories
  <1> QED
    BY <1>1, <1>6, <1>7 DEF SensorsInv

(* A stage or a tick that reads sensors.                                     *)
LEMMA IngestKeeps ==
  ASSUME SensorsInv, NEW r \in [Kinds -> Given], NEW shown \in [Kinds -> Shown],
         Split!Ingest(r, shown), subject' = subject,
         subject # "once" => shown = Split!LastRead(r)
  PROVE  SensorsInv' /\ FlagsAnswered
  <1> DEFINE s == Split!Calibrated(Split!State, r)
  <1>1. /\ WindowsAnswer(s)
        /\ \A c \in Calibrations : c \in sens_flags \ s.flags => ~ sens_win[c].early
    BY CalibratedAnswers, StateFields DEF SensorsInv
  <1>2. Split!Health(s, Split!LastRead(r)) /\ sens_win' = s.win /\ sens_bias' = s.bias
        /\ sens_proc' = shown
    BY DEF Split!Ingest
  <1> HIDE DEF s
  <1>3. Split!Failed["GYRO"] = "GYRO_FAILED" /\ "GYRO_FAILED" \notin Calibrations
        /\ "GYRO_FAILED" \in Failures
    BY DEF Split!Failed, Split!Cals, Split!Windowed, Split!Fast, Calibrations, Windowed, Fast, Failures
  <1> DEFINE failing == sens_mode = "calibrating" /\ "GYRO_FAILED" \in s.flags
             blame == sens_hist.blame \/ "GYRO_FAILED" \in s.flags \ sens_flags
  <1>4. /\ sens_mode' \in {"idle", "armed", sens_mode}
        /\ sens_flags' = IF failing THEN s.flags \ {"GYRO_FAILED"} ELSE s.flags
        /\ sens_hist' = [last |-> Split!LastRead(r), blame |-> blame /\ ~ failing,
                         unfounded |-> failing /\ ~ blame]
    BY <1>2, <1>3 DEF Split!Health
  <1>5. "GYRO_FAILED" \in s.flags => blame
    BY DEF SensorsInv
  <1>6. Split!LastRead(r) \in [Kinds -> Shown]
    <2>1. Split!Kinds = Kinds
      BY CalibrationNames
    <2>2. sens_hist.last \in [Kinds -> Shown]
      BY DEF SensorsInv, Histories
    <2> QED
      BY <2>1, <2>2 DEF Split!LastRead, Split!IsSample, Given, Shown
  <1>7. blame \in BOOLEAN /\ failing \in BOOLEAN
    BY DEF SensorsInv, Histories
  <1>8. sens_hist' \in Histories /\ sens_hist'.last = Split!LastRead(r)
        /\ sens_hist'.unfounded = FALSE
        /\ ("GYRO_FAILED" \in sens_flags' => sens_hist'.blame)
    <2> HIDE DEF blame, failing
    <2>1. sens_hist' \in Histories /\ sens_hist'.last = Split!LastRead(r)
      BY <1>4, <1>6, <1>7 DEF Histories
    <2>2. sens_hist'.unfounded = (failing /\ ~ blame) /\ sens_hist'.blame = (blame /\ ~ failing)
      BY <1>4
    <2>3. failing => blame
      BY <1>5 DEF failing
    <2>4. "GYRO_FAILED" \in sens_flags' => blame /\ ~ failing
      BY <1>4, <1>5
    <2> QED
      BY <2>1, <2>2, <2>3, <2>4
  <1>9. WindowsAnswer(Split!State')
    <2>1. /\ s \in CalStates
          /\ \A c \in Calibrations : c \in sens_flags' <=> c \in s.flags
          /\ sens_flags' \subseteq s.flags
      BY <1>1, <1>3, <1>4 DEF WindowsAnswer
    <2>2. Split!State' = [flags |-> sens_flags', win |-> s.win, bias |-> s.bias]
      BY <1>2 DEF Split!State
    <2>3. Split!State' \in CalStates
      BY <2>1, <2>2 DEF CalStates
    <2> QED
      BY <1>1, <2>1, <2>2, <2>3 DEF WindowsAnswer, Calibrations
  <1>10. FlagsAnswered
    BY <1>1, <1>3, <1>4 DEF FlagsAnswered
  <1>11. SensorsInv'
    <2>1. sens_mode' \in {"idle", "calibrating", "armed"}
      BY <1>4 DEF SensorsInv
    <2>2. subject' # "once" => sens_proc' = sens_hist'.last
      BY <1>2, <1>8
    <2> QED
      BY <1>2, <1>8, <1>9, <2>1, <2>2 DEF SensorsInv
  <1> QED
    BY <1>10, <1>11

(* The communication stage: the companion's command, and the calibration     *)
(* that an arming asks for.                                                  *)
LEMMA CommandKeeps ==
  ASSUME SensorsInv, NEW command \in {"none", "IMU", "GYRO", "BARO", "PITOT"}, NEW s,
         s = Split!GyroRequested(Split!Commanded(Split!State, command)),
         sens_flags' = s.flags, sens_win' = s.win, sens_bias' = s.bias,
         UNCHANGED <<sens_proc, sens_mode, sens_hist, subject>>
  PROVE  SensorsInv' /\ FlagsAnswered
  <1> DEFINE Asked(t) == /\ WindowsAnswer(t)
                         /\ \A c \in Calibrations : c \in sens_flags => c \in t.flags
                         /\ "GYRO_FAILED" \in t.flags => "GYRO_FAILED" \in sens_flags
  <1>1. ASSUME NEW t, Asked(t), NEW c \in Calibrations
        PROVE  Asked(Split!Raised(t, c))
    <2>1. /\ WindowsAnswer(Split!Raised(t, c))
          /\ Split!Raised(t, c).flags = (t.flags \ {FailureOf(c)}) \cup {c}
      BY <1>1, RaisedAnswers
    <2>2. FailureOf(c) \notin Calibrations /\ "GYRO_FAILED" \notin Calibrations
      BY CalibrationNames DEF Failures
    <2> QED
      BY <1>1, <2>1, <2>2
  <1>2. Asked(Split!State)
    BY StateFields DEF SensorsInv
  <1>3. "GYRO" \in Calibrations /\ "ACCEL" \in Calibrations /\ "BARO" \in Calibrations
        /\ "PITOT" \in Calibrations
    BY DEF Calibrations, Windowed, Fast
  <1> HIDE DEF Asked
  <1>4. Asked(Split!Commanded(Split!State, command))
    BY <1>1, <1>2, <1>3 DEF Split!Commanded
  <1>5. Asked(s)
    BY <1>1, <1>3, <1>4 DEF Split!GyroRequested
  <1>6. s \in CalStates
    BY <1>5 DEF Asked, WindowsAnswer
  <1>7. Split!State' = s
    BY <1>6 DEF Split!State, CalStates
  <1>8. FlagsAnswered
    BY <1>5 DEF Asked, FlagsAnswered
  <1>9. WindowsAnswer(Split!State')
    BY <1>5, <1>7 DEF Asked
  <1>10. "GYRO_FAILED" \in sens_flags' => sens_hist'.blame
    BY <1>5 DEF Asked, SensorsInv
  <1> QED
    BY <1>8, <1>9, <1>10 DEF SensorsInv

(* The clock of the slow windows.                                            *)
LEMMA TimePassesKeeps ==
  ASSUME SensorsInv, sens_win' = [c \in Calibrations |-> [sens_win[c] EXCEPT !.waits = FALSE]],
         UNCHANGED <<sens_flags, sens_bias, sens_proc, sens_mode, sens_hist, subject>>
  PROVE  SensorsInv' /\ FlagsAnswered
  <1>1. Split!State \in CalStates /\ sens_win \in [Calibrations -> WindowStates]
    BY StateFields DEF SensorsInv, WindowsAnswer, CalStates
  <1>2. \A c \in Calibrations : /\ sens_win'[c] \in WindowStates /\ sens_win'[c].n = sens_win[c].n
                                /\ sens_win'[c].early = sens_win[c].early
                                /\ sens_win'[c].active = sens_win[c].active
    BY <1>1 DEF WindowStates
  <1>3. sens_win' \in [Calibrations -> WindowStates]
    BY <1>2
  <1>4. Split!State' = [flags |-> sens_flags, win |-> sens_win', bias |-> sens_bias]
    BY DEF Split!State
  <1>5. Split!State' \in CalStates
    BY <1>1, <1>3, <1>4, StateFields DEF CalStates
  <1>6. WindowsAnswer(Split!State')
    BY <1>2, <1>4, <1>5, StateFields DEF SensorsInv, WindowsAnswer, Calibrations
  <1> QED
    BY <1>6 DEF SensorsInv, FlagsAnswered

(* Readings are of the kinds that are looked at.                             *)
LEMMA ReadingsOfKinds ==
  ASSUME NEW kinds
  PROVE  /\ \A r \in Split!Readings(kinds) : r \in [Kinds -> Given] /\ \A k \in Kinds \ kinds : r[k] = "absent"
         /\ \A r \in Once!Readings(kinds) : r \in [Kinds -> Given] /\ \A k \in Kinds \ kinds : r[k] = "absent"
         /\ \A r \in Ends!Readings(kinds) : r \in [Kinds -> Given] /\ \A k \in Kinds \ kinds : r[k] = "absent"
  <1>0. Split!Kinds = Kinds /\ Once!Kinds = Kinds /\ Ends!Kinds = Kinds
    BY CalibrationNames, SameSensors
  <1>1. ASSUME NEW r \in Split!Readings(kinds)
        PROVE  r \in [Kinds -> Given] /\ \A k \in Kinds \ kinds : r[k] = "absent"
    BY <1>0 DEF Split!Readings, Given
  <1>2. ASSUME NEW r \in Once!Readings(kinds)
        PROVE  r \in [Kinds -> Given] /\ \A k \in Kinds \ kinds : r[k] = "absent"
    BY <1>0 DEF Once!Readings, Given
  <1>3. ASSUME NEW r \in Ends!Readings(kinds)
        PROVE  r \in [Kinds -> Given] /\ \A k \in Kinds \ kinds : r[k] = "absent"
    BY <1>0 DEF Ends!Readings, Given
  <1> QED
    BY <1>1, <1>2, <1>3

LEMMA ProcessedShown ==
  ASSUME SensorsInv, NEW k \in Kinds, NEW x \in Given
  PROVE  Split!Processed(k, x) \in Shown
  BY DEF SensorsInv, Histories, Split!Processed, Split!IsSample, Given, Shown

(* What the realtime scheduler shows after a stage or a tick is what was     *)
(* read last.                                                                *)
LEMMA ShownIsRead ==
  ASSUME SensorsInv, subject # "once", NEW r \in [Kinds -> Given]
  PROVE  /\ Split!Restored(r) = Split!LastRead(r) /\ Split!Restored(r) \in [Kinds -> Shown]
         /\ (\A k \in Kinds \ {"imu"} : r[k] = "absent") /\ r["imu"] # "absent" =>
              /\ [sens_proc EXCEPT !["imu"] = Split!Processed("imu", r["imu"])] = Split!LastRead(r)
              /\ [sens_proc EXCEPT !["imu"] = Split!Processed("imu", r["imu"])] \in [Kinds -> Shown]
  <1>1. /\ Split!Kinds = Kinds /\ sens_proc = sens_hist.last /\ sens_proc \in [Kinds -> Shown]
    BY CalibrationNames DEF SensorsInv
  <1>2. ASSUME NEW k \in Kinds
        PROVE  Split!Restored(r)[k] = Split!LastRead(r)[k] /\ Split!Restored(r)[k] \in Shown
    <2>1. r[k] \in Given
      OBVIOUS
    <2>2. Split!Restored(r)[k] = IF r[k] = "absent" THEN sens_proc[k] ELSE Split!Processed(k, r[k])
      BY <1>1 DEF Split!Restored
    <2>3. Split!LastRead(r)[k] = CASE Split!IsSample(r[k]) -> r[k]
                                   [] r[k] = "error" /\ k # "battery" -> "none"
                                   [] OTHER -> sens_proc[k]
      BY <1>1 DEF Split!LastRead
    <2>4. sens_proc[k] \in Shown
      BY <1>1
    <2> QED
      BY <1>1, <2>1, <2>2, <2>3, <2>4 DEF Split!Processed, Split!IsSample, Given, Shown
  <1>3. Split!Restored(r) = Split!LastRead(r) /\ Split!Restored(r) \in [Kinds -> Shown]
    <2>1. /\ Split!Restored(r) = [k \in Kinds |-> Split!Restored(r)[k]]
          /\ Split!LastRead(r) = [k \in Kinds |-> Split!LastRead(r)[k]]
      BY <1>1 DEF Split!Restored, Split!LastRead
    <2> QED
      BY <1>2, <2>1
  <1>4. ASSUME \A k \in Kinds \ {"imu"} : r[k] = "absent", r["imu"] # "absent"
        PROVE  [sens_proc EXCEPT !["imu"] = Split!Processed("imu", r["imu"])] = Split!Restored(r)
    <2> DEFINE p == [sens_proc EXCEPT !["imu"] = Split!Processed("imu", r["imu"])]
    <2>1. \A k \in Kinds : p[k] = IF r[k] = "absent" THEN sens_proc[k] ELSE Split!Processed(k, r[k])
      BY <1>1, <1>4
    <2>2. p = [k \in Kinds |-> p[k]]
      BY <1>1
    <2> HIDE DEF p
    <2>3. p = Split!Restored(r)
      BY <1>1, <2>1, <2>2 DEF Split!Restored
    <2> QED
      BY <2>3 DEF p
  <1> QED
    BY <1>3, <1>4

LEMMA CommandsAre ==
  /\ Split!SensorsAssumption /\ Once!SensorsAssumption /\ Ends!SensorsAssumption
  /\ CalCommands \subseteq {"IMU", "GYRO", "BARO", "PITOT"}
  BY SensorsAssumed DEF Split!SensorsAssumption

(* The pilot, the vehicle and steps elsewhere.                               *)
LEMMA OthersKeep ==
  ASSUME SensorsInv, UNCHANGED <<sens_flags, sens_win, sens_bias, sens_proc, sens_hist, subject>>,
         sens_mode' \in {sens_mode, "calibrating", "idle"}
  PROVE  SensorsInv' /\ FlagsAnswered
  <1>1. Split!State' = Split!State
    BY DEF Split!State
  <1> QED
    BY <1>1 DEF SensorsInv, FlagsAnswered

LEMMA SplitKeeps ==
  ASSUME SensorsInv, subject' = subject, subject # "once", Split!Next
  PROVE  SensorsInv' /\ FlagsAnswered
  <1>1. ~ Split!SensorStage
    BY DEF Split!SensorStage
  <1>2. CASE Split!ServiceSensorStage
    <2>1. PICK r \in Split!Readings(Split!Kinds \ {"imu"}) : Split!Ingest(r, Split!Restored(r))
      BY <1>2 DEF Split!ServiceSensorStage
    <2>2. r \in [Kinds -> Given]
      BY ReadingsOfKinds
    <2> QED
      BY <2>1, <2>2, ShownIsRead, IngestKeeps
  <1>3. CASE Split!ImuTick
    <2> DEFINE shown(r) == [sens_proc EXCEPT !["imu"] = Split!Processed("imu", r["imu"])]
    <2>1. PICK r \in Split!Readings({"imu"}) : r["imu"] # "absent" /\ Split!Ingest(r, shown(r))
      BY <1>3 DEF Split!ImuTick
    <2>2. r \in [Kinds -> Given] /\ \A k \in Kinds \ {"imu"} : r[k] = "absent"
      BY ReadingsOfKinds
    <2>3. shown(r) = Split!LastRead(r) /\ shown(r) \in [Kinds -> Shown]
      BY <2>1, <2>2, ShownIsRead
    <2> HIDE DEF shown
    <2> QED
      BY <2>1, <2>2, <2>3, IngestKeeps
  <1>4. CASE Split!CommStage
    <2>1. PICK command \in CalCommands \cup {"none"} :
            LET s == Split!GyroRequested(Split!Commanded(Split!State, command))
            IN  sens_flags' = s.flags /\ sens_win' = s.win /\ sens_bias' = s.bias
      BY <1>4 DEF Split!CommStage
    <2>2. UNCHANGED <<sens_proc, sens_mode, sens_hist>>
      BY <1>4 DEF Split!CommStage
    <2>3. command \in {"none", "IMU", "GYRO", "BARO", "PITOT"}
      BY CommandsAre
    <2> QED
      BY <2>1, <2>2, <2>3, CommandKeeps
  <1>5. CASE Split!RcStage
    BY <1>5, OthersKeep DEF Split!RcStage
  <1>6. CASE Split!TimePasses
    BY <1>6, TimePassesKeeps, CalibrationNames DEF Split!TimePasses
  <1>7. CASE Split!Vehicle
    BY <1>7, OthersKeep DEF Split!Vehicle
  <1> QED
    BY <1>1, <1>2, <1>3, <1>4, <1>5, <1>6, <1>7 DEF Split!Next

LEMMA EndsKeeps ==
  ASSUME SensorsInv, subject' = subject, subject # "once", Ends!Next
  PROVE  SensorsInv' /\ FlagsAnswered
  <1>1. ~ Ends!SensorStage
    BY DEF Ends!SensorStage
  <1>2. CASE Ends!ServiceSensorStage
    <2>1. PICK r \in Ends!Readings(Ends!Kinds \ {"imu"}) : Ends!Ingest(r, Ends!Restored(r))
      BY <1>2 DEF Ends!ServiceSensorStage
    <2>2. r \in [Kinds -> Given]
      BY ReadingsOfKinds
    <2>3. Split!Ingest(r, Split!Restored(r))
      BY <2>1, SameSensors
    <2> QED
      BY <2>2, <2>3, ShownIsRead, IngestKeeps
  <1>3. CASE Ends!ImuTick
    <2> DEFINE shown(r) == [sens_proc EXCEPT !["imu"] = Split!Processed("imu", r["imu"])]
    <2>1. PICK r \in Ends!Readings({"imu"}) : r["imu"] # "absent" /\ Split!Ingest(r, shown(r))
      BY <1>3, SameSensors DEF Ends!ImuTick
    <2>2. r \in [Kinds -> Given] /\ \A k \in Kinds \ {"imu"} : r[k] = "absent"
      BY ReadingsOfKinds
    <2>3. shown(r) = Split!LastRead(r) /\ shown(r) \in [Kinds -> Shown]
      BY <2>1, <2>2, ShownIsRead
    <2> HIDE DEF shown
    <2> QED
      BY <2>1, <2>2, <2>3, IngestKeeps
  <1>4. CASE Ends!CommStage
    <2>1. PICK command \in {"BARO"} \cup {"none"} :
            LET s == Split!GyroRequested(Split!Commanded(Split!State, command))
            IN  sens_flags' = s.flags /\ sens_win' = s.win /\ sens_bias' = s.bias
      BY <1>4, SameSensors, SameWindows DEF Ends!CommStage
    <2>2. UNCHANGED <<sens_proc, sens_mode, sens_hist>>
      BY <1>4 DEF Ends!CommStage
    <2> QED
      BY <2>1, <2>2, CommandKeeps
  <1>5. CASE Ends!RcStage
    BY <1>5, OthersKeep DEF Ends!RcStage
  <1>6. CASE Ends!TimePasses
    <2>1. Ends!Cals = Calibrations
      BY DEF Ends!Cals, Ends!Windowed, Ends!Fast, Calibrations, Windowed, Fast
    <2> QED
      BY <1>6, <2>1, TimePassesKeeps DEF Ends!TimePasses
  <1>7. CASE Ends!Vehicle
    BY <1>7, OthersKeep DEF Ends!Vehicle
  <1> QED
    BY <1>1, <1>2, <1>3, <1>4, <1>5, <1>6, <1>7 DEF Ends!Next

LEMMA OnceKeeps ==
  ASSUME SensorsInv, subject' = subject, subject = "once", Once!Next
  PROVE  SensorsInv' /\ FlagsAnswered
  <1>1. ~ Once!ServiceSensorStage /\ ~ Once!ImuTick
    BY DEF Once!ServiceSensorStage, Once!ImuTick
  <1>2. CASE Once!SensorStage
    <2> DEFINE shown(r) == [k \in Kinds |-> IF r[k] = "absent" /\ k = "battery" THEN sens_proc[k]
                                            ELSE Split!Processed(k, r[k])]
    <2>0. Once!Kinds = Kinds
      BY CalibrationNames, SameSensors
    <2>1. PICK r \in Once!Readings(Once!Kinds) : Split!Ingest(r, shown(r))
      BY <1>2, <2>0, SameSensors DEF Once!SensorStage
    <2>2. r \in [Kinds -> Given]
      BY ReadingsOfKinds
    <2>3. shown(r) \in [Kinds -> Shown]
      <3>1. sens_proc \in [Kinds -> Shown]
        BY DEF SensorsInv
      <3> QED
        BY <2>2, <3>1, ProcessedShown
    <2> HIDE DEF shown
    <2> QED
      BY <2>1, <2>2, <2>3, IngestKeeps
  <1>4. CASE Once!CommStage
    <2>1. PICK command \in {"GYRO", "BARO"} \cup {"none"} :
            LET s == Split!GyroRequested(Split!Commanded(Split!State, command))
            IN  sens_flags' = s.flags /\ sens_win' = s.win /\ sens_bias' = s.bias
      BY <1>4, SameSensors, SameWindows DEF Once!CommStage
    <2>2. UNCHANGED <<sens_proc, sens_mode, sens_hist>>
      BY <1>4 DEF Once!CommStage
    <2> QED
      BY <2>1, <2>2, CommandKeeps
  <1>5. CASE Once!RcStage
    BY <1>5, OthersKeep DEF Once!RcStage
  <1>6. CASE Once!TimePasses
    <2>1. Once!Cals = Calibrations
      BY DEF Once!Cals, Once!Windowed, Once!Fast, Calibrations, Windowed, Fast
    <2> QED
      BY <1>6, <2>1, TimePassesKeeps DEF Once!TimePasses
  <1>7. CASE Once!Vehicle
    BY <1>7, OthersKeep DEF Once!Vehicle
  <1> QED
    BY <1>1, <1>2, <1>4, <1>5, <1>6, <1>7 DEF Once!Next

LEMMA SensorsMove ==
  [SuiteNext]_suiteVars =>
    /\ subject' = subject
    /\ \/ UNCHANGED sensVars
       \/ subject = "once" /\ Once!Next
       \/ subject # "once" /\ (Split!Next \/ Ends!Next)
  BY DEF SuiteNext, Still, suiteVars

LEMMA NextSensorsInv ==
  SensorsInv /\ [SuiteNext]_suiteVars => SensorsInv' /\ FlagsAnswered
  <1> SUFFICES ASSUME SensorsInv, [SuiteNext]_suiteVars PROVE SensorsInv' /\ FlagsAnswered
    OBVIOUS
  <1>1. CASE UNCHANGED sensVars
    BY <1>1, SensorsMove, OthersKeep DEF sensVars
  <1> QED
    BY <1>1, SensorsMove, OnceKeeps, SplitKeeps, EndsKeeps

LEMMA SensorsTyped == SensorsInv => Split!TypeOK /\ Once!TypeOK
  <1> SUFFICES ASSUME SensorsInv PROVE Split!TypeOK
    BY SameSensors
  <1>1. /\ sens_flags \subseteq Calibrations \cup Failures
        /\ sens_win \in [Calibrations -> WindowStates]
        /\ sens_bias \in [Calibrations -> {"zero", "measured"}]
    BY StateFields DEF SensorsInv, WindowsAnswer, CalStates
  <1>2. \A c \in Calibrations : sens_win[c].n \in 0 .. CalDelay + CalWindow
    BY <1>1 DEF WindowStates
  <1> QED
    BY <1>1, <1>2, CalibrationNames, FailuresAreAll DEF Split!TypeOK, SensorsInv, Shown

(* For every set of sensors, every length of a window, every set of commands *)
(* and with or without an arming calibration: a calibration that was asked   *)
(* for is answered by samples taken after it, an arming fails for a gyro     *)
(* window that failed since, and no processed sample is older than what was  *)
(* read last (sensors/processors.rs, sensors/ingestion.rs, world/service.rs).*)
THEOREM CalibrationIsSound == SuiteSpec => CalibrationSound
  <1>1. SuiteInit => SensorsInv
    BY InitSensorsInv DEF SuiteInit
  <1>2. SensorsInv /\ [SuiteNext]_suiteVars => SensorsInv'
    BY NextSensorsInv
  <1>3. SensorsInv => (subject = "once" => Once!TypeOK)
    BY SensorsTyped
  <1>4. SensorsInv => (subject = "split" =>
          Split!TypeOK /\ Split!ShownIsLatestReading /\ Split!ArmingFailureHasCause)
    BY SensorsTyped DEF SensorsInv, Split!ShownIsLatestReading, Split!ArmingFailureHasCause
  <1>5. SensorsInv /\ [SuiteNext]_suiteVars =>
          [\A c \in Split!Cals : c \in sens_flags \ sens_flags' => ~ sens_win[c].early]_(Split!vars)
    BY NextSensorsInv, CalibrationNames DEF FlagsAnswered
  <1> QED
    BY <1>1, <1>2, <1>3, <1>4, <1>5, PTL
    DEF SuiteSpec, CalibrationSound, Split!RequestAnsweredByItsSamples

-----------------------------------------------------------------------------
(* Telemetry whose rates change, all at once and one by one. What the two    *)
(* have in common is stated for any intervals I that are in range and any    *)
(* streams P that are sent out of turn.                                      *)
InRange(I) ==
  \A s \in TeleStreams :
    TeleDefaults[s] \in I[s] /\ \A i \in I[s] : i \in Int /\ i >= -1 /\ 2 * i <= TeleAge

StreamsTyped(I) ==
  /\ \A s \in TeleStreams : tele_interval[s] \in I[s]
  /\ tele_age \in [TeleStreams -> -1..TeleAge]
  /\ tele_present \subseteq Rates!Sources /\ tele_sent \subseteq Rates!Sampled
  /\ tele_slack \in 0..TeleCapacity
  /\ tele_copies \in [Rates!Sampled -> 0..2]
  /\ tele_debt \in [TeleStreams -> 0..3 * TeleAge]

(* A sample was sent once, by a stream marked as sent, or not at all; what a *)
(* stream sent ahead of its rate and the time since its period began come to *)
(* two intervals at most.                                                    *)
StreamsInv(I, P) ==
  /\ InRange(I) /\ StreamsTyped(I) /\ DOMAIN tele_interval = TeleStreams
  /\ \A s \in Rates!Sampled : tele_copies[s] = 0 \/ (s \in tele_sent /\ tele_copies[s] = 1)
  /\ \A s \in TeleStreams \ P : tele_interval[s] > 0 =>
       /\ tele_age[s] = -1 => tele_debt[s] = 0
       /\ tele_debt[s] > 0 => tele_debt[s] + tele_age[s] <= 2 * tele_interval[s]

LEMMA Limits ==
  /\ TeleAge \in Nat /\ TeleCapacity \in Nat \ {0} /\ DOMAIN TeleDefaults = TeleStreams
  /\ InRange(RatedIntervals) /\ InRange(StagedIntervals)
  /\ TelePriorities \subseteq TeleStreams
  BY RatesAssumed DEF Rates!TelemetryAssumption, Staged!TelemetryAssumption, InRange, Rates!Off,
      Staged!Off

(* What is left of a wait when whole intervals are taken from it.            *)
LEMMA Remains ==
  ASSUME NEW a \in Nat, NEW i \in Nat \ {0}, a >= i
  PROVE  (a % i) \in 0..(i - 1) /\ (a % i) <= a - i
  OBVIOUS

LEMMA Ranges ==
  ASSUME NEW I, InRange(I), StreamsTyped(I), NEW s \in TeleStreams
  PROVE  /\ tele_interval[s] \in Int /\ tele_interval[s] >= -1 /\ 2 * tele_interval[s] <= TeleAge
         /\ tele_age[s] \in Int /\ tele_age[s] >= -1 /\ tele_age[s] <= TeleAge
         /\ tele_debt[s] \in Nat /\ tele_debt[s] <= 3 * TeleAge
  BY Limits DEF StreamsTyped, InRange

LEMMA NextAgeIs ==
  ASSUME NEW I, InRange(I), StreamsTyped(I), NEW s \in TeleStreams, Rates!StreamDue(s)
  PROVE  /\ Rates!NextAge(s) \in 0..TeleAge /\ tele_interval[s] >= 0
         /\ tele_interval[s] > 0 => Rates!NextAge(s) < tele_interval[s]
         /\ tele_interval[s] > 0 /\ tele_age[s] # Rates!New =>
              Rates!NextAge(s) + tele_interval[s] <= tele_age[s]
  <1>1. /\ tele_interval[s] \in Int /\ tele_interval[s] >= 0 /\ 2 * tele_interval[s] <= TeleAge
        /\ tele_age[s] \in Int /\ tele_age[s] >= -1 /\ tele_age[s] <= TeleAge /\ TeleAge \in Nat
        /\ tele_interval[s] > 0 /\ tele_age[s] # Rates!New => tele_age[s] >= tele_interval[s]
    BY Ranges, Limits DEF Rates!StreamDue, Rates!RateDue, Rates!Off, Rates!New
  <1>2. s \in Rates!Fixed \/ s \in Rates!Sampled
    BY DEF Rates!Fixed
  <1>3. CASE s \in Rates!Fixed
    BY <1>1, <1>3 DEF Rates!NextAge, Rates!New
  <1>4. CASE s \in Rates!Sampled /\ tele_age[s] = Rates!New
    BY <1>1, <1>4 DEF Rates!NextAge, Rates!Fixed, Rates!New
  <1>5. CASE s \in Rates!Sampled /\ tele_age[s] # Rates!New
    <2>1. Rates!NextAge(s) = IF tele_interval[s] = 0
                             THEN tele_age[s]
                             ELSE tele_age[s] % tele_interval[s]
      BY <1>5 DEF Rates!NextAge, Rates!Fixed
    <2>2. CASE tele_interval[s] = 0
      BY <1>1, <1>5, <2>1, <2>2 DEF Rates!New
    <2>3. CASE tele_interval[s] # 0
      <3>1. /\ (tele_age[s] % tele_interval[s]) \in 0..(tele_interval[s] - 1)
            /\ (tele_age[s] % tele_interval[s]) <= tele_age[s] - tele_interval[s]
        <4>1. /\ tele_age[s] \in Nat /\ tele_interval[s] \in Nat \ {0}
              /\ tele_age[s] >= tele_interval[s]
          BY <1>1, <1>5, <2>3 DEF Rates!New
        <4> QED
          BY <4>1, Remains
      <3> QED
        BY <1>1, <2>1, <2>3, <3>1
    <2> QED
      BY <2>2, <2>3
  <1> QED
    BY <1>2, <1>3, <1>4, <1>5

LEMMA OlderIs ==
  ASSUME NEW I, InRange(I), StreamsTyped(I), NEW s \in TeleStreams
  PROVE  /\ Rates!Older(s) \in -1..TeleAge
         /\ tele_age[s] # Rates!New => Rates!Older(s) >= 0 /\ Rates!Older(s) <= tele_age[s] + 1
         /\ tele_age[s] = Rates!New => Rates!Older(s) = Rates!New
  <1>1. /\ tele_interval[s] \in Int /\ tele_interval[s] >= -1 /\ 2 * tele_interval[s] <= TeleAge
        /\ tele_age[s] \in Int /\ tele_age[s] >= -1 /\ tele_age[s] <= TeleAge /\ TeleAge \in Nat
    BY Ranges, Limits
  <1> QED
    BY <1>1 DEF Rates!Older, Rates!New, Rates!Off

(* A message of some streams that are due, or of those sent out of turn.     *)
LEMMA SendsKeeps ==
  ASSUME NEW I, NEW P, StreamsInv(I, P), NEW S \in SUBSET TeleStreams, NEW used, S \subseteq used,
         NEW nextAge, Rates!Sends(S, used, nextAge), tele_slack' \in 0..TeleCapacity,
         \A s \in S : Rates!Fresh(s) /\ nextAge[s] \in 0..TeleAge,
         \A s \in S \ P : Rates!StreamDue(s) /\ nextAge[s] = Rates!NextAge(s)
  PROVE  StreamsInv(I, P)'
  <1>1. /\ tele_interval' = tele_interval /\ tele_present' = tele_present
        /\ tele_sent' = tele_sent \cup (used \cap Rates!Sampled)
        /\ tele_age' = [s \in TeleStreams |-> IF s \in S THEN nextAge[s] ELSE tele_age[s]]
        /\ tele_copies' = [s \in Rates!Sampled |-> IF s \in S
                                                   THEN Rates!AtMost(tele_copies[s] + 1, 2)
                                                   ELSE tele_copies[s]]
        /\ tele_debt' = [s \in TeleStreams |->
             IF s \in S /\ tele_interval[s] # Rates!Off
             THEN Rates!AtMost(tele_debt[s] + tele_interval[s], 3 * tele_interval[s])
             ELSE tele_debt[s]]
    BY DEF Rates!Sends
  <1>2. tele_age' \in [TeleStreams -> -1..TeleAge]
    BY <1>1, Limits DEF StreamsInv, StreamsTyped
  <1>3. ASSUME NEW s \in TeleStreams
        PROVE  /\ tele_debt'[s] \in 0..3 * TeleAge
               /\ s \in S /\ tele_interval[s] # Rates!Off =>
                    tele_debt'[s] <= tele_debt[s] + tele_interval[s]
               /\ s \notin S => tele_debt'[s] = tele_debt[s]
    <2>1. /\ tele_interval[s] \in Int /\ tele_interval[s] >= -1
          /\ 2 * tele_interval[s] <= TeleAge /\ TeleAge \in Nat
          /\ tele_debt[s] \in Nat /\ tele_debt[s] <= 3 * TeleAge
      BY Ranges, Limits DEF StreamsInv
    <2>2. tele_debt'[s] = IF s \in S /\ tele_interval[s] # Rates!Off
                          THEN Rates!AtMost(tele_debt[s] + tele_interval[s], 3 * tele_interval[s])
                          ELSE tele_debt[s]
      BY <1>1
    <2> QED
      BY <2>1, <2>2 DEF Rates!AtMost, Rates!Off
  <1>4. tele_debt' \in [TeleStreams -> 0..3 * TeleAge]
    BY <1>1, <1>3
  <1>5. ASSUME NEW s \in Rates!Sampled
        PROVE  /\ tele_copies'[s] \in 0..2
               /\ (tele_copies'[s] = 0 \/ (s \in tele_sent' /\ tele_copies'[s] = 1))
    <2>1. CASE s \in S
      <3>1. tele_copies[s] = 0
        BY <2>1, <1>5 DEF Rates!Fresh, Rates!Fixed, StreamsInv, StreamsTyped
      <3> QED
        BY <1>1, <2>1, <3>1 DEF Rates!AtMost
    <2>2. CASE s \notin S
      BY <1>1, <2>2 DEF StreamsInv
    <2> QED
      BY <2>1, <2>2
  <1>6. StreamsTyped(I)' /\ DOMAIN tele_interval' = TeleStreams
    BY <1>1, <1>2, <1>4, <1>5 DEF StreamsInv, StreamsTyped
  <1>7. ASSUME NEW s \in TeleStreams \ P, tele_interval'[s] > 0
        PROVE  /\ tele_age'[s] = Rates!New => tele_debt'[s] = 0
               /\ tele_debt'[s] > 0 => tele_debt'[s] + tele_age'[s] <= 2 * tele_interval'[s]
    <2>1. /\ tele_interval[s] \in Int /\ tele_interval[s] > 0 /\ tele_interval[s] # Rates!Off
          /\ tele_interval'[s] = tele_interval[s]
          /\ tele_debt[s] \in Nat /\ tele_age[s] \in Int /\ tele_age[s] >= -1
          /\ tele_age'[s] \in Int /\ tele_debt'[s] \in Int
      BY <1>1, <1>2, <1>3, <1>7, Ranges, Limits DEF StreamsInv, Rates!Off
    <2>2. /\ tele_age[s] = Rates!New => tele_debt[s] = 0
          /\ tele_debt[s] > 0 => tele_debt[s] + tele_age[s] <= 2 * tele_interval[s]
      BY <2>1 DEF StreamsInv, Rates!New
    <2>3. CASE s \notin S
      BY <1>1, <1>3, <2>1, <2>2, <2>3
    <2>4. CASE s \in S
      <3>1. /\ tele_age'[s] \in Int /\ tele_age'[s] >= 0 /\ tele_age'[s] < tele_interval[s]
            /\ tele_age[s] # Rates!New => tele_age'[s] + tele_interval[s] <= tele_age[s]
        BY <1>1, <2>1, <2>4, NextAgeIs, Limits DEF StreamsInv
      <3>2. tele_debt'[s] <= tele_debt[s] + tele_interval[s]
        BY <1>3, <2>1, <2>4
      <3> QED
        BY <2>1, <2>2, <3>1, <3>2 DEF Rates!New
    <2> QED
      BY <2>3, <2>4
  <1> QED
    BY <1>5, <1>6, <1>7 DEF StreamsInv, Rates!New

LEMMA TickKeeps ==
  ASSUME NEW I, NEW P, StreamsInv(I, P), NEW new \in SUBSET Rates!Sources, NEW gone,
         Rates!Tick(new, gone)
  PROVE  StreamsInv(I, P)'
  <1>1. /\ tele_interval' = tele_interval /\ tele_present' = (tele_present \cup new) \ gone
        /\ tele_sent' = {s \in tele_sent : TeleSource[s] \notin new}
        /\ tele_age' = [s \in TeleStreams |-> Rates!Older(s)]
        /\ tele_copies' = [s \in Rates!Sampled |-> IF TeleSource[s] \in new
                                                   THEN 0
                                                   ELSE tele_copies[s]]
        /\ tele_debt' = [s \in TeleStreams |-> IF tele_debt[s] = 0 THEN 0 ELSE tele_debt[s] - 1]
        /\ tele_slack' = TeleCapacity
    BY DEF Rates!Tick
  <1>2. tele_age' \in [TeleStreams -> -1..TeleAge]
    BY <1>1, OlderIs DEF StreamsInv
  <1>3. ASSUME NEW s \in TeleStreams
        PROVE  /\ tele_debt'[s] \in 0..3 * TeleAge
               /\ tele_debt[s] > 0 => tele_debt'[s] = tele_debt[s] - 1
               /\ tele_debt[s] = 0 => tele_debt'[s] = 0
    BY <1>1, Ranges, Limits DEF StreamsInv
  <1>4. tele_debt' \in [TeleStreams -> 0..3 * TeleAge]
    BY <1>1, <1>3
  <1>5. \A s \in Rates!Sampled :
          /\ tele_copies'[s] \in 0..2
          /\ (tele_copies'[s] = 0 \/ (s \in tele_sent' /\ tele_copies'[s] = 1))
    BY <1>1 DEF StreamsInv, StreamsTyped
  <1>6. StreamsTyped(I)' /\ DOMAIN tele_interval' = TeleStreams
    BY <1>1, <1>2, <1>4, <1>5, Limits DEF StreamsInv, StreamsTyped
  <1>7. ASSUME NEW s \in TeleStreams \ P, tele_interval'[s] > 0
        PROVE  /\ tele_age'[s] = Rates!New => tele_debt'[s] = 0
               /\ tele_debt'[s] > 0 => tele_debt'[s] + tele_age'[s] <= 2 * tele_interval'[s]
    <2>1. /\ tele_interval[s] \in Int /\ tele_interval[s] > 0
          /\ tele_interval'[s] = tele_interval[s]
          /\ tele_debt[s] \in Nat /\ tele_age[s] \in Int /\ tele_age[s] >= -1
      BY <1>1, <1>7, Ranges DEF StreamsInv
    <2>2. /\ tele_age[s] = Rates!New => tele_debt[s] = 0
          /\ tele_debt[s] > 0 => tele_debt[s] + tele_age[s] <= 2 * tele_interval[s]
      BY <2>1 DEF StreamsInv, Rates!New
    <2>3. /\ tele_age'[s] \in Int
          /\ tele_age[s] # Rates!New => tele_age'[s] >= 0 /\ tele_age'[s] <= tele_age[s] + 1
          /\ tele_age[s] = Rates!New => tele_age'[s] = Rates!New
      BY <1>1, OlderIs, Limits DEF StreamsInv
    <2> QED
      BY <1>3, <2>1, <2>2, <2>3 DEF Rates!New
  <1> QED
    BY <1>5, <1>6, <1>7 DEF StreamsInv, Rates!New

LEMMA UpdateKeeps ==
  ASSUME NEW I, NEW P, StreamsInv(I, P), NEW t \in TeleStreams, NEW i \in I[t],
         tele_interval' = [tele_interval EXCEPT ![t] = i],
         tele_age' = [tele_age EXCEPT ![t] = 0], tele_debt' = [tele_debt EXCEPT ![t] = 0],
         UNCHANGED <<tele_present, tele_sent, tele_slack, tele_copies>>
  PROVE  StreamsInv(I, P)'
  <1>1. /\ DOMAIN tele_interval' = TeleStreams /\ tele_interval'[t] \in I[t]
        /\ \A s \in TeleStreams \ {t} : tele_interval'[s] = tele_interval[s]
    BY DEF StreamsInv
  <1>2. /\ tele_age' \in [TeleStreams -> -1..TeleAge]
        /\ tele_debt' \in [TeleStreams -> 0..3 * TeleAge]
        /\ tele_debt'[t] = 0
        /\ \A s \in TeleStreams \ {t} : tele_debt'[s] = tele_debt[s] /\ tele_age'[s] = tele_age[s]
    BY Limits DEF StreamsInv, StreamsTyped
  <1>3. StreamsTyped(I)'
    BY <1>1, <1>2 DEF StreamsInv, StreamsTyped
  <1> QED
    BY <1>1, <1>2, <1>3 DEF StreamsInv

LEMMA ConfigureKeeps ==
  ASSUME NEW I, NEW P, StreamsInv(I, P), Rates!ConfigureTelemetryFromParams PROVE StreamsInv(I, P)'
  <1>1. /\ tele_age' = [s \in TeleStreams |-> IF s \in Rates!Fixed THEN tele_age[s] ELSE Rates!New]
        /\ tele_debt' = [s \in TeleStreams |-> 0]
        /\ UNCHANGED <<tele_interval, tele_present, tele_sent, tele_slack, tele_copies>>
    BY DEF Rates!ConfigureTelemetryFromParams
  <1>2. /\ tele_age' \in [TeleStreams -> -1..TeleAge]
        /\ tele_debt' \in [TeleStreams -> 0..3 * TeleAge]
        /\ \A s \in TeleStreams : tele_debt'[s] = 0
    BY <1>1, Limits DEF StreamsInv, StreamsTyped, Rates!New
  <1>3. StreamsTyped(I)'
    BY <1>1, <1>2 DEF StreamsInv, StreamsTyped
  <1> QED
    BY <1>1, <1>2, <1>3 DEF StreamsInv


(* Both send, count time and take parameters in the same way.                *)
LEMMA SameStreams ==
  /\ \A S, used, next : Staged!Sends(S, used, next) <=> Rates!Sends(S, used, next)
  /\ \A new, gone : Staged!Tick(new, gone) <=> Rates!Tick(new, gone)
  /\ Staged!ConfigureTelemetryFromParams <=> Rates!ConfigureTelemetryFromParams
  /\ \A s \in TeleStreams :
       (Staged!StreamDue(s) <=> Rates!StreamDue(s)) /\ (Staged!Fresh(s) <=> Rates!Fresh(s))
  /\ Staged!InTurn = Rates!InTurn /\ Staged!Sources = Rates!Sources
  /\ Staged!Sampled = Rates!Sampled
  <1>1. /\ Staged!Sampled = Rates!Sampled /\ Staged!Sources = Rates!Sources
        /\ Staged!Fixed = Rates!Fixed
        /\ Staged!Off = Rates!Off /\ Staged!New = Rates!New
        /\ \A n, m : Staged!AtMost(n, m) = Rates!AtMost(n, m)
    BY DEF Staged!Sampled, Rates!Sampled, Staged!Sources, Rates!Sources, Staged!Fixed, Rates!Fixed,
           Staged!Off, Rates!Off, Staged!New, Rates!New, Staged!AtMost, Rates!AtMost
  <1>2. /\ \A s :
             (Staged!StreamDue(s) <=> Rates!StreamDue(s)) /\ (Staged!Fresh(s) <=> Rates!Fresh(s))
        /\ \A s : Staged!NextAge(s) = Rates!NextAge(s) /\ Staged!Older(s) = Rates!Older(s)
    BY <1>1 DEF Staged!StreamDue, Rates!StreamDue, Staged!Fresh, Rates!Fresh, Staged!RateDue,
        Rates!RateDue,
                Staged!NextAge, Rates!NextAge, Staged!Older, Rates!Older
  <1>3. Staged!InTurn = Rates!InTurn
    BY <1>2 DEF Staged!InTurn, Rates!InTurn
  <1>4. \A S, used, next : Staged!Sends(S, used, next) <=> Rates!Sends(S, used, next)
    BY <1>1 DEF Staged!Sends, Rates!Sends
  <1>5. \A new, gone : Staged!Tick(new, gone) <=> Rates!Tick(new, gone)
    BY <1>1, <1>2 DEF Staged!Tick, Rates!Tick
  <1> QED
    BY <1>1, <1>2, <1>3, <1>4, <1>5
    DEF Staged!ConfigureTelemetryFromParams, Rates!ConfigureTelemetryFromParams

LEMMA InTurnIs ==
  ASSUME NEW I, InRange(I), StreamsTyped(I), NEW s \in TeleStreams, Rates!StreamDue(s)
  PROVE  /\ Rates!Fresh(s) /\ Rates!InTurn[s] = Rates!NextAge(s) /\ Rates!InTurn[s] \in 0..TeleAge
  BY NextAgeIs DEF Rates!InTurn, Rates!StreamDue

LEMMA RatesKeep ==
  ASSUME StreamsInv(RatedIntervals, TelePriorities), Rates!Next
  PROVE  StreamsInv(RatedIntervals, TelePriorities)'
  <1>1. InRange(RatedIntervals) /\ StreamsTyped(RatedIntervals)
        /\ tele_slack \in 0..TeleCapacity /\ TeleCapacity \in Nat
    BY Limits DEF StreamsInv, StreamsTyped
  <1>2. CASE Rates!SendRealtimeTelemetryStream
    <2>1. PICK s \in TeleStreams : Rates!Selected(s) /\ Rates!Sends({s}, {s}, Rates!InTurn)
      BY <1>2 DEF Rates!SendRealtimeTelemetryStream
    <2>2. Rates!StreamDue(s) /\ tele_slack' \in 0..TeleCapacity
      BY <1>1, <1>2, <2>1 DEF Rates!Selected, Rates!SendRealtimeTelemetryStream
    <2> QED
      BY <1>1, <2>1, <2>2, InTurnIs, SendsKeeps
  <1>3. CASE Rates!SendPriorityStream
    <2>1. PICK s \in TelePriorities : \/ Rates!StreamDue(s) /\ Rates!Sends({s}, {s}, Rates!InTurn)
                                     \/ Rates!SendImuIfFresh(s)
      BY <1>3 DEF Rates!SendPriorityStream
    <2>2. s \in TeleStreams /\ tele_slack' \in 0..TeleCapacity
      BY <1>1, <1>3, Limits DEF Rates!SendPriorityStream
    <2>3. CASE Rates!StreamDue(s) /\ Rates!Sends({s}, {s}, Rates!InTurn)
      BY <1>1, <2>2, <2>3, InTurnIs, SendsKeeps
    <2>4. CASE Rates!SendImuIfFresh(s)
      <3>1. Rates!Fresh(s) /\ Rates!Sends({s}, {s}, [t \in TeleStreams |-> 0])
        BY <2>4 DEF Rates!SendImuIfFresh
      <3>2. [t \in TeleStreams |-> 0][s] \in 0..TeleAge
        BY <2>2, Limits
      <3> QED
        BY <2>1, <2>2, <3>1, <3>2, SendsKeeps
    <2> QED
      BY <2>1, <2>3, <2>4
  <1>4. CASE Rates!UpdateTelemetryParam
    BY <1>4, UpdateKeeps DEF Rates!UpdateTelemetryParam
  <1>5. CASE Rates!NextTick
    BY <1>5, TickKeeps DEF Rates!NextTick
  <1>6. ~ Rates!SendNamedTelemetryStreams
    BY DEF Rates!SendNamedTelemetryStreams
  <1> QED
    BY <1>2, <1>3, <1>4, <1>5, <1>6, ConfigureKeeps DEF Rates!Next

LEMMA StagedKeep ==
  ASSUME StreamsInv(StagedIntervals, {}), Staged!Next
  PROVE  StreamsInv(StagedIntervals, {})'
  <1>1. InRange(StagedIntervals) /\ StreamsTyped(StagedIntervals)
        /\ tele_slack \in 0..TeleCapacity /\ TeleCapacity \in Nat
    BY Limits DEF StreamsInv, StreamsTyped
  <1>2. CASE Staged!SendNamedTelemetryStreams
    <2> DEFINE due == {s \in TeleStreams : Staged!StreamDue(s)}
               idle == {s \in TeleStreams :
                          s = "OutputRaw" /\ Staged!Fresh(s) /\ tele_interval[s] = 0}
    <2>1. Staged!Sends(due, due \cup idle, Staged!InTurn) /\ tele_slack' \in 0..TeleCapacity
      BY <1>1, <1>2 DEF Staged!SendNamedTelemetryStreams
    <2>2. Rates!Sends(due, due \cup idle, Rates!InTurn)
      BY <2>1, SameStreams
    <2>3. due \in SUBSET TeleStreams /\ \A s \in due : s \in TeleStreams /\ Rates!StreamDue(s)
      BY SameStreams
    <2> HIDE DEF due, idle
    <2> QED
      BY <1>1, <2>1, <2>2, <2>3, InTurnIs, SendsKeeps
  <1>3. CASE Staged!UpdateTelemetryParam
    BY <1>3, UpdateKeeps DEF Staged!UpdateTelemetryParam
  <1>4. CASE Staged!NextTick
    BY <1>4, SameStreams, TickKeeps DEF Staged!NextTick
  <1>5. ~ Staged!SendRealtimeTelemetryStream /\ ~ Staged!SendPriorityStream
    BY DEF Staged!SendRealtimeTelemetryStream, Staged!SendPriorityStream
  <1> QED
    BY <1>2, <1>3, <1>4, <1>5, SameStreams, ConfigureKeeps DEF Staged!Next

LEMMA InitStreams ==
  ASSUME NEW I, NEW P, InRange(I), Rates!Init PROVE StreamsInv(I, P)
  <1>1. StreamsTyped(I)
    BY Limits DEF Rates!Init, StreamsTyped, InRange, Rates!New
  <1> QED
    BY <1>1, Limits DEF Rates!Init, StreamsInv

LEMMA StreamsKeepRates ==
  ASSUME NEW I, NEW P, StreamsInv(I, P)
  PROVE  /\ \A s \in Rates!Sampled : tele_copies[s] <= 1
         /\ \A s \in TeleStreams \ P :
              tele_interval[s] \notin {-1, 0} => tele_debt[s] <= 2 * tele_interval[s]
  <1>1. \A s \in Rates!Sampled : tele_copies[s] <= 1
    BY DEF StreamsInv
  <1>2. ASSUME NEW s \in TeleStreams \ P, tele_interval[s] \notin {-1, 0}
        PROVE  tele_debt[s] <= 2 * tele_interval[s]
    <2>1. /\ tele_interval[s] \in Int /\ tele_interval[s] > 0 /\ tele_age[s] \in Int
          /\ tele_age[s] >= -1
          /\ tele_debt[s] \in Nat
      BY <1>2, Ranges DEF StreamsInv
    <2> QED
      BY <2>1 DEF StreamsInv, Rates!New
  <1> QED
    BY <1>1, <1>2

-----------------------------------------------------------------------------
(* Telemetry at fixed rates under the realtime scheduler.                    *)
(* The streams that are not selected before s any more.                      *)
After(s) ==
  {t \in BusyStreams \ {s} :
     \/ Busy!Deadline(s) < Busy!Deadline(t)
     \/ Busy!Deadline(s) = Busy!Deadline(t) /\ TelePlace[s] < TelePlace[t]
     \/ tele_interval[t] = 0 /\ tele_age[t] # Busy!New}

Waited == IF tele_slack < BusyCapacity THEN 1 ELSE 0

BusyInv ==
  /\ Busy!TypeOK /\ tele_interval = BusyRates
  /\ \A s \in Busy!Fixed :
       /\ tele_age[s] # Busy!New
       /\ tele_age[s] >= tele_interval[s] =>
            Cardinality(After(s)) >= tele_age[s] - tele_interval[s] + Waited

LEMMA BusyNumbers ==
  /\ BusyAge \in Nat /\ BusyCapacity \in Nat \ {0} /\ DOMAIN BusyRates = BusyStreams
  /\ IsFiniteSet(BusyStreams) /\ Cardinality(BusyStreams) \in Nat
  /\ \A s \in BusyStreams :
       /\ Only(BusyRates)[s] = {BusyRates[s]} /\ TelePlace[s] \in Nat
       /\ BusyRates[s] \in Int /\ BusyRates[s] >= -1 /\ 2 * BusyRates[s] <= BusyAge
  /\ \A s \in Busy!Fixed :
       s \in BusyStreams /\ BusyRates[s] > 0 /\ BusyRates[s] + Cardinality(BusyStreams) <= BusyAge
  <1>1. IsFiniteSet(BusyStreams) /\ Cardinality(BusyStreams) \in Nat
    BY BusyAssumed, FS_CardinalityType DEF Busy!TelemetryAssumption, Busy!IsFiniteSet, IsFiniteSet
  <1>2. DOMAIN BusyRates = BusyStreams /\ \A s \in BusyStreams : Only(BusyRates)[s] = {BusyRates[s]}
    BY BusyAssumed DEF Busy!TelemetryAssumption, Only
  <1> QED
    BY <1>1, <1>2, BusyAssumed DEF Busy!TelemetryAssumption, Busy!Off, Busy!Fixed

LEMMA BusyCounts == \A S : Busy!Cardinality(S) = Cardinality(S)
  BY DEF Busy!Cardinality, Cardinality

LEMMA BusyRanges ==
  ASSUME Busy!TypeOK, tele_interval = BusyRates, NEW s \in BusyStreams
  PROVE  /\ tele_interval[s] \in Int /\ tele_interval[s] >= -1 /\ 2 * tele_interval[s] <= BusyAge
         /\ tele_age[s] \in Int /\ tele_age[s] >= -1 /\ tele_age[s] <= BusyAge
         /\ tele_debt[s] \in Nat /\ tele_debt[s] <= 3 * BusyAge
  BY BusyNumbers DEF Busy!TypeOK

LEMMA BusyNextAge ==
  ASSUME BusyInv, NEW s \in BusyStreams, Busy!StreamDue(s)
  PROVE  /\ Busy!NextAge(s) \in 0..BusyAge /\ tele_interval[s] >= 0
         /\ tele_interval[s] > 0 => Busy!NextAge(s) < tele_interval[s]
         /\ s \in Busy!Fixed => Busy!NextAge(s) = 0 /\ tele_interval[s] > 0
  <1>1. /\ tele_interval[s] \in Int /\ tele_interval[s] >= 0 /\ 2 * tele_interval[s] <= BusyAge
        /\ tele_age[s] \in Int /\ tele_age[s] >= -1 /\ tele_age[s] <= BusyAge /\ BusyAge \in Nat
        /\ tele_interval[s] > 0 /\ tele_age[s] # Busy!New => tele_age[s] >= tele_interval[s]
        /\ s \in Busy!Fixed => tele_interval[s] > 0
    BY BusyRanges, BusyNumbers DEF BusyInv, Busy!StreamDue, Busy!RateDue, Busy!Off, Busy!New
  <1>2. s \in Busy!Fixed \/ s \in Busy!Sampled
    BY DEF Busy!Fixed
  <1>3. CASE s \in Busy!Fixed
    BY <1>1, <1>3 DEF Busy!NextAge, Busy!New, Busy!Fixed
  <1>4. CASE s \in Busy!Sampled /\ tele_age[s] = Busy!New
    BY <1>1, <1>4 DEF Busy!NextAge, Busy!Fixed, Busy!New
  <1>5. CASE s \in Busy!Sampled /\ tele_age[s] # Busy!New
    <2>1. Busy!NextAge(s) = IF tele_interval[s] = 0
                            THEN tele_age[s]
                            ELSE tele_age[s] % tele_interval[s]
      BY <1>5 DEF Busy!NextAge, Busy!Fixed
    <2>2. CASE tele_interval[s] = 0
      BY <1>1, <1>5, <2>1, <2>2 DEF Busy!New, Busy!Fixed
    <2>3. CASE tele_interval[s] # 0
      <3>1. tele_age[s] \in Nat /\ tele_interval[s] \in Nat \ {0} /\ tele_age[s] >= tele_interval[s]
        BY <1>1, <1>5, <2>3 DEF Busy!New
      <3>2. /\ (tele_age[s] % tele_interval[s]) \in 0..(tele_interval[s] - 1)
            /\ (tele_age[s] % tele_interval[s]) <= tele_age[s] - tele_interval[s]
        BY <3>1, Remains
      <3> QED
        BY <1>1, <1>5, <2>1, <2>3, <3>2 DEF Busy!Fixed
    <2> QED
      BY <2>2, <2>3
  <1> QED
    BY <1>2, <1>3, <1>4, <1>5

LEMMA BusyOlder ==
  ASSUME Busy!TypeOK, tele_interval = BusyRates, NEW s \in BusyStreams
  PROVE  /\ Busy!Older(s) \in -1..BusyAge
         /\ tele_age[s] # Busy!New => Busy!Older(s) >= 0 /\ Busy!Older(s) <= tele_age[s] + 1
         /\ tele_age[s] = Busy!New => Busy!Older(s) = Busy!New
         /\ tele_interval[s] > 0 /\ tele_age[s] # Busy!New /\ tele_age[s] < BusyAge =>
              Busy!Older(s) = tele_age[s] + 1
         /\ tele_interval[s] <= 0 => Busy!Older(s) = tele_age[s]
  <1>1. /\ tele_interval[s] \in Int /\ tele_interval[s] >= -1 /\ 2 * tele_interval[s] <= BusyAge
        /\ tele_age[s] \in Int /\ tele_age[s] >= -1 /\ tele_age[s] <= BusyAge /\ BusyAge \in Nat
    BY BusyRanges, BusyNumbers
  <1> QED
    BY <1>1 DEF Busy!Older, Busy!New, Busy!Off

LEMMA BusySendsTyped ==
  ASSUME Busy!TypeOK, NEW S \in SUBSET BusyStreams, NEW used, NEW nextAge,
         Busy!Sends(S, used, nextAge),
         tele_slack' \in 0..BusyCapacity, \A s \in S : nextAge[s] \in 0..BusyAge
  PROVE  Busy!TypeOK'
  <1>1. /\ tele_interval' = tele_interval /\ tele_present' = tele_present
        /\ tele_sent' = tele_sent \cup (used \cap Busy!Sampled)
        /\ tele_age' = [s \in BusyStreams |-> IF s \in S THEN nextAge[s] ELSE tele_age[s]]
        /\ tele_copies' = [s \in Busy!Sampled |-> IF s \in S
                                                  THEN Busy!AtMost(tele_copies[s] + 1, 2)
                                                  ELSE tele_copies[s]]
        /\ tele_debt' = [s \in BusyStreams |->
             IF s \in S /\ tele_interval[s] # Busy!Off
             THEN Busy!AtMost(tele_debt[s] + tele_interval[s], 3 * tele_interval[s])
             ELSE tele_debt[s]]
    BY DEF Busy!Sends
  <1>2. tele_age' \in [BusyStreams -> -1..BusyAge]
    BY <1>1, BusyNumbers DEF Busy!TypeOK
  <1>3. \A s \in BusyStreams : tele_debt'[s] \in 0..3 * BusyAge
    <2> SUFFICES ASSUME NEW s \in BusyStreams PROVE tele_debt'[s] \in 0..3 * BusyAge
      OBVIOUS
    <2>1. /\ tele_interval[s] \in Int /\ tele_interval[s] >= -1
          /\ 2 * tele_interval[s] <= BusyAge /\ BusyAge \in Nat
          /\ tele_debt[s] \in Nat /\ tele_debt[s] <= 3 * BusyAge
      BY BusyNumbers DEF Busy!TypeOK
    <2>2. tele_debt'[s] = IF s \in S /\ tele_interval[s] # Busy!Off
                          THEN Busy!AtMost(tele_debt[s] + tele_interval[s], 3 * tele_interval[s])
                          ELSE tele_debt[s]
      BY <1>1
    <2> QED
      BY <2>1, <2>2 DEF Busy!AtMost, Busy!Off
  <1>4. \A s \in Busy!Sampled : tele_copies'[s] \in 0..2
    BY <1>1 DEF Busy!TypeOK, Busy!AtMost
  <1> QED
    BY <1>1, <1>2, <1>3, <1>4 DEF Busy!TypeOK

LEMMA BusyTickTyped ==
  ASSUME BusyInv, NEW new \in SUBSET Busy!Sources, NEW gone, Busy!Tick(new, gone)
  PROVE  Busy!TypeOK'
  <1>1. /\ tele_interval' = tele_interval /\ tele_present' = (tele_present \cup new) \ gone
        /\ tele_sent' = {s \in tele_sent : TeleSource[s] \notin new}
        /\ tele_age' = [s \in BusyStreams |-> Busy!Older(s)]
        /\ tele_copies' = [s \in Busy!Sampled |-> IF TeleSource[s] \in new
                                                  THEN 0
                                                  ELSE tele_copies[s]]
        /\ tele_debt' = [s \in BusyStreams |-> IF tele_debt[s] = 0 THEN 0 ELSE tele_debt[s] - 1]
        /\ tele_slack' = BusyCapacity
    BY DEF Busy!Tick
  <1>2. tele_age' \in [BusyStreams -> -1..BusyAge]
    BY <1>1, BusyOlder DEF BusyInv
  <1>3. tele_debt' \in [BusyStreams -> 0..3 * BusyAge]
    <2>1. \A s \in BusyStreams : tele_debt'[s] \in 0..3 * BusyAge
      BY <1>1, BusyNumbers DEF BusyInv, Busy!TypeOK
    <2> QED
      BY <1>1, <2>1
  <1>4. tele_copies' \in [Busy!Sampled -> 0..2]
    BY <1>1 DEF BusyInv, Busy!TypeOK
  <1> QED
    BY <1>1, <1>2, <1>3, <1>4, BusyNumbers DEF BusyInv, Busy!TypeOK

LEMMA BusyDeadline ==
  ASSUME BusyInv, NEW s \in BusyStreams
  PROVE  /\ Busy!Deadline(s) \in Int
         /\ s \in Busy!Fixed => Busy!Deadline(s) = tele_interval[s] - tele_age[s]
         /\ tele_age[s] # Busy!New /\ tele_interval[s] # 0 =>
              Busy!Deadline(s) = tele_interval[s] - tele_age[s]
         /\ tele_age[s] # Busy!New /\ tele_interval[s] = 0 => Busy!Deadline(s) = 0
         /\ tele_age[s] = Busy!New => Busy!Deadline(s) = - (BusyAge + 1)
  <1>1. /\ tele_interval[s] \in Int /\ tele_age[s] \in Int /\ BusyAge \in Nat
        /\ s \in Busy!Fixed => tele_interval[s] > 0 /\ tele_age[s] # Busy!New
    BY BusyRanges, BusyNumbers DEF BusyInv
  <1>2. s \in Busy!Fixed <=> s \notin Busy!Sampled
    BY DEF Busy!Fixed
  <1> QED
    BY <1>1, <1>2 DEF Busy!Deadline

LEMMA AfterCounts ==
  ASSUME NEW s \in BusyStreams
  PROVE  /\ IsFiniteSet(After(s)) /\ After(s) \subseteq BusyStreams \ {s}
         /\ Cardinality(After(s)) \in Nat
         /\ Cardinality(After(s)) <= Cardinality(BusyStreams \ {s})
         /\ Cardinality(BusyStreams \ {s}) = Cardinality(BusyStreams) - 1
         /\ Cardinality(BusyStreams \ {s}) \in Nat
  <1>1. After(s) \subseteq BusyStreams \ {s} /\ IsFiniteSet(BusyStreams \ {s})
    BY BusyNumbers, FS_RemoveElement DEF After
  <1> QED
    BY <1>1, BusyNumbers, FS_Subset, FS_CardinalityType, FS_RemoveElement

LEMMA NeverLate == BusyInv => Busy!LatenessBounded
  <1> SUFFICES ASSUME BusyInv, NEW s \in Busy!Fixed
               PROVE  tele_age[s] <= tele_interval[s] + Cardinality(BusyStreams \ {s})
    BY BusyCounts DEF Busy!LatenessBounded
  <1>1. s \in BusyStreams
    BY DEF Busy!Fixed
  <1>2. tele_interval[s] \in Int /\ tele_age[s] \in Int
    BY <1>1, BusyRanges DEF BusyInv
  <1>3. /\ Cardinality(After(s)) \in Nat /\ Cardinality(BusyStreams \ {s}) \in Int
        /\ Cardinality(After(s)) <= Cardinality(BusyStreams \ {s})
    <2>1. /\ Cardinality(After(s)) \in Nat /\ Cardinality(BusyStreams \ {s}) \in Nat
          /\ Cardinality(After(s)) <= Cardinality(BusyStreams \ {s})
      BY <1>1, AfterCounts
    <2> QED
      BY <2>1
  <1>4. tele_age[s] >= tele_interval[s] =>
          Cardinality(After(s)) >= tele_age[s] - tele_interval[s] + Waited
    BY DEF BusyInv
  <1>5. Waited \in 0..1
    BY DEF Waited
  <1> QED
    BY <1>2, <1>3, <1>4, <1>5

LEMMA LateIsDue ==
  ASSUME BusyInv, NEW s \in Busy!Fixed, tele_age[s] >= tele_interval[s]
  PROVE  Busy!StreamDue(s) /\ tele_age[s] < BusyAge
  <1>1. /\ s \in BusyStreams /\ tele_interval[s] > 0
        /\ tele_interval[s] + Cardinality(BusyStreams) <= BusyAge
    BY BusyNumbers DEF BusyInv, Busy!Fixed
  <1>2. /\ tele_interval[s] \in Int /\ tele_age[s] \in Int /\ BusyAge \in Nat
        /\ Cardinality(BusyStreams) \in Nat
        /\ Cardinality(BusyStreams \ {s}) = Cardinality(BusyStreams) - 1
    BY <1>1, BusyRanges, BusyNumbers, AfterCounts DEF BusyInv
  <1>3. tele_age[s] <= tele_interval[s] + Cardinality(BusyStreams \ {s})
    BY NeverLate, BusyCounts DEF Busy!LatenessBounded
  <1>4. Busy!StreamDue(s)
    BY <1>1, <1>2 DEF Busy!StreamDue, Busy!Fresh, Busy!RateDue, Busy!Off
  <1> QED
    BY <1>1, <1>2, <1>3, <1>4

(* A message: the stream that sends it comes after those that wait longer.   *)
LEMMA SendKeepsWaiting ==
  ASSUME BusyInv, Busy!TypeOK', tele_interval' = tele_interval, NEW t \in BusyStreams,
         Busy!Selected(t), tele_slack > 0, tele_slack' = tele_slack - 1,
         tele_age' = [u \in BusyStreams |-> IF u \in {t} THEN Busy!InTurn[u] ELSE tele_age[u]]
  PROVE  BusyInv'
  <1>1. /\ Busy!StreamDue(t) /\ tele_age'[t] = Busy!NextAge(t)
        /\ \A u \in BusyStreams \ {t} : tele_age'[u] = tele_age[u]
    BY DEF Busy!Selected, Busy!InTurn
  <1>2. /\ tele_age'[t] \in Int /\ tele_age'[t] >= 0 /\ tele_interval[t] >= 0
        /\ tele_interval[t] \in Int
        /\ tele_interval[t] > 0 => tele_age'[t] < tele_interval[t]
        /\ t \in Busy!Fixed => tele_age'[t] = 0 /\ tele_interval[t] > 0
    BY <1>1, BusyNextAge, BusyRanges, BusyNumbers DEF BusyInv
  <1>3. ASSUME NEW s \in Busy!Fixed
        PROVE  /\ tele_age'[s] # Busy!New
               /\ tele_age'[s] >= tele_interval'[s] =>
                    Cardinality(After(s)') >= tele_age'[s] - tele_interval'[s] + Waited'
    <2>1. /\ s \in BusyStreams /\ tele_interval[s] \in Int /\ tele_interval[s] > 0
          /\ tele_age[s] \in Int /\ tele_age[s] # Busy!New
      BY BusyRanges, BusyNumbers DEF Busy!Fixed, BusyInv
    <2>2. CASE s = t
      BY <1>2, <2>1, <2>2 DEF Busy!New
    <2>3. CASE s # t /\ tele_age[s] < tele_interval[s]
      BY <1>1, <2>1, <2>3
    <2>4. CASE s # t /\ tele_age[s] >= tele_interval[s]
      <3>1. tele_age'[s] = tele_age[s] /\ tele_interval' = tele_interval
        BY <1>1, <2>1, <2>4
      <3>2. /\ Busy!Deadline(s) = tele_interval[s] - tele_age[s]
            /\ Busy!Deadline(s)' = Busy!Deadline(s)
        <4>1. s \notin Busy!Sampled /\ tele_interval[s] # 0
          BY <2>1 DEF Busy!Fixed
        <4> QED
          BY <3>1, <4>1 DEF Busy!Deadline
      <3>3. \A u \in BusyStreams \ {t} : Busy!Deadline(u)' = Busy!Deadline(u)
        BY <1>1, <3>1 DEF Busy!Deadline
      <3>4. t \in After(s)'
        <4>1. CASE tele_interval[t] = 0
          BY <1>2, <2>4, <3>1, <4>1 DEF After, Busy!New
        <4>2. CASE tele_interval[t] # 0
          <5>1. Busy!Deadline(t)' = tele_interval[t] - tele_age'[t]
            BY <1>2, <3>1, <4>2 DEF Busy!Deadline, Busy!New
          <5>2. Busy!Deadline(s)' < Busy!Deadline(t)'
            BY <1>2, <2>1, <2>4, <3>2, <4>2, <5>1
          <5> QED
            BY <2>4, <5>2 DEF After
        <4> QED
          BY <4>1, <4>2
      <3>5. After(s) \cup {t} \subseteq After(s)'
        <4>1. ASSUME NEW u \in After(s), u # t PROVE u \in After(s)'
          BY <1>1, <3>1, <3>2, <3>3, <4>1 DEF After
        <4> QED
          BY <3>4, <4>1
      <3>6. /\ IsFiniteSet(After(s)) /\ IsFiniteSet(After(s)')
            /\ Cardinality(After(s)) \in Nat /\ Cardinality(After(s)') \in Nat
        <4>1. After(s)' \subseteq BusyStreams
          BY DEF After
        <4> QED
          BY <2>1, <4>1, AfterCounts, BusyNumbers, FS_Subset, FS_CardinalityType
      <3>7. /\ Cardinality(After(s) \cup {t}) <= Cardinality(After(s)')
            /\ t \notin After(s) => Cardinality(After(s) \cup {t}) = Cardinality(After(s)) + 1
            /\ t \in After(s) => After(s) \cup {t} = After(s)
            /\ Cardinality(After(s) \cup {t}) >= 1
            /\ Cardinality(After(s) \cup {t}) \in Nat
        <4>1. IsFiniteSet(After(s) \cup {t}) /\ Cardinality(After(s) \cup {t}) =
                IF t \in After(s) THEN Cardinality(After(s)) ELSE Cardinality(After(s)) + 1
          BY <3>6, FS_AddElement
        <4>2. Cardinality(After(s) \cup {t}) # 0
          BY <4>1, FS_EmptySet
        <4>3. Cardinality(After(s) \cup {t}) <= Cardinality(After(s)')
          BY <3>5, <3>6, FS_Subset
        <4> QED
          BY <4>1, <4>2, <4>3, FS_CardinalityType
      <3>8. t \in After(s) => tele_age[s] = tele_interval[s]
        <4>1. ASSUME t \in After(s) PROVE tele_age[s] = tele_interval[s]
          <5>1. /\ Busy!Deadline(t) \in Int /\ Busy!Deadline(s) \in Int
                /\ Busy!StreamDue(s) /\ TelePlace[s] \in Nat /\ TelePlace[t] \in Nat
            BY <2>1, <2>4, BusyDeadline, LateIsDue, BusyNumbers
          <5>2. \/ Busy!Deadline(t) < Busy!Deadline(s)
                \/ (Busy!Deadline(t) = Busy!Deadline(s) /\ TelePlace[t] < TelePlace[s])
            BY <2>1, <2>4, <5>1 DEF Busy!Selected
          <5>3. tele_interval[t] = 0 /\ tele_age[t] # Busy!New
            BY <4>1, <5>1, <5>2 DEF After
          <5>4. Busy!Deadline(t) = 0
            BY <5>3, BusyDeadline
          <5> QED
            BY <2>1, <2>4, <3>2, <5>1, <5>2, <5>4
        <4> QED
          BY <4>1
      <3>9. /\ Waited \in 0..1 /\ Waited' = 1
            /\ Cardinality(After(s)) >= tele_age[s] - tele_interval[s] + Waited
        <4>1. tele_slack' < BusyCapacity /\ tele_slack \in Int
          BY BusyNumbers DEF BusyInv, Busy!TypeOK
        <4> QED
          BY <2>4, <4>1 DEF BusyInv, Waited
      <3>10. Waited = 0 \/ t \in After(s) \/ t \notin After(s)
        OBVIOUS
      <3> QED
        BY <2>1, <2>4, <3>1, <3>6, <3>7, <3>8, <3>9 DEF Busy!New
    <2> QED
      BY <2>1, <2>2, <2>3, <2>4
  <1> QED
    BY <1>3 DEF BusyInv

LEMMA TickKeepsWaiting ==
  ASSUME BusyInv, Busy!TypeOK', tele_interval' = tele_interval, tele_slack' = BusyCapacity,
         tele_slack = 0 \/ \A s \in BusyStreams : ~ Busy!StreamDue(s),
         tele_age' = [u \in BusyStreams |-> Busy!Older(u)]
  PROVE  BusyInv'
  <1>1. Waited' = 0
    BY BusyNumbers DEF Waited
  <1>2. ASSUME NEW s \in Busy!Fixed
        PROVE  /\ tele_age'[s] # Busy!New
               /\ tele_age'[s] >= tele_interval'[s] =>
                    Cardinality(After(s)') >= tele_age'[s] - tele_interval'[s] + Waited'
    <2>1. /\ s \in BusyStreams /\ tele_interval[s] \in Int /\ tele_interval[s] > 0
          /\ tele_age[s] \in Int /\ tele_age[s] # Busy!New
          /\ 2 * tele_interval[s] <= BusyAge /\ BusyAge \in Nat /\ tele_age[s] <= BusyAge
          /\ tele_age[s] >= -1
      BY BusyRanges, BusyNumbers DEF Busy!Fixed, BusyInv
    <2>2. tele_age[s] < BusyAge
      BY <2>1, LateIsDue
    <2>3. tele_age'[s] = tele_age[s] + 1
      BY <2>1, <2>2, BusyOlder DEF BusyInv
    <2>4. IsFiniteSet(After(s)') /\ Cardinality(After(s)') \in Nat
      <3>1. After(s)' \subseteq BusyStreams
        BY DEF After
      <3> QED
        BY <3>1, BusyNumbers, FS_Subset, FS_CardinalityType
    <2>5. CASE tele_age[s] < tele_interval[s]
      BY <1>1, <2>1, <2>3, <2>4, <2>5 DEF Busy!New
    <2>6. CASE tele_age[s] >= tele_interval[s]
      <3>1. tele_slack = 0 /\ Waited = 1
        BY <2>6, <2>1, LateIsDue, BusyNumbers DEF Waited
      <3>2. Cardinality(After(s)) >= tele_age[s] - tele_interval[s] + 1
        BY <2>6, <3>1 DEF BusyInv
      <3>3. /\ Busy!Deadline(s) = tele_interval[s] - tele_age[s]
            /\ Busy!Deadline(s)' = Busy!Deadline(s) - 1
        <4>1. s \notin Busy!Sampled /\ tele_interval[s] # 0
          BY <2>1 DEF Busy!Fixed
        <4>2. Busy!Deadline(s) = tele_interval[s] - tele_age[s]
          BY <4>1 DEF Busy!Deadline
        <4>3. Busy!Deadline(s)' = tele_interval[s] - tele_age'[s]
          BY <4>1 DEF Busy!Deadline
        <4> QED
          BY <2>1, <2>3, <4>2, <4>3
      <3>4. ASSUME NEW t \in After(s) PROVE t \in After(s)'
        <4>1. /\ t \in BusyStreams /\ t # s /\ tele_interval[t] \in Int /\ tele_age[t] \in Int
              /\ tele_age[t] >= -1
              /\ Busy!Deadline(t) \in Int
          BY BusyRanges, BusyDeadline DEF After, BusyInv
        <4>2. tele_age'[t] = Busy!Older(t)
          BY <4>1
        <4>3. tele_age[t] # Busy!New
          <5>1. tele_age[t] = Busy!New => Busy!Deadline(t) < Busy!Deadline(s)
            BY <2>1, <3>3, <4>1, BusyDeadline
          <5> QED
            BY <2>1, <3>3, <4>1, <5>1 DEF After
        <4>4. /\ tele_age'[t] \in Int /\ tele_age'[t] >= 0 /\ tele_age'[t] <= tele_age[t] + 1
              /\ (tele_interval[t] <= 0 => tele_age'[t] = tele_age[t])
          BY <4>1, <4>2, <4>3, BusyOlder, BusyNumbers DEF BusyInv
        <4>5. CASE tele_interval[t] = 0
          BY <4>1, <4>4, <4>5 DEF After, Busy!New
        <4>6. CASE tele_interval[t] # 0
          <5>1. Busy!Deadline(t) = tele_interval[t] - tele_age[t]
            BY <4>1, <4>3, <4>6, BusyDeadline
          <5>2. Busy!Deadline(t)' = tele_interval[t] - tele_age'[t]
            BY <4>4, <4>6 DEF Busy!Deadline, Busy!New
          <5>3. \/ Busy!Deadline(s) < Busy!Deadline(t)
                \/ Busy!Deadline(s) = Busy!Deadline(t) /\ TelePlace[s] < TelePlace[t]
            BY <4>6 DEF After
          <5>4. \/ Busy!Deadline(s)' < Busy!Deadline(t)'
                \/ Busy!Deadline(s)' = Busy!Deadline(t)' /\ TelePlace[s] < TelePlace[t]
            BY <2>1, <3>3, <4>1, <4>4, <5>1, <5>2, <5>3
          <5> QED
            BY <4>1, <5>4 DEF After
        <4> QED
          BY <4>5, <4>6
      <3>5. Cardinality(After(s)) <= Cardinality(After(s)') /\ Cardinality(After(s)) \in Nat
        BY <2>1, <2>4, <3>4, FS_Subset, AfterCounts
      <3> QED
        BY <1>1, <2>1, <2>3, <2>4, <3>2, <3>5 DEF Busy!New
    <2> QED
      BY <2>1, <2>5, <2>6
  <1> QED
    BY <1>2 DEF BusyInv

LEMMA BusyKeeps == ASSUME BusyInv, Busy!Next PROVE BusyInv'
  <1>1. /\ ~ Busy!SendPriorityStream /\ ~ Busy!SendNamedTelemetryStreams
        /\ ~ Busy!ConfigureTelemetryFromParams
    BY BusyAssumed DEF Busy!SendPriorityStream, Busy!SendNamedTelemetryStreams,
        Busy!ConfigureTelemetryFromParams
  <1>2. ~ Busy!UpdateTelemetryParam
    <2>1. \A s \in BusyStreams : Only(BusyRates)[s] \ {tele_interval[s]} = {}
      BY BusyNumbers DEF BusyInv
    <2> QED
      BY <2>1 DEF Busy!UpdateTelemetryParam
  <1>3. CASE Busy!SendRealtimeTelemetryStream
    <2>1. PICK s \in BusyStreams : Busy!Selected(s) /\ Busy!Sends({s}, {s}, Busy!InTurn)
      BY <1>3 DEF Busy!SendRealtimeTelemetryStream
    <2>2. tele_slack > 0 /\ tele_slack' = tele_slack - 1 /\ tele_slack' \in 0..BusyCapacity
      BY <1>3, BusyNumbers DEF Busy!SendRealtimeTelemetryStream, BusyInv, Busy!TypeOK
    <2>3. Busy!StreamDue(s) /\ Busy!InTurn[s] \in 0..BusyAge
      BY <2>1, BusyNextAge DEF Busy!Selected, Busy!InTurn
    <2>4. /\ tele_interval' = tele_interval
          /\ tele_age' = [u \in BusyStreams |-> IF u \in {s} THEN Busy!InTurn[u] ELSE tele_age[u]]
      BY <2>1 DEF Busy!Sends
    <2>5. Busy!TypeOK'
      BY <2>1, <2>2, <2>3, BusySendsTyped DEF BusyInv
    <2> QED
      BY <2>1, <2>2, <2>4, <2>5, SendKeepsWaiting
  <1>4. CASE Busy!NextTick
    <2>1. PICK new \in SUBSET Busy!Sources :
            \E gone \in SUBSET (Busy!Sources \ new) : Busy!Tick(new, gone)
      BY <1>4 DEF Busy!NextTick
    <2>2. PICK gone \in SUBSET (Busy!Sources \ new) : Busy!Tick(new, gone)
      BY <2>1
    <2>3. Busy!TypeOK'
      BY <2>2, BusyTickTyped DEF BusyInv
    <2> QED
      BY <2>2, <2>3, TickKeepsWaiting DEF Busy!Tick
  <1> QED
    BY <1>1, <1>2, <1>3, <1>4 DEF Busy!Next

LEMMA InitBusyInv == Busy!Init => BusyInv
  <1> SUFFICES ASSUME Busy!Init PROVE BusyInv
    OBVIOUS
  <1>1. Busy!TypeOK
    BY BusyNumbers DEF Busy!Init, Busy!TypeOK, Busy!New
  <1>2. ASSUME NEW s \in Busy!Fixed PROVE tele_age[s] # Busy!New /\ tele_age[s] < tele_interval[s]
    BY BusyNumbers DEF Busy!Init, Busy!New, Busy!Fixed
  <1>3. \A s \in Busy!Fixed : tele_interval[s] \in Int /\ tele_age[s] \in Int
    BY BusyNumbers DEF Busy!Init, Busy!New, Busy!Fixed
  <1> QED
    BY <1>1, <1>2, <1>3 DEF Busy!Init, BusyInv

-----------------------------------------------------------------------------
(* Telemetry at fixed rates with slack for all of it.                        *)
Due == {s \in DrainStreams : Drain!StreamDue(s)}

(* There is slack for each stream that is due.                               *)
DrainInv == /\ feed_interval = DrainRates /\ feed_slack \in 0..DrainCapacity
            /\ Cardinality(Due) <= feed_slack

LEMMA DrainFacts ==
  /\ DrainCapacity \in Nat /\ IsFiniteSet(DrainStreams) /\ Cardinality(DrainStreams) \in Nat
  /\ \A s \in DrainStreams :
       DrainRates[s] \in Int /\ (DrainRates[s] = Drain!Off \/ DrainRates[s] >= 0)
  <1>1. IsFiniteSet(DrainStreams) /\ Cardinality(DrainStreams) \in Nat
    BY DrainAssumed, FS_CardinalityType
    DEF Drain!TelemetryAssumption, Drain!IsFiniteSet, IsFiniteSet
  <1>2. \A s \in DrainStreams : DrainRates[s] \in Only(DrainRates)[s]
    BY DrainAssumed DEF Drain!TelemetryAssumption, Only
  <1> QED
    BY <1>1, <1>2, DrainAssumed DEF Drain!TelemetryAssumption, Drain!Off

LEMMA DueCounts ==
  /\ IsFiniteSet(Due) /\ Cardinality(Due) \in Nat /\ Cardinality(Due) <= Cardinality(DrainStreams)
  BY DrainFacts, FS_Subset, FS_CardinalityType DEF Due

LEMMA InitDrainInv == Drain!Init => DrainInv
  <1> SUFFICES ASSUME Drain!Init PROVE DrainInv
    OBVIOUS
  <1>1. ASSUME NEW s \in DrainStreams PROVE ~ Drain!StreamDue(s)
    <2>1. s \in Drain!Fixed => feed_interval[s] # 0 /\ feed_age[s] = 0
      BY DrainAssumed DEF Drain!Init
    <2>2. feed_interval[s] \in Int /\ (feed_interval[s] = Drain!Off \/ feed_interval[s] >= 0)
      BY DrainFacts DEF Drain!Init
    <2>3. s \notin Drain!Fixed => ~ Drain!Fresh(s)
      BY DEF Drain!Init, Drain!Fresh
    <2> QED
      BY <2>1, <2>2, <2>3 DEF Drain!StreamDue, Drain!RateDue, Drain!Off, Drain!New
  <1>2. Due = {}
    BY <1>1 DEF Due
  <1> QED
    BY <1>2, DrainFacts, FS_EmptySet DEF Drain!Init, DrainInv

LEMMA DrainKeeps == ASSUME DrainInv, Drain!NextScheduler PROVE DrainInv'
  <1>1. CASE Drain!SendRealtimeTelemetryStream
    <2>1. PICK t \in DrainStreams : Drain!Selected(t) /\ Drain!Sends({t}, {t}, Drain!InTurn)
      BY <1>1 DEF Drain!SendRealtimeTelemetryStream
    <2>2. /\ Drain!StreamDue(t) /\ feed_interval' = feed_interval /\ feed_present' = feed_present
          /\ feed_sent' = feed_sent \cup ({t} \cap Drain!Sampled)
          /\ feed_age' = [s \in DrainStreams |-> IF s \in {t} THEN Drain!InTurn[s] ELSE feed_age[s]]
          /\ feed_slack > 0 /\ feed_slack' = feed_slack - 1
      BY <1>1, <2>1 DEF Drain!Selected, Drain!Sends, Drain!SendRealtimeTelemetryStream
    <2>3. ~ Drain!StreamDue(t)'
      <3>1. CASE t \in Drain!Sampled
        BY <2>2, <3>1 DEF Drain!StreamDue, Drain!Fresh, Drain!Fixed
      <3>2. CASE t \in Drain!Fixed
        <4>1. feed_age'[t] = 0
          BY <2>2, <3>2 DEF Drain!InTurn, Drain!NextAge, Drain!Fixed
        <4>2. /\ feed_interval[t] # Drain!Off /\ feed_interval[t] # 0
              /\ feed_interval[t] \in Int /\ feed_interval[t] >= 0
          BY <2>2, <3>2, DrainAssumed, DrainFacts
          DEF DrainInv, Drain!StreamDue, Drain!RateDue, Drain!Off
        <4> QED
          BY <2>2, <4>1, <4>2 DEF Drain!StreamDue, Drain!RateDue, Drain!New
      <3> QED
        BY <3>1, <3>2 DEF Drain!Fixed
    <2>4. ASSUME NEW s \in DrainStreams \ {t}, Drain!StreamDue(s)' PROVE Drain!StreamDue(s)
      <3>1. feed_age'[s] = feed_age[s] /\ (s \in feed_sent' <=> s \in feed_sent)
        BY <2>2
      <3> QED
        BY <2>2, <2>4, <3>1 DEF Drain!StreamDue, Drain!Fresh, Drain!RateDue
    <2>5. Due' \subseteq Due \ {t} /\ t \in Due
      BY <2>2, <2>3, <2>4 DEF Due
    <2>6. Cardinality(Due') <= Cardinality(Due) - 1
      <3>1. IsFiniteSet(Due \ {t}) /\ Cardinality(Due \ {t}) = Cardinality(Due) - 1
        BY <2>5, DueCounts, FS_RemoveElement
      <3> QED
        BY <2>5, <3>1, FS_Subset
    <2>7. Cardinality(Due') \in Nat
      <3>1. Due' \subseteq DrainStreams
        BY DEF Due
      <3> QED
        BY <3>1, DrainFacts, FS_Subset, FS_CardinalityType
    <2> QED
      BY <2>2, <2>6, <2>7, DueCounts, DrainFacts DEF DrainInv
  <1>2. CASE Drain!NextTick
    <2>1. feed_interval' = feed_interval /\ feed_slack' = DrainCapacity
      BY <1>2 DEF Drain!NextTick, Drain!Tick
    <2>2. Cardinality(Due') <= Cardinality(DrainStreams) /\ Cardinality(Due') \in Nat
      <3>1. Due' \subseteq DrainStreams
        BY DEF Due
      <3> QED
        BY <3>1, DrainFacts, FS_Subset, FS_CardinalityType
    <2> QED
      BY <2>1, <2>2, DrainAssumed, DrainFacts DEF DrainInv
  <1> QED
    BY <1>1, <1>2 DEF Drain!NextScheduler

LEMMA NothingFreshLost ==
  DrainInv /\ Drain!NextTick =>
    ~ \E s \in Drain!Sampled \ feed_sent :
      feed_interval[s] = 0 /\ s # "OutputRaw" /\ TeleSource[s] \in feed_present
  <1> SUFFICES ASSUME DrainInv, Drain!NextTick, NEW s \in Drain!Sampled \ feed_sent,
                      feed_interval[s] = 0, s # "OutputRaw", TeleSource[s] \in feed_present
               PROVE  FALSE
    OBVIOUS
  <1>1. s \in Due
    BY DEF Due, Drain!StreamDue, Drain!Fresh, Drain!RateDue, Drain!Off, Drain!Sampled
  <1>2. Cardinality(Due) # 0
    BY <1>1, DueCounts, FS_EmptySet
  <1>3. feed_slack = 0 \/ \A t \in DrainStreams : ~ Drain!StreamDue(t)
    BY DEF Drain!NextTick, Drain!Tick
  <1>4. feed_slack = 0
    BY <1>1, <1>3 DEF Due
  <1> QED
    BY <1>2, <1>4, DueCounts DEF DrainInv

-----------------------------------------------------------------------------
TelemetryInv ==
  /\ subject = "rates" => StreamsInv(RatedIntervals, TelePriorities)
  /\ subject = "staged" => StreamsInv(StagedIntervals, {})
  /\ subject = "busy" => BusyInv
  /\ DrainInv

LEMMA InitTelemetryInv == SuiteInit => TelemetryInv
  <1> SUFFICES ASSUME SuiteInit PROVE TelemetryInv
    OBVIOUS
  <1>1. DrainInv
    BY InitDrainInv DEF SuiteInit
  <1>2. CASE subject = "rates"
    <2>1. Rates!Init
      BY <1>2 DEF SuiteInit
    <2> QED
      BY <1>1, <1>2, <2>1, Limits, InitStreams DEF TelemetryInv
  <1>3. CASE subject = "staged"
    <2>1. Staged!Init
      BY <1>3 DEF SuiteInit
    <2>2. Rates!Init
      BY <2>1, SameStreams DEF Staged!Init, Rates!Init, Staged!Fixed, Rates!Fixed, Staged!New,
          Rates!New
    <2> QED
      BY <1>1, <1>3, <2>2, Limits, InitStreams DEF TelemetryInv
  <1>4. CASE subject = "busy"
    <2>1. Busy!Init
      BY <1>4 DEF SuiteInit
    <2> QED
      BY <1>1, <1>4, <2>1, InitBusyInv DEF TelemetryInv
  <1> QED
    BY <1>1, <1>2, <1>3, <1>4 DEF TelemetryInv

LEMMA TelemetryMoves ==
  [SuiteNext]_suiteVars =>
    /\ subject' = subject
    /\ \/ UNCHANGED feedVars
       \/ Drain!NextScheduler
    /\ \/ UNCHANGED teleVars
       \/ subject = "rates" /\ Rates!Next
       \/ subject = "staged" /\ Staged!Next
       \/ subject = "busy" /\ Busy!Next
  BY DEF SuiteNext, Still, suiteVars

LEMMA NextTelemetryInv ==
  TelemetryInv /\ [SuiteNext]_suiteVars => TelemetryInv'
  <1> SUFFICES ASSUME TelemetryInv, [SuiteNext]_suiteVars PROVE TelemetryInv'
    OBVIOUS
  <1>1. DrainInv'
    <2>1. CASE UNCHANGED feedVars
      BY <2>1 DEF TelemetryInv, DrainInv, Due, feedVars, Drain!StreamDue, Drain!Fresh, Drain!RateDue
    <2> QED
      BY <2>1, TelemetryMoves, DrainKeeps DEF TelemetryInv
  <1>2. CASE UNCHANGED teleVars
    <2>1. \A I, P : StreamsInv(I, P) => StreamsInv(I, P)'
      BY <1>2 DEF teleVars, StreamsInv, StreamsTyped
    <2>2. BusyInv => BusyInv'
      BY <1>2 DEF teleVars, BusyInv, Busy!TypeOK, After, Waited, Busy!Deadline
    <2> QED
      BY <1>1, <2>1, <2>2, TelemetryMoves DEF TelemetryInv
  <1> QED
    BY <1>1, <1>2, TelemetryMoves, RatesKeep, StagedKeep, BusyKeeps DEF TelemetryInv

(* For all streams, sensors, orders, rates and capacities: no sample is sent *)
(* twice on a stream, whatever changes of rates there are, and no stream     *)
(* that is sent in turn is faster than its rate and one message more. At     *)
(* fixed rates heartbeat and status are late by no more than a turn of each  *)
(* other stream, and with slack for every stream no fresh sample is lost     *)
(* (comm.rs, world/telemetry.rs, world/service.rs).                          *)
THEOREM RatesAreKept == SuiteSpec => TelemetryKeepsRates
  <1>1. SuiteInit => TelemetryInv
    BY InitTelemetryInv
  <1>2. TelemetryInv /\ [SuiteNext]_suiteVars => TelemetryInv'
    BY NextTelemetryInv
  <1>3. TelemetryInv => (subject = "rates" => Rates!TypeOK /\ Rates!NoSampleTwice /\ Rates!RateKept)
    <2> SUFFICES ASSUME StreamsInv(RatedIntervals, TelePriorities)
                 PROVE  Rates!TypeOK /\ Rates!NoSampleTwice /\ Rates!RateKept
      BY DEF TelemetryInv
    <2>1. Rates!TypeOK
      BY DEF StreamsInv, StreamsTyped, Rates!TypeOK
    <2> QED
      BY <2>1, StreamsKeepRates DEF Rates!NoSampleTwice, Rates!RateKept, Rates!Off
  <1>4. TelemetryInv =>
          (subject = "staged" => Staged!TypeOK /\ Staged!NoSampleTwice /\ Staged!RateKept)
    <2> SUFFICES ASSUME StreamsInv(StagedIntervals, {})
                 PROVE  Staged!TypeOK /\ Staged!NoSampleTwice /\ Staged!RateKept
      BY DEF TelemetryInv
    <2>1. Staged!TypeOK
      BY SameStreams DEF StreamsInv, StreamsTyped, Staged!TypeOK
    <2> QED
      BY <2>1, SameStreams, StreamsKeepRates DEF Staged!NoSampleTwice, Staged!RateKept, Staged!Off
  <1>5. TelemetryInv => (subject = "busy" => Busy!TypeOK /\ Busy!LatenessBounded)
    BY NeverLate DEF TelemetryInv, BusyInv
  <1>6. TelemetryInv =>
          [(\E s \in Drain!Sampled \ feed_sent :
              feed_interval[s] = 0 /\ s # "OutputRaw" /\ TeleSource[s] \in feed_present)
            => ~ Drain!NextTick]_(Drain!vars)
    BY NothingFreshLost DEF TelemetryInv
  <1> QED
    BY <1>1, <1>2, <1>3, <1>4, <1>5, <1>6, PTL
    DEF SuiteSpec, TelemetryKeepsRates, Drain!NoFreshSampleLost
=============================================================================
