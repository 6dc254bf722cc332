----------------------------- MODULE FlightCore -----------------------------
(***************************************************************************)
(* World (crates/veloxity_core/src/world.rs and world/*.rs): one loop that  *)
(* runs the stages of the firmware one after the other, in the order of     *)
(* World::run_once (Scheduler = "run_once") or as the realtime scheduler    *)
(* picks them (Scheduler = "realtime").  A stage is one action and runs to  *)
(* its end; between two stages time passes, interrupts raise imu_pending,   *)
(* the pilot and the ground station act, and the board may restart.         *)
(*                                                                          *)
(* Stages that touch none of the state below (telemetry, response drain,    *)
(* flush, deferred board actions, PWM enabling, LEDs) are left out.  Time   *)
(* is abstracted to what is compared with it: whether the last RC packet is *)
(* older than RC_TIMEOUT_US, whether the IMU was last seen more than        *)
(* IMU_TIMEOUT_US ago, and whether a control deadline is due (any choice).  *)
(***************************************************************************)
EXTENDS StateMachine

CONSTANTS
  Scheduler,       \* "run_once" or "realtime"
  Sources,         \* the disturbances that happen: a subset of AllSources
  MutableParams    \* the parameters the ground station changes: of ParamNames

AllSources ==
  {"imu_silent", "rc_bad", "rc_stale", "clock", "estimator", "uncalibrated",
   "gyro_command", "accel_command", "param_burst", "restart", "rearm"}

ParamNames == {"calibrateGyroOnArm", "allowUnhealthyEstimator",
               "takeMinThrottle", "mixerValid", "failsafeValid"}

ASSUME FlightCoreAssumption ==
  /\ Scheduler \in {"run_once", "realtime"}
  /\ Sources \subseteq AllSources
  /\ MutableParams \subseteq ParamNames

VARIABLES
  state,        \* StateManager
  params,       \* the parameters the stages below read
  rc,           \* the last packet Rc::receive took: in order, and too old
  freshRc,      \* the packet the next RC stage is given: "none", "good", "bad"
  imu,          \* processed_sensors.imu is Some
  imuAged,      \* now is past last_imu_seen + IMU_TIMEOUT_US
  calFlags,     \* CalibrationFlags, the gyro and accelerometer ones
  primed,       \* ControlPipelineResource::last_imu_time is not 0
  combined,     \* what combined_command was last computed from
  stage,        \* the stage the scheduler runs next
  imuPending,   \* BoardIo::imu_pending (realtime)
  samples,      \* the control IMU accumulator holds a sample (realtime)
  gyroCalibrated \* history: a gyro calibration ended well since Calibrating
                 \* was last entered

vars == <<state, params, rc, freshRc, imu, imuAged, calFlags, primed, combined,
          stage, imuPending, samples, gyroCalibrated>>

CalFlags == {"GYRO", "ACCEL", "GYRO_FAILED", "ACCEL_FAILED"}

FlightParams == [calibrateGyroOnArm: BOOLEAN, allowUnhealthyEstimator: BOOLEAN,
                 takeMinThrottle: BOOLEAN, mixerValid: BOOLEAN,
                 failsafeValid: BOOLEAN]

Stages == IF Scheduler = "run_once"
          THEN {"comm", "sensors", "rc", "control"}
          ELSE {"idle", "sensors", "comm", "rc"}

FirstStage == IF Scheduler = "run_once" THEN "comm" ELSE "idle"

TypeOK ==
  /\ state \in StateManagers
  /\ params \in FlightParams
  /\ rc \in [inOrder: BOOLEAN, stale: BOOLEAN]
  /\ freshRc \in {"none", "good", "bad"}
  /\ imu \in BOOLEAN
  /\ imuAged \in BOOLEAN
  /\ calFlags \subseteq CalFlags
  /\ primed \in BOOLEAN
  /\ combined \in {"default", "failsafe", "muxed"}
  /\ stage \in Stages
  /\ imuPending \in BOOLEAN
  /\ samples \in BOOLEAN
  /\ gyroCalibrated \in BOOLEAN

(* What a disturbance may do only when the instance lets it happen. *)
May(source) == IF source \in Sources THEN BOOLEAN ELSE {FALSE}

(* Parameter values the ground station can reach from p. *)
Reachable(p) == {q \in FlightParams : \A n \in ParamNames \ MutableParams : q[n] = p[n]}

(* Check of the last RC packet: Rc::check_rc_health. *)
RcHealthy(r) == r.inOrder /\ ~ r.stale

(* Rc::new: no channel was received yet. *)
NewRc == [inOrder |-> FALSE, stale |-> FALSE]

-----------------------------------------------------------------------------
(* World::init *)

DefaultParams == [calibrateGyroOnArm |-> FALSE, allowUnhealthyEstimator |-> FALSE,
                  takeMinThrottle |-> FALSE, mixerValid |-> TRUE,
                  failsafeValid |-> TRUE]

(* The state machine after World::init: the interlock of an all-zero bias    *)
(* table, the failsafe throttle, and the rearm a hard fault asked for.       *)
BootState(p, uncalibrated, rearm) ==
  LET initialized == ManagerUpdate(NewStateManager, Signal("INITIALIZED"), p)
      interlocked == SetErrorFlag(initialized, "UNCALIBRATED_IMU", uncalibrated, p)
      checked     == ManagerUpdate(interlocked,
                       IF p.failsafeValid THEN Cleared({"INVALID_FAILSAFE"})
                                          ELSE Occurred({"INVALID_FAILSAFE"}), p)
  IN  IF rearm THEN ManagerUpdate(checked, Signal("HARDFAULT_REARM_REQUESTED"), p)
               ELSE checked

Booted(p) ==
  {BootState(p, uncalibrated, rearm) :
     uncalibrated \in May("uncalibrated"), rearm \in May("rearm")}

Init ==
  /\ params \in Reachable(DefaultParams)
  /\ state \in Booted(params)
  /\ rc = NewRc
  /\ freshRc = "none"
  /\ imu = FALSE
  /\ imuAged = FALSE
  /\ calFlags = {}
  /\ primed = FALSE
  /\ combined = "default"
  /\ stage = FirstStage
  /\ imuPending = FALSE
  /\ samples = FALSE
  /\ gyroCalibrated = FALSE

-----------------------------------------------------------------------------
(* Communication, commands and parameters *)

(* apply_calibration_requests: refused while armed. *)
AppliedCalibration(s, flags, command) ==
  IF IsArmed(s) THEN flags
  ELSE CASE command = "gyro"  -> (flags \ {"GYRO_FAILED"}) \cup {"GYRO"}
         [] command = "accel" -> (flags \ {"GYRO_FAILED", "ACCEL_FAILED"}) \cup {"GYRO", "ACCEL"}
         [] OTHER             -> flags

CalibrationCommands ==
  {"none"} \cup (IF "gyro_command" \in Sources THEN {"gyro"} ELSE {})
           \cup (IF "accel_command" \in Sources THEN {"accel"} ELSE {})

(* Mutated form: no calibration is requested. *)
RequestedGyroNever(s, flags) == flags

(* request_gyro_calibration_if_needed *)
RequestedGyro(s, flags) ==
  IF IsCalibrating(s) /\ "GYRO" \notin flags
  THEN (flags \ {"GYRO_FAILED"}) \cup {"GYRO"}
  ELSE flags

(* The reactions that watch a parameter which changes from p to q.            *)
Watched(p, q) ==
  (IF p.mixerValid # q.mixerValid THEN {"mixer"} ELSE {})
    \cup (IF p.failsafeValid # q.failsafeValid THEN {"failsafe"} ELSE {})

(* Mutated form: the failsafe throttle is not looked at when it changes. *)
ReactedOfMixer(s, p, reactions) ==
  IF "mixer" \notin reactions THEN s
  ELSE ManagerUpdate(s, IF p.mixerValid THEN Cleared({"INVALID_MIXER"})
                                        ELSE Occurred({"INVALID_MIXER"}), p)

(* apply_param_reactions: the mixer's status, then the failsafe throttle's, *)
(* as events that are raised whether or not the flag already says so.       *)
Reacted(s, p, reactions) ==
  LET mixed == IF "mixer" \notin reactions THEN s
               ELSE ManagerUpdate(s, IF p.mixerValid THEN Cleared({"INVALID_MIXER"})
                                                     ELSE Occurred({"INVALID_MIXER"}), p)
  IN  IF "failsafe" \notin reactions THEN mixed
      ELSE ManagerUpdate(mixed, IF p.failsafeValid THEN Cleared({"INVALID_FAILSAFE"})
                                                   ELSE Occurred({"INVALID_FAILSAFE"}), p)

(* The communication, command and parameter stage.  Commands come before      *)
(* parameter sets, the gyro calibration an arming waits for is requested next *)
(* and the reactions come last.  A set that changes what a reaction watches   *)
(* triggers it, unless a burst of sets overflows the queue of changes; others *)
(* of the same kind may trigger it with nothing changed.                      *)
Comm ==
  /\ stage = "comm"
  /\ imuPending = FALSE
  /\ \E command \in CalibrationCommands, p \in Reachable(params),
        reactions \in SUBSET {"mixer", "failsafe"} :
       /\ Watched(params, p) \subseteq reactions \/ "param_burst" \in Sources
       /\ params' = p
       /\ calFlags' = RequestedGyro(state, AppliedCalibration(state, calFlags, command))
       /\ state' = Reacted(state, p, reactions)
  /\ stage' = IF Scheduler = "run_once" THEN "sensors" ELSE "rc"
  /\ UNCHANGED <<rc, freshRc, imu, imuAged, primed, combined, imuPending,
                 samples, gyroCalibrated>>

-----------------------------------------------------------------------------
(* Sensors, health and calibration *)

(* What one IMU sample does to a calibration that is running: it goes on, or  *)
(* the sample is the last of the window and the result is kept or refused.    *)
Calibrated(flags, kind, failed) ==
  IF kind \in flags
  THEN {flags, flags \ {kind}, (flags \ {kind}) \cup {failed}}
  ELSE {flags}

SampleCalibrates(before, after) ==
  \E gyro \in Calibrated(before, "GYRO", "GYRO_FAILED") :
    after \in Calibrated(gyro, "ACCEL", "ACCEL_FAILED")

Succeeded(before, after, kind, failed) ==
  kind \in before /\ kind \notin after /\ failed \notin after

AccelSucceeded(before, after) == Succeeded(before, after, "ACCEL", "ACCEL_FAILED")

(* Mutated form: a gyro calibration clears the startup interlock too. *)
InterlockClearedByGyro(s, before, after, p) ==
  IF Succeeded(before, after, "GYRO", "GYRO_FAILED")
  THEN SetErrorFlag(s, "UNCALIBRATED_IMU", FALSE, p)
  ELSE s

(* process_imu_sensor_after_update: only a full accelerometer calibration    *)
(* that ended well clears UNCALIBRATED_IMU.                                  *)
InterlockCleared(s, before, after, p) ==
  IF AccelSucceeded(before, after)
  THEN SetErrorFlag(s, "UNCALIBRATED_IMU", FALSE, p)
  ELSE s

(* Mutated form: a silent IMU is not reported. *)
HealthWithoutTimeout(s, seen, aged, p) ==
  IF seen THEN SetErrorFlag(s, "IMU_NOT_RESPONDING", FALSE, p) ELSE s

(* update_sensor_health *)
Health(s, seen, aged, p) ==
  IF seen THEN SetErrorFlag(s, "IMU_NOT_RESPONDING", FALSE, p)
  ELSE IF aged THEN SetErrorFlag(s, "IMU_NOT_RESPONDING", TRUE, p)
  ELSE s

CalibrationFailed(s, flags) == IsCalibrating(s) /\ "GYRO_FAILED" \in flags

(* The end of update_sensor_health_and_calibration: an arming calibration is *)
(* over when no gyro calibration is running.                                 *)
CalibrationProgress(s, flags, p) ==
  IF ~ IsCalibrating(s) THEN s
  ELSE IF "GYRO_FAILED" \in flags THEN ManagerUpdate(s, Signal("CALIBRATION_FAILED"), p)
  ELSE IF "GYRO" \notin flags THEN ManagerUpdate(s, Signal("CALIBRATION_COMPLETE"), p)
  ELSE s

(* The two together, as the machine and the calibration flags they leave.    *)
HealthAndCalibration(s, flags, seen) ==
  CalibrationProgress(Health(s, seen, imuAged, params), flags, params)

FlagsLeft(s, flags, seen) ==
  IF CalibrationFailed(Health(s, seen, imuAged, params), flags)
  THEN flags \ {"GYRO_FAILED"} ELSE flags

(* Taking in one IMU sample, or none, up to the machine that comes out of it. *)
SampleFlags(sample, flags) ==
  IF sample THEN SampleCalibrates(calFlags, flags) ELSE flags = calFlags

Ingested(flags) == InterlockCleared(state, calFlags, flags, params)

StillPrimed(flags) == primed /\ ~ AccelSucceeded(calFlags, flags)

Intake(sample, flags) ==
  /\ calFlags' = FlagsLeft(Ingested(flags), flags, sample)
  /\ imu' = sample
  /\ imuAged' = (imuAged /\ ~ sample)
  /\ gyroCalibrated' =
       (gyroCalibrated \/ Succeeded(calFlags, flags, "GYRO", "GYRO_FAILED"))

(* The packets a sensor stage may find: the driver's normalised loss-of-link, *)
(* the number of channels and their range make a packet good or bad.          *)
RawRc == {"none", "good"} \cup (IF "rc_bad" \in Sources THEN {"bad"} ELSE {})

(* The sensor stage of run_once: the whole bus is read, IMU and RC included. *)
Sensors ==
  /\ Scheduler = "run_once"
  /\ stage = "sensors"
  /\ \E sample \in BOOLEAN, flags \in SUBSET CalFlags :
       /\ SampleFlags(sample, flags)
       /\ Intake(sample, flags)
       /\ state' = HealthAndCalibration(Ingested(flags), flags, sample)
       /\ primed' = StillPrimed(flags)
  /\ freshRc' \in RawRc
  /\ stage' = "rc"
  /\ UNCHANGED <<params, rc, combined, imuPending, samples>>

(* The sensor stage of a realtime service step: no IMU sample is read, and    *)
(* the one processed last stands for it in the health check.                  *)
ServiceSensors ==
  /\ Scheduler = "realtime"
  /\ stage = "sensors"
  /\ imuPending = FALSE
  /\ state' = HealthAndCalibration(state, calFlags, imu)
  /\ calFlags' = FlagsLeft(state, calFlags, imu)
  /\ imuAged' = (imuAged /\ ~ imu)
  /\ freshRc' \in RawRc
  /\ stage' = "comm"
  /\ UNCHANGED <<params, rc, imu, primed, combined, imuPending, samples,
                 gyroCalibrated>>

-----------------------------------------------------------------------------
(* RC, command and state *)

(* look_for_arm_disarm_signal, its sticks, switches and timers left open: a  *)
(* disarmed vehicle may be asked to arm, an armed one to disarm, and the arm *)
(* switch of an armed one refreshes the arming safety inputs.                *)
LookForArmDisarm(s, gesture, low, override, p) ==
  CASE gesture = "request" /\ ~ IsArmed(s) ->
         ManagerUpdate(UpdateArmingSafety(s, low, override), Signal("REQUEST_ARM"), p)
    [] gesture = "request" /\ IsArmed(s)   -> ManagerUpdate(s, Signal("REQUEST_DISARM"), p)
    [] gesture = "hold" /\ IsArmed(s)      -> UpdateArmingSafety(s, low, override)
    [] OTHER -> s

(* Rc::receive and Rc::run on a fresh packet. *)
RcRun(s, packet, gesture, low, override, p) ==
  IF RcHealthy(packet)
  THEN LookForArmDisarm(ManagerUpdate(s, Cleared({"RC_LOST"}), p), gesture, low, override, p)
  ELSE ManagerUpdate(s, Occurred({"RC_LOST"}), p)

(* Mutated form: the link is only looked at when a packet arrives. *)
CommandChecksRcNever(s, packet, p) == s

(* The head of CommandManager::run: the link is checked without a packet too. *)
CommandChecksRc(s, packet, p) ==
  IF RcHealthy(packet) THEN s ELSE ManagerUpdate(s, Occurred({"RC_LOST"}), p)

(* Mutated form: the failsafe command is not selected. *)
CombinedCommandMuxed(s) == "muxed"

CombinedCommand(s) == IF IsInFailsafe(s) THEN "failsafe" ELSE "muxed"

(* The packet Rc holds once this stage has received what is fresh. *)
LastPacket ==
  IF freshRc = "none" THEN rc ELSE [inOrder |-> freshRc = "good", stale |-> FALSE]

AfterRc(gesture, low, override) ==
  IF freshRc = "none" THEN state
  ELSE RcRun(state, LastPacket, gesture, low, override, params)

AfterLink(gesture, low, override) ==
  CommandChecksRc(AfterRc(gesture, low, override), LastPacket, params)

(* run_rc_command_state: Rc, CommandManager and StateManager, in this order. *)
RcCommandState ==
  /\ stage = "rc"
  /\ imuPending = FALSE
  /\ \E gesture \in {"none", "hold", "request"}, low, override \in BOOLEAN :
       /\ freshRc = "none" => gesture = "none"
       /\ gesture = "none" => ~ low /\ ~ override
       /\ combined' = CombinedCommand(AfterLink(gesture, low, override))
       /\ state' = ManagerRun(AfterLink(gesture, low, override), params)
  /\ rc' = LastPacket
  /\ freshRc' = "none"
  /\ gyroCalibrated' = (gyroCalibrated /\ (IsCalibrating(state) \/ ~ IsCalibrating(state')))
  /\ stage' = IF Scheduler = "run_once" THEN "control" ELSE "idle"
  /\ UNCHANGED <<params, imu, imuAged, calFlags, primed, imuPending, samples>>

-----------------------------------------------------------------------------
(* Control *)

(* run_control_pipeline_if_new_imu on a sample: the first one only sets the  *)
(* time, one that is not newer is refused, and any other is estimated,       *)
(* controlled and mixed, each raising or clearing its own error.             *)
ControlOutcome(s, wasPrimed, forward, healthy, p) ==
  LET timed     == SetErrorFlag(s, "TIME_GOING_BACKWARDS", FALSE, p)
      estimated == SetErrorFlag(timed, "UNHEALTHY_ESTIMATOR", ~ healthy, p)
  IN  CASE ~ wasPrimed -> s
        [] wasPrimed /\ ~ forward -> SetErrorFlag(s, "TIME_GOING_BACKWARDS", TRUE, p)
        [] OTHER -> SetErrorFlag(estimated, "INVALID_MIXER", ~ p.mixerValid, p)

Control ==
  /\ stage = "control"
  /\ IF imu
     THEN \E backward \in May("clock"), unhealthy \in May("estimator") :
            /\ state' = ControlOutcome(state, primed, ~ backward, ~ unhealthy, params)
            /\ primed' = TRUE
     ELSE UNCHANGED <<state, primed>>
  /\ stage' = "comm"
  /\ UNCHANGED <<params, rc, freshRc, imu, imuAged, calFlags, combined,
                 imuPending, samples, gyroCalibrated>>

(* run_imu_control_tick of the realtime scheduler, at a fixed control rate:  *)
(* the sample is taken in, and the control pipeline runs on the accumulated  *)
(* samples if its deadline is due.                                           *)
ImuControlTick ==
  /\ Scheduler = "realtime"
  /\ stage = "idle"
  /\ imuPending
  /\ \E failed, due \in BOOLEAN, backward \in May("clock"),
        unhealthy \in May("estimator"), flags \in SUBSET CalFlags :
       LET taken == HealthAndCalibration(Ingested(flags), flags, ~ failed)
           runs  == due /\ (samples \/ ~ failed)
       IN  /\ failed => "imu_silent" \in Sources
           /\ SampleFlags(~ failed, flags)
           /\ Intake(~ failed, flags)
           /\ samples' = (~ runs /\ (samples \/ ~ failed))
           /\ IF runs
              THEN /\ state' = ControlOutcome(taken, StillPrimed(flags),
                                              ~ backward, ~ unhealthy, params)
                   /\ primed' = TRUE
              ELSE /\ state' = taken
                   /\ primed' = StillPrimed(flags)
  /\ imuPending' = FALSE
  /\ UNCHANGED <<params, rc, freshRc, combined, stage>>

(* run_control_update_tick: the deadline came due after the samples did. *)
ControlUpdateTick ==
  /\ Scheduler = "realtime"
  /\ stage = "idle"
  /\ ~ imuPending
  /\ samples
  /\ \E backward \in May("clock"), unhealthy \in May("estimator") :
       state' = ControlOutcome(state, primed, ~ backward, ~ unhealthy, params)
  /\ primed' = TRUE
  /\ samples' = FALSE
  /\ UNCHANGED <<params, rc, freshRc, imu, imuAged, calFlags, combined, stage,
                 imuPending, gyroCalibrated>>

-----------------------------------------------------------------------------
(* The realtime service step *)

(* run_prioritized_service_step starts, its telemetry done.                  *)
BeginService ==
  /\ Scheduler = "realtime"
  /\ stage = "idle"
  /\ ~ imuPending
  /\ stage' = "sensors"
  /\ UNCHANGED <<state, params, rc, freshRc, imu, imuAged, calFlags, primed,
                 combined, imuPending, samples, gyroCalibrated>>

(* realtime_service_can_continue turned false, by an interrupt or by the     *)
(* clock: the rest of the step is skipped, and the packet its sensor stage   *)
(* took was only for the RC stage of this step.                              *)
ServiceClosed ==
  /\ Scheduler = "realtime"
  /\ stage # "idle"
  /\ stage' = "idle"
  /\ freshRc' = "none"
  /\ UNCHANGED <<state, params, rc, imu, imuAged, calFlags, primed, combined,
                 imuPending, samples, gyroCalibrated>>

-----------------------------------------------------------------------------
(* What happens to the board between two stages *)

(* The last packet turns older than RC_TIMEOUT_US. *)
RcAges ==
  /\ "rc_stale" \in Sources
  /\ ~ rc.stale
  /\ rc' = [rc EXCEPT !.stale = TRUE]
  /\ UNCHANGED <<state, params, freshRc, imu, imuAged, calFlags, primed, combined,
                 stage, imuPending, samples, gyroCalibrated>>

(* More than IMU_TIMEOUT_US passes since last_imu_seen. *)
ImuAges ==
  /\ "imu_silent" \in Sources
  /\ ~ imuAged
  /\ imuAged' = TRUE
  /\ UNCHANGED <<state, params, rc, freshRc, imu, calFlags, primed, combined,
                 stage, imuPending, samples, gyroCalibrated>>

(* The IMU raises its data-ready interrupt. *)
ImuInterrupt ==
  /\ Scheduler = "realtime"
  /\ ~ imuPending
  /\ imuPending' = TRUE
  /\ UNCHANGED <<state, params, rc, freshRc, imu, imuAged, calFlags, primed,
                 combined, stage, samples, gyroCalibrated>>

(* A hard fault, a watchdog, a power cycle or a reboot command. *)
Restart ==
  /\ "restart" \in Sources
  /\ params' \in Reachable(DefaultParams)
  /\ state' \in Booted(params')
  /\ rc' = NewRc
  /\ freshRc' = "none"
  /\ imu' = FALSE
  /\ imuAged' = FALSE
  /\ calFlags' = {}
  /\ primed' = FALSE
  /\ combined' = "default"
  /\ stage' = FirstStage
  /\ imuPending' = FALSE
  /\ samples' = FALSE
  /\ gyroCalibrated' = FALSE

-----------------------------------------------------------------------------
(* What the loop itself does next, and everything that can happen. *)
Step ==
  \/ Comm \/ Sensors \/ RcCommandState \/ Control
  \/ ServiceSensors \/ ImuControlTick \/ ControlUpdateTick
  \/ BeginService \/ ServiceClosed

Next == Step \/ RcAges \/ ImuAges \/ ImuInterrupt \/ Restart

(* The loop never stops; nothing is assumed of the pilot, of the ground      *)
(* station, of the sensors or of the clock.                                  *)
Spec == Init /\ [][Next]_vars /\ WF_vars(Step)

-----------------------------------------------------------------------------
(* Properties *)

(* The mode tells the truth about the flags wherever a stage ends: a vehicle *)
(* ready to arm, or calibrating to arm, has no error, one held back has one, *)
(* and failsafe means that the link is lost.  Disarming in failsafe does not *)
(* happen: Rc::run looks for the gesture only after the link is back.        *)
ModeTellsErrors ==
  /\ state.mode \in {"Preflight", "Calibrating"} => state.flags = {}
  /\ state.mode = "ErrorPresent" => state.flags # {}
  /\ state.mode = "Failsafe" => "RC_LOST" \in state.flags
  /\ state.mode \notin {"Init", "ErrorFailsafe"}

(* RC_LOST is never out of date: while it is flagged, the last packet is bad *)
(* or too old, so a link that is back cannot be reported lost.               *)
LinkFlagCurrent == "RC_LOST" \in state.flags => ~ RcHealthy(rc)

(* INVALID_FAILSAFE follows the failsafe throttle through every parameter    *)
(* change, arming, flight and restart, as long as no change is lost: it is   *)
(* only looked at when World::init or a reaction does.                       *)
FailsafeThrottleJudged == "INVALID_FAILSAFE" \in state.flags <=> ~ params.failsafeValid

(* While the machine is in failsafe the control pipeline works on the        *)
(* failsafe command: CommandManager::run selects it in the very stage that   *)
(* enters failsafe, whichever of its callers noticed the loss.               *)
FailsafeCommandInForce == state.mode = "Failsafe" => combined = "failsafe"

(* From there on the pilot's or the companion's command is back in force as  *)
(* soon as failsafe ends, so a stale failsafe command does not fly.          *)
FailsafeCommandWithdrawn == combined = "failsafe" => state.mode = "Failsafe"

(* No stage takes a disarmed vehicle to armed while an error is flagged that *)
(* arming_blocking_errors does not except, whatever was raised between the   *)
(* arm request and the end of the arming calibration.                        *)
ArmsWithoutBlockingErrors ==
  [][~ Restart /\ ~ IsArmed(state) /\ IsArmed(state')
       => ArmingBlockingErrors(state', params') = {}]_vars

(* Arming starts only with the throttle low and, unless the parameter takes  *)
(* the minimum throttle, the throttle override switch on.                    *)
ArmingStartsSafely ==
  [][~ Restart /\ ~ IsArmed(state) /\ ~ IsCalibrating(state)
       /\ (IsArmed(state') \/ IsCalibrating(state'))
       => ArmingSafetyAllowsArm(state', params')]_vars

(* The RC stage never leaves the vehicle flying on a dead link: if it ends   *)
(* in Armed the last packet is in order and fresh.                           *)
ArmedOnlyOnLiveLink ==
  [][RcCommandState /\ state'.mode = "Armed" => RcHealthy(rc')]_vars

(* The startup interlock of an uncalibrated IMU is lifted by a full          *)
(* accelerometer calibration that succeeds, by nothing else: arming removes  *)
(* UNCALIBRATED_IMU in two places, and neither is reached with the flag set. *)
InterlockLiftedOnlyByAccel ==
  [][~ Restart /\ "UNCALIBRATED_IMU" \in state.flags
               /\ "UNCALIBRATED_IMU" \notin state'.flags
       => AccelSucceeded(calFlags, calFlags')]_vars

(* With CALIBRATE_GYRO_ON_ARM set a vehicle that is calibrating to arm is    *)
(* armed only after a gyro calibration ended well.                           *)
ArmWaitsForGyroCalibration ==
  [][~ Restart /\ IsCalibrating(state) /\ IsArmed(state') => gyroCalibrated']_vars

(* A failsafe throttle that is in order is not reported, one that is not is, *)
(* and the failsafe command is withdrawn as the machine leaves Failsafe      *)
(* (params/reactions.rs, command.rs).                                        *)
FailsafeInOrder == FailsafeThrottleJudged /\ FailsafeCommandWithdrawn

(* What holds of run_once's fixed order holds when the realtime scheduler    *)
(* (world/service.rs) cuts a service step short between any two stages.      *)
SafeUnderRealtime ==
  /\ [](/\ TypeOK /\ ModeTellsErrors /\ LinkFlagCurrent
        /\ FailsafeCommandInForce /\ FailsafeCommandWithdrawn)
  /\ ArmedOnlyOnLiveLink
  /\ InterlockLiftedOnlyByAccel

(* An IMU that stays silent past its timeout is reported.                    *)
SilentImuReported ==
  (imuAged /\ ~ imu) ~> (imu \/ ~ imuAged \/ "IMU_NOT_RESPONDING" \in state.flags)

(* Under the realtime scheduler, too, an IMU that falls silent for good is   *)
(* reported, if the health check of the service step comes round again and   *)
(* again when the timeout has passed.                                        *)
SilentImuNoticed ==
  <>[](~ imuPending) /\ []<><<ServiceSensors /\ imuAged>>_vars
    => <>("IMU_NOT_RESPONDING" \in state.flags)

-----------------------------------------------------------------------------
(* The contract it implements *)

PhaseOf(m) ==
  CASE m.mode = "Armed"       -> "flying"
    [] m.mode = "Failsafe"    -> "failsafe"
    [] m.mode = "Calibrating" -> "calibrating"
    [] OTHER                  -> "disarmed"

Contract == INSTANCE FlightContract
  WITH phase <- PhaseOf(state), alive <- RcHealthy(rc),
       reported <- ("RC_LOST" \in state.flags), command <- combined

(* Only the RC stage arms, disarms, enters or leaves failsafe, as the link   *)
(* and the pilot say and never against the link; the other stages can only   *)
(* end an arming calibration, and no error takes a vehicle out of the air.   *)
ImplementsContractSafely == Contract!SafeSpec

(* And a link that stays dead is noticed, which the fixed order of run_once  *)
(* guarantees and the time slots of the realtime scheduler do not.           *)
ImplementsContract == Contract!Spec
=============================================================================
