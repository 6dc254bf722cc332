---------------------------- MODULE StateMachine ----------------------------
(***************************************************************************)
(* The arming state machine of crates/veloxity_core/src/state_machine.rs,   *)
(* as operators on values: a StateManager is a record of the machine's mode *)
(* and error flags and of the RC arming-safety inputs, an event is a record *)
(* of its name and the error flags it carries, and the parameters are the   *)
(* three settings the transitions read.  The module has no variables: the   *)
(* modules that run the machine keep a StateManager in a variable of theirs *)
(* and apply ManagerUpdate, SetErrorFlag and ManagerRun to it.              *)
(***************************************************************************)

Modes == {"Init", "Preflight", "Calibrating", "Armed", "Failsafe",
          "ErrorPresent", "ErrorFailsafe"}

ErrorFlags == {"INVALID_MIXER", "IMU_NOT_RESPONDING", "RC_LOST",
               "UNHEALTHY_ESTIMATOR", "TIME_GOING_BACKWARDS",
               "UNCALIBRATED_IMU", "BUFFER_OVERRUN", "INVALID_FAILSAFE"}

StateManagers == [mode: Modes, flags: SUBSET ErrorFlags,
                  throttleLow: BOOLEAN, overrideSwitch: BOOLEAN]

(* StateManager::new: Init, no flag, default arming safety. *)
NewStateManager ==
  [mode |-> "Init", flags |-> {}, throttleLow |-> FALSE, overrideSwitch |-> FALSE]

-----------------------------------------------------------------------------
(* Events *)

Signal(name) == [name |-> name, flags |-> {}]
Occurred(F)  == [name |-> "ERROR_OCCURRED", flags |-> F]
Cleared(F)   == [name |-> "ERROR_CLEARED", flags |-> F]

-----------------------------------------------------------------------------
(* Queries *)

IsArmed(m)       == m.mode \in {"Armed", "Failsafe"}
IsInFailsafe(m)  == m.mode \in {"Failsafe", "ErrorFailsafe"}
IsCalibrating(m) == m.mode = "Calibrating"

(* The errors that refuse an arming request: all of them, but the estimator's *)
(* when the parameter allows to arm without it.                               *)
ArmingBlockingErrors(m, p) ==
  IF p.allowUnhealthyEstimator THEN m.flags \ {"UNHEALTHY_ESTIMATOR"} ELSE m.flags

-----------------------------------------------------------------------------
(* Transitions: one operator per mode, on a machine whose flags already hold *)
(* (or no longer hold) the ones the event carries.                           *)

Goto(m, mode) == [m EXCEPT !.mode = mode]

(* Preflight when no error is left, and otherwise the mode to stay in. *)
PreflightOr(m, mode) == Goto(m, IF m.flags = {} THEN "Preflight" ELSE mode)

ArmFromPreflight(m, p) ==
  IF p.calibrateGyroOnArm
  THEN [m EXCEPT !.mode = "Calibrating", !.flags = @ \ {"UNCALIBRATED_IMU"}]
  ELSE Goto(m, "Armed")

FromInit(m, e) == IF e.name = "INITIALIZED" THEN Goto(m, "Preflight") ELSE m

FromPreflight(m, e, p) ==
  CASE e.name = "REQUEST_ARM"               -> ArmFromPreflight(m, p)
    [] e.name = "HARDFAULT_REARM_REQUESTED" -> Goto(m, "Armed")
    [] e.name = "ERROR_OCCURRED"            -> Goto(m, "ErrorPresent")
    [] OTHER                                -> m

(* Mutated form: an error during the arming calibration is ignored. *)
FromCalibratingIgnoringErrors(m, e) ==
  CASE e.name = "CALIBRATION_COMPLETE" ->
         [m EXCEPT !.mode = "Armed", !.flags = @ \ {"UNCALIBRATED_IMU"}]
    [] e.name = "CALIBRATION_FAILED"   -> Goto(m, "Preflight")
    [] OTHER                           -> m

FromCalibrating(m, e) ==
  CASE e.name = "CALIBRATION_COMPLETE" ->
         [m EXCEPT !.mode = "Armed", !.flags = @ \ {"UNCALIBRATED_IMU"}]
    [] e.name = "CALIBRATION_FAILED"        -> Goto(m, "Preflight")
    [] e.name = "ERROR_OCCURRED"            -> Goto(m, "ErrorPresent")
    [] e.name = "HARDFAULT_REARM_REQUESTED" -> Goto(m, "Armed")
    [] OTHER                                -> m

(* Only the event that carries RC_LOST and nothing else enters failsafe. *)
FromArmed(m, e) ==
  CASE e.name = "REQUEST_DISARM"   -> PreflightOr(m, "ErrorPresent")
    [] e = Occurred({"RC_LOST"})   -> Goto(m, "Failsafe")
    [] OTHER                       -> m

FromFailsafe(m, e) ==
  CASE e = Cleared({"RC_LOST"})             -> Goto(m, "Armed")
    [] e.name = "REQUEST_DISARM"            -> Goto(m, "ErrorFailsafe")
    [] e.name = "HARDFAULT_REARM_REQUESTED" -> Goto(m, "Armed")
    [] OTHER                                -> m

FromErrorFailsafe(m, e) ==
  CASE e.name = "HARDFAULT_REARM_REQUESTED" -> Goto(m, "Armed")
    [] e.name = "ERROR_CLEARED" ->
         PreflightOr(m, IF e.flags = {"RC_LOST"} THEN "ErrorPresent" ELSE "ErrorFailsafe")
    [] OTHER -> m

(* Mutated form: the errors are not looked at when arming is requested. *)
FromErrorPresentArming(m, e, p) ==
  CASE e.name \in {"REQUEST_ARM", "HARDFAULT_REARM_REQUESTED"} -> ArmFromPreflight(m, p)
    [] e.name = "ERROR_CLEARED" -> PreflightOr(m, "ErrorPresent")
    [] OTHER                    -> m

FromErrorPresent(m, e, p) ==
  CASE e.name = "REQUEST_ARM" ->
         IF ArmingBlockingErrors(m, p) = {} THEN ArmFromPreflight(m, p) ELSE m
    [] e.name = "HARDFAULT_REARM_REQUESTED" -> Goto(m, "Armed")
    [] e.name = "ERROR_CLEARED"             -> PreflightOr(m, "ErrorPresent")
    [] OTHER                                -> m

Transition(m, e, p) ==
  CASE m.mode = "Init"          -> FromInit(m, e)
    [] m.mode = "Preflight"     -> FromPreflight(m, e, p)
    [] m.mode = "Calibrating"   -> FromCalibrating(m, e)
    [] m.mode = "Armed"         -> FromArmed(m, e)
    [] m.mode = "Failsafe"      -> FromFailsafe(m, e)
    [] m.mode = "ErrorPresent"  -> FromErrorPresent(m, e, p)
    [] m.mode = "ErrorFailsafe" -> FromErrorFailsafe(m, e)

(* StateMachine::update: the flags first, then the transition. *)
Mark(m, e) ==
  [m EXCEPT !.flags = CASE e.name = "ERROR_OCCURRED" -> @ \cup e.flags
                        [] e.name = "ERROR_CLEARED"  -> @ \ e.flags
                        [] OTHER                     -> @]

MachineUpdate(m, e, p) == Transition(Mark(m, e), e, p)

-----------------------------------------------------------------------------
(* StateManager *)

UpdateArmingSafety(m, low, override) ==
  [m EXCEPT !.throttleLow = low, !.overrideSwitch = override]

ArmingSafetyAllowsArm(m, p) ==
  /\ m.throttleLow
  /\ p.takeMinThrottle \/ m.overrideSwitch

(* Mutated form: a request excepted from its error is not safety-checked. *)
AttemptFromPreflightOnly(m, p) == m.mode = "Preflight"

ArmingAttemptCanTransition(m, p) ==
  \/ m.mode = "Preflight"
  \/ m.mode = "ErrorPresent" /\ ArmingBlockingErrors(m, p) = {}

(* StateManager::update: a request to arm that would succeed is dropped when *)
(* the RC inputs recorded last do not allow it.                              *)
ManagerUpdate(m, e, p) ==
  IF /\ e.name = "REQUEST_ARM"
     /\ ArmingAttemptCanTransition(m, p)
     /\ ~ ArmingSafetyAllowsArm(m, p)
  THEN m
  ELSE MachineUpdate(m, e, p)

(* StateManager::set_error_flag: an event only when the flag changes. *)
SetErrorFlag(m, flag, present, p) ==
  IF present = (flag \in m.flags)
  THEN m
  ELSE ManagerUpdate(m, IF present THEN Occurred({flag}) ELSE Cleared({flag}), p)

(* Mutated form: the flags are not looked at again at the end of the stage. *)
ManagerRunIdle(m, p) == m

(* StateManager::run: re-raise the flags that are set, or report none set. *)
ManagerRun(m, p) ==
  ManagerUpdate(m, IF m.flags = {} THEN Cleared({}) ELSE Occurred(m.flags), p)
=============================================================================
