-------------------------- MODULE FlightCoreProofs --------------------------
(***************************************************************************)
(* Theorems about FlightCore, for both schedulers and every set of          *)
(* disturbances and changing parameters: first the operators of the arming  *)
(* state machine, for every machine, event and parameter set, then the      *)
(* stages, the invariant and what follows from it, and last the contract    *)
(* that FlightCore implements.                                              *)
(***************************************************************************)
EXTENDS FlightCore, TLAPS

-----------------------------------------------------------------------------
(* What each event makes of a machine whose mode tells the truth about its   *)
(* flags                                                                     *)

(* What holds of a machine in the middle of a stage: the mode tells the      *)
(* truth, but a machine just sent to calibrate may still carry an error that *)
(* the parameters allow to arm with.                                         *)
HalfTold(m) ==
  /\ m.mode = "Preflight" => m.flags = {}
  /\ m.mode = "ErrorPresent" => m.flags # {}
  /\ m.mode = "Failsafe" => "RC_LOST" \in m.flags
  /\ m.mode \notin {"Init", "ErrorFailsafe"}

(* What holds of it where a stage ends. *)
Told(m) == HalfTold(m) /\ (m.mode = "Calibrating" => m.flags = {})

SignalNames == {"INITIALIZED", "REQUEST_ARM", "REQUEST_DISARM",
                "CALIBRATION_COMPLETE", "CALIBRATION_FAILED",
                "HARDFAULT_REARM_REQUESTED"}

EventNames == SignalNames \cup {"ERROR_OCCURRED", "ERROR_CLEARED"}

Events == [name: EventNames, flags: SUBSET ErrorFlags]

(* Marking the flags of an event keeps a machine a machine. *)
LEMMA MarkType ==
  ASSUME NEW m \in StateManagers, NEW e \in Events
  PROVE  /\ Mark(m, e) \in StateManagers
         /\ Mark(m, e).mode = m.mode
         /\ Mark(m, e).throttleLow = m.throttleLow
         /\ Mark(m, e).overrideSwitch = m.overrideSwitch
  BY DEF Mark, StateManagers, Events, EventNames, SignalNames

(* A transition changes the mode, and can only drop a flag. *)
LEMMA TransitionType ==
  ASSUME NEW m \in StateManagers, NEW e \in Events, NEW p
  PROVE  /\ Transition(m, e, p) \in StateManagers
         /\ Transition(m, e, p).throttleLow = m.throttleLow
         /\ Transition(m, e, p).overrideSwitch = m.overrideSwitch
<1> USE DEF Goto, PreflightOr, StateManagers, Modes
<1>1. /\ ArmFromPreflight(m, p) \in StateManagers
      /\ ArmFromPreflight(m, p).throttleLow = m.throttleLow
      /\ ArmFromPreflight(m, p).overrideSwitch = m.overrideSwitch
  BY DEF ArmFromPreflight
<1>2. CASE m.mode = "Init"
  BY <1>2 DEF Transition, FromInit
<1>3. CASE m.mode = "Preflight"
  BY <1>1, <1>3 DEF Transition, FromPreflight
<1>4. CASE m.mode = "Calibrating"
  BY <1>4 DEF Transition, FromCalibrating
<1>5. CASE m.mode = "Armed"
  BY <1>5 DEF Transition, FromArmed
<1>6. CASE m.mode = "Failsafe"
  BY <1>6 DEF Transition, FromFailsafe
<1>7. CASE m.mode = "ErrorPresent"
  BY <1>1, <1>7 DEF Transition, FromErrorPresent
<1>8. CASE m.mode = "ErrorFailsafe"
  BY <1>8 DEF Transition, FromErrorFailsafe
<1>. QED
  BY <1>2, <1>3, <1>4, <1>5, <1>6, <1>7, <1>8

(* The state manager stays one, whatever event it is given. *)
LEMMA UpdateType ==
  ASSUME NEW m \in StateManagers, NEW e \in Events, NEW p
  PROVE  /\ ManagerUpdate(m, e, p) \in StateManagers
         /\ ManagerUpdate(m, e, p).throttleLow = m.throttleLow
         /\ ManagerUpdate(m, e, p).overrideSwitch = m.overrideSwitch
BY MarkType, TransitionType DEF ManagerUpdate, MachineUpdate

(* The events of the model are events. *)
LEMMA EventTypes ==
  /\ \A n \in SignalNames : Signal(n) \in Events
  /\ \A F \in SUBSET ErrorFlags : Occurred(F) \in Events /\ Cleared(F) \in Events
BY DEF Signal, Occurred, Cleared, Events, EventNames

(* set_error_flag keeps a machine a machine. *)
LEMMA SetErrorFlagType ==
  ASSUME NEW m \in StateManagers, NEW flag \in ErrorFlags, NEW b \in BOOLEAN, NEW p
  PROVE  /\ SetErrorFlag(m, flag, b, p) \in StateManagers
         /\ SetErrorFlag(m, flag, b, p).throttleLow = m.throttleLow
         /\ SetErrorFlag(m, flag, b, p).overrideSwitch = m.overrideSwitch
BY UpdateType, EventTypes DEF SetErrorFlag

-----------------------------------------------------------------------------
(* Error events keep the mode truthful: one flag raised or cleared, on its   *)
(* own, leaves a machine that tells the truth telling it.                    *)
LEMMA OccurredTold ==
  ASSUME NEW m \in StateManagers, Told(m), NEW flag \in ErrorFlags, NEW p
  PROVE  Told(ManagerUpdate(m, Occurred({flag}), p))
<1> DEFINE marked == Mark(m, Occurred({flag}))
<1>1. /\ marked = [m EXCEPT !.flags = m.flags \cup {flag}]
      /\ ManagerUpdate(m, Occurred({flag}), p) = Transition(marked, Occurred({flag}), p)
  BY DEF ManagerUpdate, MachineUpdate, Mark, Occurred
<1>2. /\ marked.mode = m.mode /\ marked.flags = m.flags \cup {flag}
      /\ marked \in StateManagers
  BY <1>1 DEF StateManagers
<1>3. Occurred({flag}).name = "ERROR_OCCURRED" /\ Occurred({flag}) # Cleared({"RC_LOST"})
  BY DEF Occurred, Cleared
<1> HIDE DEF marked
<1> USE DEF Goto, PreflightOr, Told, HalfTold, StateManagers, Modes
<1>4. CASE m.mode = "Preflight"
  BY <1>1, <1>2, <1>3, <1>4 DEF Transition, FromPreflight
<1>5. CASE m.mode = "Calibrating"
  BY <1>1, <1>2, <1>3, <1>5 DEF Transition, FromCalibrating
<1>6. CASE m.mode = "Armed"
  <2>1. Occurred({flag}) = Occurred({"RC_LOST"}) => flag = "RC_LOST"
    BY DEF Occurred
  <2>. QED
    BY <1>1, <1>2, <1>3, <1>6, <2>1 DEF Transition, FromArmed
<1>7. CASE m.mode = "Failsafe"
  BY <1>1, <1>2, <1>3, <1>7 DEF Transition, FromFailsafe
<1>8. CASE m.mode = "ErrorPresent"
  BY <1>1, <1>2, <1>3, <1>8 DEF Transition, FromErrorPresent
<1>. QED
  BY <1>4, <1>5, <1>6, <1>7, <1>8

(* The same of a flag that is cleared. *)
LEMMA ClearedTold ==
  ASSUME NEW m \in StateManagers, Told(m), NEW flag \in ErrorFlags, NEW p
  PROVE  Told(ManagerUpdate(m, Cleared({flag}), p))
<1> DEFINE marked == Mark(m, Cleared({flag}))
<1>1. /\ marked = [m EXCEPT !.flags = m.flags \ {flag}]
      /\ ManagerUpdate(m, Cleared({flag}), p) = Transition(marked, Cleared({flag}), p)
  BY DEF ManagerUpdate, MachineUpdate, Mark, Cleared
<1>2. /\ marked.mode = m.mode /\ marked.flags = m.flags \ {flag}
      /\ marked \in StateManagers
  BY <1>1 DEF StateManagers
<1>3. Cleared({flag}).name = "ERROR_CLEARED" /\ Cleared({flag}) # Occurred({"RC_LOST"})
  BY DEF Occurred, Cleared
<1>0. flag = "RC_LOST" => Cleared({flag}) = Cleared({"RC_LOST"})
  OBVIOUS
<1>0a. Cleared({flag}) = Cleared({"RC_LOST"}) => flag = "RC_LOST"
  BY DEF Cleared
<1> HIDE DEF marked
<1> USE DEF Goto, PreflightOr, Told, HalfTold, StateManagers, Modes
<1>4. CASE m.mode = "Preflight"
  BY <1>1, <1>2, <1>3, <1>4 DEF Transition, FromPreflight
<1>5. CASE m.mode = "Calibrating"
  BY <1>1, <1>2, <1>3, <1>5 DEF Transition, FromCalibrating
<1>6. CASE m.mode = "Armed"
  BY <1>1, <1>2, <1>3, <1>6 DEF Transition, FromArmed
<1>7. CASE m.mode = "Failsafe"
  BY <1>0, <1>0a, <1>1, <1>2, <1>3, <1>7 DEF Transition, FromFailsafe
<1>8. CASE m.mode = "ErrorPresent"
  BY <1>1, <1>2, <1>3, <1>8 DEF Transition, FromErrorPresent
<1>. QED
  BY <1>4, <1>5, <1>6, <1>7, <1>8

(* And of set_error_flag, whichever of the two it comes to. *)
LEMMA SetErrorFlagTold ==
  ASSUME NEW m \in StateManagers, Told(m), NEW flag \in ErrorFlags,
         NEW b \in BOOLEAN, NEW p
  PROVE  Told(SetErrorFlag(m, flag, b, p))
BY OccurredTold, ClearedTold DEF SetErrorFlag

(* Once the link is reported back, the machine is not in failsafe. *)
LEMMA LinkBackLeavesFailsafe ==
  ASSUME NEW m \in StateManagers, Told(m), NEW p
  PROVE  ManagerUpdate(m, Cleared({"RC_LOST"}), p).mode # "Failsafe"
<1> DEFINE e == Cleared({"RC_LOST"})
<1>1. /\ ManagerUpdate(m, e, p) = Transition(Mark(m, e), e, p)
      /\ Mark(m, e).mode = m.mode /\ Mark(m, e) \in StateManagers
      /\ e.name = "ERROR_CLEARED" /\ e # Occurred({"RC_LOST"})
  BY MarkType, EventTypes DEF ManagerUpdate, MachineUpdate, Cleared, Occurred, ErrorFlags
<1> USE DEF Goto, PreflightOr, StateManagers, Modes
<1>2. CASE m.mode = "Preflight"
  BY <1>1, <1>2 DEF Transition, FromPreflight
<1>3. CASE m.mode = "Calibrating"
  BY <1>1, <1>3 DEF Transition, FromCalibrating
<1>4. CASE m.mode = "Armed"
  BY <1>1, <1>4 DEF Transition, FromArmed
<1>5. CASE m.mode = "Failsafe"
  BY <1>1, <1>5 DEF Transition, FromFailsafe
<1>6. CASE m.mode = "ErrorPresent"
  BY <1>1, <1>6 DEF Transition, FromErrorPresent
<1>. QED
  BY <1>2, <1>3, <1>4, <1>5, <1>6 DEF Told, HalfTold

(* A request to disarm outside failsafe goes to the mode the flags call for. *)
LEMMA DisarmTold ==
  ASSUME NEW m \in StateManagers, Told(m), m.mode # "Failsafe", NEW p
  PROVE  Told(ManagerUpdate(m, Signal("REQUEST_DISARM"), p))
<1> DEFINE e == Signal("REQUEST_DISARM")
<1>1. /\ ManagerUpdate(m, e, p) = Transition(m, e, p)
      /\ e.name = "REQUEST_DISARM" /\ e # Occurred({"RC_LOST"})
  BY DEF ManagerUpdate, MachineUpdate, Mark, Signal, Occurred, StateManagers
<1> SUFFICES Told(ManagerUpdate(m, e, p))
  OBVIOUS
<1> HIDE DEF e
<1> USE DEF Goto, PreflightOr, Told, HalfTold, StateManagers, Modes
<1>2. CASE m.mode = "Preflight"
  BY <1>1, <1>2 DEF Transition, FromPreflight
<1>3. CASE m.mode = "Calibrating"
  BY <1>1, <1>3 DEF Transition, FromCalibrating
<1>4. CASE m.mode = "Armed"
  BY <1>1, <1>4 DEF Transition, FromArmed
<1>5. CASE m.mode = "ErrorPresent"
  BY <1>1, <1>5 DEF Transition, FromErrorPresent
<1>. QED
  BY <1>2, <1>3, <1>4, <1>5

(* A request to arm leaves the mode truthful but for a calibration that      *)
(* starts with an excepted error flagged.                                    *)
LEMMA ArmHalfTold ==
  ASSUME NEW m \in StateManagers, Told(m), NEW p
  PROVE  HalfTold(ManagerUpdate(m, Signal("REQUEST_ARM"), p))
<1> DEFINE e == Signal("REQUEST_ARM")
<1>1. /\ \/ ManagerUpdate(m, e, p) = m
         \/ ManagerUpdate(m, e, p) = Transition(m, e, p)
      /\ e.name = "REQUEST_ARM" /\ e # Occurred({"RC_LOST"})
      /\ e # Cleared({"RC_LOST"})
  BY DEF ManagerUpdate, MachineUpdate, Mark, Signal, Occurred, Cleared, StateManagers
<1> SUFFICES HalfTold(ManagerUpdate(m, e, p))
  OBVIOUS
<1> HIDE DEF e
<1> USE DEF Goto, PreflightOr, Told, HalfTold, StateManagers, Modes
<1>2. ArmFromPreflight(m, p).mode \in {"Calibrating", "Armed"}
  BY DEF ArmFromPreflight
<1>3. CASE m.mode = "Preflight"
  BY <1>1, <1>2, <1>3 DEF Transition, FromPreflight
<1>4. CASE m.mode = "Calibrating"
  BY <1>1, <1>4 DEF Transition, FromCalibrating
<1>5. CASE m.mode = "Armed"
  BY <1>1, <1>5 DEF Transition, FromArmed
<1>6. CASE m.mode = "Failsafe"
  BY <1>1, <1>6 DEF Transition, FromFailsafe
<1>7. CASE m.mode = "ErrorPresent"
  BY <1>1, <1>2, <1>7 DEF Transition, FromErrorPresent
<1>. QED
  BY <1>3, <1>4, <1>5, <1>6, <1>7

(* StateManager::run repairs what the arm request left half told.            *)
LEMMA RunTold ==
  ASSUME NEW m \in StateManagers, HalfTold(m), NEW p
  PROVE  Told(ManagerRun(m, p))
<1> DEFINE e == IF m.flags = {} THEN Cleared({}) ELSE Occurred(m.flags)
<1>1. /\ ManagerRun(m, p) = Transition(m, e, p)
      /\ e.name = IF m.flags = {} THEN "ERROR_CLEARED" ELSE "ERROR_OCCURRED"
      /\ e # Cleared({"RC_LOST"})
      /\ e = Occurred({"RC_LOST"}) => m.flags = {"RC_LOST"}
  BY DEF ManagerRun, ManagerUpdate, MachineUpdate, Mark, Cleared, Occurred, StateManagers
<1> HIDE DEF e
<1> USE DEF Goto, PreflightOr, Told, HalfTold, StateManagers, Modes
<1>2. CASE m.mode = "Preflight"
  BY <1>1, <1>2 DEF Transition, FromPreflight
<1>3. CASE m.mode = "Calibrating"
  BY <1>1, <1>3 DEF Transition, FromCalibrating
<1>4. CASE m.mode = "Armed"
  BY <1>1, <1>4 DEF Transition, FromArmed
<1>5. CASE m.mode = "Failsafe"
  BY <1>1, <1>5 DEF Transition, FromFailsafe
<1>6. CASE m.mode = "ErrorPresent"
  BY <1>1, <1>6 DEF Transition, FromErrorPresent
<1>. QED
  BY <1>2, <1>3, <1>4, <1>5, <1>6

(* The end of an arming calibration, either way, leaves no error behind.     *)
LEMMA CalibrationTold ==
  ASSUME NEW m \in StateManagers, Told(m), m.mode = "Calibrating", NEW p,
         NEW name \in {"CALIBRATION_COMPLETE", "CALIBRATION_FAILED"}
  PROVE  Told(ManagerUpdate(m, Signal(name), p))
<1>1. /\ ManagerUpdate(m, Signal(name), p) = FromCalibrating(m, Signal(name))
      /\ Signal(name).name = name
  BY DEF ManagerUpdate, MachineUpdate, Mark, Signal, StateManagers, Transition
<1>. QED
  BY <1>1 DEF FromCalibrating, Goto, Told, HalfTold, StateManagers, Modes

-----------------------------------------------------------------------------
(* Events that are not about the link leave RC_LOST and failsafe as they are. *)
(* They neither arm a disarmed machine, nor start a calibration, nor end a    *)
(* flight.                                                                   *)
KeepsLink(m, n) ==
  /\ n.mode = "Failsafe" <=> m.mode = "Failsafe"
  /\ m.mode = "Armed" => n.mode = "Armed"
  /\ n.mode = "Armed" => m.mode \in {"Armed", "Calibrating"}
  /\ n.mode = "Calibrating" => m.mode = "Calibrating"
  /\ "RC_LOST" \in n.flags <=> "RC_LOST" \in m.flags

(* A flag other than RC_LOST that is raised. *)
LEMMA OtherOccurredKeepsLink ==
  ASSUME NEW m \in StateManagers, Told(m), NEW flag \in ErrorFlags \ {"RC_LOST"}, NEW p
  PROVE  KeepsLink(m, ManagerUpdate(m, Occurred({flag}), p))
<1> DEFINE e == Occurred({flag})
<1>1. /\ Mark(m, e) = [m EXCEPT !.flags = m.flags \cup {flag}]
      /\ ManagerUpdate(m, e, p) = Transition(Mark(m, e), e, p)
      /\ e.name = "ERROR_OCCURRED" /\ e # Cleared({"RC_LOST"}) /\ e # Occurred({"RC_LOST"})
  BY DEF ManagerUpdate, MachineUpdate, Mark, Occurred, Cleared
<1>2. /\ Mark(m, e).mode = m.mode
      /\ Mark(m, e) \in StateManagers
      /\ "RC_LOST" \in Mark(m, e).flags <=> "RC_LOST" \in m.flags
  BY <1>1 DEF StateManagers
<1> SUFFICES KeepsLink(m, ManagerUpdate(m, e, p))
  OBVIOUS
<1> HIDE DEF e
<1> USE DEF Goto, PreflightOr, KeepsLink, StateManagers, Modes
<1>3. CASE m.mode = "Preflight"
  BY <1>1, <1>2, <1>3 DEF Transition, FromPreflight
<1>4. CASE m.mode = "Calibrating"
  BY <1>1, <1>2, <1>4 DEF Transition, FromCalibrating
<1>5. CASE m.mode = "Armed"
  BY <1>1, <1>2, <1>5 DEF Transition, FromArmed
<1>6. CASE m.mode = "Failsafe"
  BY <1>1, <1>2, <1>6 DEF Transition, FromFailsafe
<1>7. CASE m.mode = "ErrorPresent"
  BY <1>1, <1>2, <1>7 DEF Transition, FromErrorPresent
<1>. QED
  BY <1>3, <1>4, <1>5, <1>6, <1>7 DEF Told, HalfTold

(* A flag other than RC_LOST that is cleared. *)
LEMMA OtherClearedKeepsLink ==
  ASSUME NEW m \in StateManagers, Told(m), NEW flag \in ErrorFlags \ {"RC_LOST"}, NEW p
  PROVE  KeepsLink(m, ManagerUpdate(m, Cleared({flag}), p))
<1> DEFINE e == Cleared({flag})
<1>1. /\ Mark(m, e) = [m EXCEPT !.flags = m.flags \ {flag}]
      /\ ManagerUpdate(m, e, p) = Transition(Mark(m, e), e, p)
      /\ e.name = "ERROR_CLEARED" /\ e # Cleared({"RC_LOST"}) /\ e # Occurred({"RC_LOST"})
  BY DEF ManagerUpdate, MachineUpdate, Mark, Occurred, Cleared
<1>2. /\ Mark(m, e).mode = m.mode
      /\ Mark(m, e) \in StateManagers
      /\ "RC_LOST" \in Mark(m, e).flags <=> "RC_LOST" \in m.flags
  BY <1>1 DEF StateManagers
<1> SUFFICES KeepsLink(m, ManagerUpdate(m, e, p))
  OBVIOUS
<1> HIDE DEF e
<1> USE DEF Goto, PreflightOr, KeepsLink, StateManagers, Modes
<1>3. CASE m.mode = "Preflight"
  BY <1>1, <1>2, <1>3 DEF Transition, FromPreflight
<1>4. CASE m.mode = "Calibrating"
  BY <1>1, <1>2, <1>4 DEF Transition, FromCalibrating
<1>5. CASE m.mode = "Armed"
  BY <1>1, <1>2, <1>5 DEF Transition, FromArmed
<1>6. CASE m.mode = "Failsafe"
  BY <1>1, <1>2, <1>6 DEF Transition, FromFailsafe
<1>7. CASE m.mode = "ErrorPresent"
  BY <1>1, <1>2, <1>7 DEF Transition, FromErrorPresent
<1>. QED
  BY <1>3, <1>4, <1>5, <1>6, <1>7 DEF Told, HalfTold

(* set_error_flag of a flag other than RC_LOST. *)
LEMMA SetOtherFlagKeepsLink ==
  ASSUME NEW m \in StateManagers, Told(m), NEW flag \in ErrorFlags \ {"RC_LOST"},
         NEW b \in BOOLEAN, NEW p
  PROVE  KeepsLink(m, SetErrorFlag(m, flag, b, p))
BY OtherOccurredKeepsLink, OtherClearedKeepsLink DEF SetErrorFlag, KeepsLink

(* The end of an arming calibration. *)
LEMMA CalibrationKeepsLink ==
  ASSUME NEW m \in StateManagers, m.mode = "Calibrating", NEW p,
         NEW name \in {"CALIBRATION_COMPLETE", "CALIBRATION_FAILED"}
  PROVE  KeepsLink(m, ManagerUpdate(m, Signal(name), p))
<1>1. /\ ManagerUpdate(m, Signal(name), p) = FromCalibrating(m, Signal(name))
      /\ Signal(name).name = name
  BY DEF ManagerUpdate, MachineUpdate, Mark, Signal, StateManagers, Transition
<1>. QED
  BY <1>1 DEF FromCalibrating, Goto, KeepsLink, StateManagers, Modes

-----------------------------------------------------------------------------
(* The link events *)

(* With the loss reported the machine carries RC_LOST and is not flying on   *)
(* the pilot's command.                                                      *)
LEMMA LinkLost ==
  ASSUME NEW m \in StateManagers, Told(m), NEW p
  PROVE  /\ "RC_LOST" \in ManagerUpdate(m, Occurred({"RC_LOST"}), p).flags
         /\ ManagerUpdate(m, Occurred({"RC_LOST"}), p).mode # "Armed"
<1> DEFINE e == Occurred({"RC_LOST"})
<1>1. /\ Mark(m, e) = [m EXCEPT !.flags = m.flags \cup {"RC_LOST"}]
      /\ ManagerUpdate(m, e, p) = Transition(Mark(m, e), e, p)
      /\ e.name = "ERROR_OCCURRED" /\ e # Cleared({"RC_LOST"})
  BY DEF ManagerUpdate, MachineUpdate, Mark, Occurred, Cleared
<1>2. /\ Mark(m, e).mode = m.mode
      /\ Mark(m, e) \in StateManagers
      /\ "RC_LOST" \in Mark(m, e).flags
  BY <1>1, EventTypes, MarkType DEF StateManagers, ErrorFlags
<1> USE DEF Goto, PreflightOr, StateManagers, Modes
<1>3. CASE m.mode = "Preflight"
  BY <1>1, <1>2, <1>3 DEF Transition, FromPreflight
<1>4. CASE m.mode = "Calibrating"
  BY <1>1, <1>2, <1>4 DEF Transition, FromCalibrating
<1>5. CASE m.mode = "Armed"
  BY <1>1, <1>2, <1>5 DEF Transition, FromArmed
<1>6. CASE m.mode = "Failsafe"
  BY <1>1, <1>2, <1>6 DEF Transition, FromFailsafe
<1>7. CASE m.mode = "ErrorPresent"
  BY <1>1, <1>2, <1>7 DEF Transition, FromErrorPresent
<1>. QED
  BY <1>3, <1>4, <1>5, <1>6, <1>7 DEF Told, HalfTold

(* With the link reported back RC_LOST is gone.                              *)
LEMMA LinkBack ==
  ASSUME NEW m \in StateManagers, Told(m), NEW p
  PROVE  "RC_LOST" \notin ManagerUpdate(m, Cleared({"RC_LOST"}), p).flags
<1> DEFINE e == Cleared({"RC_LOST"})
<1>1. /\ Mark(m, e) = [m EXCEPT !.flags = m.flags \ {"RC_LOST"}]
      /\ ManagerUpdate(m, e, p) = Transition(Mark(m, e), e, p)
      /\ e.name = "ERROR_CLEARED" /\ e # Occurred({"RC_LOST"})
  BY DEF ManagerUpdate, MachineUpdate, Mark, Occurred, Cleared
<1>2. /\ Mark(m, e).mode = m.mode
      /\ Mark(m, e) \in StateManagers
      /\ "RC_LOST" \notin Mark(m, e).flags
  BY <1>1, EventTypes, MarkType DEF StateManagers, ErrorFlags
<1> USE DEF Goto, PreflightOr, StateManagers, Modes
<1>3. CASE m.mode = "Preflight"
  BY <1>1, <1>2, <1>3 DEF Transition, FromPreflight
<1>4. CASE m.mode = "Calibrating"
  BY <1>1, <1>2, <1>4 DEF Transition, FromCalibrating
<1>5. CASE m.mode = "Armed"
  BY <1>1, <1>2, <1>5 DEF Transition, FromArmed
<1>6. CASE m.mode = "Failsafe"
  BY <1>1, <1>2, <1>6 DEF Transition, FromFailsafe
<1>7. CASE m.mode = "ErrorPresent"
  BY <1>1, <1>2, <1>7 DEF Transition, FromErrorPresent
<1>. QED
  BY <1>3, <1>4, <1>5, <1>6, <1>7 DEF Told, HalfTold

(* Neither gesture touches RC_LOST, nor enters failsafe from outside it.     *)
LEMMA GesturesKeepLink ==
  ASSUME NEW m \in StateManagers, Told(m), m.mode # "Failsafe", NEW p,
         NEW name \in {"REQUEST_ARM", "REQUEST_DISARM"}
  PROVE  /\ ManagerUpdate(m, Signal(name), p).mode # "Failsafe"
         /\ "RC_LOST" \in ManagerUpdate(m, Signal(name), p).flags => "RC_LOST" \in m.flags
<1> DEFINE e == Signal(name)
<1>1. /\ \/ ManagerUpdate(m, e, p) = m
         \/ ManagerUpdate(m, e, p) = Transition(m, e, p)
      /\ e.name \in {"REQUEST_ARM", "REQUEST_DISARM"}
      /\ e # Occurred({"RC_LOST"}) /\ e # Cleared({"RC_LOST"})
  BY DEF ManagerUpdate, MachineUpdate, Mark, Signal, Occurred, Cleared, StateManagers
<1> SUFFICES /\ ManagerUpdate(m, e, p).mode # "Failsafe"
             /\ "RC_LOST" \in ManagerUpdate(m, e, p).flags => "RC_LOST" \in m.flags
  OBVIOUS
<1> HIDE DEF e
<1> USE DEF Goto, PreflightOr, StateManagers, Modes
<1>2. /\ ArmFromPreflight(m, p).mode # "Failsafe"
      /\ "RC_LOST" \in ArmFromPreflight(m, p).flags => "RC_LOST" \in m.flags
  BY DEF ArmFromPreflight
<1>3. CASE m.mode = "Preflight"
  BY <1>1, <1>2, <1>3 DEF Transition, FromPreflight
<1>4. CASE m.mode = "Calibrating"
  BY <1>1, <1>4 DEF Transition, FromCalibrating
<1>5. CASE m.mode = "Armed"
  BY <1>1, <1>5 DEF Transition, FromArmed
<1>6. CASE m.mode = "ErrorPresent"
  BY <1>1, <1>2, <1>6 DEF Transition, FromErrorPresent
<1>. QED
  BY <1>3, <1>4, <1>5, <1>6 DEF Told, HalfTold

(* StateManager::run leaves the flags alone, and enters failsafe only from   *)
(* Armed with RC_LOST as the one flag.                                       *)
LEMMA RunKeepsLink ==
  ASSUME NEW m \in StateManagers, HalfTold(m), NEW p
  PROVE  /\ ManagerRun(m, p).flags = m.flags
         /\ m.mode = "Failsafe" => ManagerRun(m, p).mode = "Failsafe"
         /\ ManagerRun(m, p).mode = "Armed" => m.mode = "Armed"
         /\ ManagerRun(m, p).mode = "Failsafe"
              => m.mode = "Failsafe" \/ (m.mode = "Armed" /\ m.flags = {"RC_LOST"})
<1> DEFINE e == IF m.flags = {} THEN Cleared({}) ELSE Occurred(m.flags)
<1>1. /\ ManagerRun(m, p) = Transition(m, e, p)
      /\ e.name = IF m.flags = {} THEN "ERROR_CLEARED" ELSE "ERROR_OCCURRED"
      /\ e # Cleared({"RC_LOST"})
      /\ e = Occurred({"RC_LOST"}) => m.flags = {"RC_LOST"}
  BY DEF ManagerRun, ManagerUpdate, MachineUpdate, Mark, Cleared, Occurred, StateManagers
<1> HIDE DEF e
<1> USE DEF Goto, PreflightOr, StateManagers, Modes
<1>2. CASE m.mode = "Preflight"
  BY <1>1, <1>2 DEF Transition, FromPreflight
<1>3. CASE m.mode = "Calibrating"
  BY <1>1, <1>3 DEF Transition, FromCalibrating
<1>4. CASE m.mode = "Armed"
  BY <1>1, <1>4 DEF Transition, FromArmed
<1>5. CASE m.mode = "Failsafe"
  BY <1>1, <1>5 DEF Transition, FromFailsafe
<1>6. CASE m.mode = "ErrorPresent"
  BY <1>1, <1>6 DEF Transition, FromErrorPresent
<1>. QED
  BY <1>2, <1>3, <1>4, <1>5, <1>6 DEF HalfTold

(* The rearm after a hard fault arms a machine in any mode, errors or not.   *)
LEMMA RearmArms ==
  ASSUME NEW m \in StateManagers, Told(m), NEW p
  PROVE  /\ ManagerUpdate(m, Signal("HARDFAULT_REARM_REQUESTED"), p).mode = "Armed"
         /\ ManagerUpdate(m, Signal("HARDFAULT_REARM_REQUESTED"), p).flags = m.flags
<1> DEFINE e == Signal("HARDFAULT_REARM_REQUESTED")
<1>1. /\ ManagerUpdate(m, e, p) = Transition(m, e, p)
      /\ e.name = "HARDFAULT_REARM_REQUESTED"
      /\ e # Occurred({"RC_LOST"}) /\ e # Cleared({"RC_LOST"})
  BY DEF ManagerUpdate, MachineUpdate, Mark, Signal, Occurred, Cleared, StateManagers
<1> SUFFICES /\ ManagerUpdate(m, e, p).mode = "Armed"
             /\ ManagerUpdate(m, e, p).flags = m.flags
  OBVIOUS
<1> HIDE DEF e
<1> USE DEF Goto, StateManagers, Modes
<1>2. CASE m.mode = "Preflight"
  BY <1>1, <1>2 DEF Transition, FromPreflight
<1>3. CASE m.mode = "Calibrating"
  BY <1>1, <1>3 DEF Transition, FromCalibrating
<1>4. CASE m.mode = "Armed"
  BY <1>1, <1>4 DEF Transition, FromArmed
<1>5. CASE m.mode = "Failsafe"
  BY <1>1, <1>5 DEF Transition, FromFailsafe
<1>6. CASE m.mode = "ErrorPresent"
  BY <1>1, <1>6 DEF Transition, FromErrorPresent
<1>. QED
  BY <1>2, <1>3, <1>4, <1>5, <1>6 DEF Told, HalfTold

-----------------------------------------------------------------------------
(* What events do to the flags                                               *)

(* Two machines whose flags differ in those of F at most.                    *)
Touches(m, n, F) == m.flags \ F = n.flags \ F

(* What is touched stays touched among more.                                 *)
LEMMA TouchesMore ==
  ASSUME NEW m, NEW n, NEW F, NEW G, Touches(m, n, F), F \subseteq G
  PROVE  Touches(m, n, G)
BY DEF Touches

(* A stage that applies several events touches what each of them does.       *)
LEMMA TouchesTransitive ==
  ASSUME NEW k, NEW m, NEW n, NEW F, NEW G, Touches(k, m, F), Touches(m, n, G)
  PROVE  Touches(k, n, F \cup G)
<1>. QED
  BY DEF Touches

(* A transition keeps the flags, but for UNCALIBRATED_IMU where it arms.     *)
LEMMA TransitionFlags ==
  ASSUME NEW m \in StateManagers, NEW e, NEW p
  PROVE  /\ Touches(m, Transition(m, e, p), {"UNCALIBRATED_IMU"})
         /\ e.name \notin {"REQUEST_ARM", "CALIBRATION_COMPLETE"} =>
              Transition(m, e, p).flags = m.flags
<1> USE DEF Goto, PreflightOr, StateManagers, Modes, Touches
<1>1. Touches(m, ArmFromPreflight(m, p), {"UNCALIBRATED_IMU"})
  BY DEF ArmFromPreflight
<1>2. CASE m.mode = "Init"
  BY <1>2 DEF Transition, FromInit
<1>3. CASE m.mode = "Preflight"
  BY <1>1, <1>3 DEF Transition, FromPreflight
<1>4. CASE m.mode = "Calibrating"
  BY <1>4 DEF Transition, FromCalibrating
<1>5. CASE m.mode = "Armed"
  BY <1>5 DEF Transition, FromArmed
<1>6. CASE m.mode = "Failsafe"
  BY <1>6 DEF Transition, FromFailsafe
<1>7. CASE m.mode = "ErrorPresent"
  BY <1>1, <1>7 DEF Transition, FromErrorPresent
<1>8. CASE m.mode = "ErrorFailsafe"
  BY <1>8 DEF Transition, FromErrorFailsafe
<1>. QED
  BY <1>2, <1>3, <1>4, <1>5, <1>6, <1>7, <1>8

(* An error event is marked and then makes its transition.                   *)
LEMMA ErrorEventUpdate ==
  ASSUME NEW m \in StateManagers, NEW F \in SUBSET ErrorFlags, NEW p,
         NEW e \in {Occurred(F), Cleared(F)}
  PROVE  /\ ManagerUpdate(m, e, p) = Transition(Mark(m, e), e, p)
         /\ Mark(m, e) \in StateManagers /\ Mark(m, e).mode = m.mode
         /\ e.name \in {"ERROR_OCCURRED", "ERROR_CLEARED"}
<1>1. e \in Events
  BY EventTypes
<1>2. e.name \in {"ERROR_OCCURRED", "ERROR_CLEARED"}
  BY DEF Occurred, Cleared
<1>. QED
  BY <1>1, <1>2, MarkType DEF ManagerUpdate, MachineUpdate

(* An error event sets, or clears, the flags it carries and no other.        *)
LEMMA ErrorEventFlags ==
  ASSUME NEW m \in StateManagers, NEW F \in SUBSET ErrorFlags, NEW p
  PROVE  /\ ManagerUpdate(m, Occurred(F), p).flags = m.flags \cup F
         /\ ManagerUpdate(m, Cleared(F), p).flags = m.flags \ F
<1>1. \A e \in {Occurred(F), Cleared(F)} :
        /\ ManagerUpdate(m, e, p) = Transition(Mark(m, e), e, p)
        /\ Mark(m, e) \in StateManagers
        /\ e.name \in {"ERROR_OCCURRED", "ERROR_CLEARED"}
  BY ErrorEventUpdate
<1>2. /\ Mark(m, Occurred(F)).flags = m.flags \cup F
      /\ Mark(m, Cleared(F)).flags = m.flags \ F
  BY DEF Mark, Occurred, Cleared, StateManagers
<1>. QED
  BY <1>1, <1>2, TransitionFlags

(* set_error_flag leaves the flag as it was told to, and touches no other.   *)
LEMMA SetErrorFlagFlags ==
  ASSUME NEW m \in StateManagers, NEW flag \in ErrorFlags, NEW b \in BOOLEAN, NEW p
  PROVE  /\ Touches(m, SetErrorFlag(m, flag, b, p), {flag})
         /\ flag \in SetErrorFlag(m, flag, b, p).flags <=> b
<1>1. {flag} \in SUBSET ErrorFlags
  OBVIOUS
<1>2. CASE b = (flag \in m.flags)
  BY <1>2 DEF SetErrorFlag, Touches
<1>3. CASE b # (flag \in m.flags) /\ b = TRUE
  BY <1>1, <1>3, ErrorEventFlags DEF SetErrorFlag, Touches
<1>4. CASE b # (flag \in m.flags) /\ b = FALSE
  BY <1>1, <1>4, ErrorEventFlags DEF SetErrorFlag, Touches
<1>. QED
  BY <1>2, <1>3, <1>4

-----------------------------------------------------------------------------
(* What arms                                                                 *)

(* An error event neither arms a machine nor sends it to calibrate.          *)
LEMMA ErrorEventArmsNone ==
  ASSUME NEW m \in StateManagers, HalfTold(m), NEW F \in SUBSET ErrorFlags, NEW p,
         NEW e \in {Occurred(F), Cleared(F)}
  PROVE  /\ ~ IsArmed(m) => ~ IsArmed(ManagerUpdate(m, e, p))
         /\ IsCalibrating(ManagerUpdate(m, e, p)) => IsCalibrating(m)
         /\ IsCalibrating(m) /\ e = Cleared(F) => IsCalibrating(ManagerUpdate(m, e, p))
<1>0. e = Cleared(F) => e.name = "ERROR_CLEARED"
  BY DEF Cleared
<1>1. /\ ManagerUpdate(m, e, p) = Transition(Mark(m, e), e, p)
      /\ Mark(m, e) \in StateManagers /\ Mark(m, e).mode = m.mode
      /\ e.name \in {"ERROR_OCCURRED", "ERROR_CLEARED"}
  BY ErrorEventUpdate
<1> USE DEF Goto, PreflightOr, StateManagers, Modes, IsArmed, IsCalibrating
<1>2. CASE m.mode = "Preflight"
  BY <1>1, <1>2 DEF Transition, FromPreflight
<1>3. CASE m.mode = "Calibrating"
  BY <1>0, <1>1, <1>3 DEF Transition, FromCalibrating
<1>4. CASE m.mode = "Armed"
  BY <1>1, <1>4 DEF Transition, FromArmed
<1>5. CASE m.mode = "Failsafe"
  BY <1>1, <1>5 DEF Transition, FromFailsafe
<1>6. CASE m.mode = "ErrorPresent"
  BY <1>1, <1>6 DEF Transition, FromErrorPresent
<1>. QED
  BY <1>2, <1>3, <1>4, <1>5, <1>6 DEF HalfTold

(* So does set_error_flag.                                                   *)
LEMMA SetErrorFlagArmsNone ==
  ASSUME NEW m \in StateManagers, HalfTold(m), NEW flag \in ErrorFlags,
         NEW b \in BOOLEAN, NEW p
  PROVE  /\ ~ IsArmed(m) => ~ IsArmed(SetErrorFlag(m, flag, b, p))
         /\ IsCalibrating(SetErrorFlag(m, flag, b, p)) => IsCalibrating(m)
BY ErrorEventArmsNone DEF SetErrorFlag

(* A request to disarm touches no flag.                                      *)
LEMMA DisarmFlags ==
  ASSUME NEW m \in StateManagers, NEW p
  PROVE  ManagerUpdate(m, Signal("REQUEST_DISARM"), p).flags = m.flags
<1> DEFINE e == Signal("REQUEST_DISARM")
<1>1. ManagerUpdate(m, e, p) = Transition(m, e, p) /\ e.name = "REQUEST_DISARM"
  BY DEF ManagerUpdate, MachineUpdate, Mark, Signal, StateManagers
<1> HIDE DEF e
<1>2. Transition(m, e, p).flags = m.flags
  BY <1>1, TransitionFlags
<1>. QED
  BY <1>1, <1>2 DEF e

(* A request to arm touches no flag of a machine that tells the truth.  It    *)
(* arms, or starts to calibrate, only as the RC inputs allow, and it arms     *)
(* only without a blocking error and not past a calibration under way.        *)
LEMMA ArmRequest ==
  ASSUME NEW m \in StateManagers, Told(m), ~ IsArmed(m), NEW p
  PROVE  LET n == ManagerUpdate(m, Signal("REQUEST_ARM"), p)
         IN  /\ n.flags = m.flags
             /\ IsArmed(n) => ArmingBlockingErrors(n, p) = {}
             /\ IsCalibrating(m) => IsCalibrating(n)
             /\ IsArmed(n) \/ IsCalibrating(n) =>
                  IsCalibrating(m) \/ ArmingSafetyAllowsArm(n, p)
<1> DEFINE e == Signal("REQUEST_ARM")
           n == ManagerUpdate(m, e, p)
<1>1. /\ Mark(m, e) = m
      /\ e.name = "REQUEST_ARM" /\ e # Occurred({"RC_LOST"}) /\ e # Cleared({"RC_LOST"})
  BY DEF Mark, Signal, Occurred, Cleared, StateManagers
<1>2. /\ n = m \/ n = Transition(m, e, p)
      /\ ArmingAttemptCanTransition(m, p) /\ ~ ArmingSafetyAllowsArm(m, p) => n = m
  BY <1>1 DEF ManagerUpdate, MachineUpdate
<1>3. ArmingSafetyAllowsArm(n, p) <=> ArmingSafetyAllowsArm(m, p)
  BY UpdateType, EventTypes DEF ArmingSafetyAllowsArm, SignalNames
<1> SUFFICES /\ n.flags = m.flags
             /\ IsArmed(n) => ArmingBlockingErrors(n, p) = {}
             /\ IsCalibrating(m) => IsCalibrating(n)
             /\ IsArmed(n) \/ IsCalibrating(n) =>
                  IsCalibrating(m) \/ ArmingSafetyAllowsArm(n, p)
  OBVIOUS
<1> HIDE DEF n, e
<1> USE DEF Goto, StateManagers, Modes, IsArmed, IsCalibrating, Told, HalfTold
<1>4. CASE m.mode = "Preflight"
  <2>1. /\ ArmFromPreflight(m, p).flags = m.flags
        /\ ArmFromPreflight(m, p).mode \in {"Armed", "Calibrating"}
    BY <1>4 DEF ArmFromPreflight
  <2>. QED
    BY <1>1, <1>2, <1>3, <1>4, <2>1
    DEF Transition, FromPreflight, ArmingBlockingErrors, ArmingAttemptCanTransition
<1>5. CASE m.mode = "Calibrating"
  BY <1>1, <1>2, <1>5 DEF Transition, FromCalibrating
<1>6. CASE m.mode = "ErrorPresent" /\ ArmingBlockingErrors(m, p) = {}
  <2>1. /\ ArmFromPreflight(m, p).flags = m.flags
        /\ ArmFromPreflight(m, p).mode \in {"Armed", "Calibrating"}
    BY <1>6 DEF ArmFromPreflight, ArmingBlockingErrors
  <2>. QED
    BY <1>1, <1>2, <1>3, <1>6, <2>1
    DEF Transition, FromErrorPresent, ArmingBlockingErrors, ArmingAttemptCanTransition
<1>7. CASE m.mode = "ErrorPresent" /\ ArmingBlockingErrors(m, p) # {}
  BY <1>1, <1>2, <1>7 DEF Transition, FromErrorPresent
<1>. QED
  BY <1>4, <1>5, <1>6, <1>7

(* The end of a calibration leaves no flag, and arms if it ended well.       *)
LEMMA CalibrationEnds ==
  ASSUME NEW m \in StateManagers, Told(m), m.mode = "Calibrating", NEW p
  PROVE  /\ ManagerUpdate(m, Signal("CALIBRATION_COMPLETE"), p).flags = {}
         /\ ManagerUpdate(m, Signal("CALIBRATION_FAILED"), p).flags = {}
         /\ ManagerUpdate(m, Signal("CALIBRATION_FAILED"), p).mode = "Preflight"
<1>1. \A name \in {"CALIBRATION_COMPLETE", "CALIBRATION_FAILED"} :
        ManagerUpdate(m, Signal(name), p) = FromCalibrating(m, Signal(name))
  BY DEF ManagerUpdate, MachineUpdate, Mark, Signal, StateManagers, Transition
<1>2. m.flags = {}
  BY DEF Told
<1>3. ManagerUpdate(m, Signal("CALIBRATION_COMPLETE"), p).flags = {}
  BY <1>1, <1>2 DEF FromCalibrating, Signal, StateManagers
<1>4. ManagerUpdate(m, Signal("CALIBRATION_FAILED"), p) = [m EXCEPT !.mode = "Preflight"]
  BY <1>1 DEF FromCalibrating, Signal, Goto
<1>. QED
  BY <1>2, <1>3, <1>4 DEF StateManagers

(* StateManager::run neither arms nor starts a calibration.                  *)
LEMMA RunArmsNone ==
  ASSUME NEW m \in StateManagers, HalfTold(m), NEW p
  PROVE  /\ ~ IsArmed(m) => ~ IsArmed(ManagerRun(m, p))
         /\ IsCalibrating(ManagerRun(m, p)) => IsCalibrating(m)
BY ErrorEventArmsNone DEF ManagerRun, StateManagers

-----------------------------------------------------------------------------
(* Types of what the stages compute *)

(* StateManager::new is a machine.                                           *)
LEMMA NewIsManager == NewStateManager \in StateManagers
BY DEF NewStateManager, StateManagers, Modes

(* A disturbance either may happen or does not.                              *)
LEMMA MayBoolean == \A source : May(source) \subseteq BOOLEAN
BY DEF May

(* World::init leaves a machine.                                             *)
LEMMA BootType ==
  ASSUME NEW p, NEW s \in Booted(p)
  PROVE  s \in StateManagers
<1>1. PICK uncalibrated \in BOOLEAN, rearm \in BOOLEAN :
        s = BootState(p, uncalibrated, rearm)
  BY MayBoolean DEF Booted
<1> DEFINE initialized == ManagerUpdate(NewStateManager, Signal("INITIALIZED"), p)
           interlocked == SetErrorFlag(initialized, "UNCALIBRATED_IMU", uncalibrated, p)
<1>2. initialized \in StateManagers
  BY NewIsManager, UpdateType, EventTypes DEF SignalNames
<1>3. interlocked \in StateManagers
  BY <1>2, SetErrorFlagType DEF ErrorFlags
<1>. QED
  BY <1>1, <1>3, UpdateType, EventTypes DEF BootState, SignalNames, ErrorFlags

(* So does apply_param_reactions.                                            *)
LEMMA ReactedType ==
  ASSUME NEW s \in StateManagers, NEW p, NEW reactions
  PROVE  Reacted(s, p, reactions) \in StateManagers
BY UpdateType, EventTypes DEF Reacted, ErrorFlags

(* So does the end of an arming calibration.                                 *)
LEMMA CalibrationProgressType ==
  ASSUME NEW s \in StateManagers, NEW flags, NEW p
  PROVE  CalibrationProgress(s, flags, p) \in StateManagers
BY UpdateType, EventTypes DEF CalibrationProgress, SignalNames

(* So does update_sensor_health.                                             *)
LEMMA HealthType ==
  ASSUME NEW s \in StateManagers, NEW seen, NEW aged, NEW p
  PROVE  Health(s, seen, aged, p) \in StateManagers
BY SetErrorFlagType DEF Health, ErrorFlags

(* So do the two together, and the calibration flags stay what they are.     *)
LEMMA HealthAndCalibrationType ==
  ASSUME NEW s \in StateManagers, NEW flags \in SUBSET CalFlags, NEW seen
  PROVE  /\ HealthAndCalibration(s, flags, seen) \in StateManagers
         /\ FlagsLeft(s, flags, seen) \in SUBSET CalFlags
BY HealthType, CalibrationProgressType DEF HealthAndCalibration, FlagsLeft

(* So does the end of an accelerometer calibration.                          *)
LEMMA IngestedType ==
  ASSUME state \in StateManagers, NEW flags
  PROVE  Ingested(flags) \in StateManagers
BY SetErrorFlagType DEF Ingested, InterlockCleared, ErrorFlags

(* So do the pilot's gestures.                                               *)
LEMMA LookForArmDisarmType ==
  ASSUME NEW s \in StateManagers, NEW gesture, NEW low \in BOOLEAN,
         NEW override \in BOOLEAN, NEW p
  PROVE  LookForArmDisarm(s, gesture, low, override, p) \in StateManagers
<1>1. UpdateArmingSafety(s, low, override) \in StateManagers
  BY DEF UpdateArmingSafety, StateManagers
<1>. QED
  BY <1>1, UpdateType, EventTypes DEF LookForArmDisarm, SignalNames

(* So does Rc::run.                                                          *)
LEMMA RcRunType ==
  ASSUME NEW s \in StateManagers, NEW packet, NEW gesture, NEW low \in BOOLEAN,
         NEW override \in BOOLEAN, NEW p
  PROVE  RcRun(s, packet, gesture, low, override, p) \in StateManagers
BY UpdateType, EventTypes, LookForArmDisarmType DEF RcRun, ErrorFlags

(* So does the check of the link in CommandManager::run.                     *)
LEMMA CommandChecksRcType ==
  ASSUME NEW s \in StateManagers, NEW packet, NEW p
  PROVE  CommandChecksRc(s, packet, p) \in StateManagers
BY UpdateType, EventTypes DEF CommandChecksRc, ErrorFlags

(* So does StateManager::run.                                                *)
LEMMA ManagerRunType ==
  ASSUME NEW s \in StateManagers, NEW p
  PROVE  ManagerRun(s, p) \in StateManagers
<1>1. s.flags \in SUBSET ErrorFlags
  BY DEF StateManagers
<1>. QED
  BY <1>1, UpdateType, EventTypes DEF ManagerRun

(* So does the control pipeline.                                             *)
LEMMA ControlOutcomeType ==
  ASSUME NEW s \in StateManagers, NEW wasPrimed, NEW forward, NEW healthy \in BOOLEAN,
         NEW p \in FlightParams
  PROVE  ControlOutcome(s, wasPrimed, forward, healthy, p) \in StateManagers
<1> DEFINE timed == SetErrorFlag(s, "TIME_GOING_BACKWARDS", FALSE, p)
           estimated == SetErrorFlag(timed, "UNHEALTHY_ESTIMATOR", ~ healthy, p)
<1>1. timed \in StateManagers
  BY SetErrorFlagType DEF ErrorFlags
<1>2. estimated \in StateManagers
  BY <1>1, SetErrorFlagType DEF ErrorFlags
<1>3. p.mixerValid \in BOOLEAN
  BY DEF FlightParams
<1>4. SetErrorFlag(estimated, "INVALID_MIXER", ~ p.mixerValid, p) \in StateManagers
  BY <1>2, <1>3, SetErrorFlagType DEF ErrorFlags
<1>5. SetErrorFlag(s, "TIME_GOING_BACKWARDS", TRUE, p) \in StateManagers
  BY SetErrorFlagType DEF ErrorFlags
<1>. QED
  BY <1>4, <1>5 DEF ControlOutcome

-----------------------------------------------------------------------------
(* Type correctness *)

(* The packet and the machines inside the RC, command and state stage.       *)
LEMMA RcStageType ==
  ASSUME TypeOK, NEW gesture, NEW low \in BOOLEAN, NEW override \in BOOLEAN
  PROVE  /\ LastPacket \in [inOrder: BOOLEAN, stale: BOOLEAN]
         /\ AfterRc(gesture, low, override) \in StateManagers
         /\ AfterLink(gesture, low, override) \in StateManagers
<1>1. LastPacket \in [inOrder: BOOLEAN, stale: BOOLEAN]
  BY DEF LastPacket, TypeOK
<1>2. AfterRc(gesture, low, override) \in StateManagers
  BY RcRunType DEF AfterRc, TypeOK
<1>. QED
  BY <1>1, <1>2, CommandChecksRcType DEF AfterLink

(* World::init establishes the types.                                        *)
LEMMA InitTyped == Init => TypeOK
<1> SUFFICES ASSUME Init PROVE TypeOK
  OBVIOUS
<1>1. params \in FlightParams
  BY DEF Init, Reachable
<1>2. state \in StateManagers
  BY BootType DEF Init
<1>. QED
  BY <1>1, <1>2 DEF Init, TypeOK, NewRc, FirstStage, Stages

(* Every step keeps them.                                                    *)
LEMMA NextTyped == ASSUME TypeOK, [Next]_vars PROVE TypeOK'
<1>1. CASE Comm
  <2>1. PICK command \in CalibrationCommands, p \in Reachable(params),
             reactions \in SUBSET {"mixer", "failsafe"} :
          /\ params' = p
          /\ calFlags' = RequestedGyro(state, AppliedCalibration(state, calFlags, command))
          /\ state' = Reacted(state, p, reactions)
    BY <1>1 DEF Comm
  <2>2. calFlags' \subseteq CalFlags
    BY <2>1 DEF TypeOK, RequestedGyro, AppliedCalibration, CalFlags
  <2>3. state' \in StateManagers /\ params' \in FlightParams
    BY <2>1, ReactedType DEF TypeOK, Reachable
  <2>. QED
    BY <1>1, <2>2, <2>3 DEF Comm, TypeOK, Stages
<1>2. CASE Sensors
  <2>1. PICK sample \in BOOLEAN, flags \in SUBSET CalFlags :
          /\ Intake(sample, flags)
          /\ state' = HealthAndCalibration(Ingested(flags), flags, sample)
          /\ primed' = StillPrimed(flags)
    BY <1>2 DEF Sensors
  <2>2. Ingested(flags) \in StateManagers
    BY IngestedType DEF TypeOK
  <2>. QED
    BY <1>2, <2>1, <2>2, HealthAndCalibrationType
    DEF Sensors, Intake, TypeOK, Stages, RawRc, StillPrimed, Succeeded
<1>3. CASE ServiceSensors
  BY <1>3, HealthAndCalibrationType DEF ServiceSensors, TypeOK, Stages, RawRc
<1>4. CASE RcCommandState
  <2>1. PICK gesture \in {"none", "hold", "request"}, low \in BOOLEAN, override \in BOOLEAN :
          /\ combined' = CombinedCommand(AfterLink(gesture, low, override))
          /\ state' = ManagerRun(AfterLink(gesture, low, override), params)
    BY <1>4 DEF RcCommandState
  <2>2. state' \in StateManagers
    BY <2>1, RcStageType, ManagerRunType
  <2>3. rc' \in [inOrder: BOOLEAN, stale: BOOLEAN]
    BY <1>4, RcStageType DEF RcCommandState
  <2>. QED
    BY <1>4, <2>1, <2>2, <2>3 DEF RcCommandState, CombinedCommand, TypeOK, Stages
<1>5. CASE Control
  <2>1. state' \in StateManagers /\ primed' \in BOOLEAN
    <3>1. CASE imu
      <4>1. PICK backward \in BOOLEAN, unhealthy \in BOOLEAN :
              /\ state' = ControlOutcome(state, primed, ~ backward, ~ unhealthy, params)
              /\ primed' = TRUE
        BY <1>5, <3>1, MayBoolean DEF Control
      <4>. QED
        BY <4>1, ControlOutcomeType DEF TypeOK
    <3>2. CASE ~ imu
      BY <1>5, <3>2 DEF Control, TypeOK
    <3>. QED
      BY <3>1, <3>2
  <2>. QED
    BY <1>5, <2>1 DEF Control, TypeOK, Stages
<1>6. CASE ImuControlTick
  <2>1. PICK failed \in BOOLEAN, due \in BOOLEAN, backward \in May("clock"),
             unhealthy \in May("estimator"), flags \in SUBSET CalFlags :
          LET taken == HealthAndCalibration(Ingested(flags), flags, ~ failed)
              runs  == due /\ (samples \/ ~ failed)
          IN  /\ Intake(~ failed, flags)
              /\ samples' = (~ runs /\ (samples \/ ~ failed))
              /\ IF runs
                 THEN /\ state' = ControlOutcome(taken, StillPrimed(flags),
                                                 ~ backward, ~ unhealthy, params)
                      /\ primed' = TRUE
                 ELSE /\ state' = taken
                      /\ primed' = StillPrimed(flags)
    BY <1>6 DEF ImuControlTick
  <2>2. Ingested(flags) \in StateManagers
    BY IngestedType DEF TypeOK
  <2>3. HealthAndCalibration(Ingested(flags), flags, ~ failed) \in StateManagers
    BY <2>2, HealthAndCalibrationType
  <2>4. state' \in StateManagers
    <3>1. (~ unhealthy) \in BOOLEAN /\ params \in FlightParams
      BY DEF TypeOK
    <3>2. ControlOutcome(HealthAndCalibration(Ingested(flags), flags, ~ failed),
            StillPrimed(flags), ~ backward, ~ unhealthy, params) \in StateManagers
      BY <2>3, <3>1, ControlOutcomeType
    <3>. QED
      BY <2>1, <2>3, <3>2
  <2>5. calFlags' \subseteq CalFlags /\ imu' \in BOOLEAN /\ imuAged' \in BOOLEAN
        /\ gyroCalibrated' \in BOOLEAN /\ primed' \in BOOLEAN
    BY <2>1, <2>2, HealthAndCalibrationType DEF Intake, TypeOK, StillPrimed, Succeeded
  <2>6. samples' \in BOOLEAN
    BY <2>1 DEF TypeOK
  <2>. QED
    BY <1>6, <2>4, <2>5, <2>6 DEF ImuControlTick, TypeOK, Stages
<1>7. CASE ControlUpdateTick
  <2>1. PICK backward \in BOOLEAN, unhealthy \in BOOLEAN :
          state' = ControlOutcome(state, primed, ~ backward, ~ unhealthy, params)
    BY <1>7, MayBoolean DEF ControlUpdateTick
  <2>2. state' \in StateManagers
    BY <2>1, ControlOutcomeType DEF TypeOK
  <2>. QED
    BY <1>7, <2>2 DEF ControlUpdateTick, TypeOK, Stages
<1>8. CASE BeginService
  BY <1>8 DEF BeginService, TypeOK, Stages
<1>9. CASE ServiceClosed
  BY <1>9 DEF ServiceClosed, TypeOK, Stages
<1>10. CASE RcAges
  BY <1>10 DEF RcAges, TypeOK, Stages
<1>11. CASE ImuAges
  BY <1>11 DEF ImuAges, TypeOK, Stages
<1>12. CASE ImuInterrupt
  BY <1>12 DEF ImuInterrupt, TypeOK, Stages
<1>13. CASE Restart
  BY <1>13, BootType DEF Restart, TypeOK, Stages, FirstStage, Reachable, NewRc
<1>14. CASE UNCHANGED vars
  BY <1>14 DEF vars, TypeOK, Stages
<1>. QED
  BY <1>1, <1>2, <1>3, <1>4, <1>5, <1>6, <1>7, <1>8, <1>9, <1>10, <1>11, <1>12,
     <1>13, <1>14 DEF Next, Step

(* Every variable of FlightCore keeps its type.                              *)
THEOREM Typing == Spec => []TypeOK
BY InitTyped, NextTyped, PTL DEF Spec

-----------------------------------------------------------------------------
(* The safety invariant: the mode, the flags, the link and the command that  *)
(* is in force agree with each other.                                        *)
IInv ==
  /\ TypeOK
  /\ ModeTellsErrors
  /\ LinkFlagCurrent
  /\ FailsafeCommandInForce
  /\ FailsafeCommandWithdrawn

(* The property the runs check, as the lemmas about the machine say it.      *)
LEMMA ModeTellsErrorsIsTold == TypeOK => (ModeTellsErrors <=> Told(state))
BY DEF ModeTellsErrors, Told, HalfTold

(* The next machine tells the truth and agrees with m about the link.        *)
Carries(m, n) == n \in StateManagers /\ Told(n) /\ KeepsLink(m, n)

(* A stage that applies several events carries the machine on if each does.  *)
LEMMA CarriesTransitive ==
  ASSUME NEW k, NEW m, NEW n, Carries(k, m), Carries(m, n)
  PROVE  Carries(k, n)
BY DEF Carries, KeepsLink

(* A stage that applies none does too.                                       *)
LEMMA CarriesSelf ==
  ASSUME NEW m \in StateManagers, Told(m)
  PROVE  Carries(m, m)
BY DEF Carries, KeepsLink

(* set_error_flag of a flag other than RC_LOST carries the machine on.       *)
LEMMA SetOtherFlagCarries ==
  ASSUME NEW m \in StateManagers, Told(m), NEW flag \in ErrorFlags \ {"RC_LOST"},
         NEW b \in BOOLEAN, NEW p
  PROVE  Carries(m, SetErrorFlag(m, flag, b, p))
BY SetErrorFlagType, SetErrorFlagTold, SetOtherFlagKeepsLink DEF Carries

(* So does an error event that names one such flag.                          *)
LEMMA OtherErrorCarries ==
  ASSUME NEW m \in StateManagers, Told(m), NEW flag \in ErrorFlags \ {"RC_LOST"}, NEW p
  PROVE  /\ Carries(m, ManagerUpdate(m, Occurred({flag}), p))
         /\ Carries(m, ManagerUpdate(m, Cleared({flag}), p))
<1>1. Occurred({flag}) \in Events /\ Cleared({flag}) \in Events
  BY EventTypes
<1>. QED
  BY <1>1, UpdateType, OccurredTold, ClearedTold, OtherOccurredKeepsLink,
     OtherClearedKeepsLink DEF Carries

(* So does the end of an arming calibration.                                 *)
LEMMA CalibrationProgressCarries ==
  ASSUME NEW m \in StateManagers, Told(m), NEW flags, NEW p
  PROVE  Carries(m, CalibrationProgress(m, flags, p))
<1>1. CASE m.mode = "Calibrating"
  <2>1. \A name \in {"CALIBRATION_COMPLETE", "CALIBRATION_FAILED"} :
          Carries(m, ManagerUpdate(m, Signal(name), p))
    BY <1>1, CalibrationTold, CalibrationKeepsLink, UpdateType, EventTypes
    DEF Carries, SignalNames
  <2>. QED
    BY <2>1, CarriesSelf DEF CalibrationProgress
<1>2. CASE m.mode # "Calibrating"
  BY <1>2, CarriesSelf DEF CalibrationProgress, CalibrationFailed, IsCalibrating
<1>. QED
  BY <1>1, <1>2

(* So does update_sensor_health.                                             *)
LEMMA HealthCarries ==
  ASSUME NEW m \in StateManagers, Told(m), NEW seen, NEW aged, NEW p
  PROVE  Carries(m, Health(m, seen, aged, p))
BY SetOtherFlagCarries, CarriesSelf DEF Health, ErrorFlags

(* So do the two together.                                                   *)
LEMMA HealthAndCalibrationCarries ==
  ASSUME NEW m \in StateManagers, Told(m), NEW flags, NEW seen
  PROVE  Carries(m, HealthAndCalibration(m, flags, seen))
<1>1. Carries(m, Health(m, seen, imuAged, params))
  BY HealthCarries
<1>2. Carries(Health(m, seen, imuAged, params), HealthAndCalibration(m, flags, seen))
  BY <1>1, CalibrationProgressCarries DEF HealthAndCalibration, Carries
<1>. QED
  BY <1>1, <1>2, CarriesTransitive

(* So does the end of an accelerometer calibration.                          *)
LEMMA IngestedCarries ==
  ASSUME state \in StateManagers, Told(state), NEW flags
  PROVE  Carries(state, Ingested(flags))
BY SetOtherFlagCarries, CarriesSelf DEF Ingested, InterlockCleared, ErrorFlags

(* So does taking in one sample, all three together.                         *)
LEMMA IntakeCarries ==
  ASSUME state \in StateManagers, Told(state), NEW flags, NEW seen
  PROVE  Carries(state, HealthAndCalibration(Ingested(flags), flags, seen))
<1>1. Carries(state, Ingested(flags))
  BY IngestedCarries
<1>2. Carries(Ingested(flags), HealthAndCalibration(Ingested(flags), flags, seen))
  BY <1>1, HealthAndCalibrationCarries DEF Carries
<1>. QED
  BY <1>1, <1>2, CarriesTransitive

(* So does the control pipeline, which may raise or clear three errors.      *)
LEMMA ControlOutcomeCarries ==
  ASSUME NEW m \in StateManagers, Told(m), NEW wasPrimed, NEW forward,
         NEW healthy \in BOOLEAN, NEW p \in FlightParams
  PROVE  Carries(m, ControlOutcome(m, wasPrimed, forward, healthy, p))
<1> DEFINE timed == SetErrorFlag(m, "TIME_GOING_BACKWARDS", FALSE, p)
           estimated == SetErrorFlag(timed, "UNHEALTHY_ESTIMATOR", ~ healthy, p)
           mixed == SetErrorFlag(estimated, "INVALID_MIXER", ~ p.mixerValid, p)
<1>1. Carries(m, timed)
  BY SetOtherFlagCarries DEF ErrorFlags
<1>2. Carries(timed, estimated)
  BY <1>1, SetOtherFlagCarries DEF ErrorFlags, Carries
<1>3. Carries(estimated, mixed)
  BY <1>2, SetOtherFlagCarries DEF ErrorFlags, Carries, FlightParams
<1>4. Carries(m, mixed)
  BY <1>1, <1>2, <1>3, CarriesTransitive
<1>5. Carries(m, SetErrorFlag(m, "TIME_GOING_BACKWARDS", TRUE, p))
  BY SetOtherFlagCarries DEF ErrorFlags
<1>. QED
  BY <1>4, <1>5, CarriesSelf DEF ControlOutcome

(* So does apply_param_reactions, which may raise or clear two.              *)
LEMMA ReactedCarries ==
  ASSUME NEW m \in StateManagers, Told(m), NEW p, NEW reactions
  PROVE  Carries(m, Reacted(m, p, reactions))
<1> DEFINE mixed == IF "mixer" \notin reactions THEN m
                    ELSE ManagerUpdate(m, IF p.mixerValid THEN Cleared({"INVALID_MIXER"})
                                                          ELSE Occurred({"INVALID_MIXER"}), p)
           checked == IF "failsafe" \notin reactions THEN mixed
                      ELSE ManagerUpdate(mixed,
                             IF p.failsafeValid THEN Cleared({"INVALID_FAILSAFE"})
                                                ELSE Occurred({"INVALID_FAILSAFE"}), p)
<1>1. Carries(m, mixed)
  BY OtherErrorCarries, CarriesSelf DEF ErrorFlags
<1>2. Carries(mixed, checked)
  <2> HIDE DEF mixed
  <2>. QED
    BY <1>1, OtherErrorCarries, CarriesSelf DEF ErrorFlags, Carries
<1>3. Reacted(m, p, reactions) = checked
  BY DEF Reacted
<1>. QED
  BY <1>1, <1>2, <1>3, CarriesTransitive

(* INITIALIZED takes a new machine to Preflight, without a flag.             *)
LEMMA InitializedTold ==
  ASSUME NEW p
  PROVE  LET initialized == ManagerUpdate(NewStateManager, Signal("INITIALIZED"), p)
         IN  /\ initialized \in StateManagers /\ Told(initialized)
             /\ initialized.mode = "Preflight" /\ initialized.flags = {}
<1> DEFINE initialized == ManagerUpdate(NewStateManager, Signal("INITIALIZED"), p)
<1> SUFFICES /\ initialized \in StateManagers /\ Told(initialized)
             /\ initialized.mode = "Preflight" /\ initialized.flags = {}
  OBVIOUS
<1>1. initialized = Transition(NewStateManager, Signal("INITIALIZED"), p)
  BY NewIsManager DEF ManagerUpdate, MachineUpdate, Mark, Signal, StateManagers
<1>2. NewStateManager.mode = "Init" /\ NewStateManager.flags = {}
  BY DEF NewStateManager
<1>3. initialized = [NewStateManager EXCEPT !.mode = "Preflight"]
  BY <1>1, <1>2 DEF Transition, FromInit, Signal, Goto
<1> HIDE DEF initialized
<1>. QED
  BY <1>2, <1>3, NewIsManager DEF StateManagers, Modes, Told, HalfTold

(* A machine fresh from World::init tells the truth and has not lost a link. *)
LEMMA BootTold ==
  ASSUME NEW p, NEW s \in Booted(p)
  PROVE  /\ Told(s)
         /\ s.mode \notin {"Calibrating", "Failsafe"}
         /\ "RC_LOST" \notin s.flags
<1>1. PICK uncalibrated \in BOOLEAN, rearm \in BOOLEAN :
        s = BootState(p, uncalibrated, rearm)
  BY MayBoolean DEF Booted
<1> DEFINE initialized == ManagerUpdate(NewStateManager, Signal("INITIALIZED"), p)
           interlocked == SetErrorFlag(initialized, "UNCALIBRATED_IMU", uncalibrated, p)
           checked     == ManagerUpdate(interlocked,
                            IF p.failsafeValid THEN Cleared({"INVALID_FAILSAFE"})
                                               ELSE Occurred({"INVALID_FAILSAFE"}), p)
<1>2. /\ initialized \in StateManagers /\ Told(initialized)
      /\ initialized.mode = "Preflight" /\ initialized.flags = {}
  BY InitializedTold
<1>3. Carries(initialized, interlocked)
  <2> HIDE DEF initialized
  <2>. QED
    BY <1>2, SetOtherFlagCarries DEF ErrorFlags
<1>4. Carries(interlocked, checked)
  <2> HIDE DEF interlocked
  <2>. QED
    BY <1>3, OtherErrorCarries DEF ErrorFlags, Carries
<1>5. Carries(initialized, checked)
  BY <1>3, <1>4, CarriesTransitive
<1>6. /\ checked \in StateManagers /\ Told(checked)
      /\ checked.mode \notin {"Calibrating", "Failsafe"} /\ "RC_LOST" \notin checked.flags
  <2> HIDE DEF initialized, checked
  <2>. QED
    BY <1>2, <1>5 DEF Carries, KeepsLink
<1>7. s = IF rearm THEN ManagerUpdate(checked, Signal("HARDFAULT_REARM_REQUESTED"), p)
                   ELSE checked
  BY <1>1 DEF BootState
<1> HIDE DEF checked
<1>. QED
  BY <1>6, <1>7, RearmArms DEF Told, HalfTold

(* World::init establishes the invariant. *)
LEMMA InitIInv == Init => IInv
<1> SUFFICES ASSUME Init PROVE IInv
  OBVIOUS
<1>1. TypeOK
  BY InitTyped
<1>2. Told(state) /\ state.mode # "Failsafe" /\ "RC_LOST" \notin state.flags
  BY BootTold DEF Init
<1>. QED
  BY <1>1, <1>2, ModeTellsErrorsIsTold
  DEF Init, IInv, LinkFlagCurrent, FailsafeCommandInForce, FailsafeCommandWithdrawn

-----------------------------------------------------------------------------
(* The RC, command and state stage *)

(* Recording the RC inputs of an arm request is not seen by the mode.        *)
LEMMA UpdateArmingSafetyKeeps ==
  ASSUME NEW m \in StateManagers, NEW low \in BOOLEAN, NEW override \in BOOLEAN
  PROVE  /\ UpdateArmingSafety(m, low, override) \in StateManagers
         /\ UpdateArmingSafety(m, low, override).mode = m.mode
         /\ UpdateArmingSafety(m, low, override).flags = m.flags
BY DEF UpdateArmingSafety, StateManagers

(* Whatever the pilot does on a link that is up, the machine comes out of it *)
(* not in failsafe and without RC_LOST.                                      *)
LEMMA GestureOnLiveLink ==
  ASSUME NEW m \in StateManagers, Told(m), m.mode # "Failsafe", "RC_LOST" \notin m.flags,
         NEW gesture, NEW low \in BOOLEAN, NEW override \in BOOLEAN, NEW p
  PROVE  /\ HalfTold(LookForArmDisarm(m, gesture, low, override, p))
         /\ LookForArmDisarm(m, gesture, low, override, p).mode # "Failsafe"
         /\ "RC_LOST" \notin LookForArmDisarm(m, gesture, low, override, p).flags
<1> DEFINE safe == UpdateArmingSafety(m, low, override)
<1>1. /\ safe \in StateManagers /\ Told(safe)
      /\ safe.mode # "Failsafe" /\ "RC_LOST" \notin safe.flags
  BY UpdateArmingSafetyKeeps DEF Told, HalfTold
<1> HIDE DEF safe
<1>2. /\ HalfTold(ManagerUpdate(safe, Signal("REQUEST_ARM"), p))
      /\ ManagerUpdate(safe, Signal("REQUEST_ARM"), p).mode # "Failsafe"
      /\ "RC_LOST" \notin ManagerUpdate(safe, Signal("REQUEST_ARM"), p).flags
  BY <1>1, ArmHalfTold, GesturesKeepLink
<1>3. /\ HalfTold(ManagerUpdate(m, Signal("REQUEST_DISARM"), p))
      /\ ManagerUpdate(m, Signal("REQUEST_DISARM"), p).mode # "Failsafe"
      /\ "RC_LOST" \notin ManagerUpdate(m, Signal("REQUEST_DISARM"), p).flags
  BY DisarmTold, GesturesKeepLink DEF Told
<1>. QED
  BY <1>1, <1>2, <1>3 DEF LookForArmDisarm, safe, Told

(* What StateManager::run is given at the end of the stage: on a link that   *)
(* is up, no trace of a loss; on one that is down, the loss and no flight    *)
(* on the pilot's command.                                                   *)
LEMMA AfterLinkTold ==
  ASSUME IInv, NEW gesture \in {"none", "hold", "request"},
         NEW low \in BOOLEAN, NEW override \in BOOLEAN
  PROVE  /\ AfterLink(gesture, low, override) \in StateManagers
         /\ HalfTold(AfterLink(gesture, low, override))
         /\ RcHealthy(LastPacket) =>
              /\ AfterLink(gesture, low, override).mode # "Failsafe"
              /\ "RC_LOST" \notin AfterLink(gesture, low, override).flags
         /\ ~ RcHealthy(LastPacket) => AfterLink(gesture, low, override).mode # "Armed"
<1> DEFINE after == AfterRc(gesture, low, override)
<1>1. state \in StateManagers /\ Told(state) /\ after \in StateManagers
      /\ AfterLink(gesture, low, override) \in StateManagers
  BY ModeTellsErrorsIsTold, RcStageType DEF IInv, TypeOK
<1>2. CASE RcHealthy(LastPacket)
  <2>1. AfterLink(gesture, low, override) = after
    BY <1>2 DEF AfterLink, CommandChecksRc
  <2>2. CASE freshRc = "none"
    <3>1. after = state /\ LastPacket = rc
      BY <2>2 DEF AfterRc, LastPacket
    <3>2. "RC_LOST" \notin state.flags /\ state.mode # "Failsafe"
      BY <1>1, <1>2, <3>1 DEF IInv, LinkFlagCurrent, Told, HalfTold
    <3>. QED
      BY <1>1, <1>2, <2>1, <3>1, <3>2 DEF Told
  <2>3. CASE freshRc # "none"
    <3> DEFINE back == ManagerUpdate(state, Cleared({"RC_LOST"}), params)
    <3>1. after = LookForArmDisarm(back, gesture, low, override, params)
      BY <1>2, <2>3 DEF AfterRc, RcRun
    <3>2. back \in StateManagers
      BY <1>1, UpdateType, EventTypes DEF ErrorFlags
    <3>3. Told(back)
      BY <1>1, ClearedTold DEF ErrorFlags
    <3>4. back.mode # "Failsafe" /\ "RC_LOST" \notin back.flags
      BY <1>1, LinkBackLeavesFailsafe, LinkBack
    <3> HIDE DEF back
    <3>. QED
      BY <1>1, <1>2, <2>1, <3>1, <3>2, <3>3, <3>4, GestureOnLiveLink
  <2>. QED
    BY <2>2, <2>3
<1>3. CASE ~ RcHealthy(LastPacket)
  <2>1. AfterLink(gesture, low, override) = ManagerUpdate(after, Occurred({"RC_LOST"}), params)
    BY <1>3 DEF AfterLink, CommandChecksRc
  <2>2. after = state \/ after = ManagerUpdate(state, Occurred({"RC_LOST"}), params)
    BY <1>3 DEF AfterRc, RcRun
  <2>3. Told(after)
    BY <1>1, <2>2, OccurredTold DEF ErrorFlags
  <2> HIDE DEF after
  <2>4. Told(ManagerUpdate(after, Occurred({"RC_LOST"}), params))
    BY <1>1, <2>3, OccurredTold DEF ErrorFlags
  <2>5. ManagerUpdate(after, Occurred({"RC_LOST"}), params).mode # "Armed"
    BY <1>1, <2>3, LinkLost
  <2>. QED
    BY <1>1, <1>3, <2>1, <2>4, <2>5 DEF Told
<1>. QED
  BY <1>2, <1>3

(* The stage keeps the invariant, and never ends in Armed on a dead link.    *)
LEMMA RcStageIInv ==
  ASSUME IInv, RcCommandState
  PROVE  /\ ModeTellsErrors' /\ LinkFlagCurrent'
         /\ FailsafeCommandInForce' /\ FailsafeCommandWithdrawn'
         /\ state'.mode = "Armed" => RcHealthy(rc')
<1>1. PICK gesture \in {"none", "hold", "request"}, low \in BOOLEAN, override \in BOOLEAN :
        /\ combined' = CombinedCommand(AfterLink(gesture, low, override))
        /\ state' = ManagerRun(AfterLink(gesture, low, override), params)
  BY DEF RcCommandState
<1> DEFINE linked == AfterLink(gesture, low, override)
<1>2. /\ linked \in StateManagers /\ HalfTold(linked)
      /\ RcHealthy(rc') => linked.mode # "Failsafe" /\ "RC_LOST" \notin linked.flags
      /\ ~ RcHealthy(rc') => linked.mode # "Armed"
  BY AfterLinkTold DEF RcCommandState
<1> HIDE DEF linked
<1>3. /\ state' = ManagerRun(linked, params)
      /\ combined' = CombinedCommand(linked)
  BY <1>1 DEF linked
<1>4. /\ Told(state')
      /\ state'.flags = linked.flags
      /\ state'.mode = "Armed" => linked.mode = "Armed"
      /\ state'.mode = "Failsafe" <=> linked.mode = "Failsafe"
  BY <1>2, <1>3, RunTold, RunKeepsLink
<1>5. combined' = IF linked.mode = "Failsafe" THEN "failsafe" ELSE "muxed"
  BY <1>2, <1>3 DEF CombinedCommand, IsInFailsafe, HalfTold
<1>6. ModeTellsErrors'
  BY <1>4 DEF ModeTellsErrors, Told, HalfTold
<1>. QED
  BY <1>2, <1>4, <1>5, <1>6
  DEF LinkFlagCurrent, FailsafeCommandInForce, FailsafeCommandWithdrawn

-----------------------------------------------------------------------------
(* The other stages *)

(* A step that carries the machine on and leaves the last packet and the     *)
(* command in force alone keeps the invariant.                               *)
LEMMA CarriedIInv ==
  ASSUME IInv, Carries(state, state'), rc' = rc, combined' = combined
  PROVE  /\ ModeTellsErrors' /\ LinkFlagCurrent'
         /\ FailsafeCommandInForce' /\ FailsafeCommandWithdrawn'
<1>1. ModeTellsErrors'
  BY DEF Carries, ModeTellsErrors, Told, HalfTold
<1>2. LinkFlagCurrent'
  BY DEF IInv, LinkFlagCurrent, Carries, KeepsLink, RcHealthy
<1>3. FailsafeCommandInForce' /\ FailsafeCommandWithdrawn'
  BY DEF IInv, FailsafeCommandInForce, FailsafeCommandWithdrawn, Carries, KeepsLink
<1>. QED
  BY <1>1, <1>2, <1>3

(* The communication stage carries the machine on.                           *)
LEMMA CommCarries ==
  ASSUME IInv, Comm
  PROVE  Carries(state, state') /\ rc' = rc /\ combined' = combined
<1>1. PICK p, reactions : state' = Reacted(state, p, reactions)
  BY DEF Comm
<1>. QED
  BY <1>1, ReactedCarries, ModeTellsErrorsIsTold DEF IInv, TypeOK, Comm

(* So does the sensor stage of run_once.                                     *)
LEMMA SensorsCarries ==
  ASSUME IInv, Sensors
  PROVE  Carries(state, state') /\ rc' = rc /\ combined' = combined
<1>1. PICK sample, flags : state' = HealthAndCalibration(Ingested(flags), flags, sample)
  BY DEF Sensors
<1>. QED
  BY <1>1, IntakeCarries, ModeTellsErrorsIsTold DEF IInv, TypeOK, Sensors

(* So does the sensor stage of a realtime service step.                      *)
LEMMA ServiceSensorsCarries ==
  ASSUME IInv, ServiceSensors
  PROVE  Carries(state, state') /\ rc' = rc /\ combined' = combined
BY HealthAndCalibrationCarries, ModeTellsErrorsIsTold
DEF IInv, TypeOK, ServiceSensors

(* So does the control stage of either scheduler.                            *)
LEMMA ControlCarries ==
  ASSUME IInv, Control \/ ControlUpdateTick
  PROVE  Carries(state, state') /\ rc' = rc /\ combined' = combined
<1>1. \/ \E backward, unhealthy \in BOOLEAN :
           state' = ControlOutcome(state, primed, ~ backward, ~ unhealthy, params)
      \/ state' = state
  BY MayBoolean DEF Control, ControlUpdateTick
<1>2. state \in StateManagers /\ Told(state) /\ params \in FlightParams
  BY ModeTellsErrorsIsTold DEF IInv, TypeOK
<1>3. Carries(state, state')
  BY <1>1, <1>2, ControlOutcomeCarries, CarriesSelf
<1>. QED
  BY <1>3 DEF Control, ControlUpdateTick

(* So does the IMU tick, a sensor and a control stage in one.                *)
LEMMA ImuControlTickCarries ==
  ASSUME IInv, ImuControlTick
  PROVE  Carries(state, state') /\ rc' = rc /\ combined' = combined
<1>1. PICK failed \in BOOLEAN, backward \in BOOLEAN, unhealthy \in BOOLEAN,
          flags \in SUBSET CalFlags :
        LET taken == HealthAndCalibration(Ingested(flags), flags, ~ failed)
        IN  \/ state' = ControlOutcome(taken, StillPrimed(flags),
                                       ~ backward, ~ unhealthy, params)
            \/ state' = taken
  BY MayBoolean DEF ImuControlTick
<1> DEFINE taken == HealthAndCalibration(Ingested(flags), flags, ~ failed)
<1>2. Carries(state, taken)
  BY IntakeCarries, ModeTellsErrorsIsTold DEF IInv, TypeOK
<1>3. Carries(taken, ControlOutcome(taken, StillPrimed(flags), ~ backward, ~ unhealthy, params))
  <2>1. taken \in StateManagers /\ Told(taken) /\ params \in FlightParams
    BY <1>2 DEF Carries, IInv, TypeOK
  <2> HIDE DEF taken
  <2>. QED
    BY <2>1, ControlOutcomeCarries
<1>4. Carries(state, state')
  BY <1>1, <1>2, <1>3, CarriesTransitive
<1>. QED
  BY <1>4 DEF ImuControlTick

(* Every step, of the loop or of what surrounds it, keeps the invariant.     *)
LEMMA NextIInv == ASSUME IInv, [Next]_vars PROVE IInv'
<1>1. TypeOK'
  BY NextTyped DEF IInv
<1>2. CASE Comm \/ Sensors \/ ServiceSensors \/ Control \/ ControlUpdateTick \/ ImuControlTick
  BY <1>1, <1>2, CommCarries, SensorsCarries, ServiceSensorsCarries, ControlCarries,
     ImuControlTickCarries, CarriedIInv DEF IInv
<1>3. CASE RcCommandState
  BY <1>1, <1>3, RcStageIInv DEF IInv
<1>4. CASE BeginService \/ ServiceClosed \/ ImuAges \/ ImuInterrupt \/ UNCHANGED vars
  <2>1. UNCHANGED <<state, rc, combined>>
    BY <1>4 DEF BeginService, ServiceClosed, ImuAges, ImuInterrupt, vars
  <2>. QED
    BY <1>1, <2>1 DEF IInv, ModeTellsErrors, LinkFlagCurrent, FailsafeCommandInForce,
                      FailsafeCommandWithdrawn, RcHealthy
<1>5. CASE RcAges
  <2>1. UNCHANGED <<state, combined>> /\ (RcHealthy(rc') => RcHealthy(rc))
    BY <1>5 DEF RcAges, RcHealthy, IInv, TypeOK
  <2>. QED
    BY <1>1, <2>1 DEF IInv, ModeTellsErrors, LinkFlagCurrent, FailsafeCommandInForce,
                      FailsafeCommandWithdrawn
<1>6. CASE Restart
  <2>1. Told(state') /\ state'.mode # "Failsafe" /\ "RC_LOST" \notin state'.flags
    BY <1>6, BootTold DEF Restart
  <2>. QED
    BY <1>1, <1>6, <2>1
    DEF Restart, IInv, ModeTellsErrors, Told, HalfTold, LinkFlagCurrent,
        FailsafeCommandInForce, FailsafeCommandWithdrawn
<1>. QED
  BY <1>2, <1>3, <1>4, <1>5, <1>6 DEF Next, Step

(* The invariant holds.                                                      *)
LEMMA Invariance == Spec => []IInv
BY InitIInv, NextIInv, PTL DEF Spec

-----------------------------------------------------------------------------
(* The theorems *)

(* Wherever a stage ends the mode of the arming state machine and its error  *)
(* flags agree.                                                              *)
THEOREM ModeTruth == Spec => []ModeTellsErrors
<1>1. IInv => ModeTellsErrors
  BY DEF IInv
<1>. QED
  BY <1>1, Invariance, PTL

(* RC_LOST is flagged only while the last packet is bad or too old.          *)
THEOREM LinkFlagTruth == Spec => []LinkFlagCurrent
<1>1. IInv => LinkFlagCurrent
  BY DEF IInv
<1>. QED
  BY <1>1, Invariance, PTL

(* The failsafe command is in force exactly while the machine is in failsafe. *)
THEOREM FailsafeCommand == Spec => [](FailsafeCommandInForce /\ FailsafeCommandWithdrawn)
<1>1. IInv => FailsafeCommandInForce /\ FailsafeCommandWithdrawn
  BY DEF IInv
<1>. QED
  BY <1>1, Invariance, PTL

(* No RC stage ends in Armed on a packet that is out of order or too old.    *)
THEOREM LiveLink == Spec => ArmedOnlyOnLiveLink
<1>1. ASSUME IInv, [Next]_vars
      PROVE  [RcCommandState /\ state'.mode = "Armed" => RcHealthy(rc')]_vars
  BY <1>1, RcStageIInv
<1>. QED
  BY <1>1, Invariance, PTL DEF Spec, ArmedOnlyOnLiveLink

-----------------------------------------------------------------------------
(* What each stage does to the flags, and whether it may arm. The machines   *)
(* below are those of one stage, each telling the truth.                     *)

(* The next machine differs from m in flags of F only, and is not armed      *)
(* unless m is.                                                              *)
Spares(m, n, F) == Carries(m, n) /\ Touches(m, n, F) /\ (~ IsArmed(m) => ~ IsArmed(n))

LEMMA SparesTransitive ==
  ASSUME NEW k, NEW m, NEW n, NEW F, NEW G, Spares(k, m, F), Spares(m, n, G)
  PROVE  Spares(k, n, F \cup G)
BY CarriesTransitive, TouchesTransitive DEF Spares

(* A stage that does nothing touches nothing.                                *)
LEMMA SparesSelf ==
  ASSUME NEW m \in StateManagers, Told(m), NEW F
  PROVE  Spares(m, m, F)
BY CarriesSelf DEF Spares, Touches

(* set_error_flag touches its flag and does not arm.                         *)
LEMMA SetOtherFlagSpares ==
  ASSUME NEW m \in StateManagers, Told(m), NEW flag \in ErrorFlags \ {"RC_LOST"},
         NEW b \in BOOLEAN, NEW p
  PROVE  Spares(m, SetErrorFlag(m, flag, b, p), {flag})
BY SetOtherFlagCarries, SetErrorFlagFlags, SetErrorFlagArmsNone DEF Spares, Told

(* An error event with one flag touches that flag and does not arm.          *)
LEMMA OtherErrorSpares ==
  ASSUME NEW m \in StateManagers, Told(m), NEW flag \in ErrorFlags \ {"RC_LOST"}, NEW p
  PROVE  /\ Spares(m, ManagerUpdate(m, Occurred({flag}), p), {flag})
         /\ Spares(m, ManagerUpdate(m, Cleared({flag}), p), {flag})
         /\ flag \in ManagerUpdate(m, Occurred({flag}), p).flags
         /\ flag \notin ManagerUpdate(m, Cleared({flag}), p).flags
<1>1. {flag} \in SUBSET ErrorFlags
  OBVIOUS
<1>2. /\ ManagerUpdate(m, Occurred({flag}), p).flags = m.flags \cup {flag}
      /\ ManagerUpdate(m, Cleared({flag}), p).flags = m.flags \ {flag}
  BY <1>1, ErrorEventFlags
<1>3. \A e \in {Occurred({flag}), Cleared({flag})} :
        ~ IsArmed(m) => ~ IsArmed(ManagerUpdate(m, e, p))
  BY <1>1, ErrorEventArmsNone DEF Told
<1>. QED
  BY <1>2, <1>3, OtherErrorCarries DEF Spares, Touches

(* update_sensor_health touches IMU_NOT_RESPONDING.                          *)
LEMMA HealthSpares ==
  ASSUME NEW m \in StateManagers, Told(m), NEW seen, NEW aged, NEW p
  PROVE  Spares(m, Health(m, seen, aged, p), {"IMU_NOT_RESPONDING"})
BY SetOtherFlagSpares, SparesSelf DEF Health, ErrorFlags

(* The control pipeline touches three flags.                                 *)
LEMMA ControlOutcomeSpares ==
  ASSUME NEW m \in StateManagers, Told(m), NEW wasPrimed, NEW forward,
         NEW healthy \in BOOLEAN, NEW p \in FlightParams
  PROVE  Spares(m, ControlOutcome(m, wasPrimed, forward, healthy, p),
                {"TIME_GOING_BACKWARDS", "UNHEALTHY_ESTIMATOR", "INVALID_MIXER"})
<1> DEFINE timed == SetErrorFlag(m, "TIME_GOING_BACKWARDS", FALSE, p)
           estimated == SetErrorFlag(timed, "UNHEALTHY_ESTIMATOR", ~ healthy, p)
           mixed == SetErrorFlag(estimated, "INVALID_MIXER", ~ p.mixerValid, p)
           three == {"TIME_GOING_BACKWARDS", "UNHEALTHY_ESTIMATOR", "INVALID_MIXER"}
<1>1. Spares(m, timed, {"TIME_GOING_BACKWARDS"})
  BY SetOtherFlagSpares DEF ErrorFlags
<1>2. Spares(timed, estimated, {"UNHEALTHY_ESTIMATOR"})
  BY <1>1, SetOtherFlagSpares DEF ErrorFlags, Spares, Carries
<1>3. Spares(estimated, mixed, {"INVALID_MIXER"})
  BY <1>2, SetOtherFlagSpares DEF ErrorFlags, Spares, Carries, FlightParams
<1>4. Spares(m, mixed, three)
  <2> HIDE DEF timed, estimated, mixed
  <2>1. Spares(m, estimated, {"TIME_GOING_BACKWARDS"} \cup {"UNHEALTHY_ESTIMATOR"})
    BY <1>1, <1>2, SparesTransitive
  <2>2. Spares(m, mixed, ({"TIME_GOING_BACKWARDS"} \cup {"UNHEALTHY_ESTIMATOR"})
                           \cup {"INVALID_MIXER"})
    BY <2>1, <1>3, SparesTransitive
  <2>3. three = ({"TIME_GOING_BACKWARDS"} \cup {"UNHEALTHY_ESTIMATOR"}) \cup {"INVALID_MIXER"}
    OBVIOUS
  <2>. QED
    BY <2>2, <2>3
<1>5. Spares(m, SetErrorFlag(m, "TIME_GOING_BACKWARDS", TRUE, p), {"TIME_GOING_BACKWARDS"})
  BY SetOtherFlagSpares DEF ErrorFlags
<1>6. Spares(m, SetErrorFlag(m, "TIME_GOING_BACKWARDS", TRUE, p), three)
  BY <1>5 DEF Spares, Touches
<1>. QED
  BY <1>4, <1>6, SparesSelf DEF ControlOutcome

(* apply_param_reactions touches the two flags it looks at, and when it looks *)
(* at the failsafe throttle its flag says what the throttle is.               *)
LEMMA ReactedSpares ==
  ASSUME NEW m \in StateManagers, Told(m), NEW p \in FlightParams, NEW reactions
  PROVE  /\ Spares(m, Reacted(m, p, reactions), {"INVALID_MIXER", "INVALID_FAILSAFE"})
         /\ "failsafe" \in reactions =>
              ("INVALID_FAILSAFE" \in Reacted(m, p, reactions).flags <=> ~ p.failsafeValid)
         /\ "failsafe" \notin reactions =>
              Spares(m, Reacted(m, p, reactions), {"INVALID_MIXER"})
<1> DEFINE mixed == IF "mixer" \notin reactions THEN m
                    ELSE ManagerUpdate(m, IF p.mixerValid THEN Cleared({"INVALID_MIXER"})
                                                          ELSE Occurred({"INVALID_MIXER"}), p)
           checked == ManagerUpdate(mixed,
                        IF p.failsafeValid THEN Cleared({"INVALID_FAILSAFE"})
                                           ELSE Occurred({"INVALID_FAILSAFE"}), p)
<1>1. Spares(m, mixed, {"INVALID_MIXER"})
  BY OtherErrorSpares, SparesSelf DEF ErrorFlags
<1>2. /\ Spares(mixed, checked, {"INVALID_FAILSAFE"})
      /\ "INVALID_FAILSAFE" \in checked.flags <=> ~ p.failsafeValid
  <2> HIDE DEF mixed
  <2>1. mixed \in StateManagers /\ Told(mixed)
    BY <1>1 DEF Spares, Carries
  <2>2. p.failsafeValid \in BOOLEAN
    BY DEF FlightParams
  <2>. QED
    BY <2>1, <2>2, OtherErrorSpares DEF ErrorFlags
<1>3. Reacted(m, p, reactions) = IF "failsafe" \notin reactions THEN mixed ELSE checked
  BY DEF Reacted
<1> HIDE DEF mixed, checked
<1>4. Spares(m, checked, {"INVALID_MIXER"} \cup {"INVALID_FAILSAFE"})
  BY <1>1, <1>2, SparesTransitive
<1>5. Spares(m, mixed, {"INVALID_MIXER", "INVALID_FAILSAFE"})
  BY <1>1 DEF Spares, Touches
<1>6. {"INVALID_MIXER"} \cup {"INVALID_FAILSAFE"} = {"INVALID_MIXER", "INVALID_FAILSAFE"}
  OBVIOUS
<1>. QED
  BY <1>1, <1>2, <1>3, <1>4, <1>5, <1>6

(* The end of an arming calibration touches no flag, and arms only where no  *)
(* gyro calibration is running or has failed.                                *)
LEMMA CalibrationProgressArms ==
  ASSUME NEW m \in StateManagers, Told(m), NEW flags, NEW p
  PROVE  LET n == CalibrationProgress(m, flags, p)
         IN  /\ n.flags = m.flags
             /\ ~ IsArmed(m) /\ IsArmed(n) =>
                  /\ IsCalibrating(m) /\ n.flags = {}
                  /\ "GYRO" \notin flags /\ "GYRO_FAILED" \notin flags
<1>1. CASE IsCalibrating(m)
  <2>1. /\ m.mode = "Calibrating" /\ m.flags = {}
        /\ ManagerUpdate(m, Signal("CALIBRATION_COMPLETE"), p).flags = {}
        /\ ManagerUpdate(m, Signal("CALIBRATION_FAILED"), p).flags = {}
        /\ ~ IsArmed(ManagerUpdate(m, Signal("CALIBRATION_FAILED"), p))
    BY <1>1, CalibrationEnds DEF IsCalibrating, IsArmed, Told
  <2>2. CASE "GYRO_FAILED" \in flags
    <3>1. CalibrationProgress(m, flags, p) = ManagerUpdate(m, Signal("CALIBRATION_FAILED"), p)
      BY <1>1, <2>2 DEF CalibrationProgress, CalibrationFailed
    <3>. QED
      BY <2>1, <3>1
  <2>3. CASE "GYRO_FAILED" \notin flags /\ "GYRO" \notin flags
    <3>1. CalibrationProgress(m, flags, p) = ManagerUpdate(m, Signal("CALIBRATION_COMPLETE"), p)
      BY <1>1, <2>3 DEF CalibrationProgress, CalibrationFailed
    <3>. QED
      BY <1>1, <2>1, <2>3, <3>1
  <2>4. CASE "GYRO_FAILED" \notin flags /\ "GYRO" \in flags
    <3>1. CalibrationProgress(m, flags, p) = m
      BY <2>4 DEF CalibrationProgress, CalibrationFailed
    <3>. QED
      BY <3>1
  <2>. QED
    BY <2>2, <2>3, <2>4
<1>2. CASE ~ IsCalibrating(m)
  BY <1>2 DEF CalibrationProgress, CalibrationFailed
<1>. QED
  BY <1>1, <1>2

(* The health check and that end, together.                                  *)
LEMMA HealthAndCalibrationArms ==
  ASSUME NEW m \in StateManagers, Told(m), NEW flags, NEW seen
  PROVE  LET n == HealthAndCalibration(m, flags, seen)
         IN  /\ Carries(m, n)
             /\ Touches(m, n, {"IMU_NOT_RESPONDING"})
             /\ ~ IsArmed(m) /\ IsArmed(n) =>
                  /\ IsCalibrating(m) /\ n.flags = {}
                  /\ "GYRO" \notin flags /\ "GYRO_FAILED" \notin flags
<1> DEFINE h == Health(m, seen, imuAged, params)
<1>1. Spares(m, h, {"IMU_NOT_RESPONDING"})
  BY HealthSpares
<1>2. IsCalibrating(h) => IsCalibrating(m)
  BY <1>1 DEF Spares, Carries, KeepsLink, IsCalibrating
<1> HIDE DEF h
<1>3. h \in StateManagers /\ Told(h) /\ (~ IsArmed(m) => ~ IsArmed(h))
  BY <1>1 DEF Spares, Carries
<1>4. HealthAndCalibration(m, flags, seen) = CalibrationProgress(h, flags, params)
  BY DEF HealthAndCalibration, h
<1>5. Carries(m, HealthAndCalibration(m, flags, seen))
  BY HealthAndCalibrationCarries
<1>6. Touches(m, HealthAndCalibration(m, flags, seen), {"IMU_NOT_RESPONDING"})
  BY <1>1, <1>3, <1>4, CalibrationProgressArms DEF Spares, Touches
<1>. QED
  BY <1>2, <1>3, <1>4, <1>5, <1>6, CalibrationProgressArms

(* Taking in one sample: the interlock falls with an accelerometer           *)
(* calibration that ended well, a calibrating machine may be armed.          *)
LEMMA IntakeArms ==
  ASSUME IInv, NEW flags, NEW seen
  PROVE  LET n == HealthAndCalibration(Ingested(flags), flags, seen)
         IN  /\ Carries(state, n)
             /\ Touches(state, n, {"IMU_NOT_RESPONDING", "UNCALIBRATED_IMU"})
             /\ ~ AccelSucceeded(calFlags, flags) =>
                  Touches(state, n, {"IMU_NOT_RESPONDING"})
             /\ ~ IsArmed(state) /\ IsArmed(n) =>
                  /\ IsCalibrating(state) /\ n.flags = {}
                  /\ "GYRO" \notin flags /\ "GYRO_FAILED" \notin flags
<1> DEFINE i == Ingested(flags)
           n == HealthAndCalibration(i, flags, seen)
<1>1. state \in StateManagers /\ Told(state)
  BY ModeTellsErrorsIsTold DEF IInv, TypeOK
<1>2. /\ Spares(state, i, {"UNCALIBRATED_IMU"})
      /\ ~ AccelSucceeded(calFlags, flags) => i = state
  BY <1>1, SetOtherFlagSpares, SparesSelf DEF Ingested, InterlockCleared, ErrorFlags
<1> HIDE DEF i
<1>3. i \in StateManagers /\ Told(i) /\ (IsCalibrating(i) => IsCalibrating(state))
  BY <1>2 DEF Spares, Carries, KeepsLink, IsCalibrating
<1>4. /\ Carries(i, n) /\ Touches(i, n, {"IMU_NOT_RESPONDING"})
      /\ ~ IsArmed(i) /\ IsArmed(n) =>
           /\ IsCalibrating(i) /\ n.flags = {}
           /\ "GYRO" \notin flags /\ "GYRO_FAILED" \notin flags
  BY <1>3, HealthAndCalibrationArms
<1> HIDE DEF n
<1>5. Carries(state, n)
  BY <1>2, <1>4, CarriesTransitive DEF Spares
<1>6. Touches(state, n, {"IMU_NOT_RESPONDING", "UNCALIBRATED_IMU"})
  BY <1>2, <1>4 DEF Spares, Touches
<1>7. ~ AccelSucceeded(calFlags, flags) => Touches(state, n, {"IMU_NOT_RESPONDING"})
  BY <1>2, <1>4
<1>. QED
  BY <1>2, <1>3, <1>4, <1>5, <1>6, <1>7 DEF i, n, Spares

-----------------------------------------------------------------------------
(* What the RC stage may arm                                                 *)

(* A gesture touches no flag.                                                *)
LEMMA GestureFlags ==
  ASSUME NEW m \in StateManagers, Told(m), NEW gesture, NEW low \in BOOLEAN,
         NEW override \in BOOLEAN, NEW p
  PROVE  LookForArmDisarm(m, gesture, low, override, p).flags = m.flags
<1> DEFINE safe == UpdateArmingSafety(m, low, override)
<1>1. safe \in StateManagers /\ Told(safe) /\ safe.flags = m.flags /\ safe.mode = m.mode
  BY UpdateArmingSafetyKeeps DEF Told, HalfTold
<1> HIDE DEF safe
<1>2. ~ IsArmed(m) => ManagerUpdate(safe, Signal("REQUEST_ARM"), p).flags = m.flags
  BY <1>1, ArmRequest DEF IsArmed
<1>3. ManagerUpdate(m, Signal("REQUEST_DISARM"), p).flags = m.flags
  BY DisarmFlags
<1>. QED
  BY <1>1, <1>2, <1>3 DEF LookForArmDisarm, safe

(* A gesture arms a disarmed machine only without a blocking error, and not  *)
(* past a calibration; and arms or calibrates only as the RC inputs allow.   *)
LEMMA GestureArms ==
  ASSUME NEW m \in StateManagers, Told(m), ~ IsArmed(m), NEW gesture, NEW low \in BOOLEAN,
         NEW override \in BOOLEAN, NEW p
  PROVE  LET n == LookForArmDisarm(m, gesture, low, override, p)
         IN  /\ IsArmed(n) => ArmingBlockingErrors(n, p) = {}
             /\ IsCalibrating(m) => IsCalibrating(n)
             /\ IsArmed(n) \/ IsCalibrating(n) =>
                  IsCalibrating(m) \/ ArmingSafetyAllowsArm(n, p)
<1> DEFINE safe == UpdateArmingSafety(m, low, override)
           n == LookForArmDisarm(m, gesture, low, override, p)
<1>1. /\ safe \in StateManagers /\ Told(safe) /\ ~ IsArmed(safe)
      /\ IsCalibrating(safe) <=> IsCalibrating(m)
  BY UpdateArmingSafetyKeeps DEF Told, HalfTold, IsArmed, IsCalibrating
<1>2. CASE gesture = "request"
  <2>1. n = ManagerUpdate(safe, Signal("REQUEST_ARM"), p)
    BY <1>2 DEF LookForArmDisarm
  <2> HIDE DEF safe
  <2>. QED
    BY <1>1, <2>1, ArmRequest
<1>3. CASE gesture # "request"
  BY <1>3 DEF LookForArmDisarm
<1>. QED
  BY <1>2, <1>3

(* The same of Rc::run and the check of the link, up to StateManager::run.   *)
LEMMA AfterLinkArms ==
  ASSUME IInv, NEW gesture \in {"none", "hold", "request"},
         NEW low \in BOOLEAN, NEW override \in BOOLEAN
  PROVE  LET n == AfterLink(gesture, low, override)
         IN  /\ Touches(state, n, {"RC_LOST"})
             /\ ~ IsArmed(state) =>
                  /\ IsArmed(n) => ArmingBlockingErrors(n, params) = {}
                  /\ IsCalibrating(state) => ~ IsArmed(n)
                  /\ IsArmed(n) \/ IsCalibrating(n) =>
                       IsCalibrating(state) \/ ArmingSafetyAllowsArm(n, params)
<1> DEFINE after == AfterRc(gesture, low, override)
           n == AfterLink(gesture, low, override)
           lost(m) == ManagerUpdate(m, Occurred({"RC_LOST"}), params)
           back == ManagerUpdate(state, Cleared({"RC_LOST"}), params)
<1>0. {"RC_LOST"} \in SUBSET ErrorFlags
  BY DEF ErrorFlags
<1>1. state \in StateManagers /\ Told(state) /\ after \in StateManagers
  BY ModeTellsErrorsIsTold, RcStageType DEF IInv, TypeOK
<1>2. \A m \in StateManagers : Told(m) =>
        /\ lost(m) \in StateManagers /\ Told(lost(m)) /\ Touches(m, lost(m), {"RC_LOST"})
        /\ ~ IsArmed(m) => ~ IsArmed(lost(m))
        /\ IsCalibrating(lost(m)) => IsCalibrating(m)
  <2> TAKE m \in StateManagers
  <2> HAVE Told(m)
  <2>1. lost(m).flags = m.flags \cup {"RC_LOST"}
    BY <1>0, ErrorEventFlags
  <2>2. lost(m) \in StateManagers
    BY <1>0, UpdateType, EventTypes
  <2>3. Told(lost(m))
    BY OccurredTold DEF ErrorFlags
  <2>4. /\ ~ IsArmed(m) => ~ IsArmed(lost(m))
        /\ IsCalibrating(lost(m)) => IsCalibrating(m)
    BY <1>0, ErrorEventArmsNone DEF Told
  <2>. QED
    BY <2>1, <2>2, <2>3, <2>4 DEF Touches
<1>3. CASE RcHealthy(LastPacket)
  <2>1. n = after
    BY <1>3 DEF AfterLink, CommandChecksRc
  <2>2. CASE freshRc = "none"
    <3>1. n = state
      BY <2>1, <2>2 DEF AfterRc
    <3>. QED
      BY <3>1 DEF Touches, IsArmed, IsCalibrating
  <2>3. CASE freshRc # "none"
    <3>1. n = LookForArmDisarm(back, gesture, low, override, params)
      BY <1>3, <2>1, <2>3 DEF AfterRc, RcRun
    <3>2. back \in StateManagers
      BY <1>0, <1>1, UpdateType, EventTypes
    <3>3. Told(back)
      BY <1>1, ClearedTold DEF ErrorFlags
    <3>4. back.flags = state.flags \ {"RC_LOST"}
      BY <1>0, <1>1, ErrorEventFlags
    <3>5. /\ ~ IsArmed(state) => ~ IsArmed(back)
          /\ IsCalibrating(back) <=> IsCalibrating(state)
      BY <1>0, <1>1, ErrorEventArmsNone DEF Told
    <3> HIDE DEF back
    <3>6. Touches(state, n, {"RC_LOST"})
      BY <3>1, <3>2, <3>3, <3>4, GestureFlags DEF Touches
    <3>7. ~ IsArmed(back) =>
            /\ IsArmed(n) => ArmingBlockingErrors(n, params) = {}
            /\ IsCalibrating(back) => IsCalibrating(n)
            /\ IsArmed(n) \/ IsCalibrating(n) =>
                 IsCalibrating(back) \/ ArmingSafetyAllowsArm(n, params)
      BY <3>1, <3>2, <3>3, GestureArms
    <3>8. IsCalibrating(n) => ~ IsArmed(n)
      BY DEF IsCalibrating, IsArmed
    <3>. QED
      BY <3>5, <3>6, <3>7, <3>8
  <2>. QED
    BY <2>2, <2>3
<1>4. CASE ~ RcHealthy(LastPacket)
  <2>1. n = lost(after) /\ (after = state \/ after = lost(state))
    BY <1>4 DEF AfterLink, CommandChecksRc, AfterRc, RcRun
  <2> HIDE DEF n, after, lost
  <2>2. /\ Told(after) /\ Touches(state, after, {"RC_LOST"})
        /\ ~ IsArmed(state) => ~ IsArmed(after)
        /\ IsCalibrating(after) => IsCalibrating(state)
    BY <1>1, <1>2, <2>1 DEF Touches
  <2>3. /\ Touches(after, n, {"RC_LOST"})
        /\ ~ IsArmed(after) => ~ IsArmed(n)
        /\ IsCalibrating(n) => IsCalibrating(after)
    BY <1>1, <1>2, <2>1, <2>2
  <2>4. Touches(state, n, {"RC_LOST"})
    BY <2>2, <2>3 DEF Touches
  <2>. QED
    BY <2>2, <2>3, <2>4 DEF n
<1>. QED
  BY <1>3, <1>4

(* And of the whole stage.                                                   *)
LEMMA RcStageArms ==
  ASSUME IInv, RcCommandState
  PROVE  /\ Touches(state, state', {"RC_LOST"})
         /\ ~ IsArmed(state) =>
              /\ IsArmed(state') => ArmingBlockingErrors(state', params') = {}
              /\ IsCalibrating(state) => ~ IsArmed(state')
              /\ IsArmed(state') \/ IsCalibrating(state') =>
                   IsCalibrating(state) \/ ArmingSafetyAllowsArm(state', params')
<1>1. PICK gesture \in {"none", "hold", "request"}, low \in BOOLEAN, override \in BOOLEAN :
        state' = ManagerRun(AfterLink(gesture, low, override), params)
  BY DEF RcCommandState
<1> DEFINE n == AfterLink(gesture, low, override)
<1>2. /\ n \in StateManagers /\ HalfTold(n)
      /\ Touches(state, n, {"RC_LOST"})
      /\ ~ IsArmed(state) =>
           /\ IsArmed(n) => ArmingBlockingErrors(n, params) = {}
           /\ IsCalibrating(state) => ~ IsArmed(n)
           /\ IsArmed(n) \/ IsCalibrating(n) =>
                IsCalibrating(state) \/ ArmingSafetyAllowsArm(n, params)
  BY AfterLinkTold, AfterLinkArms
<1> HIDE DEF n
<1>3. /\ state'.flags = n.flags
      /\ ~ IsArmed(n) => ~ IsArmed(state')
      /\ IsCalibrating(state') => IsCalibrating(n)
  BY <1>1, <1>2, RunKeepsLink, RunArmsNone DEF n
<1>4. state'.throttleLow = n.throttleLow /\ state'.overrideSwitch = n.overrideSwitch
  <2>1. n.flags \in SUBSET ErrorFlags /\ {} \in SUBSET ErrorFlags
    BY <1>2 DEF StateManagers
  <2>. QED
    BY <1>1, <1>2, <2>1, UpdateType, EventTypes DEF ManagerRun, n
<1>5. params' = params
  BY DEF RcCommandState
<1>. QED
  BY <1>2, <1>3, <1>4, <1>5 DEF Touches, ArmingBlockingErrors, ArmingSafetyAllowsArm

-----------------------------------------------------------------------------
(* What the other stages may arm, and the flags they touch                   *)

(* The communication stage touches the flags of the two reactions, and keeps *)
(* that of the failsafe throttle up to date unless a change is lost.         *)
LEMMA CommArms ==
  ASSUME IInv, Comm
  PROVE  /\ Spares(state, state', {"INVALID_MIXER", "INVALID_FAILSAFE"})
         /\ FailsafeThrottleJudged /\ "param_burst" \notin Sources =>
              FailsafeThrottleJudged'
<1>1. PICK p \in Reachable(params), reactions \in SUBSET {"mixer", "failsafe"} :
        /\ Watched(params, p) \subseteq reactions \/ "param_burst" \in Sources
        /\ params' = p
        /\ state' = Reacted(state, p, reactions)
  BY DEF Comm
<1>2. state \in StateManagers /\ Told(state) /\ p \in FlightParams
  BY ModeTellsErrorsIsTold DEF IInv, TypeOK, Reachable
<1>3. /\ Spares(state, state', {"INVALID_MIXER", "INVALID_FAILSAFE"})
      /\ "failsafe" \in reactions =>
           ("INVALID_FAILSAFE" \in state'.flags <=> ~ p.failsafeValid)
      /\ "failsafe" \notin reactions => Spares(state, state', {"INVALID_MIXER"})
  BY <1>1, <1>2, ReactedSpares
<1>4. ASSUME FailsafeThrottleJudged, "param_burst" \notin Sources
      PROVE  FailsafeThrottleJudged'
  <2>1. CASE "failsafe" \in reactions
    BY <1>1, <1>3, <2>1 DEF FailsafeThrottleJudged
  <2>2. CASE "failsafe" \notin reactions
    <3>1. p.failsafeValid = params.failsafeValid
      BY <1>1, <1>4, <2>2 DEF Watched
    <3>2. "INVALID_FAILSAFE" \in state'.flags <=> "INVALID_FAILSAFE" \in state.flags
      BY <1>3, <2>2 DEF Spares, Touches
    <3>. QED
      BY <1>1, <1>4, <3>1, <3>2 DEF FailsafeThrottleJudged
  <2>. QED
    BY <2>1, <2>2
<1>. QED
  BY <1>3, <1>4

(* What a stage that takes in an IMU sample does: only an accelerometer      *)
(* calibration that ends well lifts the interlock, and only a gyro           *)
(* calibration that is neither running nor failed lets it arm.               *)
TakesSample(n, flags) ==
  /\ Touches(state, n, {"IMU_NOT_RESPONDING", "UNCALIBRATED_IMU"})
  /\ ~ AccelSucceeded(calFlags, calFlags') => Touches(state, n, {"IMU_NOT_RESPONDING"})
  /\ ~ IsArmed(state) /\ IsArmed(n) =>
       /\ IsCalibrating(state) /\ n.flags = {}
       /\ "GYRO" \notin flags /\ "GYRO_FAILED" \notin flags

(* FlagsLeft does not hide an accelerometer calibration.                     *)
LEMMA IntakeTakesSample ==
  ASSUME IInv, NEW flags, NEW seen, Intake(seen, flags)
  PROVE  TakesSample(HealthAndCalibration(Ingested(flags), flags, seen), flags)
<1>1. AccelSucceeded(calFlags, flags) => AccelSucceeded(calFlags, calFlags')
  BY DEF Intake, FlagsLeft, AccelSucceeded, Succeeded
<1>. QED
  BY <1>1, IntakeArms DEF TakesSample

(* The sensor stage of run_once.                                             *)
LEMMA SensorsArms ==
  ASSUME IInv, Sensors
  PROVE  \E flags \in SUBSET CalFlags :
           /\ TakesSample(state', flags)
           /\ gyroCalibrated' =
                (gyroCalibrated \/ Succeeded(calFlags, flags, "GYRO", "GYRO_FAILED"))
<1>1. PICK sample \in BOOLEAN, flags \in SUBSET CalFlags :
        /\ Intake(sample, flags)
        /\ state' = HealthAndCalibration(Ingested(flags), flags, sample)
  BY DEF Sensors
<1>2. TakesSample(state', flags)
  BY <1>1, IntakeTakesSample
<1>. QED
  BY <1>1, <1>2 DEF Intake

(* The sensor stage of a realtime service step, which takes in none.         *)
LEMMA ServiceSensorsArms ==
  ASSUME IInv, ServiceSensors
  PROVE  Touches(state, state', {"IMU_NOT_RESPONDING"})
<1>1. state \in StateManagers /\ Told(state)
  BY ModeTellsErrorsIsTold DEF IInv, TypeOK
<1>. QED
  BY <1>1, HealthAndCalibrationArms DEF ServiceSensors

(* The control stage of either scheduler.                                    *)
LEMMA ControlArms ==
  ASSUME IInv, Control \/ ControlUpdateTick
  PROVE  Spares(state, state',
                {"TIME_GOING_BACKWARDS", "UNHEALTHY_ESTIMATOR", "INVALID_MIXER"})
<1>1. \/ \E backward, unhealthy \in BOOLEAN :
           state' = ControlOutcome(state, primed, ~ backward, ~ unhealthy, params)
      \/ state' = state
  BY MayBoolean DEF Control, ControlUpdateTick
<1>2. state \in StateManagers /\ Told(state) /\ params \in FlightParams
  BY ModeTellsErrorsIsTold DEF IInv, TypeOK
<1>. QED
  BY <1>1, <1>2, ControlOutcomeSpares, SparesSelf

(* The IMU tick, a sensor and a control stage in one.                        *)
LEMMA ImuControlTickArms ==
  ASSUME IInv, ImuControlTick
  PROVE  LET F == {"IMU_NOT_RESPONDING", "TIME_GOING_BACKWARDS", "UNHEALTHY_ESTIMATOR",
                   "INVALID_MIXER"}
         IN  /\ Touches(state, state', F \cup {"UNCALIBRATED_IMU"})
             /\ ~ AccelSucceeded(calFlags, calFlags') => Touches(state, state', F)
<1> DEFINE three == {"TIME_GOING_BACKWARDS", "UNHEALTHY_ESTIMATOR", "INVALID_MIXER"}
           F == {"IMU_NOT_RESPONDING", "TIME_GOING_BACKWARDS", "UNHEALTHY_ESTIMATOR",
                 "INVALID_MIXER"}
<1>1. PICK failed \in BOOLEAN, backward \in BOOLEAN, unhealthy \in BOOLEAN,
          flags \in SUBSET CalFlags :
        LET taken == HealthAndCalibration(Ingested(flags), flags, ~ failed)
        IN  /\ Intake(~ failed, flags)
            /\ \/ state' = ControlOutcome(taken, StillPrimed(flags),
                                          ~ backward, ~ unhealthy, params)
               \/ state' = taken
  BY MayBoolean DEF ImuControlTick
<1> DEFINE taken == HealthAndCalibration(Ingested(flags), flags, ~ failed)
<1>2. TakesSample(taken, flags)
  BY <1>1, IntakeTakesSample
<1>3. taken \in StateManagers /\ Told(taken) /\ params \in FlightParams
  BY IntakeCarries, ModeTellsErrorsIsTold DEF Carries, IInv, TypeOK
<1>4. Touches(taken, state', three)
  <2>1. state' = taken \/ state' = ControlOutcome(taken, StillPrimed(flags),
                                                  ~ backward, ~ unhealthy, params)
    BY <1>1
  <2>2. (~ unhealthy) \in BOOLEAN
    OBVIOUS
  <2> HIDE DEF taken
  <2>. QED
    BY <1>3, <2>1, <2>2, ControlOutcomeSpares, SparesSelf DEF Spares
<1> HIDE DEF taken
<1>5. Touches(state, state', F \cup {"UNCALIBRATED_IMU"})
  BY <1>2, <1>4 DEF TakesSample, Touches
<1>6. ~ AccelSucceeded(calFlags, calFlags') => Touches(state, state', F)
  BY <1>2, <1>4 DEF TakesSample, Touches
<1>. QED
  BY <1>5, <1>6

(* The steps that are no stage leave the machine and the calibration alone.  *)
LEMMA OtherStepsArm ==
  ASSUME BeginService \/ ServiceClosed \/ RcAges \/ ImuAges \/ ImuInterrupt
           \/ UNCHANGED vars
  PROVE  UNCHANGED <<state, params, calFlags, gyroCalibrated>>
BY DEF BeginService, ServiceClosed, RcAges, ImuAges, ImuInterrupt, vars

-----------------------------------------------------------------------------
(* The theorems about arming                                                 *)

(* The startup interlock of an uncalibrated IMU is lifted by nothing but a   *)
(* full accelerometer calibration that ends well, although arming removes    *)
(* the flag in two places of state_machine.rs.                               *)
THEOREM Interlock == Spec => InterlockLiftedOnlyByAccel
<1>1. ASSUME IInv, [Next]_vars
      PROVE  [~ Restart /\ "UNCALIBRATED_IMU" \in state.flags
                        /\ "UNCALIBRATED_IMU" \notin state'.flags
              => AccelSucceeded(calFlags, calFlags')]_vars
  <2> SUFFICES ASSUME ~ Restart, "UNCALIBRATED_IMU" \in state.flags,
                      "UNCALIBRATED_IMU" \notin state'.flags
               PROVE  AccelSucceeded(calFlags, calFlags')
    OBVIOUS
  <2>1. CASE Comm
    BY <1>1, <2>1, CommArms DEF Spares, Touches
  <2>2. CASE Sensors
    BY <1>1, <2>2, SensorsArms DEF TakesSample, Touches
  <2>3. CASE ServiceSensors
    BY <1>1, <2>3, ServiceSensorsArms DEF Touches
  <2>4. CASE RcCommandState
    BY <1>1, <2>4, RcStageArms DEF Touches
  <2>5. CASE Control \/ ControlUpdateTick
    BY <1>1, <2>5, ControlArms DEF Spares, Touches
  <2>6. CASE ImuControlTick
    BY <1>1, <2>6, ImuControlTickArms DEF Touches
  <2>. QED
    BY <1>1, <2>1, <2>2, <2>3, <2>4, <2>5, <2>6, OtherStepsArm DEF Next, Step
<1>. QED
  BY <1>1, Invariance, PTL DEF Spec, InterlockLiftedOnlyByAccel

(* In the order of World::run_once no stage arms a vehicle while an error    *)
(* that blocks arming is flagged. The realtime scheduler may raise one after *)
(* the arming calibration ended, in the same IMU tick.                       *)
THEOREM ArmsClean ==
  ASSUME Scheduler = "run_once"
  PROVE  Spec => ArmsWithoutBlockingErrors
<1>1. ASSUME IInv, [Next]_vars
      PROVE  [~ Restart /\ ~ IsArmed(state) /\ IsArmed(state')
              => ArmingBlockingErrors(state', params') = {}]_vars
  <2> SUFFICES ASSUME ~ Restart, ~ IsArmed(state), IsArmed(state')
               PROVE  ArmingBlockingErrors(state', params') = {}
    OBVIOUS
  <2>1. CASE Comm
    BY <1>1, <2>1, CommArms DEF Spares
  <2>2. CASE Sensors
    BY <1>1, <2>2, SensorsArms DEF TakesSample, ArmingBlockingErrors
  <2>3. CASE RcCommandState
    BY <1>1, <2>3, RcStageArms
  <2>4. CASE Control
    BY <1>1, <2>4, ControlArms DEF Spares
  <2>. QED
    BY <1>1, <2>1, <2>2, <2>3, <2>4, OtherStepsArm
    DEF Next, Step, ServiceSensors, ImuControlTick, ControlUpdateTick
<1>. QED
  BY <1>1, Invariance, PTL DEF Spec, ArmsWithoutBlockingErrors

(* Whichever scheduler runs, a vehicle starts to arm, or to calibrate in     *)
(* order to arm, only on the RC inputs that allow it.                        *)
THEOREM ArmsOnSafeInputs == Spec => ArmingStartsSafely
<1>1. ASSUME IInv, [Next]_vars
      PROVE  [~ Restart /\ ~ IsArmed(state) /\ ~ IsCalibrating(state)
                /\ (IsArmed(state') \/ IsCalibrating(state'))
              => ArmingSafetyAllowsArm(state', params')]_vars
  <2> SUFFICES ASSUME ~ Restart, ~ IsArmed(state), ~ IsCalibrating(state),
                      IsArmed(state') \/ IsCalibrating(state')
               PROVE  ArmingSafetyAllowsArm(state', params')
    OBVIOUS
  <2>1. CASE RcCommandState
    BY <1>1, <2>1, RcStageArms
  <2>2. CASE Comm \/ Sensors \/ ServiceSensors \/ Control \/ ControlUpdateTick
               \/ ImuControlTick
    BY <1>1, <2>2, CommCarries, SensorsCarries, ServiceSensorsCarries, ControlCarries,
       ImuControlTickCarries DEF Carries, KeepsLink, IsArmed, IsCalibrating
  <2>. QED
    BY <1>1, <2>1, <2>2, OtherStepsArm DEF Next, Step
<1>. QED
  BY <1>1, Invariance, PTL DEF Spec, ArmingStartsSafely

(* When the sensor stage of run_once is next, the gyro calibration that a    *)
(* calibrating machine waits for was requested: the strengthening of the     *)
(* action property below.                                                    *)
GyroRequestedInTime == stage = "sensors" /\ IsCalibrating(state) => "GYRO" \in calFlags

LEMMA NextGyroRequested ==
  ASSUME Scheduler = "run_once", IInv, GyroRequestedInTime, [Next]_vars
  PROVE  GyroRequestedInTime'
<1>1. CASE Comm
  <2>1. IsCalibrating(state') => IsCalibrating(state)
    BY <1>1, CommCarries DEF Carries, KeepsLink, IsCalibrating
  <2>2. IsCalibrating(state) => "GYRO" \in calFlags'
    BY <1>1 DEF Comm, RequestedGyro
  <2>. QED
    BY <2>1, <2>2 DEF GyroRequestedInTime
<1>2. CASE Sensors \/ RcCommandState \/ Control \/ Restart
  BY <1>2 DEF Sensors, RcCommandState, Control, Restart, FirstStage, GyroRequestedInTime
<1>3. CASE RcAges \/ ImuAges \/ UNCHANGED vars
  BY <1>3 DEF RcAges, ImuAges, vars, GyroRequestedInTime
<1>. QED
  BY <1>1, <1>2, <1>3
  DEF Next, Step, ServiceSensors, ImuControlTick, ControlUpdateTick, BeginService,
      ServiceClosed, ImuInterrupt

(* In the order of World::run_once, which requests the gyro calibration an   *)
(* arming waits for before the sensor stage looks for its end, no vehicle is *)
(* armed out of Calibrating before one ended well.                           *)
THEOREM ArmsCalibrated ==
  ASSUME Scheduler = "run_once"
  PROVE  Spec => ArmWaitsForGyroCalibration
<1>1. Init => IInv /\ GyroRequestedInTime
  BY InitIInv DEF Init, FirstStage, GyroRequestedInTime
<1>2. ASSUME IInv, GyroRequestedInTime, [Next]_vars
      PROVE  IInv' /\ GyroRequestedInTime'
  BY <1>2, NextIInv, NextGyroRequested
<1>3. ASSUME IInv, GyroRequestedInTime, [Next]_vars
      PROVE  [~ Restart /\ IsCalibrating(state) /\ IsArmed(state')
              => gyroCalibrated']_vars
  <2> SUFFICES ASSUME ~ Restart, IsCalibrating(state), IsArmed(state')
               PROVE  gyroCalibrated'
    OBVIOUS
  <2>0. ~ IsArmed(state)
    BY DEF IsCalibrating, IsArmed
  <2>1. CASE Comm
    BY <1>3, <2>0, <2>1, CommArms DEF Spares
  <2>2. CASE Sensors
    <3>1. stage = "sensors"
      BY <2>2 DEF Sensors
    <3>. QED
      BY <1>3, <2>0, <2>2, <3>1, SensorsArms
      DEF TakesSample, GyroRequestedInTime, Succeeded
  <2>3. CASE RcCommandState
    BY <1>3, <2>0, <2>3, RcStageArms
  <2>4. CASE Control
    BY <1>3, <2>0, <2>4, ControlArms DEF Spares
  <2>. QED
    BY <1>3, <2>0, <2>1, <2>2, <2>3, <2>4, OtherStepsArm
    DEF Next, Step, ServiceSensors, ImuControlTick, ControlUpdateTick
<1>. QED
  BY <1>1, <1>2, <1>3, PTL DEF Spec, ArmWaitsForGyroCalibration

-----------------------------------------------------------------------------
(* The failsafe throttle                                                     *)

(* World::init judges the failsafe throttle, and the rearm leaves its flag.  *)
LEMMA BootJudges ==
  ASSUME NEW p \in FlightParams, NEW s \in Booted(p)
  PROVE  "INVALID_FAILSAFE" \in s.flags <=> ~ p.failsafeValid
<1>1. PICK uncalibrated \in BOOLEAN, rearm \in BOOLEAN :
        s = BootState(p, uncalibrated, rearm)
  BY MayBoolean DEF Booted
<1> DEFINE initialized == ManagerUpdate(NewStateManager, Signal("INITIALIZED"), p)
           interlocked == SetErrorFlag(initialized, "UNCALIBRATED_IMU", uncalibrated, p)
           checked     == ManagerUpdate(interlocked,
                            IF p.failsafeValid THEN Cleared({"INVALID_FAILSAFE"})
                                               ELSE Occurred({"INVALID_FAILSAFE"}), p)
<1>2. initialized \in StateManagers /\ Told(initialized)
  BY InitializedTold
<1>3. interlocked \in StateManagers /\ Told(interlocked)
  <2> HIDE DEF initialized
  <2>. QED
    BY <1>2, SetOtherFlagCarries DEF ErrorFlags, Carries
<1>4. /\ checked \in StateManagers /\ Told(checked)
      /\ "INVALID_FAILSAFE" \in checked.flags <=> ~ p.failsafeValid
  <2>1. p.failsafeValid \in BOOLEAN
    BY DEF FlightParams
  <2> HIDE DEF interlocked
  <2>. QED
    BY <1>3, <2>1, OtherErrorSpares DEF ErrorFlags, Spares, Carries
<1>5. s = IF rearm THEN ManagerUpdate(checked, Signal("HARDFAULT_REARM_REQUESTED"), p)
                   ELSE checked
  BY <1>1 DEF BootState
<1> HIDE DEF checked
<1>. QED
  BY <1>4, <1>5, RearmArms

(* As long as no parameter change is lost, whatever else happens: the flag   *)
(* of the failsafe throttle is up to date, and the failsafe command is in    *)
(* force in failsafe only. The burst of sets that overflows the queue of     *)
(* changes is excluded, because it does lose one.                            *)
THEOREM FailsafeThrottle ==
  ASSUME "param_burst" \notin Sources
  PROVE  Spec => []FailsafeInOrder
<1>1. Init => IInv /\ FailsafeThrottleJudged
  <2> SUFFICES ASSUME Init PROVE IInv /\ FailsafeThrottleJudged
    OBVIOUS
  <2>1. params \in FlightParams /\ state \in Booted(params)
    BY DEF Init, Reachable
  <2>. QED
    BY <2>1, InitIInv, BootJudges DEF FailsafeThrottleJudged
<1>2. ASSUME IInv, FailsafeThrottleJudged, [Next]_vars
      PROVE  IInv' /\ FailsafeThrottleJudged'
  <2>0. IInv'
    BY <1>2, NextIInv
  <2> SUFFICES FailsafeThrottleJudged'
    BY <2>0
  <2>1. CASE Comm
    BY <1>2, <2>1, CommArms
  <2>2. CASE Restart
    <3>1. params' \in FlightParams /\ state' \in Booted(params')
      BY <2>2 DEF Restart, Reachable
    <3>. QED
      BY <3>1, BootJudges DEF FailsafeThrottleJudged
  <2>3. ASSUME Touches(state, state', ErrorFlags \ {"INVALID_FAILSAFE"}), params' = params
        PROVE  FailsafeThrottleJudged'
    BY <1>2, <2>3 DEF FailsafeThrottleJudged, Touches, ErrorFlags
  <2>4. CASE Sensors
    <3>1. Touches(state, state', {"IMU_NOT_RESPONDING", "UNCALIBRATED_IMU"})
      BY <1>2, <2>4, SensorsArms DEF TakesSample
    <3>2. Touches(state, state', ErrorFlags \ {"INVALID_FAILSAFE"})
      BY <3>1, TouchesMore DEF ErrorFlags
    <3>. QED
      BY <2>3, <2>4, <3>1, <3>2 DEF Sensors
  <2>5. CASE ServiceSensors
    <3>1. Touches(state, state', {"IMU_NOT_RESPONDING"})
      BY <1>2, <2>5, ServiceSensorsArms
    <3>2. Touches(state, state', ErrorFlags \ {"INVALID_FAILSAFE"})
      BY <3>1, TouchesMore DEF ErrorFlags
    <3>. QED
      BY <2>3, <2>5, <3>1, <3>2 DEF ServiceSensors
  <2>6. CASE RcCommandState
    <3>1. Touches(state, state', {"RC_LOST"})
      BY <1>2, <2>6, RcStageArms
    <3>2. Touches(state, state', ErrorFlags \ {"INVALID_FAILSAFE"})
      BY <3>1, TouchesMore DEF ErrorFlags
    <3>. QED
      BY <2>3, <2>6, <3>1, <3>2 DEF RcCommandState
  <2>7. CASE Control \/ ControlUpdateTick
    <3>1. Touches(state, state',
                  {"TIME_GOING_BACKWARDS", "UNHEALTHY_ESTIMATOR", "INVALID_MIXER"})
      BY <1>2, <2>7, ControlArms DEF Spares
    <3>2. Touches(state, state', ErrorFlags \ {"INVALID_FAILSAFE"})
      BY <3>1, TouchesMore DEF ErrorFlags
    <3>. QED
      BY <2>3, <2>7, <3>1, <3>2 DEF Control, ControlUpdateTick
  <2>8. CASE ImuControlTick
    <3>1. Touches(state, state',
                  {"IMU_NOT_RESPONDING", "TIME_GOING_BACKWARDS", "UNHEALTHY_ESTIMATOR",
                   "INVALID_MIXER"} \cup {"UNCALIBRATED_IMU"})
      BY <1>2, <2>8, ImuControlTickArms
    <3>2. Touches(state, state', ErrorFlags \ {"INVALID_FAILSAFE"})
      BY <3>1, TouchesMore DEF ErrorFlags
    <3>. QED
      BY <2>3, <2>8, <3>1, <3>2 DEF ImuControlTick
  <2>9. CASE BeginService \/ ServiceClosed \/ RcAges \/ ImuAges \/ ImuInterrupt
               \/ UNCHANGED vars
    BY <1>2, <2>9, OtherStepsArm DEF FailsafeThrottleJudged
  <2>. QED
    BY <1>2, <2>1, <2>2, <2>4, <2>5, <2>6, <2>7, <2>8, <2>9 DEF Next, Step
<1>3. IInv /\ FailsafeThrottleJudged => FailsafeInOrder
  BY DEF IInv, FailsafeInOrder
<1>. QED
  BY <1>1, <1>2, <1>3, PTL DEF Spec

(* All that is asked of the realtime scheduler holds of it, and of the fixed *)
(* order too: a service step may be cut short between any two stages.        *)
THEOREM RealtimeSafe == Spec => SafeUnderRealtime
<1>1. IInv => /\ TypeOK /\ ModeTellsErrors /\ LinkFlagCurrent
              /\ FailsafeCommandInForce /\ FailsafeCommandWithdrawn
  BY DEF IInv
<1>. QED
  BY <1>1, Invariance, LiveLink, Interlock, PTL DEF SafeUnderRealtime
-----------------------------------------------------------------------------
(* FlightCore implements the safety part of FlightContract: the initial     *)
(* states are the contract's, and every step is one of its steps or leaves  *)
(* its variables alone.                                                      *)

(* The events of the RC stage, as the contract sees them *)

(* The link is reported back: failsafe is over, nothing else changes.        *)
LEMMA LinkBackPhase ==
  ASSUME NEW m \in StateManagers, Told(m), NEW p
  PROVE  PhaseOf(ManagerUpdate(m, Cleared({"RC_LOST"}), p)) =
           IF PhaseOf(m) = "failsafe" THEN "flying" ELSE PhaseOf(m)
<1> DEFINE e == Cleared({"RC_LOST"})
<1>1. /\ ManagerUpdate(m, e, p) = Transition(Mark(m, e), e, p)
      /\ Mark(m, e).mode = m.mode
      /\ Mark(m, e) \in StateManagers
      /\ e.name = "ERROR_CLEARED" /\ e # Occurred({"RC_LOST"})
  BY MarkType, EventTypes DEF ManagerUpdate, MachineUpdate, Cleared, Occurred, ErrorFlags
<1> SUFFICES PhaseOf(ManagerUpdate(m, e, p)) =
               IF PhaseOf(m) = "failsafe" THEN "flying" ELSE PhaseOf(m)
  OBVIOUS
<1> USE DEF Goto, PreflightOr, PhaseOf, StateManagers, Modes
<1>2. CASE m.mode = "Preflight"
  BY <1>1, <1>2 DEF Transition, FromPreflight
<1>3. CASE m.mode = "Calibrating"
  BY <1>1, <1>3 DEF Transition, FromCalibrating
<1>4. CASE m.mode = "Armed"
  BY <1>1, <1>4 DEF Transition, FromArmed
<1>5. CASE m.mode = "Failsafe"
  BY <1>1, <1>5 DEF Transition, FromFailsafe
<1>6. CASE m.mode = "ErrorPresent"
  BY <1>1, <1>6 DEF Transition, FromErrorPresent
<1>. QED
  BY <1>2, <1>3, <1>4, <1>5, <1>6 DEF Told, HalfTold

(* What the contract makes of a loss. *)
LostPhase(phase) == IF phase \in {"flying", "failsafe"} THEN "failsafe" ELSE "disarmed"

(* The link is reported lost.                                                *)
LEMMA LinkLostPhase ==
  ASSUME NEW m \in StateManagers, Told(m), NEW p
  PROVE  PhaseOf(ManagerUpdate(m, Occurred({"RC_LOST"}), p)) = LostPhase(PhaseOf(m))
<1> DEFINE e == Occurred({"RC_LOST"})
<1>1. /\ ManagerUpdate(m, e, p) = Transition(Mark(m, e), e, p)
      /\ Mark(m, e).mode = m.mode
      /\ Mark(m, e) \in StateManagers
      /\ e.name = "ERROR_OCCURRED" /\ e # Cleared({"RC_LOST"})
  BY MarkType, EventTypes DEF ManagerUpdate, MachineUpdate, Cleared, Occurred, ErrorFlags
<1> USE DEF Goto, PreflightOr, PhaseOf, LostPhase, StateManagers, Modes
<1>2. CASE m.mode = "Preflight"
  BY <1>1, <1>2 DEF Transition, FromPreflight
<1>3. CASE m.mode = "Calibrating"
  BY <1>1, <1>3 DEF Transition, FromCalibrating
<1>4. CASE m.mode = "Armed"
  BY <1>1, <1>4 DEF Transition, FromArmed
<1>5. CASE m.mode = "Failsafe"
  BY <1>1, <1>5 DEF Transition, FromFailsafe
<1>6. CASE m.mode = "ErrorPresent"
  BY <1>1, <1>6 DEF Transition, FromErrorPresent
<1>. QED
  BY <1>2, <1>3, <1>4, <1>5, <1>6 DEF Told, HalfTold

(* What the contract lets the pilot do. *)
PilotPhases(phase) ==
  CASE phase = "disarmed"    -> {"disarmed", "calibrating", "flying"}
    [] phase = "calibrating" -> {"calibrating", "disarmed"}
    [] OTHER                 -> {"flying", "disarmed"}

(* The pilot asks to arm a machine that is not armed.                        *)
LEMMA ArmPhase ==
  ASSUME NEW m \in StateManagers, Told(m), ~ IsArmed(m), NEW p
  PROVE  /\ PhaseOf(ManagerUpdate(m, Signal("REQUEST_ARM"), p)) \in PilotPhases(PhaseOf(m))
         /\ PhaseOf(m) = "calibrating" => ManagerUpdate(m, Signal("REQUEST_ARM"), p) = m
<1> DEFINE e == Signal("REQUEST_ARM")
<1>1. /\ \/ ManagerUpdate(m, e, p) = m
         \/ ManagerUpdate(m, e, p) = Transition(m, e, p)
      /\ e.name = "REQUEST_ARM"
  BY DEF ManagerUpdate, MachineUpdate, Mark, Signal, StateManagers
<1> SUFFICES /\ PhaseOf(ManagerUpdate(m, e, p)) \in PilotPhases(PhaseOf(m))
             /\ PhaseOf(m) = "calibrating" => ManagerUpdate(m, e, p) = m
  OBVIOUS
<1> HIDE DEF e
<1> USE DEF PhaseOf, PilotPhases
<1>2. ArmFromPreflight(m, p).mode \in {"Calibrating", "Armed"}
  BY DEF ArmFromPreflight, Goto, StateManagers
<1>3. CASE m.mode = "Preflight"
  BY <1>1, <1>2, <1>3 DEF Transition, FromPreflight
<1>4. CASE m.mode = "Calibrating"
  BY <1>1, <1>4 DEF Transition, FromCalibrating
<1>5. CASE m.mode = "ErrorPresent"
  BY <1>1, <1>2, <1>5 DEF Transition, FromErrorPresent
<1>. QED
  BY <1>3, <1>4, <1>5 DEF Told, HalfTold, IsArmed, StateManagers, Modes

(* The pilot asks to disarm a machine that flies on a link that is up.       *)
LEMMA DisarmPhase ==
  ASSUME NEW m \in StateManagers, m.mode = "Armed", NEW p
  PROVE  PhaseOf(ManagerUpdate(m, Signal("REQUEST_DISARM"), p)) = "disarmed"
<1> DEFINE e == Signal("REQUEST_DISARM")
<1>1. /\ ManagerUpdate(m, e, p) = FromArmed(m, e)
      /\ e.name = "REQUEST_DISARM" /\ e # Occurred({"RC_LOST"})
  BY DEF ManagerUpdate, MachineUpdate, Mark, Signal, Occurred, StateManagers, Transition
<1> HIDE DEF e
<1>2. PreflightOr(m, "ErrorPresent").mode \in {"Preflight", "ErrorPresent"}
  BY DEF Goto, PreflightOr, StateManagers
<1>3. FromArmed(m, e) = PreflightOr(m, "ErrorPresent")
  BY <1>1 DEF FromArmed
<1>. QED
  BY <1>1, <1>2, <1>3 DEF PhaseOf, e

(* StateManager::run ends a calibration that started with an error, and      *)
(* changes nothing else unless a flying machine has lost its link.           *)
LEMMA RunPhase ==
  ASSUME NEW m \in StateManagers, HalfTold(m), NEW p,
         m.mode = "Armed" => "RC_LOST" \notin m.flags
  PROVE  \/ PhaseOf(ManagerRun(m, p)) = PhaseOf(m)
         \/ PhaseOf(m) = "calibrating" /\ PhaseOf(ManagerRun(m, p)) = "disarmed"
<1> DEFINE e == IF m.flags = {} THEN Cleared({}) ELSE Occurred(m.flags)
<1>1. /\ ManagerRun(m, p) = Transition(m, e, p)
      /\ e.name = IF m.flags = {} THEN "ERROR_CLEARED" ELSE "ERROR_OCCURRED"
      /\ e # Cleared({"RC_LOST"})
      /\ e = Occurred({"RC_LOST"}) => m.flags = {"RC_LOST"}
  BY DEF ManagerRun, ManagerUpdate, MachineUpdate, Mark, Cleared, Occurred, StateManagers
<1> HIDE DEF e
<1> USE DEF Goto, PreflightOr, PhaseOf, StateManagers, Modes
<1>2. CASE m.mode = "Preflight"
  BY <1>1, <1>2 DEF Transition, FromPreflight
<1>3. CASE m.mode = "Calibrating"
  BY <1>1, <1>3 DEF Transition, FromCalibrating
<1>4. CASE m.mode = "Armed"
  BY <1>1, <1>4 DEF Transition, FromArmed
<1>5. CASE m.mode = "Failsafe"
  BY <1>1, <1>5 DEF Transition, FromFailsafe
<1>6. CASE m.mode = "ErrorPresent"
  BY <1>1, <1>6 DEF Transition, FromErrorPresent
<1>. QED
  BY <1>2, <1>3, <1>4, <1>5, <1>6 DEF HalfTold

-----------------------------------------------------------------------------
(* The RC, command and state stage *)

(* A phase is one of the contract's.                                         *)
LEMMA PhaseType ==
  \A m : PhaseOf(m) \in {"disarmed", "calibrating", "flying", "failsafe"}
BY DEF PhaseOf

(* The link is reported back, the pilot acts, and the machine runs.          *)
LEMMA GesturePhase ==
  ASSUME NEW m \in StateManagers, Told(m), m.mode # "Failsafe", NEW gesture,
         NEW low \in BOOLEAN, NEW override \in BOOLEAN, NEW p
  PROVE  PhaseOf(LookForArmDisarm(m, gesture, low, override, p)) \in
           IF PhaseOf(m) = "calibrating" THEN {"calibrating"} ELSE PilotPhases(PhaseOf(m))
<1> DEFINE safe == UpdateArmingSafety(m, low, override)
<1>1. /\ safe \in StateManagers /\ Told(safe)
      /\ safe.mode = m.mode /\ PhaseOf(safe) = PhaseOf(m)
  BY UpdateArmingSafetyKeeps DEF Told, HalfTold, PhaseOf
<1>2. PhaseOf(m) # "failsafe" /\ (IsArmed(m) <=> PhaseOf(m) = "flying")
      /\ (PhaseOf(m) = "flying" => m.mode = "Armed")
  BY DEF PhaseOf, IsArmed
<1>3. PhaseOf(m) \in PilotPhases(PhaseOf(m))
  BY <1>2, PhaseType DEF PilotPhases
<1> HIDE DEF safe
<1>4. CASE gesture = "request" /\ ~ IsArmed(m)
  <2>1. LookForArmDisarm(m, gesture, low, override, p)
          = ManagerUpdate(safe, Signal("REQUEST_ARM"), p)
    BY <1>4 DEF LookForArmDisarm, safe
  <2>2. ~ IsArmed(safe)
    BY <1>1, <1>4 DEF IsArmed
  <2>. QED
    BY <1>1, <2>1, <2>2, ArmPhase
<1>5. CASE gesture = "request" /\ IsArmed(m)
  <2>1. PhaseOf(LookForArmDisarm(m, gesture, low, override, p)) = "disarmed"
    BY <1>2, <1>5, DisarmPhase DEF LookForArmDisarm
  <2>. QED
    BY <1>2, <1>5, <2>1 DEF PilotPhases
<1>6. CASE gesture # "request"
  BY <1>1, <1>3, <1>6 DEF LookForArmDisarm, safe
<1>. QED
  BY <1>4, <1>5, <1>6

(* What the stage does to the phase before StateManager::run: what the pilot *)
(* may do on a link that is up, and the loss on one that is down.            *)
LEMMA AfterLinkPhase ==
  ASSUME IInv, NEW gesture \in {"none", "hold", "request"},
         NEW low \in BOOLEAN, NEW override \in BOOLEAN
  PROVE  /\ RcHealthy(LastPacket) =>
              /\ PhaseOf(AfterLink(gesture, low, override)) \in PilotPhases(PhaseOf(state))
              /\ PhaseOf(state) # "disarmed" =>
                   PhaseOf(AfterLink(gesture, low, override)) \in
                     {"disarmed", "flying"} \cup {PhaseOf(state)}
         /\ ~ RcHealthy(LastPacket) =>
              /\ PhaseOf(AfterLink(gesture, low, override)) = LostPhase(PhaseOf(state))
              /\ "RC_LOST" \in AfterLink(gesture, low, override).flags
<1> DEFINE after == AfterRc(gesture, low, override)
<1>1. state \in StateManagers /\ Told(state) /\ after \in StateManagers
  BY ModeTellsErrorsIsTold, RcStageType DEF IInv, TypeOK
<1>2. CASE RcHealthy(LastPacket)
  <2>1. AfterLink(gesture, low, override) = after
    BY <1>2 DEF AfterLink, CommandChecksRc
  <2>2. CASE freshRc = "none"
    <3>1. after = state /\ LastPacket = rc
      BY <2>2 DEF AfterRc, LastPacket
    <3>2. PhaseOf(state) # "failsafe"
      BY <1>1, <1>2, <3>1 DEF IInv, LinkFlagCurrent, Told, HalfTold, PhaseOf
    <3>. QED
      BY <1>2, <2>1, <3>1, <3>2, PhaseType DEF PilotPhases
  <2>3. CASE freshRc # "none"
    <3> DEFINE back == ManagerUpdate(state, Cleared({"RC_LOST"}), params)
    <3>1. after = LookForArmDisarm(back, gesture, low, override, params)
      BY <1>2, <2>3 DEF AfterRc, RcRun
    <3>2. back \in StateManagers /\ Told(back) /\ back.mode # "Failsafe"
      BY <1>1, UpdateType, EventTypes, ClearedTold, LinkBackLeavesFailsafe DEF ErrorFlags
    <3>3. PhaseOf(back) = IF PhaseOf(state) = "failsafe" THEN "flying" ELSE PhaseOf(state)
      BY <1>1, LinkBackPhase
    <3> HIDE DEF back
    <3>4. PhaseOf(after) \in
            IF PhaseOf(back) = "calibrating" THEN {"calibrating"} ELSE PilotPhases(PhaseOf(back))
      BY <3>1, <3>2, GesturePhase
    <3> HIDE DEF after
    <3>. QED
      BY <1>2, <2>1, <3>3, <3>4, PhaseType DEF PilotPhases
  <2>. QED
    BY <2>2, <2>3
<1>3. CASE ~ RcHealthy(LastPacket)
  <2>1. AfterLink(gesture, low, override) = ManagerUpdate(after, Occurred({"RC_LOST"}), params)
    BY <1>3 DEF AfterLink, CommandChecksRc
  <2>2. after = state \/ after = ManagerUpdate(state, Occurred({"RC_LOST"}), params)
    BY <1>3 DEF AfterRc, RcRun
  <2>3. Told(after)
    BY <1>1, <2>2, OccurredTold DEF ErrorFlags
  <2>4. PhaseOf(after) \in {PhaseOf(state), LostPhase(PhaseOf(state))}
    BY <1>1, <2>2, LinkLostPhase
  <2> HIDE DEF after
  <2>5. PhaseOf(ManagerUpdate(after, Occurred({"RC_LOST"}), params)) = LostPhase(PhaseOf(after))
    BY <1>1, <2>3, LinkLostPhase
  <2>6. "RC_LOST" \in ManagerUpdate(after, Occurred({"RC_LOST"}), params).flags
    BY <1>1, <2>3, LinkLost
  <2>. QED
    BY <1>3, <2>1, <2>4, <2>5, <2>6 DEF LostPhase
<1>. QED
  BY <1>2, <1>3

(* The stage is the contract's pilot or loss stage.                          *)
LEMMA RcStageImplements ==
  ASSUME IInv, RcCommandState
  PROVE  Contract!PilotStage \/ Contract!LossStage
<1>1. PICK gesture \in {"none", "hold", "request"}, low \in BOOLEAN, override \in BOOLEAN :
        /\ combined' = CombinedCommand(AfterLink(gesture, low, override))
        /\ state' = ManagerRun(AfterLink(gesture, low, override), params)
  BY DEF RcCommandState
<1> DEFINE linked == AfterLink(gesture, low, override)
<1>2. /\ linked \in StateManagers /\ HalfTold(linked)
      /\ RcHealthy(rc') => linked.mode # "Failsafe" /\ "RC_LOST" \notin linked.flags
      /\ ~ RcHealthy(rc') => linked.mode # "Armed"
  BY AfterLinkTold DEF RcCommandState
<1>3. /\ RcHealthy(rc') =>
           /\ PhaseOf(linked) \in PilotPhases(PhaseOf(state))
           /\ PhaseOf(state) # "disarmed" =>
                PhaseOf(linked) \in {"disarmed", "flying"} \cup {PhaseOf(state)}
      /\ ~ RcHealthy(rc') =>
           /\ PhaseOf(linked) = LostPhase(PhaseOf(state))
           /\ "RC_LOST" \in linked.flags
  BY AfterLinkPhase DEF RcCommandState
<1> HIDE DEF linked
<1>4. state' = ManagerRun(linked, params) /\ combined' = CombinedCommand(linked)
  BY <1>1 DEF linked
<1>5. /\ \/ PhaseOf(state') = PhaseOf(linked)
         \/ PhaseOf(linked) = "calibrating" /\ PhaseOf(state') = "disarmed"
      /\ state'.flags = linked.flags
  BY <1>2, <1>3, <1>4, RunPhase, RunKeepsLink
<1>6. combined' = IF PhaseOf(linked) = "failsafe" THEN "failsafe" ELSE "muxed"
  BY <1>2, <1>4 DEF CombinedCommand, IsInFailsafe, HalfTold, PhaseOf
<1>7. CASE RcHealthy(rc')
  <2>1. PhaseOf(linked) # "failsafe"
    BY <1>2, <1>7 DEF PhaseOf
  <2>2. PhaseOf(state') \in PilotPhases(PhaseOf(state))
    BY <1>3, <1>5, <1>7, PhaseType DEF PilotPhases
  <2>. QED
    BY <1>2, <1>5, <1>6, <1>7, <2>1, <2>2 DEF Contract!PilotStage, PilotPhases
<1>8. CASE ~ RcHealthy(rc')
  <2>1. PhaseOf(linked) = LostPhase(PhaseOf(state)) /\ "RC_LOST" \in linked.flags
    BY <1>3, <1>8
  <2>2. PhaseOf(state') = PhaseOf(linked)
    BY <1>5, <2>1 DEF LostPhase
  <2>. QED
    BY <1>5, <1>6, <1>8, <2>1, <2>2 DEF Contract!LossStage, LostPhase
<1>. QED
  BY <1>7, <1>8

-----------------------------------------------------------------------------
(* The other stages *)

(* A step that carries the machine on ends a calibration or is not seen.     *)
LEMMA CarriedImplements ==
  ASSUME Carries(state, state'), rc' = rc, combined' = combined, Told(state)
  PROVE  Contract!OtherStage \/ UNCHANGED Contract!vars
<1>1. /\ ("RC_LOST" \in state'.flags) <=> ("RC_LOST" \in state.flags)
      /\ RcHealthy(rc') <=> RcHealthy(rc)
  BY DEF Carries, KeepsLink
<1>2. \/ PhaseOf(state') = PhaseOf(state)
      \/ PhaseOf(state) = "calibrating" /\ PhaseOf(state') \in {"flying", "disarmed"}
  BY DEF Carries, KeepsLink, PhaseOf
<1>. QED
  BY <1>1, <1>2 DEF Contract!OtherStage, Contract!vars

(* The initial states of the flight core are the contract's.                 *)
LEMMA InitImplements == Init => Contract!Init
<1> SUFFICES ASSUME Init PROVE Contract!Init
  OBVIOUS
<1>1. Told(state) /\ state.mode # "Failsafe" /\ "RC_LOST" \notin state.flags
      /\ state.mode # "Calibrating"
  BY BootTold DEF Init
<1>. QED
  BY <1>1 DEF Init, Contract!Init, Contract!Boot, PhaseOf, NewRc, RcHealthy

(* Every step of the flight core is one of the contract's or is not seen.    *)
LEMMA NextImplements ==
  ASSUME IInv, [Next]_vars
  PROVE  [Contract!Next]_(Contract!vars)
<1>0. Told(state)
  BY ModeTellsErrorsIsTold DEF IInv
<1>1. CASE Comm \/ Sensors \/ ServiceSensors \/ Control \/ ControlUpdateTick \/ ImuControlTick
  BY <1>0, <1>1, CommCarries, SensorsCarries, ServiceSensorsCarries, ControlCarries,
     ImuControlTickCarries, CarriedImplements DEF Contract!Next
<1>2. CASE RcCommandState
  BY <1>2, RcStageImplements DEF Contract!Next
<1>3. CASE BeginService \/ ServiceClosed \/ ImuAges \/ ImuInterrupt \/ UNCHANGED vars
  <2>1. UNCHANGED <<state, rc, combined>>
    BY <1>3 DEF BeginService, ServiceClosed, ImuAges, ImuInterrupt, vars
  <2>. QED
    BY <2>1 DEF Contract!vars, PhaseOf, RcHealthy
<1>4. CASE RcAges
  <2>1. UNCHANGED <<state, combined>> /\ ~ RcHealthy(rc')
    BY <1>4 DEF RcAges, RcHealthy, IInv, TypeOK
  <2>. QED
    BY <2>1 DEF Contract!Next, Contract!LinkDies, PhaseOf
<1>5. CASE Restart
  <2>1. Told(state') /\ state'.mode # "Failsafe" /\ "RC_LOST" \notin state'.flags
        /\ state'.mode # "Calibrating"
    BY <1>5, BootTold DEF Restart
  <2>. QED
    BY <1>5, <2>1
    DEF Restart, Contract!Next, Contract!Restart, Contract!Boot, PhaseOf, NewRc, RcHealthy
<1>. QED
  BY <1>1, <1>2, <1>3, <1>4, <1>5 DEF Next, Step

(* Both schedulers implement the contract: only the RC stage arms, disarms,  *)
(* enters or leaves failsafe, as the link and the pilot say; the other       *)
(* stages can only end an arming calibration.                                *)
THEOREM Implementation == Spec => ImplementsContractSafely
<1>1. Spec => []IInv
  BY Invariance
<1>2. IInv /\ [Next]_vars => [Contract!Next]_(Contract!vars)
  BY NextImplements
<1>. QED
  BY <1>1, <1>2, InitImplements, PTL DEF Spec, ImplementsContractSafely, Contract!SafeSpec
=============================================================================
