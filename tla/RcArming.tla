------------------------------ MODULE RcArming ------------------------------
(***************************************************************************)
(* Arming and disarming by the pilot (crates/veloxity_core/src/rc.rs, with  *)
(* the RC stage of rc/command_state.rs): stick gestures held for a time, or *)
(* an arming switch, over a link that comes and goes.  FlightCore leaves    *)
(* the gesture open; here it is computed, with the clock it needs.  Time is *)
(* kept as ages, each up to the bound it is compared with.                  *)
(***************************************************************************)
EXTENDS StateMachine, Naturals

CONSTANTS
  ArmHold,       \* how long a gesture is held: 1000 ms
  RcTimeout,     \* RC_TIMEOUT_US
  ArmChannels,   \* the values RC_ARM_CHN takes: "none", or "switch" for one that
                 \* is above the sticks' channels and below RC_NUM_CHN
  CalibrateGyro, \* CAL_GYRO_ARM
  TakeMin        \* RC_OVRD_TAKE_MIN

RcArmingAssumption ==
  /\ ArmHold \in Nat
  /\ RcTimeout \in Nat
  /\ ArmChannels \subseteq {"none", "switch"}
  /\ CalibrateGyro \in BOOLEAN
  /\ TakeMin \in BOOLEAN

VARIABLES
  state,         \* StateManager
  armMapped,     \* switches[Arm].mapped
  inOrder,       \* the last packet: no loss of link, enough channels, in range
  packetAge,     \* now - rc.header.timestamp
  lookAge,       \* now - prev_time_ms: since the gestures were last looked at
  holdTime,      \* time_sticks_have_been_in_arming_position_ms
  combined,      \* what combined_command was last computed from
  sinceContrary, \* history: how long ago a gesture was interrupted, by a packet
                 \* that was looked at and showed other sticks, or by its end
  holding        \* history: the last packet looked at showed the arming gesture

vars == <<state, armMapped, inOrder, packetAge, lookAge, holdTime, combined,
          sinceContrary, holding>>

Params == [calibrateGyroOnArm |-> CalibrateGyro, allowUnhealthyEstimator |-> FALSE,
           takeMinThrottle |-> TakeMin]

(* The stick positions a gesture tells apart, on the channels init_sticks maps. *)
YawSticks == {"left", "mid", "right"}

(* What a good packet says once process_sticks_and_switches has read it. *)
Packets == [yaw: YawSticks, low: BOOLEAN, arm: BOOLEAN, override: BOOLEAN]

(* update_switch_mappings: a switch is mapped to a channel above the sticks'. *)
Mapped(channel) == channel = "switch"

TypeOK ==
  /\ state \in StateManagers
  /\ armMapped \in BOOLEAN
  /\ inOrder \in BOOLEAN
  /\ packetAge \in 0..(RcTimeout + 1)
  /\ lookAge \in 0..(ArmHold + 1)
  /\ holdTime \in 0..(ArmHold + 1)
  /\ combined \in {"default", "failsafe", "muxed"}
  /\ sinceContrary \in 0..(ArmHold + 1)
  /\ holding \in BOOLEAN

(* check_rc_health *)
Healthy == inOrder /\ packetAge <= RcTimeout

(* Saturating sum: what exceeds the bound is only ever compared with it.     *)
Plus(a, b, bound) == IF a + b > bound THEN bound ELSE a + b

(* World::init, RC part: the mapping is made from the parameters.  Boot is   *)
(* time 0, where prev_time_ms also starts.                                   *)
Init ==
  /\ \E channel \in ArmChannels : armMapped = Mapped(channel)
  /\ state = ManagerUpdate(NewStateManager, Signal("INITIALIZED"), Params)
  /\ inOrder = FALSE
  /\ packetAge = 0
  /\ lookAge = 0
  /\ holdTime = 0
  /\ combined = "default"
  /\ sinceContrary = 0
  /\ holding = FALSE

-----------------------------------------------------------------------------
(* Gestures *)

ArmGesture(pk)    == pk.low /\ pk.yaw = "right"
DisarmGesture(pk) == pk.low /\ pk.yaw = "left"

(* The gesture that counts: down and right to arm, down and left to disarm. *)
Counts(s, pk) == IF IsArmed(s) THEN DisarmGesture(pk) ELSE ArmGesture(pk)

(* Mutated form: a pause in the gesture does not start it over. *)
HeldWithPauses(s, pk, held, dt) ==
  IF Counts(s, pk) THEN Plus(held, dt, ArmHold + 1) ELSE held

(* The time a gesture has been held, this packet included. *)
Held(s, pk, held, dt) ==
  IF Counts(s, pk) THEN Plus(held, dt, ArmHold + 1) ELSE 0

(* Stick arming: a gesture held longer than ArmHold makes its request, an    *)
(* arming request with every further packet.                                 *)
StickArming(s, pk, held) ==
  CASE held > ArmHold /\ ~ IsArmed(s) ->
         ManagerUpdate(UpdateArmingSafety(s, pk.low, pk.override), Signal("REQUEST_ARM"), Params)
    [] held > ArmHold /\ IsArmed(s) -> ManagerUpdate(s, Signal("REQUEST_DISARM"), Params)
    [] OTHER -> s

(* The timer starts over after a request to disarm only. *)
HeldAfter(s, held) == IF held > ArmHold /\ IsArmed(s) THEN 0 ELSE held

(* Switch arming: on asks to arm, off to disarm. *)
SwitchArming(s, pk) ==
  LET noted == IF pk.arm THEN UpdateArmingSafety(s, pk.low, pk.override) ELSE s
  IN  CASE pk.arm /\ ~ IsArmed(s) -> ManagerUpdate(noted, Signal("REQUEST_ARM"), Params)
        [] ~ pk.arm /\ IsArmed(s) -> ManagerUpdate(noted, Signal("REQUEST_DISARM"), Params)
        [] OTHER -> noted

-----------------------------------------------------------------------------
(* The RC stage *)

(* Mutated form: the link is looked at when a packet comes only.             *)
FinishStageUnchecked(s, healthy) ==
  /\ combined' = IF IsInFailsafe(s) THEN "failsafe" ELSE "muxed"
  /\ state' = ManagerRun(s, Params)

(* The rest of the stage after Rc::run has left the machine in s:            *)
(* CommandManager::run checks the link and selects, StateManager::run.       *)
FinishStage(s, healthy) ==
  LET checked == IF healthy THEN s ELSE ManagerUpdate(s, Occurred({"RC_LOST"}), Params)
  IN  /\ combined' = IF IsInFailsafe(checked) THEN "failsafe" ELSE "muxed"
      /\ state' = ManagerRun(checked, Params)

(* Rc::receive and Rc::run on a healthy packet. *)
GoodPacket(pk) ==
  LET back == ManagerUpdate(state, Cleared({"RC_LOST"}), Params)
      held == Held(back, pk, holdTime, lookAge)
  IN  /\ inOrder' = TRUE
      /\ packetAge' = 0
      /\ lookAge' = 0
      /\ IF armMapped
         THEN /\ FinishStage(SwitchArming(back, pk), TRUE)
              /\ UNCHANGED <<holdTime, sinceContrary>>
              /\ holding' = FALSE
         ELSE /\ FinishStage(StickArming(back, pk, held), TRUE)
              /\ holdTime' = HeldAfter(back, held)
              /\ sinceContrary' =
                   IF ~ Counts(back, pk) \/ (held > ArmHold /\ IsArmed(back))
                   THEN 0 ELSE sinceContrary
              /\ holding' = ArmGesture(pk)
      /\ UNCHANGED armMapped

(* A packet with the loss-of-link mark, too few channels or a value out of   *)
(* range, which is not looked at further.                                    *)
BadPacket ==
  /\ inOrder' = FALSE
  /\ packetAge' = 0
  /\ FinishStage(ManagerUpdate(state, Occurred({"RC_LOST"}), Params), FALSE)
  /\ UNCHANGED <<armMapped, lookAge, holdTime, sinceContrary, holding>>

(* A stage without a packet: only the age of the last one counts. *)
NoPacket ==
  /\ FinishStage(state, Healthy)
  /\ UNCHANGED <<armMapped, inOrder, packetAge, lookAge, holdTime, sinceContrary, holding>>

RcStage == NoPacket \/ BadPacket \/ \E pk \in Packets : GoodPacket(pk)

-----------------------------------------------------------------------------
(* The other stages *)

(* param_change_callback: RC_ARM_CHN changes and the switches are mapped.    *)
ParamChangeCallback ==
  /\ \E channel \in ArmChannels : armMapped' = Mapped(channel)
  /\ UNCHANGED <<state, inOrder, packetAge, lookAge, holdTime, combined,
                 sinceContrary, holding>>

(* Another stage raises or clears an error, or ends the arming calibration.  *)
OtherStage ==
  /\ \/ \E present \in BOOLEAN :
          state' = SetErrorFlag(state, "UNHEALTHY_ESTIMATOR", present, Params)
     \/ /\ IsCalibrating(state)
        /\ \E end \in {"CALIBRATION_COMPLETE", "CALIBRATION_FAILED"} :
             state' = ManagerUpdate(state, Signal(end), Params)
  /\ UNCHANGED <<armMapped, inOrder, packetAge, lookAge, holdTime, combined,
                 sinceContrary, holding>>

Tick ==
  /\ packetAge' = Plus(packetAge, 1, RcTimeout + 1)
  /\ lookAge' = Plus(lookAge, 1, ArmHold + 1)
  /\ sinceContrary' = Plus(sinceContrary, 1, ArmHold + 1)
  /\ UNCHANGED <<state, armMapped, inOrder, holdTime, combined, holding>>

Next == RcStage \/ ParamChangeCallback \/ OtherStage \/ Tick

(* The RC stage runs again and again and time goes on. *)
Spec == Init /\ [][Next]_vars /\ WF_vars(NoPacket) /\ WF_vars(Tick)

-----------------------------------------------------------------------------
(* Properties *)

Disarmed(s) == ~ IsArmed(s) /\ ~ IsCalibrating(s)

(* By the sticks a vehicle starts to arm, or is disarmed, only after no      *)
(* packet for more than ArmHold interrupted the gesture.  Packets that were  *)
(* lost, or looked at for the switch, do not interrupt one, and the gesture  *)
(* of arming counts towards a disarming that follows it directly.            *)
GestureUninterrupted ==
  [][/\ \/ Disarmed(state) /\ ~ Disarmed(state')
        \/ IsArmed(state) /\ ~ IsArmed(state')
     /\ ~ armMapped /\ RcStage
     => sinceContrary > ArmHold]_vars

(* The timer never runs ahead of the clock: over outages, refused requests   *)
(* and changes of the arming channel it is no more than the time since the   *)
(* gesture was last interrupted.                                             *)
TimerBehindClock ==
  Plus(holdTime, lookAge, ArmHold + 1) <= sinceContrary

(* Whichever way the pilot arms, it is with the throttle low and, unless the *)
(* minimum is taken, the throttle override on, in that very packet.          *)
ArmsWithThrottleLow ==
  [][Disarmed(state) /\ ~ Disarmed(state') =>
       \A pk \in Packets : GoodPacket(pk) => pk.low /\ (TakeMin \/ pk.override)]_vars

(* A pilot who goes on holding the gesture on a live link, with no error in  *)
(* the way, is not ignored for ever.                                         *)
HoldArms ==
  ~ <>[](holding /\ Healthy /\ ~ armMapped /\ state.mode = "Preflight"
           /\ (TakeMin \/ state.overrideSwitch))

PhaseOf(m) ==
  CASE m.mode = "Armed"       -> "flying"
    [] m.mode = "Failsafe"    -> "failsafe"
    [] m.mode = "Calibrating" -> "calibrating"
    [] OTHER                  -> "disarmed"

(* With the gestures and the clock computed, the RC stage keeps the same     *)
(* contract that FlightCore implements with both left open.                  *)
Contract == INSTANCE FlightContract
  WITH phase <- PhaseOf(state), alive <- Healthy,
       reported <- ("RC_LOST" \in state.flags), command <- combined
=============================================================================
