---------------------------- MODULE FlightContract ----------------------------
(***************************************************************************)
(* What the flight core promises of arming and of the RC link, without its  *)
(* stages, error flags, parameters and calibrations: who may change whether *)
(* the vehicle flies, and when.  FlightCore implements it.                  *)
(***************************************************************************)

VARIABLES
  phase,      \* "disarmed", "calibrating" to arm, "flying" or in "failsafe"
  alive,      \* the last RC packet is in order and fresh
  reported,   \* the loss of the link is flagged
  command     \* what the control pipeline follows: "default", "muxed", "failsafe"

vars == <<phase, alive, reported, command>>

(* A boot, which may rearm a vehicle that a hard fault took out of the air. *)
Boot(p, a, r, c) ==
  p \in {"disarmed", "flying"} /\ ~ a /\ ~ r /\ c = "default"

Init == Boot(phase, alive, reported, command)

Restart == Boot(phase', alive', reported', command')

(* The RC stage on a link that is up: the pilot may start arming a disarmed  *)
(* vehicle and disarm a flying one, failsafe is over, and the pilot's or the *)
(* companion's command is in force.  An error ends a calibration.            *)
PilotStage ==
  /\ alive'
  /\ ~ reported'
  /\ phase' \in CASE phase = "disarmed"    -> {"disarmed", "calibrating", "flying"}
                  [] phase = "calibrating" -> {"calibrating", "disarmed"}
                  [] OTHER                 -> {"flying", "disarmed"}
  /\ command' = "muxed"

(* The RC stage on a link that is down: a flying vehicle is in failsafe when *)
(* it ends, on the failsafe command, and no other is about to fly.           *)
LossStage ==
  /\ ~ alive'
  /\ reported'
  /\ phase' = IF phase \in {"flying", "failsafe"} THEN "failsafe" ELSE "disarmed"
  /\ command' = IF phase' = "failsafe" THEN "failsafe" ELSE "muxed"

(* Every other stage: an arming calibration may end, well or not.  Whatever  *)
(* error is found in flight, none of them stops or starts one.               *)
OtherStage ==
  /\ phase = "calibrating"
  /\ phase' \in {"flying", "disarmed"}
  /\ UNCHANGED <<alive, reported, command>>

(* The last packet turns too old. *)
LinkDies ==
  /\ alive' = FALSE
  /\ UNCHANGED <<phase, reported, command>>

Next == Restart \/ PilotStage \/ LossStage \/ OtherStage \/ LinkDies

(* A link that stays dead is noticed without another packet: it is flagged,  *)
(* and the vehicle neither flies on a command from it nor goes on arming.    *)
LossNoticed ==
  ~ alive ~> (alive \/ (reported /\ phase \in {"failsafe", "disarmed"}))

SafeSpec == Init /\ [][Next]_vars

Spec == SafeSpec /\ LossNoticed
=============================================================================
