----------------------------- MODULE CommandMux -----------------------------
(***************************************************************************)
(* CommandManager (crates/veloxity_core/src/command.rs): which command the  *)
(* control pipeline flies.  An offboard command that times out, the pilot's *)
(* sticks and override switches, the failsafe command, and the lockout that *)
(* takes angle mode away while the estimator is unhealthy.                  *)
(*                                                                          *)
(* Time is kept as ages: how long ago the offboard command came and how     *)
(* long ago a stick override of an axis was started, each up to the bound   *)
(* it is compared with.  A stick is deviated or not; throttles are ordered  *)
(* levels.  The link and the state machine are FlightCore's: this module    *)
(* takes from them whether the machine is in failsafe and whether it flags  *)
(* the estimator, and any good packet ends failsafe before the manager runs.*)
(***************************************************************************)
EXTENDS Naturals

CONSTANTS
  TiltAxes,         \* the axes that have an angle mode: of {"x", "y"}
  MappedSwitches,   \* the switches update_switch_mappings found a channel for
  OffboardTimeout,  \* OFFBOARD_TIMEOUT
  OverrideLag,      \* RC_OVRD_LAG_T
  MutableParams,    \* the parameters the ground station changes
  PilotInputs,      \* the packets the pilot sends: of Packets
  CompanionInputs   \* the offboard commands the companion sends: of Offboards

Axes     == TiltAxes \cup {"z"}
Channels == Axes \cup {"f"}
Throttle == 0..1
ParamNames == {"fixedWing", "angleLockout", "takeMinThrottle", "angleMode"}

Settings  == [fixedWing: BOOLEAN, angleLockout: BOOLEAN, takeMinThrottle: BOOLEAN,
              angleMode: BOOLEAN]
Packets   == [deviated: SUBSET Axes, on: SUBSET MappedSwitches, throttle: Throttle]
Offboards == [active: SUBSET Channels, mode: {"Rate", "Angle", "Passthrough"},
              throttle: Throttle]

CommandMuxAssumption ==
  /\ TiltAxes \subseteq {"x", "y"}
  /\ MappedSwitches \subseteq {"AttOverride", "ThrottleOverride", "AttType"}
  /\ OffboardTimeout \in Nat
  /\ OverrideLag \in Nat
  /\ MutableParams \subseteq ParamNames
  /\ PilotInputs \subseteq Packets
  /\ CompanionInputs \subseteq Offboards

VARIABLES
  params,        \* the four settings the manager reads
  rc,            \* sticks, switches and throttle of the last good packet
  newCommand,    \* Rc::new_command
  unhealthy,     \* UNHEALTHY_ESTIMATOR is flagged
  offboard,      \* offboard_command: active channels, mode, throttle
  offboardAge,   \* now - last_offboard_command_us
  overrideAge,   \* now - last_stick_override_time, of each axis
  rcCommand,     \* rc_command: control type of the tilt axes, throttle
  combined,      \* combined_command: source and type of each channel
  lockout,       \* RcAngleModeLockoutMachine
  sinceDeviated, \* history: how long ago a stage saw the stick deviated
  denied         \* history: a denial of angle mode has begun, and the attitude
                 \* switch was not seen in its rate position since

vars == <<params, rc, newCommand, unhealthy, offboard, offboardAge, overrideAge,
          rcCommand, combined, lockout, sinceDeviated, denied>>

Types     == {"Rate", "Angle", "Passthrough", "Throttle"}
Lockouts  == [state: {"Inactive", "SwitchResetRequired", "ParamRateUntilExplicitAngle"},
              recovered: BOOLEAN, denial: BOOLEAN]

TypeOK ==
  /\ params \in Settings
  /\ rc \in Packets
  /\ newCommand \in BOOLEAN
  /\ unhealthy \in BOOLEAN
  /\ offboard \in Offboards
  /\ offboardAge \in 0..(OffboardTimeout + 1)
  /\ overrideAge \in [Axes -> 0..OverrideLag]
  /\ rcCommand \in [tilt: Types, throttle: Throttle]
  /\ combined \in [from: [Channels -> {"none", "rc", "offboard", "failsafe"}],
                   type: [Channels -> Types], throttle: Throttle]
  /\ lockout \in Lockouts
  /\ sinceDeviated \in [Axes -> 0..OverrideLag]
  /\ denied \in BOOLEAN

(* The parameters' defaults, but with the lockout on, and what the ground    *)
(* station can make of them.                                                 *)
DefaultParams == [fixedWing |-> FALSE, angleLockout |-> TRUE,
                  takeMinThrottle |-> TRUE, angleMode |-> TRUE]

Reachable(p) == {q \in Settings : \A n \in ParamNames \ MutableParams : q[n] = p[n]}

NewLockout == [state |-> "Inactive", recovered |-> FALSE, denial |-> FALSE]

(* The boot counts as a stick override: last_stick_override_time is 0.       *)
Init ==
  /\ params \in Reachable(DefaultParams)
  /\ rc = [deviated |-> {}, on |-> {}, throttle |-> 0]
  /\ newCommand = FALSE
  /\ unhealthy = FALSE
  /\ offboard = [active |-> {}, mode |-> "Rate", throttle |-> 0]
  /\ offboardAge = 0
  /\ overrideAge = [a \in Axes |-> 0]
  /\ rcCommand = [tilt |-> "Rate", throttle |-> 0]
  /\ combined = [from |-> [c \in Channels |-> "none"],
                 type |-> [c \in Channels |-> "Rate"], throttle |-> 0]
  /\ lockout = NewLockout
  /\ sinceDeviated = [a \in Axes |-> 0]
  /\ denied = FALSE

SwitchOn(r, switch) == switch \in MappedSwitches /\ switch \in r.on

-----------------------------------------------------------------------------
(* The offboard command *)

(* set_new_offboard_command: the channels not ignored are active.            *)
SetNewOffboardCommand ==
  /\ offboard' \in CompanionInputs
  /\ offboardAge' = 0
  /\ UNCHANGED <<params, rc, newCommand, unhealthy, overrideAge, rcCommand,
                 combined, lockout, sinceDeviated, denied>>

(* update_offboard_timeout, on every run whether or not a packet is fresh. *)
TimedOut(o, age, fresh) ==
  IF age > OffboardTimeout THEN [o EXCEPT !.active = {}] ELSE o

OffboardType(o, c) ==
  IF o.mode = "Passthrough" THEN "Passthrough"
  ELSE IF c = "f" THEN "Throttle"
  ELSE IF c \in TiltAxes /\ o.mode = "Angle" THEN "Angle"
  ELSE "Rate"

-----------------------------------------------------------------------------
(* The angle-mode lockout *)

RcAngleModeSelected(p, r) ==
  IF "AttType" \in MappedSwitches THEN "AttType" \in r.on ELSE p.angleMode

OffboardAngleRequested(o) ==
  \E a \in TiltAxes : a \in o.active /\ OffboardType(o, a) = "Angle"

RcAttitudeSourceRequested(o, r) ==
  SwitchOn(r, "AttOverride") \/ ~ TiltAxes \subseteq o.active

(* Angle mode is asked for, by the source that would fly it, while the       *)
(* estimator is unhealthy.                                                   *)
UnsafeAngleRequested(p, r, o, bad) ==
  /\ bad
  /\ \/ OffboardAngleRequested(o)
     \/ RcAttitudeSourceRequested(o, r) /\ RcAngleModeSelected(p, r)

LockoutAdvance(l, p, r, bad) ==
  LET recovered == l.recovered \/ ~ bad
      left == \/ /\ l.state = "SwitchResetRequired"
                 /\ recovered
                 /\ "AttType" \notin r.on
              \/ /\ l.state = "ParamRateUntilExplicitAngle"
                 /\ ~ bad
                 /\ ~ p.angleMode
  IN  CASE left -> [l EXCEPT !.state = "Inactive", !.recovered = FALSE]
        [] ~ left /\ l.state = "SwitchResetRequired" -> [l EXCEPT !.recovered = recovered]
        [] OTHER -> l

LockoutEnter(l) ==
  CASE l.denial -> l
    [] ~ l.denial /\ "AttType" \notin MappedSwitches ->
         [state |-> "ParamRateUntilExplicitAngle", recovered |-> FALSE, denial |-> TRUE]
    [] ~ l.denial /\ l.state = "SwitchResetRequired" -> [l EXCEPT !.denial = TRUE]
    [] OTHER ->
         [state |-> "SwitchResetRequired", recovered |-> FALSE, denial |-> TRUE]

LockoutOff(p) == p.fixedWing \/ ~ p.angleLockout

(* RcAngleModeLockoutMachine::step, as estimator_mode_safety calls it. *)
LockoutStep(l, p, r, o, bad) ==
  CASE LockoutOff(p) -> NewLockout
    [] ~ LockoutOff(p) /\ UnsafeAngleRequested(p, r, o, bad) ->
         LockoutEnter(LockoutAdvance(l, p, r, bad))
    [] OTHER -> [LockoutAdvance(l, p, r, bad) EXCEPT !.denial = FALSE]

ForceRcAttitude(p, o, bad) ==
  ~ LockoutOff(p) /\ bad /\ OffboardAngleRequested(o)

ForceRcRate(l, p, r, o, bad) ==
  /\ ~ LockoutOff(p)
  /\ \/ LockoutAdvance(l, p, r, bad).state # "Inactive"
     \/ UnsafeAngleRequested(p, r, o, bad)

ForceParamRate(p, r, o, bad) ==
  /\ ~ LockoutOff(p)
  /\ "AttType" \notin MappedSwitches
  /\ UnsafeAngleRequested(p, r, o, bad)
  /\ p.angleMode

-----------------------------------------------------------------------------
(* Interpretation and muxing *)

(* interpret_rc, when a packet is fresh or the rate mode is forced. *)
InterpretRc(cmd, p, r, fresh, forced) ==
  IF ~ fresh /\ ~ forced THEN cmd
  ELSE [tilt |-> CASE p.fixedWing -> "Passthrough"
                   [] ~ p.fixedWing /\ forced -> "Rate"
                   [] OTHER -> IF RcAngleModeSelected(p, r) THEN "Angle" ELSE "Rate",
        throttle |-> r.throttle]

(* The rc_command type of a channel that has no angle mode. *)
RcType(cmd, c) ==
  CASE c \in TiltAxes               -> cmd.tilt
    [] c \notin TiltAxes /\ cmd.tilt = "Passthrough" -> "Passthrough"
    [] OTHER -> IF c = "f" THEN "Throttle" ELSE "Rate"

(* attitude_stick_deviated: within the lag of an earlier override, or now. *)
StickDeviated(r, ages, a) == ages[a] < OverrideLag \/ a \in r.deviated

(* Mutated form: the lag is restarted by every stage it is not over in. *)
OverrideRestarted(r, ages) ==
  [a \in Axes |-> IF StickDeviated(r, ages, a) THEN 0 ELSE ages[a]]

(* The override starts again only once its lag is over. *)
OverrideStarted(r, ages) ==
  [a \in Axes |-> IF ages[a] >= OverrideLag /\ a \in r.deviated THEN 0 ELSE ages[a]]

(* do_attitude_muxing: the pilot's command on an axis, or the companion's.   *)
(* The yaw axis, which is always a rate, is not forced.                      *)
RcFlies(p, r, o, bad, ages, a) ==
  \/ SwitchOn(r, "AttOverride")
  \/ StickDeviated(r, ages, a)
  \/ a \notin o.active
  \/ a \in TiltAxes /\ ForceRcAttitude(p, o, bad)

(* do_throttle_muxing *)
RcThrottles(p, r, o, cmd) ==
  \/ SwitchOn(r, "ThrottleOverride")
  \/ "f" \notin o.active
  \/ p.takeMinThrottle /\ cmd.throttle < o.throttle

Muxed(p, r, o, bad, ages, cmd) ==
  LET rcHas == {a \in Axes : RcFlies(p, r, o, bad, ages, a)}
                 \cup (IF RcThrottles(p, r, o, cmd) THEN {"f"} ELSE {})
  IN  [from |-> [c \in Channels |-> IF c \in rcHas THEN "rc" ELSE "offboard"],
       type |-> [c \in Channels |-> IF c \in rcHas THEN RcType(cmd, c)
                                                   ELSE OffboardType(o, c)],
       throttle |-> IF "f" \in rcHas THEN cmd.throttle ELSE o.throttle]

(* The failsafe commands of CommandManager::new; their throttle is judged   *)
(* in FlightCore and is level 0 here.                                       *)
FailsafeCommand(p) ==
  [from |-> [c \in Channels |-> "failsafe"],
   type |-> [c \in Channels |-> CASE p.fixedWing -> "Passthrough"
                                  [] ~ p.fixedWing /\ c \in TiltAxes -> "Angle"
                                  [] OTHER -> IF c = "f" THEN "Throttle" ELSE "Rate"],
   throttle |-> 0]

-----------------------------------------------------------------------------
(* Stages and environment *)

(* CommandManager::run outside failsafe, and the parameter it has set. *)
Run(r, fresh) ==
  LET o      == TimedOut(offboard, offboardAge, fresh)
      forced == ForceRcRate(lockout, params, r, o, unhealthy)
      cmd    == InterpretRc(rcCommand, params, r, fresh, forced)
  IN  /\ offboard' = o
      /\ lockout' = LockoutStep(lockout, params, r, o, unhealthy)
      /\ rcCommand' = cmd
      /\ combined' = Muxed(params, r, o, unhealthy, overrideAge, cmd)
      /\ overrideAge' = OverrideStarted(r, overrideAge)
      /\ params' = [params EXCEPT !.angleMode =
                      @ /\ ~ ForceParamRate(params, r, o, unhealthy)]
      /\ sinceDeviated' = [a \in Axes |-> IF a \in r.deviated THEN 0 ELSE sinceDeviated[a]]
      /\ denied' = (/\ ~ LockoutOff(params)
                    /\ \/ /\ ~ lockout.denial
                          /\ UnsafeAngleRequested(params, r, o, unhealthy)
                       \/ denied /\ "AttType" \in r.on)
      /\ newCommand' = FALSE

(* CommandManager::run in failsafe: nothing else is looked at. *)
RunFailsafe(fresh) ==
  /\ combined' = FailsafeCommand(params)
  /\ newCommand' = fresh
  /\ UNCHANGED <<params, offboard, lockout, rcCommand, overrideAge, sinceDeviated,
                 denied>>

(* The RC stage on a good packet: Rc::run has interpreted it. *)
GoodPacket ==
  \E r \in PilotInputs :
    /\ rc' = r
    /\ Run(r, TRUE)
    /\ UNCHANGED <<unhealthy, offboardAge>>

(* The RC stage on a bad packet or on none, in failsafe or not. *)
NoPacket ==
  \E fresh \in {newCommand, FALSE} :
    /\ Run(rc, fresh) \/ RunFailsafe(fresh)
    /\ UNCHANGED <<rc, unhealthy, offboardAge>>

(* The control stage flags the estimator, or clears it. *)
EstimatorTurns ==
  /\ unhealthy' = ~ unhealthy
  /\ UNCHANGED <<params, rc, newCommand, offboard, offboardAge, overrideAge,
                 rcCommand, combined, lockout, sinceDeviated, denied>>

(* The communication stage sets parameters. *)
SetParams ==
  /\ params' \in Reachable(params)
  /\ UNCHANGED <<rc, newCommand, unhealthy, offboard, offboardAge, overrideAge,
                 rcCommand, combined, lockout, sinceDeviated, denied>>

Older(age, bound) == IF age < bound THEN age + 1 ELSE age

Tick ==
  /\ offboardAge' = Older(offboardAge, OffboardTimeout + 1)
  /\ overrideAge' = [a \in Axes |-> Older(overrideAge[a], OverrideLag)]
  /\ sinceDeviated' = [a \in Axes |-> Older(sinceDeviated[a], OverrideLag)]
  /\ UNCHANGED <<params, rc, newCommand, unhealthy, offboard, rcCommand, combined,
                 lockout, denied>>

RcStage == GoodPacket \/ NoPacket

Next == RcStage \/ SetNewOffboardCommand \/ EstimatorTurns \/ SetParams \/ Tick

(* The RC stage runs again and again; packets, messages and the pilot are   *)
(* free.                                                                     *)
Spec == Init /\ [][Next]_vars /\ WF_vars(RcStage)

-----------------------------------------------------------------------------
(* Properties *)

InFailsafe == combined.from["z"] = "failsafe"

(* A stage never flies a channel of the companion that it did not offer or   *)
(* that has timed out, whether or not RC packets arrive, and in particular   *)
(* not in the first stage after failsafe, during which no timeout is seen.   *)
OffboardFlownOnlyFresh ==
  [][~ \E c \in Channels :
       /\ combined'.from[c] = "offboard"
       /\ offboardAge > OffboardTimeout \/ c \notin offboard.active
       /\ RcStage]_vars

(* Unless the pilot's override switch or stick says so, the pilot does not   *)
(* take an axis from a fresh offboard command: a stick override is over when *)
(* its lag is, counted from no later than the last deviation.                *)
OverrideOnlyByPilot ==
  [][~ \E a \in Axes :
       /\ combined'.from[a] = "rc"
       /\ a \in offboard'.active
       /\ a \notin rc'.deviated /\ sinceDeviated'[a] >= OverrideLag
       /\ ~ SwitchOn(rc', "AttOverride")
       /\ ~ (a \in TiltAxes /\ ForceRcAttitude(params, offboard', unhealthy))
       /\ RcStage]_vars

(* With RC_OVRD_TAKE_MIN the throttle flown is never above the pilot's.      *)
PilotCapsThrottle ==
  [][combined'.throttle > rcCommand'.throttle /\ params.takeMinThrottle /\ ~ InFailsafe'
       => ~ RcStage]_vars

(* With the lockout on, an angle command is flown on an unhealthy estimator  *)
(* in one case only: a stick override of an offboard attitude command.       *)
AngleDeniedUnlessStickOverride ==
  [][unhealthy /\ ~ LockoutOff(params) /\ ~ InFailsafe' =>
       ~ \E a \in TiltAxes :
           /\ combined'.type[a] = "Angle"
           /\ \/ combined'.from[a] # "rc"
              \/ ~ TiltAxes \subseteq offboard'.active
              \/ a \notin rc'.deviated /\ sinceDeviated'[a] >= OverrideLag
           /\ RcStage]_vars

(* A pilot who is locked out flies rates, on packets old and new: the        *)
(* command interpreted before the denial does not stay in force.             *)
LockedOutFliesRate == lockout.state # "Inactive" => rcCommand.tilt = "Rate"

(* After a denial a mapped attitude switch must be seen in its rate position *)
(* before the pilot's angle commands are taken again.                        *)
AngleAfterSwitchReset ==
  [][rcCommand'.tilt = "Angle" /\ denied /\ denied' /\ "AttType" \in MappedSwitches
       => ~ RcStage]_vars

(* The lockout of a mapped switch can be left: with a healthy estimator and  *)
(* the switch at rate it ends, unless one of both changes or failsafe comes. *)
SwitchUnlocks ==
  (~ unhealthy /\ lockout.state = "SwitchResetRequired" /\ "AttType" \notin rc.on)
    ~> (unhealthy \/ lockout.state = "Inactive" \/ "AttType" \in rc.on \/ InFailsafe)

=============================================================================
