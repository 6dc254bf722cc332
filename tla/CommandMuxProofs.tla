-------------------------- MODULE CommandMuxProofs --------------------------
(***************************************************************************)
(* Whose command is flown, and when the pilot is locked out of angle mode:  *)
(* theorems about CommandMux for every set of axes, mapped switches,        *)
(* inputs, time limits and parameters that change.                          *)
(***************************************************************************)
EXTENDS CommandMux, TLAPS

Commands == [tilt: Types, throttle: Throttle]

(* A stick override is never younger than the last deviation of its stick.   *)
AgesOrdered == \A a \in Axes : sinceDeviated[a] <= overrideAge[a]

(* What decides the angle mode is the packet, or a parameter that only the   *)
(* manager changes.                                                          *)
AngleKept == "AttType" \in MappedSwitches \/ "angleMode" \notin MutableParams

(* An angle command in force is one the pilot selects on the last packet.    *)
Interpreted ==
  AngleKept /\ rcCommand.tilt = "Angle" => RcAngleModeSelected(params, rc)

(* A denial whose switch was not reset keeps the lockout.                    *)
DeniedLocked ==
  denied /\ "AttType" \in MappedSwitches => lockout.state = "SwitchResetRequired"

IInv == TypeOK /\ LockedOutFliesRate /\ AgesOrdered /\ Interpreted /\ DeniedLocked

-----------------------------------------------------------------------------
(* What the operators of a run return *)

LEMMA OffboardTypes ==
  ASSUME CommandMuxAssumption, NEW o \in Offboards, NEW c \in Channels
  PROVE  OffboardType(o, c) \in Types
BY DEF OffboardType, Offboards, Types

(* An offboard command that has timed out has no active channel.             *)
LEMMA TimedOutType ==
  ASSUME CommandMuxAssumption, NEW o \in Offboards, NEW age \in Nat, NEW fresh
  PROVE  /\ TimedOut(o, age, fresh) \in Offboards
         /\ TimedOut(o, age, fresh).active \subseteq o.active
         /\ age > OffboardTimeout => TimedOut(o, age, fresh).active = {}
BY DEF TimedOut, Offboards, CommandMuxAssumption

LEMMA InterpretType ==
  ASSUME NEW cmd \in Commands, NEW p \in Settings, NEW r \in Packets,
         NEW fresh \in BOOLEAN, NEW forced \in BOOLEAN
  PROVE  InterpretRc(cmd, p, r, fresh, forced) \in Commands
<1>1. CASE ~ fresh /\ ~ forced
  BY <1>1 DEF InterpretRc
<1>2. CASE fresh \/ forced
  <2>1. InterpretRc(cmd, p, r, fresh, forced) =
          [tilt |-> CASE p.fixedWing -> "Passthrough"
                      [] ~ p.fixedWing /\ forced -> "Rate"
                      [] OTHER -> IF RcAngleModeSelected(p, r) THEN "Angle" ELSE "Rate",
           throttle |-> r.throttle]
    BY <1>2 DEF InterpretRc
  <2>2. p.fixedWing \in BOOLEAN /\ r.throttle \in Throttle
    BY DEF Settings, Packets
  <2>3. (CASE p.fixedWing -> "Passthrough"
           [] ~ p.fixedWing /\ forced -> "Rate"
           [] OTHER -> IF RcAngleModeSelected(p, r) THEN "Angle" ELSE "Rate") \in Types
    BY <2>2 DEF Types
  <2>. QED
    BY <2>1, <2>2, <2>3 DEF Commands
<1>. QED
  BY <1>1, <1>2

(* What the pilot's interpreted command is, mode by mode. *)
LEMMA InterpretTilt ==
  ASSUME NEW cmd \in Commands, NEW p \in Settings, NEW r \in Packets,
         NEW fresh \in BOOLEAN, NEW forced \in BOOLEAN, ~ p.fixedWing
  PROVE  LET tilt == InterpretRc(cmd, p, r, fresh, forced).tilt
         IN  /\ forced => tilt = "Rate"
             /\ fresh /\ ~ forced => (tilt = "Angle" <=> RcAngleModeSelected(p, r))
             /\ ~ fresh /\ ~ forced => tilt = cmd.tilt
BY DEF InterpretRc

LEMMA InterpretFixedWing ==
  ASSUME NEW cmd \in Commands, NEW p \in Settings, NEW r \in Packets,
         NEW fresh \in BOOLEAN, NEW forced \in BOOLEAN, p.fixedWing
  PROVE  LET tilt == InterpretRc(cmd, p, r, fresh, forced).tilt
         IN  IF fresh \/ forced THEN tilt = "Passthrough" ELSE tilt = cmd.tilt
BY DEF InterpretRc, Settings

LEMMA AdvanceType ==
  ASSUME NEW l \in Lockouts, NEW p \in Settings, NEW r \in Packets, NEW bad \in BOOLEAN
  PROVE  /\ LockoutAdvance(l, p, r, bad) \in Lockouts
         /\ LockoutAdvance(l, p, r, bad).denial = l.denial
         /\ l.state = "SwitchResetRequired" /\ "AttType" \in r.on =>
              LockoutAdvance(l, p, r, bad).state = l.state
BY DEF LockoutAdvance, Lockouts, Settings

LEMMA EnterType ==
  ASSUME NEW l \in Lockouts
  PROVE  /\ LockoutEnter(l) \in Lockouts
         /\ "AttType" \in MappedSwitches /\ (l.denial => l.state = "SwitchResetRequired")
              => LockoutEnter(l).state = "SwitchResetRequired"
BY DEF LockoutEnter, Lockouts

(* The lockout after a run.                                                  *)
LEMMA LockoutType ==
  ASSUME NEW l \in Lockouts, NEW p \in Settings, NEW r \in Packets, NEW o, NEW bad \in BOOLEAN
  PROVE  /\ LockoutStep(l, p, r, o, bad) \in Lockouts
         /\ LockoutOff(p) => LockoutStep(l, p, r, o, bad).state = "Inactive"
<1> DEFINE a == LockoutAdvance(l, p, r, bad)
<1>1. a \in Lockouts /\ NewLockout \in Lockouts /\ NewLockout.state = "Inactive"
  BY AdvanceType DEF NewLockout, Lockouts
<1>2. LockoutEnter(a) \in Lockouts
  BY <1>1, EnterType
<1>3. [a EXCEPT !.denial = FALSE] \in Lockouts
  BY <1>1 DEF Lockouts
<1> HIDE DEF a
<1>. QED
  BY <1>1, <1>2, <1>3 DEF LockoutStep, a

(* Where the lockout is on and no unsafe angle is asked for, it only         *)
(* advances.                                                                 *)
LEMMA LockoutCases ==
  ASSUME NEW l \in Lockouts, NEW p \in Settings, NEW r \in Packets, NEW o, NEW bad \in BOOLEAN,
         ~ LockoutOff(p)
  PROVE  LET a == LockoutAdvance(l, p, r, bad)
         IN  IF UnsafeAngleRequested(p, r, o, bad)
             THEN LockoutStep(l, p, r, o, bad) = LockoutEnter(a)
             ELSE LockoutStep(l, p, r, o, bad).state = a.state
<1> DEFINE a == LockoutAdvance(l, p, r, bad)
<1>1. a \in Lockouts
  BY AdvanceType
<1>2. [a EXCEPT !.denial = FALSE].state = a.state
  BY <1>1 DEF Lockouts
<1> HIDE DEF a
<1>. QED
  BY <1>2 DEF LockoutStep, a

LEMMA RcTypes ==
  ASSUME NEW cmd \in Commands, NEW c
  PROVE  RcType(cmd, c) \in Types
BY DEF RcType, Commands, Types

Sources   == {"none", "rc", "offboard", "failsafe"}
Combineds == [from: [Channels -> Sources], type: [Channels -> Types], throttle: Throttle]

LEMMA MuxedType ==
  ASSUME CommandMuxAssumption, NEW p, NEW r, NEW o \in Offboards, NEW bad, NEW ages,
         NEW cmd \in Commands
  PROVE  Muxed(p, r, o, bad, ages, cmd) \in Combineds
<1> DEFINE rcHas == {a \in Axes : RcFlies(p, r, o, bad, ages, a)}
                      \cup (IF RcThrottles(p, r, o, cmd) THEN {"f"} ELSE {})
           from == [c \in Channels |-> IF c \in rcHas THEN "rc" ELSE "offboard"]
           type == [c \in Channels |-> IF c \in rcHas THEN RcType(cmd, c) ELSE OffboardType(o, c)]
           throttle == IF "f" \in rcHas THEN cmd.throttle ELSE o.throttle
<1>1. Muxed(p, r, o, bad, ages, cmd) = [from |-> from, type |-> type, throttle |-> throttle]
  BY DEF Muxed
<1>2. throttle \in Throttle
  BY DEF Commands, Offboards
<1> HIDE DEF rcHas
<1>3. from \in [Channels -> Sources]
  BY DEF Sources
<1>4. type \in [Channels -> Types]
  BY RcTypes, OffboardTypes
<1> HIDE DEF from, type, throttle
<1>. QED
  BY <1>1, <1>2, <1>3, <1>4 DEF Combineds

(* Who flies a channel after a run, and as what.                             *)
LEMMA MuxedChannels ==
  ASSUME CommandMuxAssumption, NEW p, NEW r, NEW o, NEW bad, NEW ages, NEW cmd
  PROVE  LET m == Muxed(p, r, o, bad, ages, cmd)
         IN  /\ \A a \in Axes :
                  IF RcFlies(p, r, o, bad, ages, a)
                  THEN m.from[a] = "rc" /\ m.type[a] = RcType(cmd, a)
                  ELSE m.from[a] = "offboard" /\ m.type[a] = OffboardType(o, a)
             /\ IF RcThrottles(p, r, o, cmd)
                THEN m.from["f"] = "rc" /\ m.throttle = cmd.throttle
                ELSE m.from["f"] = "offboard" /\ m.throttle = o.throttle
<1> DEFINE throttled == IF RcThrottles(p, r, o, cmd) THEN {"f"} ELSE {}
           rcHas == {a \in Axes : RcFlies(p, r, o, bad, ages, a)} \cup throttled
           from == [c \in Channels |-> IF c \in rcHas THEN "rc" ELSE "offboard"]
           type == [c \in Channels |-> IF c \in rcHas THEN RcType(cmd, c) ELSE OffboardType(o, c)]
           throttle == IF "f" \in rcHas THEN cmd.throttle ELSE o.throttle
<1>1. Muxed(p, r, o, bad, ages, cmd) = [from |-> from, type |-> type, throttle |-> throttle]
  BY DEF Muxed
<1>2. "f" \notin Axes /\ Axes \subseteq Channels /\ "f" \in Channels
  BY DEF Axes, Channels, CommandMuxAssumption
<1>3. \A a \in Axes : a \in rcHas <=> RcFlies(p, r, o, bad, ages, a)
  BY <1>2
<1>4. "f" \in rcHas <=> RcThrottles(p, r, o, cmd)
  BY <1>2
<1> HIDE DEF rcHas
<1>5. \A c \in Channels : /\ from[c] = (IF c \in rcHas THEN "rc" ELSE "offboard")
                          /\ type[c] = (IF c \in rcHas THEN RcType(cmd, c) ELSE OffboardType(o, c))
  OBVIOUS
<1> HIDE DEF from, type
<1>. QED
  BY <1>1, <1>2, <1>3, <1>4, <1>5

LEMMA FailsafeType ==
  ASSUME NEW p \in Settings
  PROVE  FailsafeCommand(p) \in Combineds /\ FailsafeCommand(p).from["z"] = "failsafe"
<1> DEFINE from == [c \in Channels |-> "failsafe"]
           type == [c \in Channels |-> CASE p.fixedWing -> "Passthrough"
                                         [] ~ p.fixedWing /\ c \in TiltAxes -> "Angle"
                                         [] OTHER -> IF c = "f" THEN "Throttle" ELSE "Rate"]
<1>1. FailsafeCommand(p) = [from |-> from, type |-> type, throttle |-> 0]
  BY DEF FailsafeCommand
<1>2. type \in [Channels -> Types]
  BY DEF Types, Settings
<1>3. from \in [Channels -> Sources] /\ from["z"] = "failsafe"
  BY DEF Sources, Channels, Axes
<1> HIDE DEF from, type
<1>. QED
  BY <1>1, <1>2, <1>3 DEF Combineds, Throttle

-----------------------------------------------------------------------------
(* What a run does *)

LEMMA Typed ==
  ASSUME CommandMuxAssumption, TypeOK
  PROVE  /\ params \in Settings /\ rc \in Packets /\ offboard \in Offboards
         /\ lockout \in Lockouts /\ rcCommand \in Commands /\ combined \in Combineds
         /\ offboardAge \in Nat /\ unhealthy \in BOOLEAN /\ newCommand \in BOOLEAN
         /\ overrideAge \in [Axes -> 0..OverrideLag] /\ sinceDeviated \in [Axes -> 0..OverrideLag]
BY DEF TypeOK, Commands, Combineds, Sources, CommandMuxAssumption

(* A pilot locked out, or asking for an unsafe angle, flies rates; else a    *)
(* command keeps its type until the next packet.                             *)
LEMMA RunTilt ==
  ASSUME CommandMuxAssumption, TypeOK, NEW r \in Packets, NEW fresh \in BOOLEAN, Run(r, fresh)
  PROVE  LET forced == ForceRcRate(lockout, params, r, offboard', unhealthy)
         IN  /\ rcCommand' \in Commands
             /\ forced => rcCommand'.tilt = "Rate"
             /\ fresh /\ ~ forced /\ ~ params.fixedWing =>
                  (rcCommand'.tilt = "Angle" <=> RcAngleModeSelected(params, r))
             /\ fresh /\ params.fixedWing => rcCommand'.tilt = "Passthrough"
             /\ ~ fresh /\ ~ forced => rcCommand'.tilt = rcCommand.tilt
<1> DEFINE o == TimedOut(offboard, offboardAge, fresh)
           forced == ForceRcRate(lockout, params, r, o, unhealthy)
<1>1. offboard' = o /\ rcCommand' = InterpretRc(rcCommand, params, r, fresh, forced)
  BY DEF Run
<1>2. forced \in BOOLEAN /\ (forced => ~ params.fixedWing)
  BY DEF ForceRcRate, LockoutOff
<1> HIDE DEF forced
<1>3. rcCommand' \in Commands
  BY <1>1, <1>2, Typed, InterpretType
<1>4. CASE params.fixedWing
  <2>1. IF fresh \/ forced THEN rcCommand'.tilt = "Passthrough"
        ELSE rcCommand'.tilt = rcCommand.tilt
    BY <1>1, <1>2, <1>4, Typed, InterpretFixedWing
  <2>. QED
    BY <1>1, <1>2, <1>3, <1>4, <2>1 DEF forced
<1>5. CASE ~ params.fixedWing
  <2>1. /\ forced => rcCommand'.tilt = "Rate"
        /\ fresh /\ ~ forced => (rcCommand'.tilt = "Angle" <=> RcAngleModeSelected(params, r))
        /\ ~ fresh /\ ~ forced => rcCommand'.tilt = rcCommand.tilt
    BY <1>1, <1>2, <1>5, Typed, InterpretTilt
  <2>. QED
    BY <1>1, <1>2, <1>3, <1>5, <2>1 DEF forced
<1>. QED
  BY <1>4, <1>5

(* Whoever is locked out after a run was forced to fly rates in it.          *)
LEMMA RunLockout ==
  ASSUME CommandMuxAssumption, TypeOK, NEW r \in Packets, NEW fresh \in BOOLEAN, Run(r, fresh)
  PROVE  /\ lockout' \in Lockouts
         /\ lockout'.state # "Inactive" =>
              ForceRcRate(lockout, params, r, offboard', unhealthy)
<1> DEFINE o == TimedOut(offboard, offboardAge, fresh)
<1>1. offboard' = o /\ lockout' = LockoutStep(lockout, params, r, o, unhealthy)
  BY DEF Run
<1> HIDE DEF o
<1>2. lockout' \in Lockouts /\ (LockoutOff(params) => lockout'.state = "Inactive")
  BY <1>1, Typed, LockoutType
<1>3. ASSUME ~ LockoutOff(params), ~ UnsafeAngleRequested(params, r, o, unhealthy)
      PROVE  lockout'.state = LockoutAdvance(lockout, params, r, unhealthy).state
  BY <1>1, <1>3, Typed, LockoutCases
<1>. QED
  BY <1>1, <1>2, <1>3 DEF ForceRcRate

(* A denial ends with the lockout, or with a look at the switch at rate.     *)
LEMMA RunDenied ==
  ASSUME CommandMuxAssumption, TypeOK, DeniedLocked, "AttType" \in MappedSwitches,
         NEW r \in Packets, NEW fresh \in BOOLEAN, Run(r, fresh), denied'
  PROVE  /\ lockout'.state = "SwitchResetRequired"
         /\ denied => ForceRcRate(lockout, params, r, offboard', unhealthy)
<1> DEFINE o == TimedOut(offboard, offboardAge, fresh)
           unsafe == UnsafeAngleRequested(params, r, o, unhealthy)
           advanced == LockoutAdvance(lockout, params, r, unhealthy)
<1>1. /\ offboard' = o /\ lockout' = LockoutStep(lockout, params, r, o, unhealthy)
      /\ ~ LockoutOff(params)
      /\ (~ lockout.denial /\ unsafe) \/ (denied /\ "AttType" \in r.on)
  BY DEF Run
<1>2. IF unsafe THEN lockout' = LockoutEnter(advanced) ELSE lockout'.state = advanced.state
  BY <1>1, Typed, LockoutCases
<1>3. /\ advanced \in Lockouts /\ advanced.denial = lockout.denial
      /\ lockout.state = "SwitchResetRequired" /\ "AttType" \in r.on =>
           advanced.state = "SwitchResetRequired"
  BY Typed, AdvanceType
<1>4. unsafe \in BOOLEAN
  BY DEF UnsafeAngleRequested, TypeOK
<1>5. ForceRcRate(lockout, params, r, o, unhealthy) <=>
        advanced.state # "Inactive" \/ unsafe
  BY <1>1 DEF ForceRcRate
<1> HIDE DEF unsafe, advanced
<1>6. CASE ~ lockout.denial /\ unsafe
  <2>1. lockout'.state = "SwitchResetRequired"
    BY <1>2, <1>3, <1>6, EnterType
  <2>. QED
    BY <1>1, <1>5, <1>6, <2>1
<1>7. CASE denied /\ "AttType" \in r.on
  <2>1. advanced.state = "SwitchResetRequired"
    BY <1>3, <1>7 DEF DeniedLocked
  <2>2. lockout'.state = "SwitchResetRequired"
    BY <1>2, <1>3, <1>4, <2>1, EnterType
  <2>. QED
    BY <1>1, <1>5, <2>1, <2>2
<1>. QED
  BY <1>1, <1>6, <1>7

(* The ages of an override and of the deviation behind it, after a run.      *)
LEMMA RunAges ==
  ASSUME CommandMuxAssumption, TypeOK, AgesOrdered, NEW r, NEW fresh, Run(r, fresh)
  PROVE  /\ overrideAge' \in [Axes -> 0..OverrideLag] /\ sinceDeviated' \in [Axes -> 0..OverrideLag]
         /\ AgesOrdered'
<1>1. OverrideLag \in Nat /\ 0 \in 0..OverrideLag
  BY DEF CommandMuxAssumption
<1>2. /\ overrideAge' =
           [a \in Axes |-> IF overrideAge[a] >= OverrideLag /\ a \in r.deviated THEN 0 ELSE overrideAge[a]]
      /\ sinceDeviated' = [a \in Axes |-> IF a \in r.deviated THEN 0 ELSE sinceDeviated[a]]
  BY DEF Run, OverrideStarted
<1>3. \A a \in Axes : /\ overrideAge[a] \in 0..OverrideLag /\ sinceDeviated[a] \in 0..OverrideLag
                      /\ sinceDeviated[a] <= overrideAge[a]
  BY DEF TypeOK, AgesOrdered
<1>. QED
  BY <1>1, <1>2, <1>3 DEF AgesOrdered

-----------------------------------------------------------------------------
(* The invariant *)

LEMMA InitIInv ==
  ASSUME CommandMuxAssumption, Init
  PROVE  IInv
<1>1. params \in Settings
  BY DEF Init, Reachable
<1>2. /\ rc \in Packets /\ newCommand \in BOOLEAN /\ unhealthy \in BOOLEAN /\ offboard \in Offboards
      /\ lockout \in Lockouts /\ denied \in BOOLEAN
      /\ rcCommand \in [tilt: Types, throttle: Throttle]
  <2>1. 0 \in Throttle /\ "Rate" \in Types
    BY DEF Throttle, Types
  <2>2. rc \in Packets /\ offboard \in Offboards
    BY <2>1 DEF Init, Packets, Offboards
  <2>3. rcCommand \in [tilt: Types, throttle: Throttle]
    BY <2>1 DEF Init
  <2>. QED
    BY <2>2, <2>3 DEF Init, Lockouts, NewLockout
<1>3. /\ offboardAge \in 0..(OffboardTimeout + 1)
      /\ overrideAge \in [Axes -> 0..OverrideLag] /\ sinceDeviated \in [Axes -> 0..OverrideLag]
  BY DEF Init, CommandMuxAssumption
<1>4. combined \in [from: [Channels -> {"none", "rc", "offboard", "failsafe"}],
                    type: [Channels -> Types], throttle: Throttle]
  <2> DEFINE from == [c \in Channels |-> "none"]
             type == [c \in Channels |-> "Rate"]
  <2>1. combined = [from |-> from, type |-> type, throttle |-> 0]
    BY DEF Init
  <2>2. from \in [Channels -> {"none", "rc", "offboard", "failsafe"}]
        /\ type \in [Channels -> Types] /\ 0 \in Throttle
    BY DEF Types, Throttle
  <2> HIDE DEF from, type
  <2>. QED
    BY <2>1, <2>2
<1>5. TypeOK
  BY <1>1, <1>2, <1>3, <1>4 DEF TypeOK
<1>6. AgesOrdered
  BY DEF Init, AgesOrdered
<1>7. LockedOutFliesRate /\ Interpreted /\ DeniedLocked
  BY DEF Init, NewLockout, LockedOutFliesRate, Interpreted, DeniedLocked
<1>. QED
  BY <1>5, <1>6, <1>7 DEF IInv

(* A run on a packet, new or the last one again.                             *)
LEMMA RunIInv ==
  ASSUME CommandMuxAssumption, IInv, NEW r \in Packets, NEW fresh \in BOOLEAN, Run(r, fresh),
         rc' = r, fresh \/ r = rc, UNCHANGED <<unhealthy, offboardAge>>
  PROVE  IInv'
<1> DEFINE forced == ForceRcRate(lockout, params, r, offboard', unhealthy)
<1>1. TypeOK /\ LockedOutFliesRate /\ AgesOrdered /\ Interpreted /\ DeniedLocked
  BY DEF IInv
<1>2. /\ rcCommand' \in Commands
      /\ forced => rcCommand'.tilt = "Rate"
      /\ fresh /\ ~ forced /\ ~ params.fixedWing =>
           (rcCommand'.tilt = "Angle" <=> RcAngleModeSelected(params, r))
      /\ fresh /\ params.fixedWing => rcCommand'.tilt = "Passthrough"
      /\ ~ fresh /\ ~ forced => rcCommand'.tilt = rcCommand.tilt
  BY <1>1, RunTilt
<1>3. lockout' \in Lockouts /\ (lockout'.state # "Inactive" => forced)
  BY <1>1, RunLockout
<1>4. offboard' \in Offboards
  BY <1>1, Typed, TimedOutType DEF Run
<1>5. params' = [params EXCEPT !.angleMode =
                   @ /\ ~ ForceParamRate(params, r, offboard', unhealthy)]
      /\ newCommand' = FALSE /\ denied' \in BOOLEAN
  BY DEF Run
<1>6. params' \in Settings /\ ParamNames \subseteq DOMAIN params
  BY <1>1, <1>5, Typed DEF Settings, ParamNames
<1>7. combined' \in Combineds
  <2>1. combined' = Muxed(params, r, offboard', unhealthy, overrideAge, rcCommand')
    BY DEF Run
  <2>. QED
    BY <1>2, <1>4, <2>1, MuxedType
<1>8. TypeOK'
  <2>1. overrideAge' \in [Axes -> 0..OverrideLag] /\ sinceDeviated' \in [Axes -> 0..OverrideLag]
    BY <1>1, RunAges
  <2>. QED
    BY <1>1, <1>2, <1>3, <1>4, <1>5, <1>6, <1>7, <2>1 DEF TypeOK, Commands, Combineds, Sources
<1>9. AgesOrdered'
  BY <1>1, RunAges
<1>10. LockedOutFliesRate'
  BY <1>2, <1>3 DEF LockedOutFliesRate
<1>11. DeniedLocked'
  BY <1>1, RunDenied DEF DeniedLocked
<1>12. Interpreted'
  <2> SUFFICES ASSUME rcCommand'.tilt = "Angle", AngleKept
               PROVE  RcAngleModeSelected(params', r)
    BY DEF Interpreted
  <2>1. ~ forced
    BY <1>2
  <2>2. RcAngleModeSelected(params, r)
    BY <1>1, <1>2, <2>1 DEF Interpreted
  <2>3. ~ ForceParamRate(params, r, offboard', unhealthy)
    BY <2>1 DEF ForceParamRate, ForceRcRate
  <2>4. params'.angleMode = params.angleMode
    BY <1>1, <1>5, <2>3, Typed DEF Settings
  <2>. QED
    BY <2>2, <2>4 DEF RcAngleModeSelected
<1>. QED
  BY <1>8, <1>9, <1>10, <1>11, <1>12 DEF IInv

(* Of two settings that differ in what the ground station changes.           *)
LEMMA ReachableParams ==
  ASSUME NEW p \in Settings, NEW q \in Reachable(p)
  PROVE  q \in Settings /\ ("angleMode" \notin MutableParams => q.angleMode = p.angleMode)
BY DEF Reachable, ParamNames

LEMMA NextIInv ==
  ASSUME CommandMuxAssumption, IInv, [Next]_vars
  PROVE  IInv'
<1>1. CASE GoodPacket
  BY <1>1, RunIInv DEF GoodPacket, CommandMuxAssumption
<1>2. CASE NoPacket
  <2>1. PICK fresh \in {newCommand, FALSE} :
          /\ Run(rc, fresh) \/ RunFailsafe(fresh)
          /\ UNCHANGED <<rc, unhealthy, offboardAge>>
    BY <1>2 DEF NoPacket
  <2>2. fresh \in BOOLEAN /\ rc \in Packets /\ params \in Settings
    BY Typed DEF IInv
  <2>3. CASE Run(rc, fresh)
    BY <2>1, <2>2, <2>3, RunIInv
  <2>4. CASE RunFailsafe(fresh)
    <3>1. /\ combined' \in Combineds /\ newCommand' \in BOOLEAN
          /\ UNCHANGED <<params, offboard, lockout, rcCommand, overrideAge, sinceDeviated, denied>>
      BY <2>2, <2>4, FailsafeType DEF RunFailsafe
    <3>. QED
      BY <2>1, <3>1 DEF IInv, TypeOK, LockedOutFliesRate, AgesOrdered, Interpreted, DeniedLocked,
                        RcAngleModeSelected, Combineds, Sources
  <2>. QED
    BY <2>1, <2>3, <2>4
<1>3. CASE SetNewOffboardCommand
  <2>1. offboard' \in Offboards /\ offboardAge' \in 0..(OffboardTimeout + 1)
    BY <1>3 DEF SetNewOffboardCommand, CommandMuxAssumption
  <2>2. UNCHANGED <<params, rc, newCommand, unhealthy, overrideAge, rcCommand,
                    combined, lockout, sinceDeviated, denied>>
    BY <1>3 DEF SetNewOffboardCommand
  <2>. QED
    BY <2>1, <2>2 DEF IInv, TypeOK, LockedOutFliesRate, AgesOrdered, Interpreted, DeniedLocked
<1>4. CASE EstimatorTurns
  BY <1>4 DEF EstimatorTurns, IInv, TypeOK, LockedOutFliesRate, AgesOrdered, Interpreted,
              DeniedLocked
<1>5. CASE SetParams
  <2>1. /\ params' \in Settings
        /\ "angleMode" \notin MutableParams => params'.angleMode = params.angleMode
    BY <1>5, ReachableParams, Typed DEF SetParams, IInv
  <2>2. UNCHANGED <<rc, newCommand, unhealthy, offboard, offboardAge, overrideAge,
                    rcCommand, combined, lockout, sinceDeviated, denied>>
    BY <1>5 DEF SetParams
  <2>3. Interpreted'
    BY <2>1, <2>2 DEF IInv, Interpreted, AngleKept, RcAngleModeSelected
  <2>. QED
    BY <2>1, <2>2, <2>3 DEF IInv, TypeOK, LockedOutFliesRate, AgesOrdered, DeniedLocked
<1>6. CASE Tick
  <2>1. /\ offboardAge' = Older(offboardAge, OffboardTimeout + 1)
        /\ overrideAge' = [a \in Axes |-> Older(overrideAge[a], OverrideLag)]
        /\ sinceDeviated' = [a \in Axes |-> Older(sinceDeviated[a], OverrideLag)]
        /\ UNCHANGED <<params, rc, newCommand, unhealthy, offboard, rcCommand, combined,
                       lockout, denied>>
    BY <1>6 DEF Tick
  <2>2. OffboardTimeout \in Nat /\ OverrideLag \in Nat
    BY DEF CommandMuxAssumption
  <2>3. offboardAge' \in 0..(OffboardTimeout + 1)
    BY <2>1, <2>2 DEF Older, IInv, TypeOK
  <2>4. /\ overrideAge' \in [Axes -> 0..OverrideLag] /\ sinceDeviated' \in [Axes -> 0..OverrideLag]
        /\ AgesOrdered'
    <3>1. \A a \in Axes : /\ overrideAge[a] \in 0..OverrideLag /\ sinceDeviated[a] \in 0..OverrideLag
                          /\ sinceDeviated[a] <= overrideAge[a]
      BY DEF IInv, TypeOK, AgesOrdered
    <3>2. \A m, n \in 0..OverrideLag :
            /\ Older(m, OverrideLag) \in 0..OverrideLag
            /\ m <= n => Older(m, OverrideLag) <= Older(n, OverrideLag)
      BY <2>2 DEF Older
    <3>. QED
      BY <2>1, <3>1, <3>2 DEF AgesOrdered
  <2>. QED
    BY <2>1, <2>3, <2>4 DEF IInv, TypeOK, LockedOutFliesRate, Interpreted, DeniedLocked
<1>7. CASE UNCHANGED vars
  BY <1>7 DEF vars, IInv, TypeOK, LockedOutFliesRate, AgesOrdered, Interpreted, DeniedLocked
<1>. QED
  BY <1>1, <1>2, <1>3, <1>4, <1>5, <1>6, <1>7 DEF Next, RcStage

-----------------------------------------------------------------------------
(* What a stage may never do *)

(* A stage runs on a packet, new or the last one again, or in failsafe.      *)
LEMMA StageCases ==
  ASSUME CommandMuxAssumption, TypeOK, RcStage
  PROVE  \/ \E r \in Packets, fresh \in BOOLEAN : Run(r, fresh) /\ rc' = r /\ (fresh \/ r = rc)
         \/ /\ \A c \in Channels : combined'.from[c] = "failsafe"
            /\ UNCHANGED <<rcCommand, lockout, denied>>
<1>1. CASE GoodPacket
  BY <1>1 DEF GoodPacket, CommandMuxAssumption
<1>2. CASE NoPacket
  <2>1. PICK fresh \in {newCommand, FALSE} : (Run(rc, fresh) \/ RunFailsafe(fresh)) /\ rc' = rc
    BY <1>2 DEF NoPacket
  <2>2. fresh \in BOOLEAN /\ rc \in Packets
    BY Typed
  <2>3. CASE RunFailsafe(fresh)
    <3>1. combined' = FailsafeCommand(params) /\ UNCHANGED <<rcCommand, lockout, denied>>
      BY <2>3 DEF RunFailsafe
    <3>2. FailsafeCommand(params).from = [c \in Channels |-> "failsafe"]
      BY DEF FailsafeCommand
    <3>. QED
      BY <3>1, <3>2
  <2>. QED
    BY <2>1, <2>2, <2>3
<1>. QED
  BY <1>1, <1>2 DEF RcStage

(* What is flown after a run, channel by channel.                            *)
LEMMA RunFlies ==
  ASSUME CommandMuxAssumption, TypeOK, NEW r, NEW fresh, Run(r, fresh)
  PROVE  /\ \A a \in Axes :
              IF RcFlies(params, r, offboard', unhealthy, overrideAge, a)
              THEN combined'.from[a] = "rc" /\ combined'.type[a] = RcType(rcCommand', a)
              ELSE /\ combined'.from[a] = "offboard"
                   /\ combined'.type[a] = OffboardType(offboard', a)
         /\ IF RcThrottles(params, r, offboard', rcCommand')
            THEN combined'.from["f"] = "rc" /\ combined'.throttle = rcCommand'.throttle
            ELSE combined'.from["f"] = "offboard" /\ combined'.throttle = offboard'.throttle
<1>1. combined' = Muxed(params, r, offboard', unhealthy, overrideAge, rcCommand')
  BY DEF Run
<1>. QED
  BY <1>1, MuxedChannels

LEMMA StaleNotFlown ==
  ASSUME CommandMuxAssumption, IInv, RcStage, NEW c \in Channels,
         combined'.from[c] = "offboard"
  PROVE  offboardAge <= OffboardTimeout /\ c \in offboard.active
<1>1. TypeOK
  BY DEF IInv
<1>2. PICK r \in Packets, fresh \in BOOLEAN : Run(r, fresh)
  BY <1>1, StageCases
<1>3. /\ offboard'.active \subseteq offboard.active
      /\ offboardAge > OffboardTimeout => offboard'.active = {}
  BY <1>1, <1>2, Typed, TimedOutType DEF Run
<1>4. c \in offboard'.active
  <2>1. CASE c \in Axes
    BY <1>1, <1>2, <2>1, RunFlies DEF RcFlies
  <2>2. CASE c = "f"
    BY <1>1, <1>2, <2>2, RunFlies DEF RcThrottles
  <2>. QED
    BY <2>1, <2>2 DEF Channels
<1>5. offboardAge \in Nat /\ OffboardTimeout \in Nat
  BY <1>1, Typed DEF CommandMuxAssumption
<1>. QED
  BY <1>3, <1>4, <1>5

LEMMA PilotTakesByOverride ==
  ASSUME CommandMuxAssumption, IInv, RcStage, NEW a \in Axes,
         combined'.from[a] = "rc", a \in offboard'.active,
         ~ SwitchOn(rc', "AttOverride"),
         ~ (a \in TiltAxes /\ ForceRcAttitude(params, offboard', unhealthy))
  PROVE  a \in rc'.deviated \/ sinceDeviated'[a] < OverrideLag
<1>1. TypeOK /\ AgesOrdered
  BY DEF IInv
<1>2. PICK r \in Packets, fresh \in BOOLEAN : Run(r, fresh) /\ rc' = r
  BY <1>1, StageCases DEF Channels
<1>3. RcFlies(params, r, offboard', unhealthy, overrideAge, a)
  BY <1>1, <1>2, RunFlies
<1>4. overrideAge[a] < OverrideLag \/ a \in r.deviated
  BY <1>2, <1>3 DEF RcFlies, StickDeviated
<1>5. sinceDeviated'[a] = IF a \in r.deviated THEN 0 ELSE sinceDeviated[a]
  BY <1>2 DEF Run
<1>6. /\ sinceDeviated[a] \in Nat /\ overrideAge[a] \in Nat /\ OverrideLag \in Nat
      /\ sinceDeviated[a] <= overrideAge[a]
  BY <1>1 DEF TypeOK, AgesOrdered, CommandMuxAssumption
<1>. QED
  BY <1>2, <1>4, <1>5, <1>6

LEMMA ThrottleCapped ==
  ASSUME CommandMuxAssumption, IInv, RcStage, ~ InFailsafe', params.takeMinThrottle
  PROVE  ~ (combined'.throttle > rcCommand'.throttle)
<1>1. TypeOK
  BY DEF IInv
<1>2. PICK r \in Packets, fresh \in BOOLEAN : Run(r, fresh)
  BY <1>1, StageCases DEF InFailsafe, Channels, Axes
<1>3. rcCommand' \in Commands /\ offboard' \in Offboards
  BY <1>1, <1>2, RunTilt, Typed, TimedOutType DEF Run
<1>4. \/ combined'.throttle = rcCommand'.throttle
      \/ combined'.throttle = offboard'.throttle /\ ~ (rcCommand'.throttle < offboard'.throttle)
  BY <1>1, <1>2, RunFlies DEF RcThrottles
<1>. QED
  BY <1>3, <1>4 DEF Commands, Offboards, Throttle

(* On an unhealthy estimator the pilot's angle command is flown only where   *)
(* the companion has all tilt axes and the stick took one of them.           *)
LEMMA AngleByStick ==
  ASSUME CommandMuxAssumption, AngleKept, IInv, RcStage, unhealthy, ~ LockoutOff(params),
         ~ InFailsafe', NEW a \in TiltAxes, combined'.type[a] = "Angle"
  PROVE  /\ combined'.from[a] = "rc"
         /\ TiltAxes \subseteq offboard'.active
         /\ a \in rc'.deviated \/ sinceDeviated'[a] < OverrideLag
<1>1. TypeOK /\ Interpreted /\ a \in Axes /\ ~ params.fixedWing
  BY DEF IInv, Axes, LockoutOff
<1>2. PICK r \in Packets, fresh \in BOOLEAN : Run(r, fresh) /\ rc' = r /\ (fresh \/ r = rc)
  BY <1>1, StageCases DEF InFailsafe, Channels, Axes
<1>3. OffboardAngleRequested(offboard') => RcFlies(params, r, offboard', unhealthy, overrideAge, a)
  BY DEF RcFlies, ForceRcAttitude
<1>4. RcFlies(params, r, offboard', unhealthy, overrideAge, a)
  <2> SUFFICES ASSUME ~ RcFlies(params, r, offboard', unhealthy, overrideAge, a)
               PROVE  FALSE
    OBVIOUS
  <2>1. OffboardType(offboard', a) = "Angle" /\ a \in offboard'.active
    BY <1>1, <1>2, RunFlies DEF RcFlies
  <2>. QED
    BY <1>3, <2>1 DEF OffboardAngleRequested
<1>5. combined'.from[a] = "rc" /\ rcCommand'.tilt = "Angle"
  BY <1>1, <1>2, <1>4, RunFlies DEF RcType
<1>6. ~ ForceRcRate(lockout, params, r, offboard', unhealthy)
  BY <1>1, <1>2, <1>5, RunTilt
<1>7. RcAngleModeSelected(params, r)
  BY <1>1, <1>2, <1>5, <1>6, RunTilt DEF Interpreted
<1>8. ~ OffboardAngleRequested(offboard') /\ ~ RcAttitudeSourceRequested(offboard', r)
  BY <1>6, <1>7 DEF ForceRcRate, UnsafeAngleRequested
<1>9. TiltAxes \subseteq offboard'.active /\ ~ SwitchOn(r, "AttOverride")
  BY <1>8 DEF RcAttitudeSourceRequested
<1>10. ~ ForceRcAttitude(params, offboard', unhealthy)
  BY <1>8 DEF ForceRcAttitude
<1>11. a \in rc'.deviated \/ sinceDeviated'[a] < OverrideLag
  BY <1>1, <1>2, <1>5, <1>9, <1>10, PilotTakesByOverride
<1>. QED
  BY <1>5, <1>9, <1>11

LEMMA DeniedFliesRate ==
  ASSUME CommandMuxAssumption, IInv, RcStage, denied, denied', "AttType" \in MappedSwitches
  PROVE  rcCommand'.tilt = "Rate"
<1>1. TypeOK /\ LockedOutFliesRate /\ DeniedLocked
  BY DEF IInv
<1>2. CASE \E r \in Packets, fresh \in BOOLEAN : Run(r, fresh)
  <2>1. PICK r \in Packets, fresh \in BOOLEAN : Run(r, fresh)
    BY <1>2
  <2>2. ForceRcRate(lockout, params, r, offboard', unhealthy)
    BY <1>1, <2>1, RunDenied
  <2>. QED
    BY <1>1, <2>1, <2>2, RunTilt
<1>3. CASE UNCHANGED <<rcCommand, lockout, denied>>
  BY <1>1, <1>3 DEF LockedOutFliesRate, DeniedLocked
<1>. QED
  BY <1>1, <1>2, <1>3, StageCases

(* The ages after a stage are ages.                                          *)
LEMMA AgeTyped ==
  ASSUME CommandMuxAssumption, IInv, RcStage, NEW a \in Axes
  PROVE  sinceDeviated'[a] \in Nat /\ OverrideLag \in Nat
<1>1. IInv'
  BY NextIInv DEF Next
<1>. QED
  BY <1>1 DEF IInv, TypeOK, CommandMuxAssumption

(* The steps that the action properties allow.                               *)
LEMMA StagesObey ==
  ASSUME CommandMuxAssumption, IInv, RcStage
  PROVE  /\ ~ \E c \in Channels :
               /\ combined'.from[c] = "offboard"
               /\ offboardAge > OffboardTimeout \/ c \notin offboard.active
         /\ ~ \E a \in Axes :
               /\ combined'.from[a] = "rc"
               /\ a \in offboard'.active
               /\ a \notin rc'.deviated /\ sinceDeviated'[a] >= OverrideLag
               /\ ~ SwitchOn(rc', "AttOverride")
               /\ ~ (a \in TiltAxes /\ ForceRcAttitude(params, offboard', unhealthy))
         /\ ~ (combined'.throttle > rcCommand'.throttle /\ params.takeMinThrottle /\ ~ InFailsafe')
         /\ ~ (rcCommand'.tilt = "Angle" /\ denied /\ denied' /\ "AttType" \in MappedSwitches)
<1>1. offboardAge \in Nat /\ OffboardTimeout \in Nat
  BY Typed DEF IInv, CommandMuxAssumption
<1>2. ~ \E c \in Channels :
           /\ combined'.from[c] = "offboard"
           /\ offboardAge > OffboardTimeout \/ c \notin offboard.active
  BY <1>1, StaleNotFlown
<1>3. ~ \E a \in Axes :
           /\ combined'.from[a] = "rc"
           /\ a \in offboard'.active
           /\ a \notin rc'.deviated /\ sinceDeviated'[a] >= OverrideLag
           /\ ~ SwitchOn(rc', "AttOverride")
           /\ ~ (a \in TiltAxes /\ ForceRcAttitude(params, offboard', unhealthy))
  BY AgeTyped, PilotTakesByOverride
<1>4. ~ (combined'.throttle > rcCommand'.throttle /\ params.takeMinThrottle /\ ~ InFailsafe')
  BY ThrottleCapped
<1>5. ~ (rcCommand'.tilt = "Angle" /\ denied /\ denied' /\ "AttType" \in MappedSwitches)
  BY DeniedFliesRate
<1>. QED
  BY <1>2, <1>3, <1>4, <1>5

LEMMA AnglesObey ==
  ASSUME CommandMuxAssumption, AngleKept, IInv, RcStage, unhealthy, ~ LockoutOff(params),
         ~ InFailsafe'
  PROVE  ~ \E a \in TiltAxes :
             /\ combined'.type[a] = "Angle"
             /\ \/ combined'.from[a] # "rc"
                \/ ~ TiltAxes \subseteq offboard'.active
                \/ a \notin rc'.deviated /\ sinceDeviated'[a] >= OverrideLag
BY AngleByStick, AgeTyped DEF Axes

-----------------------------------------------------------------------------
(* The theorems *)

LEMMA Invariance ==
  ASSUME CommandMuxAssumption
  PROVE  Spec => []IInv
<1>1. Init => IInv
  BY InitIInv
<1>2. IInv /\ [Next]_vars => IInv'
  BY NextIInv
<1>. QED
  BY <1>1, <1>2, PTL DEF Spec

(* Where the invariant always holds, whatever else goes on, the stages keep  *)
(* what is asked of them.                                                    *)
LEMMA KeptByStages ==
  ASSUME CommandMuxAssumption
  PROVE  []IInv => /\ OffboardFlownOnlyFresh /\ OverrideOnlyByPilot
                   /\ PilotCapsThrottle /\ AngleAfterSwitchReset
<1>1. IInv =>
        /\ [~ \E c \in Channels :
              /\ combined'.from[c] = "offboard"
              /\ offboardAge > OffboardTimeout \/ c \notin offboard.active
              /\ RcStage]_vars
        /\ [~ \E a \in Axes :
              /\ combined'.from[a] = "rc"
              /\ a \in offboard'.active
              /\ a \notin rc'.deviated /\ sinceDeviated'[a] >= OverrideLag
              /\ ~ SwitchOn(rc', "AttOverride")
              /\ ~ (a \in TiltAxes /\ ForceRcAttitude(params, offboard', unhealthy))
              /\ RcStage]_vars
        /\ [combined'.throttle > rcCommand'.throttle /\ params.takeMinThrottle /\ ~ InFailsafe'
              => ~ RcStage]_vars
        /\ [rcCommand'.tilt = "Angle" /\ denied /\ denied' /\ "AttType" \in MappedSwitches
              => ~ RcStage]_vars
  BY StagesObey
<1>. QED
  BY <1>1, PTL DEF OffboardFlownOnlyFresh, OverrideOnlyByPilot, PilotCapsThrottle,
                   AngleAfterSwitchReset

LEMMA AnglesKept ==
  ASSUME CommandMuxAssumption, AngleKept
  PROVE  []IInv => AngleDeniedUnlessStickOverride
<1>1. IInv =>
        [unhealthy /\ ~ LockoutOff(params) /\ ~ InFailsafe' =>
           ~ \E a \in TiltAxes :
               /\ combined'.type[a] = "Angle"
               /\ \/ combined'.from[a] # "rc"
                  \/ ~ TiltAxes \subseteq offboard'.active
                  \/ a \notin rc'.deviated /\ sinceDeviated'[a] >= OverrideLag
               /\ RcStage]_vars
  BY AnglesObey
<1>. QED
  BY <1>1, PTL DEF AngleDeniedUnlessStickOverride

(* No stage flies a channel the companion did not offer, or an offboard      *)
(* command that has timed out, packets or not, failsafe just over or not     *)
(* (update_offboard_timeout, do_attitude_muxing, do_throttle_muxing).        *)
THEOREM OffboardFresh ==
  ASSUME CommandMuxAssumption
  PROVE  Spec => OffboardFlownOnlyFresh
BY Invariance, KeptByStages, PTL

(* The pilot takes an axis from a fresh offboard command by a switch or a    *)
(* stick only, and gives it back when the lag of the override is over        *)
(* (attitude_stick_deviated).                                                *)
THEOREM OverrideByPilot ==
  ASSUME CommandMuxAssumption
  PROVE  Spec => OverrideOnlyByPilot
BY Invariance, KeptByStages, PTL

(* With RC_OVRD_TAKE_MIN no throttle above the pilot's is flown              *)
(* (do_throttle_muxing).                                                     *)
THEOREM PilotCaps ==
  ASSUME CommandMuxAssumption
  PROVE  Spec => PilotCapsThrottle
BY Invariance, KeptByStages, PTL

(* With the lockout on, and the choice of angle mode the pilot's own, an     *)
(* angle is flown on an unhealthy estimator as a stick override of an        *)
(* offboard attitude command only (estimator_mode_safety).                   *)
THEOREM AngleDenied ==
  ASSUME CommandMuxAssumption, AngleKept
  PROVE  Spec => AngleDeniedUnlessStickOverride
BY Invariance, AnglesKept, PTL

(* A pilot who is locked out flies rates, on packets old and new             *)
(* (RcAngleModeLockoutMachine, interpret_rc).                                *)
THEOREM LockedOutRate ==
  ASSUME CommandMuxAssumption
  PROVE  Spec => []LockedOutFliesRate
<1>1. IInv => LockedOutFliesRate
  BY DEF IInv
<1>. QED
  BY <1>1, Invariance, PTL

(* After a denial a mapped switch must be seen at rate before angles are     *)
(* flown again (RcAngleModeLockoutMachine).                                  *)
THEOREM AngleAfterReset ==
  ASSUME CommandMuxAssumption
  PROVE  Spec => AngleAfterSwitchReset
BY Invariance, KeptByStages, PTL
=============================================================================
