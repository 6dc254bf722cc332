--------------------------- MODULE OutputsProofs ----------------------------
(***************************************************************************)
(* What leads to the actuators, for every set of channels, masks, mixers   *)
(* and motors: what the record of enabled PWM channels is worth and what   *)
(* the kill switch is; that the mixer is the one its parameters describe.  *)
(***************************************************************************)
EXTENDS MCOutputs, FiniteSetTheorems, WellFoundedInduction, TLAPS

Record == enabledMask \subseteq driven /\ driven \subseteq Channels

(* The masks a stage may ask for. *)
MasksInRange == mask \in SUBSET Channels

IInv == Record /\ MasksInRange

LEMMA UpToFailureWithin ==
  ASSUME NEW cs PROVE UpToFailure(cs) \subseteq cs
  BY DEF UpToFailure

LEMMA UpToFailureWhole ==
  ASSUME NEW cs, cs \cap unsupported = {} PROVE UpToFailure(cs) = cs
  BY DEF UpToFailure

LEMMA DesiredInRange == MasksInRange => DesiredMask(kill, mask) \subseteq Channels
  BY DEF MasksInRange, DesiredMask

LEMMA InitIInv == Init => IInv
  BY PwmOutputAssumption DEF Init, IInv, Record, MasksInRange

-----------------------------------------------------------------------------
(* One run of the stage, by the four ways it has to the desired mask.      *)
LEMMA SyncKeepsRecord ==
  ASSUME IInv, SyncPwmOutputState
  PROVE  Record'
  <1> DEFINE desired == DesiredMask(kill, mask)
             off == enabledMask \ desired
             on == desired \ enabledMask
             allOff == off \cap unsupported = {}
             applied(s) == (s \ DisableEach(off)) \cup (IF allOff THEN EnableEach(on) ELSE {})
  <1>1. desired \subseteq Channels /\ enabledMask \subseteq Channels /\ driven \subseteq Channels
        /\ enabledMask \subseteq driven
    BY DesiredInRange DEF IInv, Record
  <1>2. CASE desired = enabledMask
    <2>1. enabledMask' = enabledMask /\ driven' = driven
      BY <1>2 DEF SyncPwmOutputState
    <2> QED
      BY <1>1, <2>1 DEF Record
  <1>3. CASE desired # enabledMask /\ desired = Channels /\ enabledMask = {}
    <2>1. /\ driven' = driven \cup EnableEach(Channels)
          /\ enabledMask' = IF unsupported = {} THEN Channels ELSE {}
      BY <1>3 DEF SyncPwmOutputState
    <2>2. EnableEach(Channels) \subseteq Channels
      BY UpToFailureWithin DEF EnableEach
    <2>3. unsupported = {} => EnableEach(Channels) = Channels
      BY UpToFailureWhole DEF EnableEach
    <2> QED
      BY <1>1, <2>1, <2>2, <2>3 DEF Record
  <1>4. CASE desired # enabledMask /\ ~(desired = Channels /\ enabledMask = {}) /\ desired = {}
    <2>1. driven' = driven \cap unsupported /\ enabledMask' = {}
      BY <1>4 DEF SyncPwmOutputState
    <2> QED
      BY <1>1, <2>1 DEF Record
  <1>5. CASE desired # enabledMask /\ ~(desired = Channels /\ enabledMask = {}) /\ desired # {}
    <2>1. driven' = applied(driven) /\ enabledMask' = applied(enabledMask)
      BY <1>5 DEF SyncPwmOutputState
    <2>2. EnableEach(on) \subseteq Channels
      BY <1>1, UpToFailureWithin DEF EnableEach
    <2> QED
      BY <1>1, <2>1, <2>2 DEF Record
  <1> QED
    BY <1>2, <1>3, <1>4, <1>5

LEMMA NextIInv == IInv /\ [Next]_vars => IInv'
  <1> SUFFICES ASSUME IInv, [Next]_vars PROVE IInv'
    OBVIOUS
  <1> USE DEF IInv, Record, MasksInRange
  <1>1. CASE PwmOutputStage
    <2>1. Record' /\ mask' = mask
      BY <1>1, SyncKeepsRecord DEF PwmOutputStage
    <2> QED
      BY <2>1
  <1>2. CASE ControlUpdate
    BY <1>2 DEF ControlUpdate
  <1>3. CASE ArmOrDisarm \/ KillSwitch \/ MixerChanged \/ AuxCommand
    BY <1>3 DEF ArmOrDisarm, KillSwitch, MixerChanged, AuxCommand
  <1>4. CASE SetMask
    BY <1>4, PwmOutputAssumption DEF SetMask
  <1>5. CASE UNCHANGED vars
    BY <1>5 DEF vars
  <1> QED
    BY <1>1, <1>2, <1>3, <1>4, <1>5 DEF Next

-----------------------------------------------------------------------------
(* With the record within what is driven, nothing driven means an empty    *)
(* record, and a killed stage then has nothing to do.                      *)
LEMMA KilledStep == IInv /\ [Next]_vars /\ kill /\ kill' /\ driven = {} => driven' = {}
  <1> SUFFICES ASSUME IInv, [Next]_vars, kill, kill', driven = {} PROVE driven' = {}
    OBVIOUS
  <1>1. CASE PwmOutputStage
    <2>1. enabledMask = {} /\ DesiredMask(kill, mask) = {}
      BY DEF IInv, Record, DesiredMask
    <2>2. driven' = driven
      BY <1>1, <2>1 DEF PwmOutputStage, SyncPwmOutputState
    <2> QED
      BY <2>2
  <1>2. CASE ControlUpdate \/ ArmOrDisarm \/ KillSwitch \/ SetMask \/ MixerChanged \/ AuxCommand
    BY <1>2 DEF ControlUpdate, ArmOrDisarm, KillSwitch, SetMask, MixerChanged, AuxCommand
  <1>3. CASE UNCHANGED vars
    BY <1>3 DEF vars
  <1> QED
    BY <1>1, <1>2, <1>3 DEF Next

(* A kill switch that the stage has seen leaves no channel driven until it *)
(* is released, whatever is armed, masked or commanded.                    *)
THEOREM KilledSafe == Spec => KilledStaysOff
  <1>1. IInv /\ [Next]_vars => [kill /\ kill' /\ driven = {} => driven' = {}]_vars
    BY KilledStep
  <1> QED
    BY InitIInv, NextIInv, <1>1, PTL DEF Spec, KilledStaysOff

-----------------------------------------------------------------------------
(* Where every timer has its channels, the record is exact. *)
Exact == unsupported = {} => enabledMask = driven

LEMMA ExactStep == IInv /\ Exact /\ [Next]_vars => Exact'
  <1> SUFFICES ASSUME IInv, Exact, [Next]_vars, unsupported' = {} PROVE enabledMask' = driven'
    BY DEF Exact
  <1>0. unsupported = {} /\ enabledMask = driven
    BY DEF Exact, Next, vars, PwmOutputStage, ControlUpdate, ArmOrDisarm, KillSwitch, SetMask,
           MixerChanged, AuxCommand
  <1>1. CASE PwmOutputStage
    <2>1. \A cs : UpToFailure(cs) = cs
      BY <1>0, UpToFailureWhole
    <2> QED
      BY <1>0, <1>1, <2>1 DEF PwmOutputStage, SyncPwmOutputState, EnableEach, DisableEach
  <1>2. CASE ControlUpdate \/ ArmOrDisarm \/ KillSwitch \/ SetMask \/ MixerChanged \/ AuxCommand
    BY <1>0, <1>2 DEF ControlUpdate, ArmOrDisarm, KillSwitch, SetMask, MixerChanged, AuxCommand
  <1>3. CASE UNCHANGED vars
    BY <1>0, <1>3 DEF vars
  <1> QED
    BY <1>1, <1>2, <1>3 DEF Next

(* The record of enabled channels names none that is not driven, whichever *)
(* channels fail, and is what the driver drives on every board whose timers *)
(* have all their channels (sync_pwm_output_state).                        *)
THEOREM RecordExact == Spec => []RecordIsDriven
  <1>1. Init => Exact
    BY DEF Init, Exact
  <1>2. IInv /\ Exact => RecordIsDriven
    BY DEF IInv, Record, Exact, RecordIsDriven
  <1> QED
    BY InitIInv, NextIInv, ExactStep, <1>1, <1>2, PTL DEF Spec

-----------------------------------------------------------------------------
(* Types, and the rates in force. A timer has one rate, so what is asked of *)
(* its channels must agree; else the last of them wins.                    *)
OneRate ==
  \A cfg \in Configs : \A c, d \in Mixed :
    TimerOf[c] = TimerOf[d] => Effective(cfg.rate[c]) = Effective(cfg.rate[d])

LEMMA LastOfSome ==
  ASSUME NEW S \in SUBSET Nat, IsFiniteSet(S), S # {}
  PROVE  \E c \in S : \A d \in S : d <= c
  <1> DEFINE Above(c) == {d \in S : d >= c}
             Tails == {Above(c) : c \in S}
  <1>1. IsWellFoundedOn(StrictSubsetOrdering(S), SUBSET S)
    BY FS_StrictSubsetOrderingWellFounded, FS_FiniteSubsetsOfFinite
  <1>2. Tails \subseteq SUBSET S /\ Tails # {}
    OBVIOUS
  <1> HIDE DEF Tails
  <1>3. PICK t \in Tails : \A u \in Tails : <<u, t>> \notin StrictSubsetOrdering(S)
    BY <1>1, <1>2, WFMin
  <1>4. PICK c \in S : t = Above(c)
    BY <1>3 DEF Tails
  <1>5. \A d \in S : d <= c
    <2> SUFFICES ASSUME NEW d \in S, ~(d <= c) PROVE FALSE
      OBVIOUS
    <2> c \in Nat /\ d \in Nat /\ c < d
      OBVIOUS
    <2>1. Above(d) \subseteq Above(c) /\ c \in Above(c) /\ c \notin Above(d)
      <3>1. \A e \in S : e >= d => e >= c
        <4> SUFFICES ASSUME NEW e \in S, e >= d PROVE e >= c
          OBVIOUS
        <4> e \in Nat
          OBVIOUS
        <4> QED
          OBVIOUS
      <3>2. c >= c /\ ~(c >= d)
        OBVIOUS
      <3>3. c \in Above(c) /\ c \notin Above(d)
        BY <3>2, Zenon
      <3>4. Above(d) \subseteq Above(c)
        BY <3>1, Zenon
      <3> QED
        BY <3>3, <3>4
    <2>2. Above(d) \in Tails
      BY DEF Tails
    <2>3. <<Above(d), t>> \in StrictSubsetOrdering(S)
      BY <1>4, <2>1 DEF StrictSubsetOrdering
    <2> QED
      BY <1>3, <2>2, <2>3
  <1> QED
    BY <1>5

(* The values that are written and composed. *)
LEMMA CommandsType ==
  ASSUME TypeOK, NEW c \in Channels, NEW value \in {"stop", "run"}
  PROVE  ComposedOutput(c, value) \in Commands
         /\ \A out \in Commands : Written(c, out) \in Commands
  <1>1. \A type : SafeDisarmedCommand(type) \in Commands
    BY DEF SafeDisarmedCommand, Commands
  <1>2. duty[c] \in Commands
    BY DEF TypeOK
  <1>3. ComposedOutput(c, value) \in Commands
    BY <1>1 DEF ComposedOutput, Commands
  <1>4. \A out \in Commands : Written(c, out) \in Commands
    BY <1>1, <1>2 DEF Written
  <1> QED
    BY <1>3, <1>4

(* The rates of one configuration: each output before the first that is    *)
(* refused has the rate it asked for, and all of them when none is.        *)
LEMMA RatesStep ==
  ASSUME TypeOK, ConfigureOutputRates
  PROVE  /\ outRate' \in [Channels -> {"50", "490"}]
         /\ timerRate' \in [Timers -> {"50", "400", "490"}]
         /\ configured' \in BOOLEAN
         /\ OneRate /\ configured' =>
              \A c \in Mixed : /\ outRate'[c] = Effective(config.rate[c])
                               /\ timerRate'[TimerOf[c]] = outRate'[c]
  <1> DEFINE refused == {c \in Mixed : ~ Standard(config.rate[c])}
             on(t) == {c \in Mixed : TimerOf[c] = t}
             last(t) == CHOOSE c \in on(t) : \A d \in on(t) : d <= c
  <1>1. /\ outRate' = [c \in Channels |->
                         IF c \in Mixed /\ \A r \in refused : c < r
                         THEN Effective(config.rate[c]) ELSE outRate[c]]
        /\ timerRate' = [t \in Timers |->
                           IF refused = {} /\ on(t) # {} THEN Effective(config.rate[last(t)])
                           ELSE timerRate[t]]
        /\ configured' = (refused = {})
    BY DEF ConfigureOutputRates
  <1>2. Mixed \subseteq Channels /\ Channels \subseteq Nat /\ IsFiniteSet(Channels)
    BY PwmOutputAssumption
  <1>3. \A c \in Mixed : c \notin refused => Effective(config.rate[c]) \in {"50", "490"}
    BY DEF Standard, Effective
  <1>4. \A t : on(t) # {} => last(t) \in on(t)
    <2> TAKE t
    <2>1. on(t) \subseteq Nat /\ IsFiniteSet(on(t))
      BY <1>2, FS_Subset
    <2> QED
      BY <2>1, LastOfSome
  <1> HIDE DEF last
  <1>5. outRate' \in [Channels -> {"50", "490"}]
    <2>1. \A c \in Mixed : (\A r \in refused : c < r) => c \notin refused
      <3> SUFFICES ASSUME NEW c \in Mixed, \A r \in refused : c < r, c \in refused
                   PROVE  FALSE
        OBVIOUS
      <3>1. c < c /\ c \in Nat
        BY <1>2
      <3> QED
        BY <3>1
    <2> HIDE DEF refused
    <2> QED
      BY <1>1, <1>3, <2>1 DEF TypeOK
  <1>6. timerRate' \in [Timers -> {"50", "400", "490"}]
    <2>1. \A t : refused = {} /\ on(t) # {} => Effective(config.rate[last(t)]) \in {"50", "490"}
      BY <1>3, <1>4
    <2> HIDE DEF refused, on
    <2> QED
      BY <1>1, <2>1 DEF TypeOK
  <1>7. OneRate /\ configured' =>
          \A c \in Mixed : /\ outRate'[c] = Effective(config.rate[c])
                           /\ timerRate'[TimerOf[c]] = outRate'[c]
    <2> SUFFICES ASSUME OneRate, configured', NEW c \in Mixed
                 PROVE  /\ outRate'[c] = Effective(config.rate[c])
                        /\ timerRate'[TimerOf[c]] = outRate'[c]
      OBVIOUS
    <2>1. refused = {}
      BY <1>1
    <2>2. outRate'[c] = Effective(config.rate[c])
      BY <1>1, <1>2, <2>1
    <2>3. c \in on(TimerOf[c]) /\ TimerOf[c] \in Timers
      BY <1>2 DEF Timers
    <2>4. last(TimerOf[c]) \in on(TimerOf[c])
      BY <1>4, <2>3
    <2>5. Effective(config.rate[last(TimerOf[c])]) = Effective(config.rate[c])
      BY <2>4 DEF OneRate, TypeOK
    <2> QED
      BY <1>1, <2>1, <2>2, <2>3, <2>5
  <1> QED
    BY <1>1, <1>5, <1>6, <1>7

PwmInv == TypeOK /\ Record /\ RatesInForce

LEMMA PwmInit == Init => PwmInv
  <1> SUFFICES ASSUME Init PROVE PwmInv
    OBVIOUS
  <1>1. Record
    BY InitIInv DEF IInv
  <1>2. TypeOK /\ RatesInForce
    BY PwmOutputAssumption DEF Init, TypeOK, RatesInForce, Commands
  <1> QED
    BY <1>1, <1>2 DEF PwmInv

LEMMA PwmNext == OneRate /\ PwmInv /\ [Next]_vars => PwmInv'
  <1> SUFFICES ASSUME OneRate, PwmInv, [Next]_vars PROVE PwmInv'
    OBVIOUS
  <1>0. TypeOK /\ RatesInForce
    BY DEF PwmInv
  <1>1. IInv
    BY PwmOutputAssumption DEF PwmInv, TypeOK, IInv, MasksInRange
  <1>2. Record'
    BY <1>1, NextIInv DEF IInv
  <1>3. CASE PwmOutputStage
    <2>1. TypeOK'
      BY <1>0, <1>2, <1>3 DEF PwmOutputStage, TypeOK, Record
    <2>2. RatesInForce'
      BY <1>0, <1>3 DEF PwmOutputStage, RatesInForce
    <2> QED
      BY <1>2, <2>1, <2>2 DEF PwmInv
  <1>4. CASE ControlUpdate
    <2> USE <1>4
    <2>1. UNCHANGED <<unsupported, armed, kill, mask, config, aux, enabledMask, driven>>
      BY DEF ControlUpdate
    <2>2. composed' \in [Channels -> Commands] /\ duty' \in [Channels -> Commands]
      <3>1. PICK value \in {"stop", "run"} :
              LET out == [c \in Channels |-> ComposedOutput(c, value)]
              IN  /\ composed' = out
                  /\ duty' = IF enabledMask = {} THEN duty
                             ELSE [c \in Channels |-> Written(c, out[c])]
        BY DEF ControlUpdate
      <3>2. \A c \in Channels : ComposedOutput(c, value) \in Commands
        BY <1>0, CommandsType
      <3>3. \A c \in Channels : Written(c, ComposedOutput(c, value)) \in Commands
        BY <1>0, <3>2, CommandsType
      <3>4. duty \in [Channels -> Commands]
        BY <1>0 DEF TypeOK
      <3> QED
        BY <3>1, <3>2, <3>3, <3>4
    <2>3. CASE configured
      <3>1. UNCHANGED <<configured, outRate, timerRate>>
        BY <2>3 DEF ControlUpdate
      <3>2. TypeOK'
        BY <1>0, <2>1, <2>2, <3>1 DEF TypeOK
      <3>3. RatesInForce'
        BY <1>0, <2>1, <3>1 DEF RatesInForce
      <3> QED
        BY <1>2, <3>2, <3>3 DEF PwmInv
    <2>4. CASE ~ configured
      <3>1. ConfigureOutputRates
        BY <2>4 DEF ControlUpdate
      <3>2. TypeOK'
        BY <1>0, <2>1, <2>2, <3>1, RatesStep DEF TypeOK
      <3>3. RatesInForce'
        BY <1>0, <2>1, <3>1, RatesStep DEF RatesInForce
      <3> QED
        BY <1>2, <3>2, <3>3 DEF PwmInv
    <2> QED
      BY <2>3, <2>4
  <1>5. CASE ArmOrDisarm \/ KillSwitch \/ SetMask \/ MixerChanged \/ AuxCommand
    <2>1. TypeOK'
      BY <1>0, <1>5 DEF ArmOrDisarm, KillSwitch, SetMask, MixerChanged, AuxCommand, TypeOK
    <2>2. RatesInForce'
      BY <1>0, <1>5 DEF ArmOrDisarm, KillSwitch, SetMask, MixerChanged, AuxCommand, RatesInForce
    <2> QED
      BY <1>2, <2>1, <2>2 DEF PwmInv
  <1>6. CASE UNCHANGED vars
    BY <1>0, <1>2, <1>6 DEF vars, PwmInv, TypeOK, RatesInForce
  <1> QED
    BY <1>3, <1>4, <1>5, <1>6 DEF Next

(* What the suite does is a step of the PWM outputs or leaves them alone. *)
LEMMA SuitePwm == [SuiteNext]_suiteVars => [Next]_vars
  BY DEF SuiteNext, Still, suiteVars

(* The kill switch keeps off what it turned off, and rates that were       *)
(* accepted are those the timers run at (sync_pwm_output_state,            *)
(* configure_output_rates), for every board on which the channels of one   *)
(* timer are asked for one rate.                                           *)
THEOREM Obeyed ==
  ASSUME OneRate
  PROVE  SuiteSpec => OutputsObey
  <1>1. SuiteInit => PwmInv
    BY PwmInit DEF SuiteInit
  <1>2. PwmInv /\ [SuiteNext]_suiteVars => PwmInv'
    BY SuitePwm, PwmNext
  <1>3. PwmInv => IInv
    BY PwmOutputAssumption DEF PwmInv, TypeOK, IInv, MasksInRange
  <1>4. PwmInv /\ [SuiteNext]_suiteVars => [kill /\ kill' /\ driven = {} => driven' = {}]_vars
    BY <1>3, SuitePwm, KilledStep
  <1>5. PwmInv => TypeOK /\ RatesInForce
    BY DEF PwmInv
  <1> QED
    BY <1>1, <1>2, <1>4, <1>5, PTL DEF SuiteSpec, OutputsObey, KilledStaysOff

-----------------------------------------------------------------------------
(* The mixer.  Its constants, as it assumes them. *)
LEMMA MixerConstants ==
  /\ FixedWing \subseteq Canned /\ Canned \cap {"custom", "beyond", "negative"} = {}
  /\ Capacity \in Nat /\ IsFiniteSet(Outputs) /\ Raw \subseteq Int
  /\ Overrides \subseteq SUBSET Mixing!Axes
  BY MixerAssumed DEF Mixing!MixerAssumption, Mixing!IsFiniteSet, IsFiniteSet, Mixing!Axes

(* Matrices and tables are those there are. *)
LEMMA CannedTables ==
  ASSUME NEW c \in Canned
  PROVE  /\ c \in Mixing!Tables /\ Mixing!CannedMatrix(c) \in Mixing!Matrices
         /\ Mixing!CannedSecondary(c) \in Mixing!Matrices
         /\ c \notin {"custom", "beyond", "negative"}
         /\ Mixing!CannedMatrix(c) # <<"edited", "edited">>
         /\ Mixing!CannedSecondary(c) # <<"edited", "edited">>
  <1>1. /\ Mixing!CannedMatrix(c) = <<"canned", c>>
        /\ Mixing!CannedSecondary(c) \in {<<"canned", c>>, <<"inverted", c>>}
    BY DEF Mixing!CannedMatrix, Mixing!CannedSecondary
  <1>2. {<<"canned", c>>, <<"inverted", c>>} \subseteq Mixing!Matrices
    BY DEF Mixing!Matrices
  <1>3. c \notin {"custom", "beyond", "negative"}
    BY MixerConstants
  <1> QED
    BY <1>1, <1>2, <1>3 DEF Mixing!Tables

LEMMA OtherTables ==
  /\ {"zero", "edited", "quadx"} \subseteq Mixing!Tables
  /\ {<<"zero", "zero">>, <<"edited", "edited">>, <<"quadx", "quadx">>} \subseteq Mixing!Matrices
  BY DEF Mixing!Tables, Mixing!Matrices

LEMMA DefaultParamsType == Mixing!DefaultParams \in Mixing!MixerParamSets
  BY OtherTables DEF Mixing!DefaultParams, Mixing!MixerParamSets, Mixing!Choices

(* A refreshed mixer takes its tables and its flags from the parameters     *)
(* alone, unless the choice is invalid.                                     *)
LEMMA RefreshType ==
  ASSUME NEW m \in Mixing!Mixers, NEW p \in Mixing!MixerParamSets
  PROVE  /\ Mixing!RefreshMixerConfig(m, p) \in Mixing!Mixers
         /\ Mixing!RefreshRuntimeParams(m, p) \in Mixing!Mixers
  <1>1. Mixing!RefreshRuntimeParams(m, p) \in Mixing!Mixers
    BY DEF Mixing!RefreshRuntimeParams, Mixing!Mixers, Mixing!MixerParamSets
  <1>2. CASE p.primary = "beyond"
    BY <1>1, <1>2 DEF Mixing!RefreshMixerConfig, Mixing!Mixers
  <1>3. CASE p.primary # "beyond"
    <2> DEFINE pri == CASE p.primary \in Canned -> Mixing!CannedMatrix(p.primary)
                        [] p.primary = "custom"  -> p.pri
                        [] OTHER                 -> <<"quadx", "quadx">>
               sec == CASE p.secondary \in Canned -> Mixing!CannedSecondary(p.secondary)
                        [] p.secondary = "custom" -> p.sec
                        [] OTHER                  -> pri
               out == CASE p.primary \in Canned -> p.primary
                        [] p.primary = "custom" -> p.out
                        [] OTHER                -> "quadx"
    <2>1. pri \in Mixing!Matrices /\ out \in Mixing!Tables
      BY CannedTables, OtherTables DEF Mixing!MixerParamSets
    <2>2. sec \in Mixing!Matrices
      BY <2>1, CannedTables, OtherTables DEF Mixing!MixerParamSets
    <2>3. Mixing!RefreshMixerConfig(m, p)
            = [m EXCEPT !.status = "Healthy", !.out = out, !.pri = pri, !.sec = sec]
      BY <1>3 DEF Mixing!RefreshMixerConfig
    <2> HIDE DEF pri, sec, out
    <2> QED
      BY <1>1, <2>1, <2>2, <2>3 DEF Mixing!Mixers
  <1> QED
    BY <1>1, <1>2, <1>3

LEMMA RefreshForgets ==
  ASSUME NEW m \in Mixing!Mixers, NEW n \in Mixing!Mixers, NEW p \in Mixing!MixerParamSets
  PROVE  LET a == Mixing!RefreshMixerConfig(m, p)
             b == Mixing!RefreshMixerConfig(n, p)
         IN  /\ a.status = b.status
             /\ p.primary = "beyond" => a.status = "InvalidMixer"
             /\ p.primary # "beyond" => a.out = b.out /\ a.pri = b.pri /\ a.sec = b.sec
  BY DEF Mixing!RefreshMixerConfig, Mixing!Mixers

-----------------------------------------------------------------------------
(* The most that a motor is asked for exists, as the motors are finite: it  *)
(* is asked of the one that the fewest ask at least as much of.             *)
LEMMA FullScaleCovers ==
  ASSUME NEW value \in [Outputs -> Raw \cup {0}]
  PROVE  LET full == Mixing!FullScale(Outputs, value)
         IN  full \in Nat /\ \A o \in Outputs : Mixing!Abs(value[o]) <= full
  <1> DEFINE asked(o) == Mixing!Abs(value[o])
             beyond == {o \in Outputs : asked(o) > 2}
             over == {asked(o) : o \in beyond}
             above(o) == {q \in beyond : asked(q) >= asked(o)}
  <1>1. \A o \in Outputs : asked(o) \in Nat
    <2> TAKE o \in Outputs
    <2>1. value[o] \in Raw \cup {0}
      OBVIOUS
    <2>2. Raw \subseteq Int
      BY MixerConstants
    <2>3. \A x \in Raw \cup {0} : x \in Int
      BY <2>2
    <2>4. value[o] \in Int
      BY <2>1, <2>3, Zenon
    <2> QED
      BY <2>4 DEF Mixing!Abs
  <1>2. Mixing!FullScale(Outputs, value)
          = IF over = {} THEN 2 ELSE CHOOSE x \in over : \A y \in over : y <= x
    BY DEF Mixing!FullScale
  <1>3. CASE over = {}
    <2>1. \A o \in Outputs : ~ (asked(o) > 2)
      BY <1>3
    <2> QED
      BY <1>1, <1>2, <1>3, <2>1
  <1>4. CASE over # {}
    <2>1. beyond # {} /\ beyond \subseteq Outputs
      BY <1>4
    <2>2. IsWellFoundedOn(StrictSubsetOrdering(Outputs), SUBSET Outputs)
      <3>1. IsFiniteSet(Outputs)
        BY MixerConstants
      <3>2. FiniteSubsetsOf(Outputs) = SUBSET Outputs
        BY <3>1, FS_FiniteSubsetsOfFinite
      <3>3. IsWellFoundedOn(StrictSubsetOrdering(Outputs), FiniteSubsetsOf(Outputs))
        BY FS_StrictSubsetOrderingWellFounded
      <3> QED
        BY <3>2, <3>3
    <2>3. {above(o) : o \in beyond} \subseteq SUBSET Outputs /\ {above(o) : o \in beyond} # {}
      <3>1. \A o \in beyond : above(o) \subseteq Outputs
        BY <2>1
      <3> HIDE DEF above
      <3> QED
        BY <2>1, <3>1
    <2>4. PICK least \in {above(o) : o \in beyond} :
            \A t \in {above(o) : o \in beyond} : ~ (<<t, least>> \in StrictSubsetOrdering(Outputs))
      <3> DEFINE T == {above(o) : o \in beyond}
      <3>1. T \subseteq SUBSET Outputs /\ T # {}
        BY <2>3
      <3> HIDE DEF T
      <3>2. \E x \in T : \A y \in T : ~ (<<y, x>> \in StrictSubsetOrdering(Outputs))
        BY <2>2, <3>1, WFMin, Zenon
      <3> QED
        BY <3>2 DEF T
    <2>5. PICK top \in beyond : least = above(top)
      OBVIOUS
    <2>6. \A q \in beyond : asked(q) <= asked(top)
      <3> SUFFICES ASSUME NEW q \in beyond, ~ (asked(q) <= asked(top)) PROVE FALSE
        OBVIOUS
      <3>1. asked(q) > asked(top)
        BY <1>1, <2>1
      <3>2. above(q) \subseteq above(top) /\ top \in above(top) /\ top \notin above(q)
        BY <1>1, <2>1, <3>1
      <3>3. <<above(q), above(top)>> \in StrictSubsetOrdering(Outputs)
        BY <2>1, <3>2 DEF StrictSubsetOrdering
      <3> QED
        BY <2>4, <2>5, <3>3
    <2>7. asked(top) \in over /\ \A y \in over : y <= asked(top)
      BY <2>6
    <2> DEFINE full == CHOOSE x \in over : \A y \in over : y <= x
    <2>8. full \in over /\ \A y \in over : y <= full
      BY <2>7
    <2>9. \A o \in Outputs : asked(o) <= full
      <3> HIDE DEF full
      <3> QED
        BY <1>1, <2>8
    <2> QED
      BY <1>1, <1>2, <1>4, <2>8, <2>9
  <1> QED
    BY <1>3, <1>4

-----------------------------------------------------------------------------
(* What reactions to changes come to: refreshing again changes nothing. *)
ConfigCurrent == Mixing!RefreshMixerConfig(mixer_mixer, mixer_params) = mixer_mixer
RuntimeCurrent == Mixing!RefreshRuntimeParams(mixer_mixer, mixer_params) = mixer_mixer

(* The matrices of the choice are shown, unless an operator has edited them. *)
Shown(p) ==
  /\ p.primary \in Canned /\ p.pri # <<"edited", "edited">>
       => p.pri = Mixing!CannedMatrix(p.primary)
  /\ p.secondary \in Canned /\ p.sec # <<"edited", "edited">>
       => p.sec = Mixing!CannedSecondary(p.secondary)

(* Queued changes of a choice or of an element leave the tables to be       *)
(* refreshed; those of a flag leave only the flags.                         *)
MixerInv ==
  /\ Mixing!TypeOK
  /\ ~ mixer_lost /\ mixer_changes \cap {"choice", "element"} = {} => ConfigCurrent
  /\ ~ mixer_lost /\ mixer_changes = {} => RuntimeCurrent
  /\ Shown(mixer_params)
  /\ Mixing!MotorsWithinRange

LEMMA RefreshTwice ==
  ASSUME NEW m \in Mixing!Mixers, NEW p \in Mixing!MixerParamSets
  PROVE  LET r == Mixing!RefreshRuntimeParams(Mixing!RefreshMixerConfig(m, p), p)
         IN  /\ r \in Mixing!Mixers
             /\ Mixing!RefreshMixerConfig(r, p) = r
             /\ Mixing!RefreshRuntimeParams(r, p) = r
  <1> DEFINE c == Mixing!RefreshMixerConfig(m, p)
             r == Mixing!RefreshRuntimeParams(c, p)
             again == Mixing!RefreshMixerConfig(r, p)
  <1>1. c \in Mixing!Mixers /\ r \in Mixing!Mixers
    BY RefreshType
  <1>2. r = [c EXCEPT !.fixedWing = p.fixedWing \/ p.primary \in FixedWing]
    BY DEF Mixing!RefreshRuntimeParams
  <1>3. Mixing!RefreshRuntimeParams(r, p) = r
    <2>1. Mixing!RefreshRuntimeParams(r, p)
            = [r EXCEPT !.fixedWing = p.fixedWing \/ p.primary \in FixedWing]
      BY DEF Mixing!RefreshRuntimeParams
    <2> HIDE DEF c, r
    <2> QED
      BY <1>1, <1>2, <2>1 DEF Mixing!Mixers
  <1>4. again \in Mixing!Mixers /\ again.fixedWing = r.fixedWing /\ again.status = c.status
        /\ (p.primary # "beyond" => again.out = c.out /\ again.pri = c.pri /\ again.sec = c.sec)
        /\ (p.primary = "beyond" => again = [r EXCEPT !.status = "InvalidMixer"])
    <2>1. again \in Mixing!Mixers
      BY <1>1, RefreshType
    <2>2. again.status = c.status
          /\ (p.primary # "beyond" => again.out = c.out /\ again.pri = c.pri /\ again.sec = c.sec)
      BY <1>1, RefreshForgets
    <2>3. p.primary = "beyond" => again = [r EXCEPT !.status = "InvalidMixer"]
      BY DEF Mixing!RefreshMixerConfig
    <2>4. again.fixedWing = r.fixedWing
      <3> HIDE DEF r
      <3> QED
        BY <1>1 DEF Mixing!RefreshMixerConfig, Mixing!Mixers
    <2> QED
      BY <2>1, <2>2, <2>3, <2>4
  <1>5. p.primary = "beyond" => c.status = "InvalidMixer"
    BY RefreshForgets
  <1>6. again = r
    <2> HIDE DEF c, r, again
    <2> QED
      BY <1>1, <1>2, <1>4, <1>5 DEF Mixing!Mixers
  <1> QED
    BY <1>1, <1>3, <1>6

(* Reflection writes tables that the mixer of these choices does not read.  *)
LEMMA ReflectKeeps ==
  ASSUME NEW p \in Mixing!MixerParamSets, NEW m \in Mixing!Mixers,
         NEW q \in {Mixing!ReflectPrimary(p), Mixing!ReflectSecondary(p)}
  PROVE  /\ q \in Mixing!MixerParamSets
         /\ q.primary = p.primary /\ q.secondary = p.secondary /\ q.fixedWing = p.fixedWing
         /\ Mixing!RefreshMixerConfig(m, q) = Mixing!RefreshMixerConfig(m, p)
         /\ Mixing!RefreshRuntimeParams(m, q) = Mixing!RefreshRuntimeParams(m, p)
  <1>1. /\ q \in Mixing!MixerParamSets
        /\ q.primary = p.primary /\ q.secondary = p.secondary /\ q.fixedWing = p.fixedWing
        /\ p.primary \notin Canned => q.pri = p.pri /\ q.out = p.out
        /\ p.secondary = "custom" => q.sec = p.sec
    <2>1. CASE q = Mixing!ReflectPrimary(p)
      <3>1. CASE p.primary \notin Canned
        BY <2>1, <3>1 DEF Mixing!ReflectPrimary
      <3>2. CASE p.primary \in Canned
        <4> DEFINE t == Mixing!CannedMatrix(p.primary)
                   sec == IF p.secondary \in {"beyond", "negative"} THEN t ELSE p.sec
        <4>1. q = [p EXCEPT !.out = p.primary, !.pri = t, !.sec = sec]
          BY <2>1, <3>2 DEF Mixing!ReflectPrimary
        <4>2. p.primary \in Mixing!Tables /\ t \in Mixing!Matrices /\ sec \in Mixing!Matrices
          BY <3>2, CannedTables DEF Mixing!MixerParamSets
        <4>3. p.secondary = "custom" => sec = p.sec
          OBVIOUS
        <4> HIDE DEF t, sec
        <4> QED
          BY <3>2, <4>1, <4>2, <4>3 DEF Mixing!MixerParamSets
      <3> QED
        BY <3>1, <3>2
    <2>2. CASE q = Mixing!ReflectSecondary(p)
      <3>1. CASE p.secondary \notin Canned
        BY <2>2, <3>1 DEF Mixing!ReflectSecondary
      <3>2. CASE p.secondary \in Canned
        <4> DEFINE t == Mixing!CannedSecondary(p.secondary)
        <4>1. q = [p EXCEPT !.sec = t]
          BY <2>2, <3>2 DEF Mixing!ReflectSecondary
        <4>2. t \in Mixing!Matrices /\ p.secondary # "custom"
          BY <3>2, CannedTables
        <4> HIDE DEF t
        <4> QED
          BY <4>1, <4>2 DEF Mixing!MixerParamSets
      <3> QED
        BY <3>1, <3>2
    <2> QED
      BY <2>1, <2>2
  <1>2. Mixing!RefreshRuntimeParams(m, q) = Mixing!RefreshRuntimeParams(m, p)
    BY <1>1 DEF Mixing!RefreshRuntimeParams
  <1>3. Mixing!RefreshMixerConfig(m, q) = Mixing!RefreshMixerConfig(m, p)
    BY <1>1, CannedTables DEF Mixing!RefreshMixerConfig
  <1> QED
    BY <1>1, <1>2, <1>3

LEMMA ReflectShows ==
  ASSUME NEW p \in Mixing!MixerParamSets
  PROVE  /\ (p.secondary \in Canned /\ p.sec # <<"edited", "edited">>
               => p.sec = Mixing!CannedSecondary(p.secondary))
             => Shown(Mixing!ReflectPrimary(p))
         /\ (p.primary \in Canned /\ p.pri # <<"edited", "edited">>
               => p.pri = Mixing!CannedMatrix(p.primary))
             => Shown(Mixing!ReflectSecondary(p))
  <1>1. p.secondary \in Canned => p.secondary \notin {"beyond", "negative"}
    BY CannedTables
  <1> QED
    BY <1>1 DEF Shown, Mixing!ReflectPrimary, Mixing!ReflectSecondary, Mixing!MixerParamSets

-----------------------------------------------------------------------------
LEMMA MixerInit == Mixing!Init => MixerInv
  <1> SUFFICES ASSUME Mixing!Init PROVE MixerInv
    OBVIOUS
  <1> DEFINE start == [status |-> "Healthy", out |-> "quadx", pri |-> <<"quadx", "quadx">>,
                       sec |-> <<"quadx", "quadx">>, fixedWing |-> FALSE]
  <1>1. PICK stored \in {Mixing!DefaultParams} \cup
                       {[Mixing!DefaultParams EXCEPT !.primary = c] : c \in Canned} :
          /\ mixer_params = Mixing!ReflectSecondary(Mixing!ReflectPrimary(stored))
          /\ mixer_mixer = Mixing!NewMixer(stored)
    BY DEF Mixing!Init
  <1>2. stored \in Mixing!MixerParamSets /\ stored.secondary = "negative"
        /\ stored.sec # <<"edited", "edited">>
    <2> DEFINE d == Mixing!DefaultParams
    <2>1. d \in Mixing!MixerParamSets /\ d.secondary = "negative" /\ d.sec = <<"zero", "zero">>
      BY DefaultParamsType DEF Mixing!DefaultParams
    <2>2. \A c \in Canned : c \in Mixing!Choices
      BY DEF Mixing!Choices
    <2>3. <<"zero", "zero">> # <<"edited", "edited">>
      OBVIOUS
    <2> HIDE DEF d
    <2>4. stored = d \/ \E c \in Canned : stored = [d EXCEPT !.primary = c]
      BY <1>1 DEF d
    <2> QED
      BY <2>1, <2>2, <2>3, <2>4 DEF Mixing!MixerParamSets
  <1>3. start \in Mixing!Mixers
    BY OtherTables DEF Mixing!Mixers
  <1>4. mixer_mixer = Mixing!RefreshRuntimeParams(Mixing!RefreshMixerConfig(start, stored), stored)
    BY <1>1 DEF Mixing!NewMixer
  <1> DEFINE mid == Mixing!ReflectPrimary(stored)
  <1>5. mid \in Mixing!MixerParamSets /\ mid.secondary = "negative"
    BY <1>2, <1>3, ReflectKeeps
  <1>6. mid.secondary \notin Canned
    BY <1>5, CannedTables
  <1>7. mixer_params = mid
    BY <1>1, <1>6 DEF Mixing!ReflectSecondary
  <1>8. /\ mixer_mixer \in Mixing!Mixers
        /\ Mixing!RefreshMixerConfig(mixer_mixer, stored) = mixer_mixer
        /\ Mixing!RefreshRuntimeParams(mixer_mixer, stored) = mixer_mixer
    BY <1>2, <1>3, <1>4, RefreshTwice
  <1>9. ConfigCurrent /\ RuntimeCurrent
    BY <1>2, <1>7, <1>8, ReflectKeeps DEF ConfigCurrent, RuntimeCurrent
  <1>10. Shown(mixer_params)
    <2>1. stored.secondary \notin Canned
      BY <1>2, CannedTables
    <2> QED
      BY <1>2, <1>7, <2>1, ReflectShows
  <1>11. /\ mixer_changes = {} /\ mixer_queued = 0 /\ mixer_lost = FALSE
         /\ mixer_run = [status |-> "Healthy", overridden |-> {},
                         rows |-> [a \in {"T", "X", "Y", "Z"} |-> "none"],
                         value |-> [o \in Outputs |-> 0], full |-> 2]
    BY DEF Mixing!Init
  <1>12. Mixing!TypeOK
    <2>1. 0 \in 0 .. Capacity
      BY MixerConstants
    <2>2. mixer_run \in [status: {"Healthy", "InvalidMixer"}, overridden: SUBSET Mixing!Axes,
                         rows: [Mixing!Axes -> {"none", "primary", "secondary"}],
                         value: [Outputs -> Raw \cup {0}], full: Nat]
      BY <1>11 DEF Mixing!Axes
    <2> QED
      BY <1>5, <1>7, <1>8, <1>11, <2>1, <2>2 DEF Mixing!TypeOK
  <1>13. Mixing!MotorsWithinRange
    BY <1>11 DEF Mixing!MotorsWithinRange, Mixing!Abs
  <1> QED
    BY <1>9, <1>10, <1>12, <1>13 DEF MixerInv

LEMMA RunStays == mixer_run' = mixer_run /\ Mixing!MotorsWithinRange => Mixing!MotorsWithinRange'
  BY DEF Mixing!MotorsWithinRange

(* A change finds room in the queue, or is lost. *)
LEMMA EmitKeepsTypes ==
  ASSUME Mixing!TypeOK, NEW kind \in {"choice", "element", "runtime"}, Mixing!EmitParamChange(kind)
  PROVE  /\ mixer_changes' \subseteq {"choice", "element", "runtime"}
         /\ mixer_queued' \in 0 .. Capacity /\ mixer_lost' \in BOOLEAN
         /\ ~ mixer_lost' => ~ mixer_lost /\ mixer_changes' = mixer_changes \cup {kind}
  <1>1. /\ mixer_changes \subseteq {"choice", "element", "runtime"}
        /\ mixer_queued \in 0 .. Capacity /\ mixer_lost \in BOOLEAN
    BY DEF Mixing!TypeOK
  <1>2. CASE mixer_queued < Capacity
    <2>1. /\ mixer_changes' = mixer_changes \cup {kind}
          /\ mixer_queued' = mixer_queued + 1 /\ mixer_lost' = mixer_lost
      BY <1>2 DEF Mixing!EmitParamChange
    <2>2. mixer_queued' \in 0 .. Capacity
      BY <1>1, <1>2, <2>1, MixerConstants
    <2> QED
      BY <1>1, <2>1, <2>2
  <1>3. CASE ~ (mixer_queued < Capacity)
    BY <1>1, <1>3 DEF Mixing!EmitParamChange
  <1> QED
    BY <1>2, <1>3

(* A choice of the primary or of the secondary mixer. *)
LEMMA ChoiceStep ==
  ASSUME MixerInv, NEW c \in Mixing!Choices, Mixing!SetPrimary(c) \/ Mixing!SetSecondary(c)
  PROVE  MixerInv'
  <1> DEFINE asked == IF Mixing!SetPrimary(c) THEN [mixer_params EXCEPT !.primary = c]
                                              ELSE [mixer_params EXCEPT !.secondary = c]
             same == IF Mixing!SetPrimary(c) THEN c = mixer_params.primary
                                             ELSE c = mixer_params.secondary
  <1>1. /\ mixer_params \in Mixing!MixerParamSets /\ mixer_mixer \in Mixing!Mixers
        /\ Mixing!TypeOK /\ Shown(mixer_params) /\ Mixing!MotorsWithinRange
    BY DEF MixerInv, Mixing!TypeOK
  <1>2. asked \in Mixing!MixerParamSets /\ (same => asked = mixer_params)
    BY <1>1 DEF Mixing!MixerParamSets
  <1>3. mixer_params' = IF Mixing!SetPrimary(c) THEN Mixing!ReflectPrimary(asked)
                                               ELSE Mixing!ReflectSecondary(asked)
    BY DEF Mixing!SetPrimary, Mixing!SetSecondary
  <1>4. mixer_mixer' = mixer_mixer /\ mixer_run' = mixer_run
    BY DEF Mixing!SetPrimary, Mixing!SetSecondary
  <1>5. IF same THEN UNCHANGED <<mixer_changes, mixer_queued, mixer_lost>>
                ELSE Mixing!EmitParamChange("choice")
    BY DEF Mixing!SetPrimary, Mixing!SetSecondary
  <1> HIDE DEF same
  <1>6. /\ mixer_params' \in Mixing!MixerParamSets
        /\ Mixing!RefreshMixerConfig(mixer_mixer, mixer_params')
             = Mixing!RefreshMixerConfig(mixer_mixer, asked)
        /\ Mixing!RefreshRuntimeParams(mixer_mixer, mixer_params')
             = Mixing!RefreshRuntimeParams(mixer_mixer, asked)
    <2> HIDE DEF asked
    <2> QED
      BY <1>1, <1>2, <1>3, ReflectKeeps
  <1>7. Shown(mixer_params')
    <2>1. CASE Mixing!SetPrimary(c)
      <3>1. asked.secondary = mixer_params.secondary /\ asked.sec = mixer_params.sec
        BY <1>1, <2>1 DEF Mixing!MixerParamSets
      <3>2. asked.secondary \in Canned /\ asked.sec # <<"edited", "edited">>
              => asked.sec = Mixing!CannedSecondary(asked.secondary)
        BY <1>1, <3>1 DEF Shown
      <3> HIDE DEF asked
      <3> QED
        BY <1>2, <1>3, <2>1, <3>2, ReflectShows
    <2>2. CASE ~ Mixing!SetPrimary(c)
      <3>1. asked.primary = mixer_params.primary /\ asked.pri = mixer_params.pri
        BY <1>1, <2>2 DEF Mixing!MixerParamSets
      <3>2. asked.primary \in Canned /\ asked.pri # <<"edited", "edited">>
              => asked.pri = Mixing!CannedMatrix(asked.primary)
        BY <1>1, <3>1 DEF Shown
      <3> HIDE DEF asked
      <3> QED
        BY <1>2, <1>3, <2>2, <3>2, ReflectShows
    <2> QED
      BY <2>1, <2>2
  <1> HIDE DEF asked
  <1>8. CASE same
    <2>1. asked = mixer_params /\ UNCHANGED <<mixer_changes, mixer_queued, mixer_lost>>
      BY <1>2, <1>5, <1>8
    <2>2. ConfigCurrent' = ConfigCurrent /\ RuntimeCurrent' = RuntimeCurrent
      BY <1>4, <1>6, <2>1 DEF ConfigCurrent, RuntimeCurrent
    <2>3. Mixing!TypeOK'
      BY <1>1, <1>4, <1>6, <2>1 DEF Mixing!TypeOK
    <2> QED
      BY <1>1, <1>4, <1>7, <2>1, <2>2, <2>3, RunStays DEF MixerInv
  <1>9. CASE ~ same
    <2>1. /\ mixer_changes' \subseteq {"choice", "element", "runtime"}
          /\ mixer_queued' \in 0 .. Capacity /\ mixer_lost' \in BOOLEAN
          /\ ~ mixer_lost' => "choice" \in mixer_changes'
      BY <1>1, <1>5, <1>9, EmitKeepsTypes
    <2>2. Mixing!TypeOK'
      BY <1>1, <1>4, <1>6, <2>1 DEF Mixing!TypeOK
    <2> QED
      BY <1>1, <1>4, <1>7, <2>1, <2>2, RunStays DEF MixerInv
  <1> QED
    BY <1>8, <1>9

(* An element of a table: shown as edited from now on. *)
LEMMA ElementStep == MixerInv /\ Mixing!SetElement => MixerInv'
  <1> SUFFICES ASSUME MixerInv, Mixing!SetElement PROVE MixerInv'
    OBVIOUS
  <1>1. Mixing!TypeOK /\ Shown(mixer_params) /\ Mixing!MotorsWithinRange
    BY DEF MixerInv
  <1>2. /\ mixer_params' \in {[mixer_params EXCEPT !.out = "edited"],
                              [mixer_params EXCEPT !.pri = <<"edited", "edited">>],
                              [mixer_params EXCEPT !.sec = <<"edited", "edited">>]}
        /\ Mixing!EmitParamChange("element") /\ mixer_mixer' = mixer_mixer /\ mixer_run' = mixer_run
    BY DEF Mixing!SetElement
  <1>3. mixer_params' \in Mixing!MixerParamSets /\ Shown(mixer_params')
    BY <1>1, <1>2, OtherTables DEF Mixing!TypeOK, Mixing!MixerParamSets, Shown
  <1>4. /\ mixer_changes' \subseteq {"choice", "element", "runtime"}
        /\ mixer_queued' \in 0 .. Capacity /\ mixer_lost' \in BOOLEAN
        /\ ~ mixer_lost' => "element" \in mixer_changes'
    BY <1>1, <1>2, EmitKeepsTypes
  <1>5. Mixing!TypeOK'
    BY <1>1, <1>2, <1>3, <1>4 DEF Mixing!TypeOK
  <1> QED
    BY <1>1, <1>2, <1>3, <1>4, <1>5, RunStays DEF MixerInv

(* A flag: the tables stay as they are. *)
LEMMA RuntimeStep == MixerInv /\ Mixing!SetRuntime => MixerInv'
  <1> SUFFICES ASSUME MixerInv, Mixing!SetRuntime PROVE MixerInv'
    OBVIOUS
  <1>1. Mixing!TypeOK /\ Shown(mixer_params) /\ Mixing!MotorsWithinRange
    BY DEF MixerInv
  <1>2. /\ mixer_params' = [mixer_params EXCEPT !.fixedWing = ~ mixer_params.fixedWing]
        /\ Mixing!EmitParamChange("runtime") /\ mixer_mixer' = mixer_mixer /\ mixer_run' = mixer_run
    BY DEF Mixing!SetRuntime
  <1>3. /\ mixer_params' \in Mixing!MixerParamSets /\ Shown(mixer_params')
        /\ Mixing!RefreshMixerConfig(mixer_mixer, mixer_params')
             = Mixing!RefreshMixerConfig(mixer_mixer, mixer_params)
    <2>1. \A f \in {"primary", "secondary", "out", "pri", "sec"} :
             mixer_params'[f] = mixer_params[f]
      BY <1>1, <1>2 DEF Mixing!TypeOK, Mixing!MixerParamSets
    <2>2. mixer_params' \in Mixing!MixerParamSets
      BY <1>1, <1>2 DEF Mixing!TypeOK, Mixing!MixerParamSets
    <2>3. /\ mixer_params'.primary = mixer_params.primary
          /\ mixer_params'.secondary = mixer_params.secondary
          /\ mixer_params'.out = mixer_params.out
          /\ mixer_params'.pri = mixer_params.pri /\ mixer_params'.sec = mixer_params.sec
      BY <2>1
    <2> QED
      BY <1>1, <2>2, <2>3 DEF Shown, Mixing!RefreshMixerConfig
  <1>4. /\ mixer_changes' \subseteq {"choice", "element", "runtime"}
        /\ mixer_queued' \in 0 .. Capacity /\ mixer_lost' \in BOOLEAN
        /\ ~ mixer_lost' => ~ mixer_lost /\ mixer_changes' = mixer_changes \cup {"runtime"}
    BY <1>1, <1>2, EmitKeepsTypes
  <1>5. Mixing!TypeOK'
    BY <1>1, <1>2, <1>3, <1>4 DEF Mixing!TypeOK
  <1>6. ~ mixer_lost' /\ mixer_changes' \cap {"choice", "element"} = {} => ConfigCurrent'
    BY <1>2, <1>3, <1>4 DEF MixerInv, ConfigCurrent
  <1> QED
    BY <1>1, <1>2, <1>3, <1>4, <1>5, <1>6, RunStays DEF MixerInv

(* The reactions leave a mixer that the parameters describe. *)
LEMMA ReactionStep == MixerInv /\ Mixing!ApplyParamReactions => MixerInv'
  <1> SUFFICES ASSUME MixerInv, Mixing!ApplyParamReactions PROVE MixerInv'
    OBVIOUS
  <1>1. Mixing!TypeOK /\ Shown(mixer_params) /\ Mixing!MotorsWithinRange
        /\ mixer_mixer \in Mixing!Mixers /\ mixer_params \in Mixing!MixerParamSets
    BY DEF MixerInv, Mixing!TypeOK
  <1>2. /\ mixer_mixer' = Mixing!OnParamsChanged(mixer_mixer, mixer_params, mixer_changes)
        /\ mixer_changes' = {} /\ mixer_queued' = 0 /\ mixer_changes # {}
        /\ UNCHANGED <<mixer_params, mixer_lost, mixer_run>>
    BY DEF Mixing!ApplyParamReactions
  <1>3. mixer_mixer' \in Mixing!Mixers /\ (~ mixer_lost => ConfigCurrent' /\ RuntimeCurrent')
    <2>1. CASE mixer_changes \cap {"choice", "element"} # {}
      <3>1. mixer_mixer' = Mixing!RefreshRuntimeParams(
                             Mixing!RefreshMixerConfig(mixer_mixer, mixer_params), mixer_params)
        BY <1>2, <2>1 DEF Mixing!OnParamsChanged
      <3> QED
        BY <1>1, <1>2, <3>1, RefreshTwice DEF ConfigCurrent, RuntimeCurrent
    <2>2. CASE mixer_changes \cap {"choice", "element"} = {}
      <3>1. "runtime" \in mixer_changes
        BY <1>1, <1>2, <2>2 DEF Mixing!TypeOK
      <3>2. mixer_mixer' = Mixing!RefreshRuntimeParams(mixer_mixer, mixer_params)
        BY <1>2, <2>2, <3>1 DEF Mixing!OnParamsChanged
      <3>3. mixer_mixer' \in Mixing!Mixers
        BY <1>1, <3>2, RefreshType
      <3>4. ~ mixer_lost => ConfigCurrent
        BY <2>2 DEF MixerInv
      <3>5. ~ mixer_lost => mixer_mixer' = Mixing!RefreshRuntimeParams(
                              Mixing!RefreshMixerConfig(mixer_mixer, mixer_params), mixer_params)
        BY <3>2, <3>4 DEF ConfigCurrent
      <3> QED
        BY <1>1, <1>2, <3>3, <3>5, RefreshTwice DEF ConfigCurrent, RuntimeCurrent
    <2> QED
      BY <2>1, <2>2
  <1>4. Mixing!TypeOK'
    BY <1>1, <1>2, <1>3, MixerConstants DEF Mixing!TypeOK
  <1> QED
    BY <1>1, <1>2, <1>3, <1>4, RunStays DEF MixerInv

LEMMA RefreshStep == MixerInv /\ Mixing!FullRefresh => MixerInv'
  <1> SUFFICES ASSUME MixerInv, Mixing!FullRefresh PROVE MixerInv'
    OBVIOUS
  <1>1. Mixing!TypeOK /\ Mixing!MotorsWithinRange /\ mixer_mixer \in Mixing!Mixers
    BY DEF MixerInv, Mixing!TypeOK
  <1>2. /\ mixer_mixer' = Mixing!RefreshRuntimeParams(
                            Mixing!RefreshMixerConfig(mixer_mixer, mixer_params'), mixer_params')
        /\ mixer_changes' = {} /\ mixer_queued' = 0 /\ mixer_lost' = FALSE /\ mixer_run' = mixer_run
    BY DEF Mixing!FullRefresh
  <1>3. mixer_params' \in Mixing!MixerParamSets /\ Shown(mixer_params')
    <2> DEFINE d == Mixing!DefaultParams
               chosen(c) == [d EXCEPT !.primary = c]
    <2>1. d \in Mixing!MixerParamSets /\ d.primary = "negative" /\ d.secondary = "negative"
          /\ {d.primary, d.secondary, "custom"} \cap Canned = {}
      BY DefaultParamsType, MixerConstants DEF Mixing!DefaultParams
    <2>2. \A c \in Canned \cup {"custom"} :
             chosen(c) \in Mixing!MixerParamSets /\ chosen(c).secondary = "negative"
             /\ chosen(c).primary = c
      <3> HIDE DEF d
      <3> QED
        BY <2>1 DEF Mixing!MixerParamSets, Mixing!Choices
    <2>3. \/ mixer_params' = d \/ mixer_params' = chosen("custom")
          \/ \E c \in Canned : mixer_params' = Mixing!ReflectPrimary(chosen(c))
      BY DEF Mixing!FullRefresh
    <2> HIDE DEF d, chosen
    <2>4. CASE mixer_params' \in {d, chosen("custom")}
      BY <2>1, <2>2, <2>4 DEF Shown
    <2>5. CASE \E c \in Canned : mixer_params' = Mixing!ReflectPrimary(chosen(c))
      <3>1. PICK c \in Canned : mixer_params' = Mixing!ReflectPrimary(chosen(c))
        BY <2>5
      <3>2. chosen(c) \in Mixing!MixerParamSets /\ chosen(c).secondary \notin Canned
        BY <2>1, <2>2
      <3>3. mixer_params' \in Mixing!MixerParamSets
        BY <1>1, <3>1, <3>2, ReflectKeeps
      <3> QED
        BY <3>1, <3>2, <3>3, ReflectShows
    <2> QED
      BY <2>3, <2>4, <2>5
  <1>4. mixer_mixer' \in Mixing!Mixers /\ ConfigCurrent' /\ RuntimeCurrent'
    BY <1>1, <1>2, <1>3, RefreshTwice DEF ConfigCurrent, RuntimeCurrent
  <1>5. 0 \in 0 .. Capacity
    BY MixerConstants
  <1>6. Mixing!TypeOK'
    BY <1>1, <1>2, <1>3, <1>4, <1>5 DEF Mixing!TypeOK
  <1> QED
    BY <1>1, <1>2, <1>3, <1>4, <1>6, RunStays DEF MixerInv

(* Mixing: the scale is the most that any motor is asked for. *)
LEMMA MixStep == MixerInv /\ Mixing!Mix => MixerInv'
  <1> SUFFICES ASSUME MixerInv, Mixing!Mix PROVE MixerInv'
    OBVIOUS
  <1>1. UNCHANGED <<mixer_params, mixer_changes, mixer_queued, mixer_lost, mixer_mixer>>
    BY DEF Mixing!Mix
  <1>2. PICK overridden \in Overrides, value \in [Outputs -> Raw] :
          mixer_run' = IF mixer_mixer.status = "InvalidMixer"
                       THEN Mixing!Stopped(mixer_mixer.status, overridden)
                       ELSE [status |-> mixer_mixer.status, overridden |-> overridden,
                             rows |-> [a \in Mixing!Axes |-> Mixing!SelectedRow(a, overridden)],
                             value |-> value, full |-> Mixing!FullScale(Outputs, value)]
    BY DEF Mixing!Mix
  <1>3. /\ overridden \in SUBSET Mixing!Axes
        /\ mixer_mixer.status \in {"Healthy", "InvalidMixer"}
        /\ \A a \in Mixing!Axes : Mixing!SelectedRow(a, overridden) \in {"primary", "secondary"}
    BY MixerConstants DEF MixerInv, Mixing!TypeOK, Mixing!Mixers, Mixing!SelectedRow
  <1>4. value \in [Outputs -> Raw \cup {0}]
    OBVIOUS
  <1> DEFINE runs == [status: {"Healthy", "InvalidMixer"}, overridden: SUBSET Mixing!Axes,
                      rows: [Mixing!Axes -> {"none", "primary", "secondary"}],
                      value: [Outputs -> Raw \cup {0}], full: Nat]
  <1>5. mixer_run' \in runs /\ Mixing!MotorsWithinRange'
    <2>1. CASE mixer_mixer.status = "InvalidMixer"
      <3>1. mixer_run' = [status |-> mixer_mixer.status, overridden |-> overridden,
                         rows |-> [a \in Mixing!Axes |-> "none"],
                         value |-> [o \in Outputs |-> 0], full |-> 2]
        BY <1>2, <2>1 DEF Mixing!Stopped
      <3> QED
        BY <1>3, <3>1 DEF Mixing!MotorsWithinRange, Mixing!Abs
    <2>2. CASE mixer_mixer.status # "InvalidMixer"
      <3> DEFINE full == Mixing!FullScale(Outputs, value)
      <3>1. full \in Nat /\ \A o \in Outputs : Mixing!Abs(value[o]) <= full
        BY <1>4, FullScaleCovers
      <3>2. mixer_run' = [status |-> mixer_mixer.status, overridden |-> overridden,
                         rows |-> [a \in Mixing!Axes |-> Mixing!SelectedRow(a, overridden)],
                         value |-> value, full |-> full]
        BY <1>2, <2>2
      <3> HIDE DEF full
      <3>3. mixer_run' \in runs
        BY <1>3, <1>4, <3>1, <3>2
      <3>4. mixer_run'.value = value /\ mixer_run'.full = full
        BY <3>2
      <3> QED
        BY <3>1, <3>3, <3>4 DEF Mixing!MotorsWithinRange
    <2> QED
      BY <2>1, <2>2
  <1>6. Mixing!TypeOK'
    BY <1>1, <1>5 DEF MixerInv, Mixing!TypeOK
  <1>7. ConfigCurrent' = ConfigCurrent /\ RuntimeCurrent' = RuntimeCurrent
    BY <1>1 DEF ConfigCurrent, RuntimeCurrent
  <1> QED
    BY <1>1, <1>5, <1>6, <1>7 DEF MixerInv

LEMMA MixerNext == MixerInv /\ [Mixing!Next]_mixerVars => MixerInv'
  <1> SUFFICES ASSUME MixerInv, [Mixing!Next]_mixerVars PROVE MixerInv'
    OBVIOUS
  <1>1. CASE \E c \in Mixing!Choices : Mixing!SetPrimary(c) \/ Mixing!SetSecondary(c)
    BY <1>1, ChoiceStep
  <1>2. CASE Mixing!SetElement \/ Mixing!SetRuntime
    BY <1>2, ElementStep, RuntimeStep
  <1>3. CASE Mixing!ApplyParamReactions \/ Mixing!FullRefresh
    BY <1>3, ReactionStep, RefreshStep
  <1>4. CASE Mixing!Mix
    BY <1>4, MixStep
  <1>5. CASE UNCHANGED mixerVars
    BY <1>5 DEF mixerVars, MixerInv, Mixing!TypeOK, ConfigCurrent, RuntimeCurrent,
                Mixing!MotorsWithinRange
  <1> QED
    BY <1>1, <1>2, <1>3, <1>4, <1>5 DEF Mixing!Next

(* With nothing queued or lost, the parameters alone tell which mixer flies. *)
LEMMA MixerInvSound == MixerInv => MixerSound
  <1> SUFFICES ASSUME MixerInv PROVE MixerSound
    OBVIOUS
  <1> DEFINE start == [status |-> "Healthy", out |-> "quadx", pri |-> <<"quadx", "quadx">>,
                       sec |-> <<"quadx", "quadx">>, fixedWing |-> FALSE]
             built == Mixing!RefreshMixerConfig(start, mixer_params)
  <1>1. /\ Mixing!TypeOK /\ Shown(mixer_params) /\ Mixing!MotorsWithinRange
        /\ mixer_mixer \in Mixing!Mixers /\ mixer_params \in Mixing!MixerParamSets
    BY DEF MixerInv, Mixing!TypeOK
  <1>2. start \in Mixing!Mixers
    BY OtherTables DEF Mixing!Mixers
  <1>3. Mixing!Settled => ConfigCurrent /\ RuntimeCurrent
    BY DEF MixerInv, Mixing!Settled
  <1>4. ConfigCurrent =>
          /\ mixer_params.primary = "beyond" => mixer_mixer.status = "InvalidMixer"
          /\ mixer_params.primary # "beyond" =>
               /\ mixer_mixer.status = built.status /\ mixer_mixer.out = built.out
               /\ mixer_mixer.pri = built.pri /\ mixer_mixer.sec = built.sec
    <2> HIDE DEF start
    <2> QED
      BY <1>1, <1>2, RefreshForgets DEF ConfigCurrent
  <1>5. Mixing!LikeAfterRestart
    <2> SUFFICES ASSUME Mixing!Settled, mixer_params.primary # "beyond"
                 PROVE  mixer_mixer = Mixing!NewMixer(mixer_params)
      BY <1>3, <1>4 DEF Mixing!LikeAfterRestart
    <2>1. Mixing!NewMixer(mixer_params) = Mixing!RefreshRuntimeParams(built, mixer_params)
      BY DEF Mixing!NewMixer
    <2>2. built \in Mixing!Mixers
      BY <1>1, <1>2, RefreshType
    <2> HIDE DEF start, built
    <2>3. Mixing!RefreshRuntimeParams(built, mixer_params)
            = [built EXCEPT !.fixedWing = mixer_params.fixedWing \/ mixer_params.primary \in FixedWing]
      BY DEF Mixing!RefreshRuntimeParams
    <2>4. mixer_mixer.fixedWing = (mixer_params.fixedWing \/ mixer_params.primary \in FixedWing)
      BY <1>1, <1>3 DEF RuntimeCurrent, Mixing!RefreshRuntimeParams, Mixing!Mixers
    <2> QED
      BY <1>1, <1>3, <1>4, <2>1, <2>2, <2>3, <2>4 DEF Mixing!Mixers
  <1>6. Mixing!ShownIsFlown
    <2> SUFFICES ASSUME Mixing!Settled, mixer_params.primary \in Canned,
                        mixer_params.secondary \in Canned,
                        mixer_params.pri # <<"edited", "edited">>,
                        mixer_params.sec # <<"edited", "edited">>
                 PROVE  mixer_mixer.pri = mixer_params.pri /\ mixer_mixer.sec = mixer_params.sec
      BY DEF Mixing!ShownIsFlown
    <2>1. mixer_params.primary # "beyond"
      BY CannedTables
    <2>2. /\ built.pri = Mixing!CannedMatrix(mixer_params.primary)
          /\ built.sec = Mixing!CannedSecondary(mixer_params.secondary)
      BY <2>1, CannedTables DEF Mixing!RefreshMixerConfig
    <2> QED
      BY <1>1, <1>3, <1>4, <2>1, <2>2 DEF Shown
  <1> QED
    BY <1>1, <1>5, <1>6 DEF MixerSound

(* The mixer that flies is the one a restart with the same parameters would *)
(* build, it is what the parameters show, and no motor is asked for more    *)
(* than full scale (mixer/matrix.rs), for every set of canned mixers, every *)
(* room in the queue and every range that the rows may give.                *)
THEOREM MixerIsSound == SuiteSpec => []MixerSound
  <1>1. SuiteInit => MixerInv
    BY MixerInit DEF SuiteInit
  <1>2. MixerInv /\ [SuiteNext]_suiteVars => MixerInv'
    <2>1. [SuiteNext]_suiteVars => [Mixing!Next]_mixerVars
      BY DEF SuiteNext, Still, suiteVars
    <2> QED
      BY <2>1, MixerNext
  <1> QED
    BY <1>1, <1>2, MixerInvSound, PTL DEF SuiteSpec
-----------------------------------------------------------------------------
(* The battery monitor. What is handed over is the parameters, unless a    *)
(* change still waits; what was taken is what it scales with.              *)
Taken ==
  \A c \in Battery!Measurands : battery_params[c] # 0 => battery_scale[c] = battery_params[c]
BatteryInv ==
  /\ Battery!TypeOK
  /\ ~ battery_changed => battery_signal = battery_params \/ (battery_signal = None /\ Taken)

LEMMA BatteryConstants == 0 \in {0, 1, 2} /\ None # Error /\ None \notin Battery!Pairs
  BY BatteryAssumed DEF Battery!BatteryAssumption

LEMMA ApplyType ==
  ASSUME Battery!TypeOK, battery_signal # None
  PROVE  /\ Battery!Apply(battery_scale, battery_signal)
              \in [Battery!Measurands -> ({0, 1, 2} \ {0}) \cup {9}]
         /\ battery_signal \in Battery!Pairs
         /\ \A c \in Battery!Measurands : battery_signal[c] # 0 =>
              Battery!Apply(battery_scale, battery_signal)[c] = battery_signal[c]
  BY DEF Battery!TypeOK, Battery!Apply, Battery!Pairs

LEMMA BatteryInit == Battery!Init => BatteryInv
  BY BatteryConstants DEF Battery!Init, BatteryInv, Battery!TypeOK, Battery!Pairs

LEMMA BatteryNext == BatteryInv /\ [Battery!Next]_batteryVars => BatteryInv'
  <1> SUFFICES ASSUME BatteryInv, [Battery!Next]_batteryVars PROVE BatteryInv'
    OBVIOUS
  <1>0. Battery!TypeOK
    BY DEF BatteryInv
  <1>1. CASE \E p \in Battery!Pairs : Battery!SetParams(p)
    BY <1>0, <1>1 DEF Battery!SetParams, BatteryInv, Battery!TypeOK
  <1>2. CASE Battery!React
    BY <1>0, <1>2 DEF Battery!React, BatteryInv, Battery!TypeOK
  <1>3. CASE Battery!BeginSample
    <2>1. /\ battery_phase' = "adc3"
          /\ UNCHANGED <<battery_params, battery_changed, battery_slot>>
      BY <1>3 DEF Battery!BeginSample
    <2>2. CASE battery_signal = None
      <3>1. UNCHANGED <<battery_signal, battery_scale>>
        BY <1>3, <2>2 DEF Battery!BeginSample
      <3>2. Battery!TypeOK'
        BY <1>0, <2>1, <3>1 DEF Battery!TypeOK
      <3> QED
        BY <2>1, <3>1, <3>2 DEF BatteryInv, Taken
    <2>3. CASE battery_signal # None
      <3>1. /\ battery_scale' = Battery!Apply(battery_scale, battery_signal)
            /\ battery_signal' = None
        BY <1>3, <2>3 DEF Battery!BeginSample
      <3>2. Battery!TypeOK'
        BY <1>0, <2>1, <2>3, <3>1, ApplyType DEF Battery!TypeOK
      <3>3. ~ battery_changed => Taken'
        BY <1>0, <2>1, <2>3, <3>1, ApplyType DEF BatteryInv, Taken
      <3> QED
        BY <2>1, <3>1, <3>2, <3>3 DEF BatteryInv
    <2> QED
      BY <2>2, <2>3
  <1>4. CASE Battery!ConversionTimesOut \/ Battery!ConvertReference \/ Battery!TakeBattery
    BY <1>0, <1>4 DEF Battery!ConversionTimesOut, Battery!ConvertReference, Battery!TakeBattery,
                      BatteryInv, Battery!TypeOK, Taken
  <1>5. CASE Battery!ConvertBattery
    BY <1>0, <1>5 DEF Battery!ConvertBattery, BatteryInv, Battery!TypeOK, Taken
  <1>6. CASE UNCHANGED batteryVars
    BY <1>0, <1>6 DEF batteryVars, BatteryInv, Battery!TypeOK, Taken
  <1> QED
    BY <1>1, <1>2, <1>3, <1>4, <1>5, <1>6 DEF Battery!Next

LEMMA BatteryReads ==
  ASSUME BatteryInv, [Battery!Next]_batteryVars,
         battery_slot' \notin {None, Error, battery_slot}, battery_signal = None, ~ battery_changed,
         NEW c \in Battery!Measurands, battery_params[c] # 0
  PROVE  battery_slot'[c] = battery_params[c]
  <1>1. Battery!ConvertBattery
    BY DEF Battery!Next, Battery!SetParams, Battery!React, Battery!BeginSample,
           Battery!ConversionTimesOut, Battery!ConvertReference, Battery!TakeBattery, batteryVars
  <1>2. battery_slot' = battery_scale
    BY <1>1 DEF Battery!ConvertBattery
  <1>3. battery_signal # battery_params
    BY BatteryConstants DEF BatteryInv, Battery!TypeOK
  <1> QED
    BY <1>2, <1>3 DEF BatteryInv, Taken

(* Once the task has taken what was handed over, it scales with the        *)
(* parameters as they are, and so do the readings it publishes             *)
(* (boards/pixracerpro/src/battery.rs).                                    *)
THEOREM BatteryIsScaled == SuiteSpec => BatteryScales
  <1>1. SuiteInit => BatteryInv
    BY BatteryInit DEF SuiteInit
  <1>2. [SuiteNext]_suiteVars => [Battery!Next]_batteryVars
    BY DEF SuiteNext, Still, suiteVars
  <1>3. BatteryInv /\ [SuiteNext]_suiteVars => BatteryInv'
    BY <1>2, BatteryNext
  <1>4. BatteryInv /\ [SuiteNext]_suiteVars =>
          [battery_slot' \notin {None, Error, battery_slot} /\ battery_signal = None /\ ~ battery_changed
             => \A c \in Battery!Measurands :
                  battery_params[c] # 0 => battery_slot'[c] = battery_params[c]]_(Battery!vars)
    BY <1>2, BatteryReads
  <1>5. BatteryInv => Battery!TypeOK /\ Battery!ScalesAsConfigured
    <2> SUFFICES ASSUME BatteryInv PROVE Battery!TypeOK /\ Battery!ScalesAsConfigured
      OBVIOUS
    <2>1. None \notin Battery!Pairs
      BY BatteryConstants
    <2> QED
      BY <2>1 DEF BatteryInv, Battery!TypeOK, Battery!ScalesAsConfigured, Taken
  <1> QED
    BY <1>1, <1>3, <1>4, <1>5, PTL DEF SuiteSpec, BatteryScales, Battery!ReadingAsConfigured
=============================================================================
