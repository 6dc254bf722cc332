----------------------------- MODULE PwmOutput ------------------------------
(***************************************************************************)
(* From the mixer's commands to the pins: which channels are enabled        *)
(* (pwm/output_sync.rs, world/control.rs), what is composed and written in   *)
(* a control update (control.rs), and the timers that make the pulses        *)
(* (platforms/stm_32/src/peripherals/pwm.rs behind the boards' PwmDriver).   *)
(* The pilot's kill switch, the channel mask, arming, auxiliary commands and *)
(* the mixer change between any two stages.  A command is "stop" (0.0),      *)
(* "mid" (0.5) or "run" (anything an armed vehicle computed).                *)
(***************************************************************************)
EXTENDS Integers, FiniteSets

CONSTANTS
  Channels,    \* the driver's channels, 0..len()-1
  Mixed,       \* those below NUM_MIXER_OUTPUTS, which have a mixer output
  TimerOf,     \* the timer that makes a channel's pulses
  UnsupportedSets, \* the sets of channels that their timer may not have
  DisarmsAll,  \* send_disarmed_commands is PwmDriver's own, for every channel, or
               \* the driver's, for the mixer's outputs
  Masks,       \* the sets of channels CHN_OUTPUT_MASK stands for
  Configs,     \* what the mixer may ask for: output types and rates
  AuxMessages  \* what an auxiliary command may ask for

ASSUME PwmOutputAssumption ==
  /\ Channels \subseteq Nat /\ IsFiniteSet(Channels)
  /\ Mixed \subseteq Channels
  /\ UnsupportedSets \subseteq SUBSET Channels
  /\ DisarmsAll \in BOOLEAN
  /\ Masks \subseteq SUBSET Channels
  /\ \A c \in Configs : DOMAIN c.type = Mixed /\ DOMAIN c.rate = Mixed
  /\ \A m \in AuxMessages : DOMAIN m = Channels
  /\ [c \in Channels |-> "Disabled"] \in AuxMessages

VARIABLES
  unsupported, \* the channels of this board that fail when they are enabled
  armed,       \* StateManager::is_armed
  kill,        \* the kill switch is mapped and on
  mask,        \* CHN_OUTPUT_MASK
  config,      \* the mixer's output types and default rates
  aux,         \* the last auxiliary command
  enabledMask, \* PwmOutputState
  driven,      \* the channels whose timer output is enabled
  configured,  \* pwm_rates_configured
  outRate,     \* output_rates_hz, which a pulse's duty is computed with
  timerRate,   \* the rate each timer runs at
  duty,        \* the command each channel's compare register was last set for
  composed     \* latest_pwm_outputs

vars == <<unsupported, armed, kill, mask, config, aux, enabledMask, driven,
          configured, outRate, timerRate, duty, composed>>

Timers   == {TimerOf[c] : c \in Channels}
Rates    == {"0", "50", "490", "dshot", "invalid"}
Commands == {"none", "stop", "mid", "run"}

TypeOK ==
  /\ unsupported \in UnsupportedSets
  /\ armed \in BOOLEAN /\ kill \in BOOLEAN /\ configured \in BOOLEAN
  /\ mask \in Masks /\ config \in Configs /\ aux \in AuxMessages
  /\ enabledMask \subseteq Channels /\ driven \subseteq Channels
  /\ outRate \in [Channels -> {"50", "490"}]
  /\ timerRate \in [Timers -> {"50", "400", "490"}]
  /\ duty \in [Channels -> Commands]
  /\ composed \in [Channels -> Commands]

(* World::init: a driver that says it is enabled is taken to be, in full. *)
Init ==
  /\ unsupported \in UnsupportedSets
  /\ armed = FALSE /\ kill = FALSE
  /\ mask \in Masks /\ config \in Configs
  /\ aux = [c \in Channels |-> "Disabled"]
  /\ enabledMask = {} /\ driven = {}
  /\ configured = FALSE
  /\ outRate = [c \in Channels |-> "50"]
  /\ timerRate = [t \in Timers |-> "400"]
  /\ duty = [c \in Channels |-> "none"]
  /\ composed = [c \in Channels |-> "stop"]

-----------------------------------------------------------------------------
(* The PWM output stage *)

(* A loop over channels, up to the first that fails. *)
UpToFailure(cs) ==
  {c \in cs : \A f \in cs \cap unsupported : c < f}

(* The three calls on a timer's channels, each in a loop that ends with the  *)
(* first channel the timer does not have.                                    *)
EnableEach(cs)  == UpToFailure(cs)
DisableEach(cs) == UpToFailure(cs)
SetDutyEach(cs) == UpToFailure(cs)

(* Mutated form: the kill switch leaves the channels and stops the commands. *)
DesiredMaskUnkilled(k, m) == m

DesiredMask(k, m) == IF k THEN {} ELSE m

(* Mutated form: the mask is recorded whatever failed. *)
SyncPwmOutputStateHopeful ==
  LET desired == DesiredMask(kill, mask)
  IN  /\ driven' = (driven \ (enabledMask \ desired)) \cup EnableEach(desired \ enabledMask)
      /\ enabledMask' = desired

(* sync_pwm_output_state: all on and all off are calls of their own, of      *)
(* which the first counts only as a whole and the second always; else the    *)
(* channels are disabled, then enabled, one by one, until one fails.         *)
SyncPwmOutputState ==
  LET desired == DesiredMask(kill, mask)
      off     == enabledMask \ desired
      on      == desired \ enabledMask
      allOff  == off \cap unsupported = {}
  IN  CASE desired = enabledMask -> UNCHANGED <<enabledMask, driven>>
        [] desired # enabledMask /\ desired = Channels /\ enabledMask = {} ->
             /\ driven' = driven \cup EnableEach(Channels)
             /\ enabledMask' = IF unsupported = {} THEN Channels ELSE {}
        [] desired # enabledMask /\ desired = {} ->
             /\ driven' = driven \cap unsupported
             /\ enabledMask' = {}
        [] OTHER ->
             LET applied(s) == (s \ DisableEach(off)) \cup (IF allOff THEN EnableEach(on) ELSE {})
             IN  /\ driven' = applied(driven)
                 /\ enabledMask' = applied(enabledMask)

(* run_pwm_output_stage, after each RC stage; its errors are swallowed. *)
PwmOutputStage ==
  /\ SyncPwmOutputState
  /\ UNCHANGED <<unsupported, armed, kill, mask, config, aux, configured, outRate,
                 timerRate, duty, composed>>

-----------------------------------------------------------------------------
(* The control update *)

Standard(rate) == rate \in {"0", "50", "490"}

(* effective_output_rate_hz *)
Effective(rate) == IF rate = "0" THEN "50" ELSE rate

(* configure_output_rates: a timer with no DShot refuses the whole call, at  *)
(* the channel that asks for it; outputs before it have their rate by then.  *)
(* A timer gets the rate of the last of its channels.                        *)
ConfigureOutputRates ==
  LET refused == {c \in Mixed : ~ Standard(config.rate[c])}
      on(t)   == {c \in Mixed : TimerOf[c] = t}
      last(t) == CHOOSE c \in on(t) : \A d \in on(t) : d <= c
  IN  /\ outRate' = [c \in Channels |->
           IF c \in Mixed /\ \A r \in refused : c < r
           THEN Effective(config.rate[c]) ELSE outRate[c]]
      /\ timerRate' = [t \in Timers |->
           IF refused = {} /\ on(t) # {} THEN Effective(config.rate[last(t)]) ELSE timerRate[t]]
      /\ configured' = (refused = {})

(* safe_disarmed_command *)
SafeDisarmedCommand(type) == IF type \in {"Motor", "Gpio"} THEN "stop" ELSE "mid"

(* output_types() at a channel, Aux where the mixer has none. *)
PrimaryType(c) == IF c \in Mixed THEN config.type[c] ELSE "Aux"

(* aux_output_for_channel *)
OutputType(c) ==
  IF PrimaryType(c) # "Aux" THEN PrimaryType(c)
  ELSE IF aux[c] = "Disabled" THEN "Aux" ELSE aux[c]

(* compose_pwm_outputs for one channel, given what the mixer computed. *)
ComposedOutput(c, value) ==
  CASE ~ armed \/ c \notin mask -> SafeDisarmedCommand(OutputType(c))
    [] armed /\ c \in mask -> IF OutputType(c) = "Aux" THEN "stop" ELSE value

(* write_pwm_commands: what was composed goes out while armed; disarmed, the *)
(* driver makes its own commands out of the mixer's types.                   *)
Written(c, out) ==
  CASE c \notin SetDutyEach(Channels) -> duty[c]
    [] c \in SetDutyEach(Channels) /\ armed -> out
    [] c \in SetDutyEach(Channels) /\ ~ armed /\ (DisarmsAll \/ c \in Mixed) -> SafeDisarmedCommand(PrimaryType(c))
    [] OTHER -> duty[c]

(* The last part of run_control_pipeline_if_new_imu, for an IMU sample that  *)
(* is new.                                                                   *)
ControlUpdate ==
  /\ IF configured THEN UNCHANGED <<configured, outRate, timerRate>>
     ELSE ConfigureOutputRates
  /\ \E value \in {"stop", "run"} :
       LET out == [c \in Channels |-> ComposedOutput(c, value)]
       IN  /\ composed' = out
           /\ duty' = IF enabledMask = {} THEN duty
                      ELSE [c \in Channels |-> Written(c, out[c])]
  /\ UNCHANGED <<unsupported, armed, kill, mask, config, aux, enabledMask, driven>>

-----------------------------------------------------------------------------
(* What changes between the stages *)

ArmOrDisarm ==
  /\ armed' = ~ armed
  /\ UNCHANGED <<unsupported, kill, mask, config, aux, enabledMask, driven, configured,
                 outRate, timerRate, duty, composed>>

KillSwitch ==
  /\ kill' = ~ kill
  /\ UNCHANGED <<unsupported, armed, mask, config, aux, enabledMask, driven, configured,
                 outRate, timerRate, duty, composed>>

SetMask ==
  /\ \E m \in Masks \ {mask} : mask' = m
  /\ UNCHANGED <<unsupported, armed, kill, config, aux, enabledMask, driven, configured,
                 outRate, timerRate, duty, composed>>

(* mixer_on_param_changed: invalidate_pwm_rates. *)
MixerChanged ==
  /\ \E c \in Configs \ {config} : config' = c
  /\ configured' = FALSE
  /\ UNCHANGED <<unsupported, armed, kill, mask, aux, enabledMask, driven, outRate,
                 timerRate, duty, composed>>

AuxCommand ==
  /\ \E m \in AuxMessages \ {aux} : aux' = m
  /\ UNCHANGED <<unsupported, armed, kill, mask, config, enabledMask, driven, configured,
                 outRate, timerRate, duty, composed>>

Next ==
  \/ PwmOutputStage
  \/ ControlUpdate
  \/ ArmOrDisarm
  \/ KillSwitch
  \/ SetMask
  \/ MixerChanged
  \/ AuxCommand

(* RC stages and IMU samples come again and again. *)
Spec == Init /\ [][Next]_vars /\ WF_vars(PwmOutputStage) /\ WF_vars(ControlUpdate)

-----------------------------------------------------------------------------
(* Properties *)

MotorsStopped ==
  \A c \in driven \cap Mixed : config.type[c] = "Motor" => duty[c] = "stop"

(* Once a vehicle stays disarmed its motors are stopped again and again,     *)
(* through kill switches that are released onto registers which still hold a *)
(* flying command, masks that enable such a channel and mixers that turn a   *)
(* channel into a motor.  It takes the control updates of a live IMU: the    *)
(* PWM output stage alone stops nothing.  And it takes channels that do not  *)
(* fail, as what was enabled before one did is not recorded, nor written to. *)
DisarmReachesMotors == unsupported = {} /\ <>[](~ armed) => []<>MotorsStopped

(* The record of enabled channels names none that is not driven, also after  *)
(* a channel failed, which ends the stage halfway and is not told anybody,   *)
(* so that no channel is taken for enabled and never tried again; and where  *)
(* all can be enabled it is what the driver really drives, through any       *)
(* sequence of masks, kills and partial changes, so a kill or a mask turns   *)
(* off every channel there is to turn off (sync_pwm_output_state).           *)
RecordIsDriven ==
  /\ enabledMask \subseteq driven
  /\ unsupported = {} => enabledMask = driven

(* A kill switch that the RC stage has seen leaves no channel driven until   *)
(* it is released, whatever is armed, masked or commanded.                   *)
KilledStaysOff ==
  [][kill /\ kill' /\ driven = {} => driven' = {}]_vars

(* A kill switch that stays on is obeyed, unless a channel that fails has    *)
(* kept others from being recorded.                                          *)
KillObeyed == unsupported = {} /\ <>[]kill => <>[](driven = {})

(* Rates that were accepted are in force: each pulse is computed for the     *)
(* rate its timer runs at, through mixers that are refused halfway in        *)
(* between.                                                                  *)
RatesInForce ==
  configured => \A c \in Mixed : /\ outRate[c] = Effective(config.rate[c])
                                 /\ timerRate[TimerOf[c]] = outRate[c]

(* compose_pwm_outputs_forces_aux_motors_low_when_disarmed                   *)
(* (pwm/output_sync.rs:598): a motor on an auxiliary channel is stopped by   *)
(* the control update of a disarmed vehicle.                                 *)
AuxMotorsLowWhenDisarmed ==
  [][ControlUpdate /\ ~ armed /\ enabledMask # {} =>
       \A c \in driven : OutputType(c) = "Motor" => duty'[c] = "stop"]_vars
=============================================================================
