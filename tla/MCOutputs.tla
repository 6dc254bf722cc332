----------------------------- MODULE MCOutputs ------------------------------
(* What leads to the actuators, one component at a time: the PWM outputs,   *)
(* the mixer, the battery monitor. They share no state, so a run of one     *)
(* beside the others standing still is all there is to see.                 *)
EXTENDS PwmOutput, TLC

CONSTANT Subjects   \* the subjects that a run looks at

CONSTANTS None, Error   \* model values

\* those of the mixer
CONSTANTS Canned, FixedWing, Capacity, Outputs, Raw, Overrides

VARIABLE subject    \* the one that moves, chosen at the start

\* the mixer and its parameters
VARIABLES
  mixer_params, mixer_changes, mixer_queued, mixer_lost, mixer_mixer,
  mixer_run
mixerVars ==
  <<mixer_params, mixer_changes, mixer_queued, mixer_lost, mixer_mixer,
    mixer_run>>

\* the battery monitor
VARIABLES
  battery_params, battery_changed, battery_signal, battery_scale,
  battery_phase, battery_slot
batteryVars ==
  <<battery_params, battery_changed, battery_signal, battery_scale,
    battery_phase, battery_slot>>

suiteVars == <<subject, vars, mixerVars, batteryVars>>

-----------------------------------------------------------------------------
(* Three channels of two timers, the last one above the mixer's outputs. *)
MCChannels == {0, 1, 2}
MCMixed    == {0, 1}
MCTimerOf  == (0 :> "tim1") @@ (1 :> "tim2") @@ (2 :> "tim2")
(* Also where the last one cannot be enabled. *)
MCUnsupportedSets == {{}, {2}}
MCMasks    == {{0, 1, 2}, {1}}
Config(t0, t1, r0, r1) ==
  [type |-> (0 :> t0) @@ (1 :> t1), rate |-> (0 :> r0) @@ (1 :> r1)]
MCConfigs == {Config("Motor", "Motor", "490", "0"), Config("Servo", "Aux", "50", "dshot")}
(* Half as much again as full scale, two and a half times it the other way. *)
MCRaw       == {-5, 3}
MCOverrides == {{"X"}}
MCAux   == {[c \in MCChannels |-> "Disabled"],
            [c \in MCChannels |-> IF c = 2 THEN "Motor" ELSE "Servo"]}

Mixing == INSTANCE Mixer WITH
  Canned <- Canned, FixedWing <- FixedWing, Capacity <- Capacity,
  Outputs <- Outputs, Raw <- Raw, Overrides <- Overrides,
  params <- mixer_params, changes <- mixer_changes, queued <- mixer_queued,
  lost <- mixer_lost, mixer <- mixer_mixer, run <- mixer_run

Battery == INSTANCE BatteryMonitor WITH
  Multipliers <- {0, 1, 2}, Board <- 9, None <- None, Error <- Error,
  params <- battery_params, changed <- battery_changed,
  signal <- battery_signal, scale <- battery_scale, phase <- battery_phase,
  slot <- battery_slot

-----------------------------------------------------------------------------
(* Every other component stands still. *)
Still(me) ==
  /\ subject' = subject
  /\ IF me = "pwm" THEN TRUE ELSE UNCHANGED vars
  /\ IF me = "mixer" THEN TRUE ELSE UNCHANGED mixerVars
  /\ IF me = "battery" THEN TRUE ELSE UNCHANGED batteryVars

ASSUME MixerAssumed == Mixing!MixerAssumption
ASSUME BatteryAssumed == Battery!BatteryAssumption

One(S) == CHOOSE x \in S : TRUE

(* What a component that stands still looks like does not matter. *)
SuiteInit ==
  /\ subject \in Subjects
  /\ Init
  /\ Mixing!Init
  /\ Battery!Init
  /\ subject # "pwm" =>
       unsupported = One(UnsupportedSets) /\ mask = One(Masks) /\ config = One(Configs)
  /\ subject # "mixer" => mixer_params = Mixing!DefaultParams
  /\ subject # "battery" => battery_params = One(Battery!Pairs)

SuiteNext ==
  \/ subject = "pwm" /\ Next /\ Still("pwm")
  \/ subject = "mixer" /\ Mixing!Next /\ Still("mixer")
  \/ subject = "battery" /\ Battery!Next /\ Still("battery")

(* The fairness of the subject's own specification. *)
SuiteSpec ==
  /\ SuiteInit /\ [][SuiteNext]_suiteVars
  /\ WF_suiteVars(\/ subject = "pwm" /\ PwmOutputStage /\ Still("pwm")
                  \/ subject = "battery" /\ Battery!BeginSample /\ Still("battery"))
  /\ WF_suiteVars(\/ subject = "pwm" /\ ControlUpdate /\ Still("pwm")
                  \/ /\ subject = "battery" /\ Still("battery")
                     /\ Battery!ConversionTimesOut \/ Battery!ConvertBattery)

-----------------------------------------------------------------------------
(* RecordIsDriven (pwm/output_sync.rs) is PwmOutput's own. *)

(* The stages of the PWM outputs (pwm/output_sync.rs, control.rs): a kill    *)
(* that was seen leaves nothing driven until it is released, and rates that  *)
(* were accepted are those the timers run at.                                *)
OutputsObey ==
  /\ KilledStaysOff
  /\ [](TypeOK /\ RatesInForce)

(* The mixer (mixer/matrix.rs, params/service.rs, params/reactions.rs): it   *)
(* is the one a restart would build, the parameters show what flies, and no  *)
(* motor is asked for more than full scale.                                  *)
MixerSound ==
  Mixing!TypeOK /\ Mixing!LikeAfterRestart /\ Mixing!ShownIsFlown /\ Mixing!MotorsWithinRange

(* The battery monitor (boards/pixracerpro/src/battery.rs): it scales, and   *)
(* publishes, with the multipliers as they are.                              *)
BatteryScales ==
  /\ [](Battery!TypeOK /\ Battery!ScalesAsConfigured)
  /\ Battery!ReadingAsConfigured

(* What must come in the end: a kill that stays is obeyed, a vehicle that    *)
(* stays disarmed has its motors stopped again and again (control.rs), and   *)
(* the battery is reported although no conversion ever ends (battery.rs).    *)
OutputsComeRound ==
  /\ subject = "pwm" => KillObeyed /\ DisarmReachesMotors
  /\ subject = "battery" => Battery!KeepsReporting
=============================================================================
