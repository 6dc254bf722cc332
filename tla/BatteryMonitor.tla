-------------------------- MODULE BatteryMonitor --------------------------
(* The Pixracer Pro battery monitor: the parameter reactions of the flight  *)
(* loop hand the two multipliers to the ADC task through a signal that      *)
(* holds the latest pair, and the task takes it when a sample begins.       *)
EXTENDS Naturals

CONSTANTS Multipliers,   \* values of the two parameters; 0 leaves the scale alone
          Board,         \* the scale of BOARD_CALIBRATION
          None, Error    \* an empty signal, a failed sample

Measurands == {"voltage", "current"}
Pairs == [Measurands -> Multipliers]

BatteryAssumption ==
  /\ 0 \in Multipliers /\ Board \notin Multipliers
  /\ None # Error /\ None \notin Pairs

VARIABLES
  params,      \* the two multipliers in the parameter table
  changed,     \* param_events holds a change of theirs not reacted to
  signal,      \* MULTIPLIER_SIGNAL
  scale,       \* the task's calibration
  phase,       \* the task: idle, or awaiting a conversion of ADC3 or ADC1
  slot         \* BATTERY_SIGNAL: none, err, or the scales of the reading

vars == <<params, changed, signal, scale, phase, slot>>

(* One type invariant.                                                      *)
TypeOK ==
  /\ params \in Pairs /\ changed \in BOOLEAN
  /\ signal \in Pairs \cup {None}
  /\ scale \in [Measurands -> (Multipliers \ {0}) \cup {Board}]
  /\ phase \in {"idle", "adc3", "adc1"}
  /\ slot \in {None, Error} \cup [Measurands -> (Multipliers \ {0}) \cup {Board}]

(* apply_multiplier for both channels: zero leaves the scale as it is.      *)
Apply(old, pair) == [c \in Measurands |-> IF pair[c] # 0 THEN pair[c] ELSE old[c]]

(* World::new configures the monitor with what the table holds.             *)
Init ==
  /\ params \in Pairs /\ changed = FALSE
  /\ signal = params
  /\ scale = [c \in Measurands |-> Board]
  /\ phase = "idle" /\ slot = None

(* A parameter command changes one multiplier, or a load changes both.      *)
SetParams(p) ==
  /\ p # params
  /\ params' = p /\ changed' = TRUE
  /\ UNCHANGED <<signal, scale, phase, slot>>

(* Mutated form: a pair that was not taken is kept. *)
ReactKeepsPending ==
  /\ changed
  /\ changed' = FALSE
  /\ signal' = IF signal = None THEN params ELSE signal
  /\ UNCHANGED <<params, scale, phase, slot>>

(* apply_param_reactions: both multipliers are handed over whichever of     *)
(* them changed, over a pair the task has not taken yet.                    *)
React ==
  /\ changed
  /\ changed' = FALSE
  /\ signal' = params
  /\ UNCHANGED <<params, scale, phase, slot>>

(* Every 100 ms a sample begins: a new pair is applied, and the reference   *)
(* voltage is converted.                                                    *)
BeginSample ==
  /\ phase = "idle"
  /\ IF signal = None THEN UNCHANGED <<signal, scale>>
     ELSE scale' = Apply(scale, signal) /\ signal' = None
  /\ phase' = "adc3"
  /\ UNCHANGED <<params, changed, slot>>

(* Mutated form: a sample that is given up leaves the last reading. *)
ConversionTimesOutQuiet ==
  /\ phase # "idle"
  /\ phase' = "idle"
  /\ UNCHANGED <<params, changed, signal, scale, slot>>

(* A conversion that does not end in 5 ms gives the sample up.              *)
ConversionTimesOut ==
  /\ phase # "idle"
  /\ phase' = "idle" /\ slot' = Error
  /\ UNCHANGED <<params, changed, signal, scale>>

ConvertReference ==
  /\ phase = "adc3"
  /\ phase' = "adc1"
  /\ UNCHANGED <<params, changed, signal, scale, slot>>

(* The reading goes out, or an error when the reference read zero.          *)
Reference == BOOLEAN   \* measured_vdda: a reference count that is not zero

ConvertBattery ==
  /\ phase = "adc1"
  /\ phase' = "idle"
  /\ \E known \in Reference : slot' = IF known THEN scale ELSE Error
  /\ UNCHANGED <<params, changed, signal, scale>>

(* The flight loop takes the latest result.                                 *)
TakeBattery ==
  /\ slot # None
  /\ slot' = None
  /\ UNCHANGED <<params, changed, signal, scale, phase>>

Next ==
  \/ \E p \in Pairs : SetParams(p)
  \/ React \/ BeginSample \/ ConversionTimesOut \/ ConvertReference
  \/ ConvertBattery \/ TakeBattery

Spec == Init /\ [][Next]_vars

(* The timer of the sampling period and those of the conversions fire; the  *)
(* converters themselves need not ever finish.                              *)
FairSpec == Spec /\ WF_vars(BeginSample) /\ WF_vars(ConversionTimesOut \/ ConvertBattery)

-----------------------------------------------------------------------------
(* Once the task has taken what was handed over, it scales with the         *)
(* parameters as they are, each that is not zero, however many changes came *)
(* while a sample was running.                                              *)
ScalesAsConfigured ==
  (signal = None /\ ~changed) =>
    \A c \in Measurands : params[c] # 0 => scale[c] = params[c]

(* The same of the readings: one published after the pair was taken, with   *)
(* no change since, is scaled by the parameters.                            *)
ReadingAsConfigured ==
  [][slot' \notin {None, Error, slot} /\ signal = None /\ ~changed =>
       \A c \in Measurands : params[c] # 0 => slot'[c] = params[c]]_vars

(* The monitor reports again and again although no conversion ever ends.    *)
KeepsReporting == []<>(slot # None)

=============================================================================
