------------------------------- MODULE Mixer --------------------------------
(***************************************************************************)
(* The matrix mixer (crates/veloxity_core/src/mixer/matrix.rs) and the      *)
(* parameters it is built from: a choice of a canned or of a custom mixer,  *)
(* the parameters that describe the custom one, and the copy of a canned    *)
(* one that is reflected into them.  Parameter requests, the change queue   *)
(* and the reactions are those of params/service.rs and params/reactions.rs.*)
(* A matrix, a table of output types and a table of rates is a token, since *)
(* the choice among them is the question; the mixed numbers are integers.   *)
(***************************************************************************)
EXTENDS Integers, FiniteSets

CONSTANTS
  Canned,     \* the mixers the program brings along (0..10)
  FixedWing,  \* those of them that are for aeroplanes
  Capacity,   \* PARAM_CHANGED_QUEUE_CAPACITY
  Outputs,    \* the mixer's motors
  Raw,        \* what a row times a command may give, in halves of full scale
  Overrides   \* which axes are the pilot's: get_rc_override()

MixerAssumption ==
  /\ FixedWing \subseteq Canned
  /\ Canned \cap {"custom", "beyond", "negative"} = {}
  /\ Capacity \in Nat
  /\ IsFiniteSet(Outputs)
  /\ Raw \subseteq Int
  /\ Overrides \subseteq SUBSET {"T", "X", "Y", "Z"}

VARIABLES
  params,   \* the mixer's parameters
  changes,  \* which kinds of parameters the queued change events name
  queued,   \* how many of them are queued
  lost,     \* history: a change found the queue full since the last full refresh
  mixer,    \* MatrixMixer
  run       \* the last MixerRun, with whose axes and which rows it was made from

vars == <<params, changes, queued, lost, mixer, run>>

(* PRIMARY_MIXER and SECONDARY_MIXER: 0..10, 11, 12 and more, less than 0. *)
Choices == Canned \cup {"custom", "beyond", "negative"}

(* Contents of the tables: a canned one's, or an operator's own. *)
Tables == Canned \cup {"zero", "edited", "quadx"}

(* A canned matrix as the primary one, or with all of it inverted.          *)
Matrices == ({"canned", "inverted"} \X Canned) \cup {<<t, t>> : t \in {"zero", "edited", "quadx"}}

MixerParamSets ==
  [primary: Choices, secondary: Choices, out: Tables, pri: Matrices, sec: Matrices,
   fixedWing: BOOLEAN]

Mixers ==
  [status: {"Healthy", "InvalidMixer"}, out: Tables, pri: Matrices, sec: Matrices,
   fixedWing: BOOLEAN]

CannedMatrix(choice) == <<"canned", choice>>

(* canned_secondary_mixer inverts what canned_mixer leaves as it is for      *)
(* aeroplanes.                                                               *)
CannedSecondary(choice) ==
  IF choice \in FixedWing THEN <<"inverted", choice>> ELSE CannedMatrix(choice)

(* The factory settings, which choose no mixer. *)
DefaultParams ==
  [primary |-> "negative", secondary |-> "negative", out |-> "zero",
   pri |-> <<"zero", "zero">>, sec |-> <<"zero", "zero">>, fixedWing |-> FALSE]

-----------------------------------------------------------------------------
(* The mixer and its parameters *)

(* refresh_mixer_config: an invalid choice leaves all else as it was, and    *)
(* one below zero flies the plain quadrotor.                                 *)
RefreshMixerConfig(m, p) ==
  IF p.primary = "beyond" THEN [m EXCEPT !.status = "InvalidMixer"]
  ELSE LET pri == CASE p.primary \in Canned  -> CannedMatrix(p.primary)
                    [] p.primary = "custom"  -> p.pri
                    [] OTHER                 -> <<"quadx", "quadx">>
           sec == CASE p.secondary \in Canned -> CannedSecondary(p.secondary)
                    [] p.secondary = "custom" -> p.sec
                    [] OTHER                  -> pri
       IN [m EXCEPT
             !.status = "Healthy",
             !.out = CASE p.primary \in Canned -> p.primary
                       [] p.primary = "custom" -> p.out
                       [] OTHER                -> "quadx",
             !.pri = pri,
             !.sec = sec]

RefreshRuntimeParams(m, p) ==
  [m EXCEPT !.fixedWing = p.fixedWing \/ p.primary \in FixedWing]

NewMixer(p) ==
  LET blank == [status |-> "Healthy", out |-> "quadx", pri |-> <<"quadx", "quadx">>,
                sec |-> <<"quadx", "quadx">>, fixedWing |-> FALSE]
  IN  RefreshRuntimeParams(RefreshMixerConfig(blank, p), p)

(* Mutated form: only a choice of mixer refreshes it. *)
OnParamsChangedChoice(m, p, ids) ==
  IF "choice" \in ids THEN RefreshRuntimeParams(RefreshMixerConfig(m, p), p)
  ELSE IF "runtime" \in ids THEN RefreshRuntimeParams(m, p) ELSE m

(* on_param_changed for every queued change; each reads all the parameters.  *)
OnParamsChanged(m, p, ids) ==
  IF ids \cap {"choice", "element"} # {}
  THEN RefreshRuntimeParams(RefreshMixerConfig(m, p), p)
  ELSE IF "runtime" \in ids THEN RefreshRuntimeParams(m, p) ELSE m

(* sync_reflected_mixer_params, for the choice that was set: the primary one *)
(* is reflected into the secondary's parameters too when there is none.      *)
ReflectPrimary(p) ==
  IF p.primary \notin Canned THEN p
  ELSE [p EXCEPT !.out = p.primary, !.pri = CannedMatrix(p.primary),
                 !.sec = IF p.secondary \in {"beyond", "negative"}
                         THEN CannedMatrix(p.primary) ELSE @]

ReflectSecondary(p) ==
  IF p.secondary \notin Canned THEN p
  ELSE [p EXCEPT !.sec = CannedSecondary(p.secondary)]

(* World::init after MatrixMixer::new, for stored parameters. *)
Init ==
  /\ \E stored \in {DefaultParams} \cup
                   {[DefaultParams EXCEPT !.primary = c] : c \in Canned} :
       /\ params = ReflectSecondary(ReflectPrimary(stored))
       /\ mixer = NewMixer(stored)
  /\ changes = {}
  /\ queued = 0
  /\ lost = FALSE
  /\ run = [status |-> "Healthy", overridden |-> {}, rows |-> [a \in {"T", "X", "Y", "Z"} |-> "none"],
            value |-> [o \in Outputs |-> 0], full |-> 2]

-----------------------------------------------------------------------------
(* Parameter requests *)

(* emit_param_change: the event of a change that does not fit is dropped. *)
EmitParamChange(kind) ==
  IF queued < Capacity
  THEN /\ changes' = changes \cup {kind}
       /\ queued' = queued + 1
       /\ UNCHANGED lost
  ELSE /\ lost' = TRUE
       /\ UNCHANGED <<changes, queued>>

(* apply_param_requests for PRIMARY_MIXER and SECONDARY_MIXER: a value that  *)
(* is set already is only reflected again.                                   *)
SetPrimary(choice) ==
  /\ params' = ReflectPrimary([params EXCEPT !.primary = choice])
  /\ IF choice = params.primary THEN UNCHANGED <<changes, queued, lost>>
     ELSE EmitParamChange("choice")
  /\ UNCHANGED <<mixer, run>>

SetSecondary(choice) ==
  /\ params' = ReflectSecondary([params EXCEPT !.secondary = choice])
  /\ IF choice = params.secondary THEN UNCHANGED <<changes, queued, lost>>
     ELSE EmitParamChange("choice")
  /\ UNCHANGED <<mixer, run>>

(* A request for an element of a matrix, an output type or a rate. *)
SetElement ==
  /\ \E p \in {[params EXCEPT !.out = "edited"],
               [params EXCEPT !.pri = <<"edited", "edited">>],
               [params EXCEPT !.sec = <<"edited", "edited">>]} :
       /\ p # params
       /\ params' = p
  /\ EmitParamChange("element")
  /\ UNCHANGED <<mixer, run>>

(* A request for one of the parameters that mix itself looks at. *)
SetRuntime ==
  /\ params' = [params EXCEPT !.fixedWing = ~ @]
  /\ EmitParamChange("runtime")
  /\ UNCHANGED <<mixer, run>>

(* apply_param_reactions at the end of the stage. *)
ApplyParamReactions ==
  /\ changes # {}
  /\ mixer' = OnParamsChanged(mixer, params, changes)
  /\ changes' = {}
  /\ queued' = 0
  /\ UNCHANGED <<params, lost, run>>

(* ReadParams, SetParamDefaults: the table is replaced, mark_all_params_changed *)
(* and the reaction to it, which forgets queued changes.                        *)
FullRefresh ==
  /\ \E p \in {DefaultParams, [DefaultParams EXCEPT !.primary = "custom"]} \cup
             {ReflectPrimary([DefaultParams EXCEPT !.primary = c]) : c \in Canned} :
       /\ params' = p
       /\ mixer' = RefreshRuntimeParams(RefreshMixerConfig(mixer, p), p)
  /\ changes' = {}
  /\ queued' = 0
  /\ lost' = FALSE
  /\ UNCHANGED run

-----------------------------------------------------------------------------
(* Mixing *)

Axes == {"T", "X", "Y", "Z"}

(* use_primary_row_for_override: the attitude's rows are chosen together. *)
SelectedRow(axis, overridden) ==
  IF (axis = "T" /\ "T" \in overridden) \/ (axis # "T" /\ overridden \cap {"X", "Y", "Z"} # {})
  THEN "primary" ELSE "secondary"

Abs(n) == IF n < 0 THEN - n ELSE n

(* max_output: full scale is 2, unless a motor is asked for more. *)
FullScale(motors, value) ==
  LET over == {Abs(value[o]) : o \in {o \in motors : Abs(value[o]) > 2}}
  IN  IF over = {} THEN 2 ELSE CHOOSE x \in over : \A y \in over : y <= x

Stopped(status, overridden) ==
  [status |-> status, overridden |-> overridden, rows |-> [a \in Axes |-> "none"],
   value |-> [o \in Outputs |-> 0], full |-> 2]

(* mix: the value of each output, and the scale the motors' are divided by.  *)
(* The control stage never runs between a request and its reactions.         *)
Mix ==
  /\ changes = {}
  /\ \E overridden \in Overrides, value \in [Outputs -> Raw] :
       run' = IF mixer.status = "InvalidMixer" THEN Stopped(mixer.status, overridden)
              ELSE [status |-> mixer.status, overridden |-> overridden,
                    rows |-> [a \in Axes |-> SelectedRow(a, overridden)],
                    value |-> value, full |-> FullScale(Outputs, value)]
  /\ UNCHANGED <<params, changes, queued, lost, mixer>>

Next ==
  \/ \E c \in Choices : SetPrimary(c) \/ SetSecondary(c)
  \/ SetElement
  \/ SetRuntime
  \/ ApplyParamReactions
  \/ FullRefresh
  \/ Mix

Spec == Init /\ [][Next]_vars

-----------------------------------------------------------------------------
(* Properties *)

TypeOK ==
  /\ params \in MixerParamSets
  /\ changes \subseteq {"choice", "element", "runtime"}
  /\ queued \in 0..Capacity
  /\ lost \in BOOLEAN
  /\ mixer \in Mixers
  /\ run \in [status: {"Healthy", "InvalidMixer"}, overridden: SUBSET Axes,
             rows: [Axes -> {"none", "primary", "secondary"}],
             value: [Outputs -> Raw \cup {0}], full: Nat]

Settled == changes = {} /\ ~ lost

(* Through any sequence of requests, reflections and refreshes the mixer is  *)
(* the one a restart with the same parameters would build, once the queued   *)
(* changes have been reacted to and none was lost; only while the choice is  *)
(* invalid may the tables of an earlier choice be left, and then none flies. *)
LikeAfterRestart ==
  Settled =>
    IF params.primary = "beyond" THEN mixer.status = "InvalidMixer"
    ELSE mixer = NewMixer(params)

(* Where the operator has chosen a canned mixer and left its elements alone, *)
(* the parameters show the matrices that are flown, the secondary one too.   *)
(* (A secondary choice that is invalid is reflected only by the next primary *)
(* choice, so it is not asked for here.)                                     *)
ShownIsFlown ==
  Settled /\ params.primary \in Canned /\ params.secondary \in Canned
    /\ params.pri # <<"edited", "edited">> /\ params.sec # <<"edited", "edited">>
    => mixer.pri = params.pri /\ mixer.sec = params.sec

(* No motor is commanded beyond full scale, in either direction, whatever    *)
(* matrix an operator enters.                                                *)
MotorsWithinRange ==
  \A o \in Outputs : Abs(run.value[o]) <= run.full

=============================================================================
