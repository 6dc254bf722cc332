----------------------------- MODULE SimParams -----------------------------
(***************************************************************************)
(* The parameter file of the simulated firmware (ffi.rs): written whole    *)
(* into a temporary file and renamed, read line by line when the firmware  *)
(* is created again. The process may be killed at any step and the disk    *)
(* may refuse any write.                                                   *)
(***************************************************************************)
EXTENDS Integers, Sequences, SequencesExt

CONSTANTS
  Names,      \* PARAM_DEFINITIONS in order: a sequence of names
  Kind,       \* name -> "Int" or "Float"
  OldKind,    \* kinds in the version that may have written the file before
  Values,     \* tenths: 10 prints as "1" for both kinds, 15 as "1.5"
  Default     \* name -> default

NameSet == Range(Names)

\* Each parameter has one definition; the defaults are values of their kinds.
SimParamsAssumption ==
  /\ Names \in Seq(NameSet) /\ Names # <<>> /\ IsInjective(Names)
  /\ Kind \in [NameSet -> {"Int", "Float"}]
  /\ Values \subseteq Nat
  /\ Default \in [NameSet -> Values]
  /\ \A n \in NameSet : Kind[n] = "Int" => Default[n] % 10 = 0

VARIABLES
  running, params,   \* the firmware and its parameters
  tmp, file,         \* the files: a sequence of lines <<name, text>>
  step,              \* of write_params_to_path: "idle", "fill", "rename"
  acked              \* history: parameters of the last save that succeeded, or the defaults

vars == <<running, params, tmp, file, step, acked>>

-----------------------------------------------------------------------------
\* format_param_value and parse_param_value: the text of a number, read as
\* the kind of the definition.
Format(v) == IF v % 10 = 0 THEN <<"whole", v \div 10>> ELSE <<"point", v>>

Parse(text, kind) ==
  CASE text[1] = "whole" -> {text[2] * 10}
    [] text[1] = "point" /\ kind = "Float" -> {text[2]}
    [] OTHER -> {}

\* read_params_from_path, over the defaults: of the lines with a parameter's
\* name and a value of its kind the last one counts.
ReadParams(lines) ==
  [n \in NameSet |->
     LET mine == {i \in DOMAIN lines : lines[i][1] = n /\ Parse(lines[i][2], Kind[n]) # {}}
     IN  IF mine = {} THEN Default[n]
         ELSE CHOOSE v \in Parse(lines[Max(mine)][2], Kind[n]) : TRUE]

Lines(ps) == [i \in 1 .. Len(Names) |-> <<Names[i], Format(ps[Names[i]])>>]

\* Values of the old version, in its kinds.
OldValues == {ps \in [NameSet -> Values] : \A n \in NameSet : OldKind[n] = "Int" => ps[n] % 10 = 0}

Init ==
  /\ running = FALSE /\ params = Default /\ tmp = <<>> /\ step = "idle"
  /\ \E ps \in OldValues : file = Lines(ps) /\ acked = ReadParams(Lines(ps))

-----------------------------------------------------------------------------
(* veloxity_sim_create: defaults, then the file. *)
Create ==
  /\ ~running /\ running' = TRUE /\ step' = "idle"
  /\ params' = ReadParams(file)
  /\ UNCHANGED <<tmp, file, acked>>

SetParam(n, v) ==
  /\ running /\ step = "idle" /\ (Kind[n] = "Int" => v % 10 = 0)
  /\ params' = [params EXCEPT ![n] = v]
  /\ UNCHANGED <<running, tmp, file, step, acked>>

(* write_params_to_path: fs::write truncates the temporary file ... *)
Begin ==
  /\ running /\ step = "idle" /\ step' = "fill" /\ tmp' = <<>>
  /\ UNCHANGED <<running, params, file, acked>>

\* ... fills it ...
Fill ==
  /\ running /\ step = "fill"
  /\ tmp' = Append(tmp, Lines(params)[Len(tmp) + 1])
  /\ step' = IF Len(tmp) + 1 = Len(Names) THEN "rename" ELSE "fill"
  /\ UNCHANGED <<running, params, file, acked>>

(* Mutated form: the new file takes the old one's place half written. *)
RenameEarly ==
  /\ running /\ step \in {"fill", "rename"} /\ step' = "idle"
  /\ file' = tmp /\ tmp' = <<>> /\ acked' = params
  /\ UNCHANGED <<running, params>>

\* ... and it takes the place of the old one.
Rename ==
  /\ running /\ step = "rename" /\ step' = "idle"
  /\ file' = tmp /\ tmp' = <<>> /\ acked' = params
  /\ UNCHANGED <<running, params>>

(* The write or the rename fails: write_params answers false. *)
Refused ==
  /\ running /\ step # "idle" /\ step' = "idle"
  /\ UNCHANGED <<running, params, tmp, file, acked>>

Killed ==
  /\ running /\ running' = FALSE /\ step' = "idle"
  /\ UNCHANGED <<params, tmp, file, acked>>

Next ==
  \/ Create \/ Begin \/ Fill \/ Rename \/ Refused \/ Killed
  \/ \E n \in NameSet, v \in Values : SetParam(n, v)
Spec == Init /\ [][Next]_vars

-----------------------------------------------------------------------------
(* A firmware created now reads back the last save that succeeded: neither *)
(* a kill nor a refused write leaves a part of a file to be read.          *)
SavedIsReadBack == ReadParams(file) = acked

(* Whatever version wrote the file, a parameter has a value of its kind.   *)
ValuesOfTheirKind == \A n \in NameSet : Kind[n] = "Int" => params[n] % 10 = 0
=============================================================================
