---------------------------- MODULE MCParameters ----------------------------
(* The parameters, one component at a time: their image on the SD card, the *)
(* companion's requests for them (and its commands), the simulated          *)
(* firmware's file. They share no state.                                    *)
EXTENDS ParamStorage

CONSTANT Subjects   \* the subjects that a run looks at

CONSTANTS Names, Kind, OldKind, Values, SimDefault   \* of the simulated firmware's file

VARIABLE subject    \* the one that moves, chosen at the start

\* the companion's requests
VARIABLES
  req_inbox, req_fc, req_gcs
requestsVars ==
  <<req_inbox, req_fc, req_gcs>>

\* the parameter file of the simulated firmware
VARIABLES
  sim_running, sim_params, sim_tmp, sim_file, sim_step, sim_acked
simVars ==
  <<sim_running, sim_params, sim_tmp, sim_file, sim_step, sim_acked>>

suiteVars == <<subject, vars, requestsVars, simVars>>

-----------------------------------------------------------------------------
MCNames   == <<"a", "b", "c">>
MCKind    == [n \in {"a", "b", "c"} |-> IF n = "b" THEN "Float" ELSE "Int"]
MCOldKind == [n \in {"a", "b", "c"} |-> IF n = "a" THEN "Float" ELSE "Int"]
MCDefault == [n \in {"a", "b", "c"} |-> 10]

(* Storage as it is configured, and with a card that works and is in time. *)

InTime == INSTANCE ParamStorage WITH
  Stored <- Stored, MaxValue <- MaxValue, CardFails <- FALSE, Slow <- FALSE,
  Upgrades <- FALSE, MaxRequests <- MaxRequests, MaxVersion <- MaxVersion,
  MaxRestarts <- MaxRestarts

Sync == INSTANCE Requests WITH
  NumParams <- 2, MaxValue <- 1,
  Commands <- {"calibrate", "defaults", "read", "write"}, Targets <- {1, 0},
  ChangeCap <- 8, RespCap <- 3, InboxCap <- 2, LogCap <- 2,
  Realtime <- TRUE, Faults <- FALSE, MaxSent <- 3, inbox <- req_inbox,
  fc <- req_fc, gcs <- req_gcs

Answers == INSTANCE Requests WITH
  NumParams <- 3, MaxValue <- 1,
  Commands <- {"version", "rc_trim", "reboot"}, Targets <- {1},
  ChangeCap <- 8, RespCap <- 3, InboxCap <- 2, LogCap <- 1,
  Realtime <- TRUE, Faults <- FALSE, MaxSent <- 2, inbox <- req_inbox,
  fc <- req_fc, gcs <- req_gcs

Fault == INSTANCE Requests WITH
  NumParams <- 2, MaxValue <- 1, Commands <- {"origin"}, Targets <- {1},
  ChangeCap <- 8, RespCap <- 2, InboxCap <- 2, LogCap <- 1,
  Realtime <- FALSE, Faults <- TRUE, MaxSent <- 2, inbox <- req_inbox,
  fc <- req_fc, gcs <- req_gcs

Sim == INSTANCE SimParams WITH
  Names <- Names, Kind <- Kind, OldKind <- OldKind, Values <- Values,
  Default <- SimDefault, running <- sim_running, params <- sim_params,
  tmp <- sim_tmp, file <- sim_file, step <- sim_step, acked <- sim_acked

-----------------------------------------------------------------------------
(* Every other component stands still. *)
Still(me) ==
  /\ subject' = subject
  /\ IF me = "storage" THEN TRUE ELSE UNCHANGED vars
  /\ IF me = "requests" THEN TRUE ELSE UNCHANGED requestsVars
  /\ IF me = "sim" THEN TRUE ELSE UNCHANGED simVars

ASSUME Sync!CapsAssumption
ASSUME Answers!CapsAssumption
ASSUME Fault!CapsAssumption
ASSUME SimAssumed == Sim!SimParamsAssumption

SuiteInit ==
  /\ subject \in Subjects
  /\ Init
  /\ CASE subject = "answers" -> Answers!Init
       [] subject = "fault"   -> Fault!Init
       [] OTHER               -> Sync!Init
  /\ Sim!Init
  /\ subject # "sim" => sim_file = Sim!Lines(SimDefault)

SuiteNext ==
  \/ subject = "storage" /\ Next /\ Still("storage")
  \/ subject = "in_time" /\ InTime!Next /\ Still("storage")
  \/ subject = "sync" /\ Sync!Next /\ Still("requests")
  \/ subject = "answers" /\ Answers!Next /\ Still("requests")
  \/ subject = "fault" /\ Fault!Next /\ Still("requests")
  \/ subject = "sim" /\ Sim!Next /\ Still("sim")

(* As much of the subjects' fairness as their promises need: the main loop's *)
(* timeout passes even if nothing of the SD task ever runs.                  *)
SuiteSpec ==
  /\ SuiteInit /\ [][SuiteNext]_suiteVars
  /\ WF_suiteVars(\/ subject = "answers" /\ Still("requests") /\ Answers!Stage
                  \/ subject = "fault" /\ Fault!Stage /\ Still("requests"))
  /\ WF_suiteVars(\/ subject = "storage" /\ Timeout /\ Still("storage")
                  \/ subject = "answers" /\ Answers!SendResponses /\ Still("requests")
                  \/ subject = "fault" /\ Fault!SendResponses /\ Still("requests"))

-----------------------------------------------------------------------------
(* AcknowledgedIsOnCard and TableIsOneImage are ParamStorage's own. *)

(* The main loop is never stuck on the card (params/storage.rs), and each    *)
(* command and a hard error kept over a reset are answered and heard         *)
(* (command/service.rs, comm.rs) or the response was refused for room.       *)
Answered ==
  /\ subject = "storage" => MainLoopReturns
  /\ subject = "answers" => Answers!CommandAnswered
  /\ subject = "fault" => Fault!HardErrorHeard

(* The three tables of parameters agree (params/service.rs): what is in      *)
(* force, what the controller holds and what the companion was told last;    *)
(* and a list leaves none out.                                               *)
TablesAgree ==
  /\ subject = "sync" => Sync!TypeOK /\ Sync!InForceIsTable /\ Sync!ReportsAreCurrent
  /\ subject = "answers" => Answers!TypeOK /\ Answers!ListLeavesNoneOut
  /\ subject = "fault" => Fault!TypeOK

(* What was saved is found again after a restart, on a card that works in    *)
(* time (params/storage.rs) and in the simulated firmware's file, through    *)
(* kills and refused writes (sim/firmware/src/ffi.rs).                       *)
KeptOverRestarts ==
  /\ TypeOK
  /\ subject = "in_time" => StartRestoresCard
  /\ subject = "sim" => Sim!SavedIsReadBack /\ Sim!ValuesOfTheirKind
=============================================================================
