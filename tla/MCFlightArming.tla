--------------------------- MODULE MCFlightArming ---------------------------
(* Two instances of FlightCore under run_once for one run, chosen at the    *)
(* start: the calibrations an arming waits for, and every source of an error *)
(* flag. All of both at once would be too many states to visit.             *)
EXTENDS MCFlightCore

VARIABLE subject    \* the instance that moves, chosen at the start

MCArmingSources == MCGyroSources \cup MCErrorSources
MCArmingParams  == MCGyroParams \cup MCErrorParams

Calibrations == INSTANCE FlightCore WITH
  Sources <- MCGyroSources, MutableParams <- MCGyroParams

Errors == INSTANCE FlightCore WITH
  Sources <- MCErrorSources, MutableParams <- MCErrorParams

-----------------------------------------------------------------------------
SuiteInit ==
  \/ subject = "calibrations" /\ Calibrations!Init
  \/ subject = "errors" /\ Errors!Init

SuiteNext ==
  /\ subject' = subject
  /\ \/ subject = "calibrations" /\ Calibrations!Next
     \/ subject = "errors" /\ Errors!Next

SuiteSpec == SuiteInit /\ [][SuiteNext]_<<subject, vars>>
=============================================================================
