---------------------------- MODULE LatestValue ----------------------------
(***************************************************************************)
(* What a sensor queue between the cores promises its reader: the newest   *)
(* value put since the last look, or nothing.                              *)
(***************************************************************************)
EXTENDS Integers

CONSTANT Queues
VARIABLES
  put,      \* values put so far, which are numbered from 1
  latest,   \* the newest value not yet taken, 0 if none
  taken     \* the value taken last

Zero == [q \in Queues |-> 0]
Init == put = Zero /\ latest = Zero /\ taken = Zero

Put(q) ==
  /\ put' = [put EXCEPT ![q] = @ + 1]
  /\ latest' = [latest EXCEPT ![q] = put[q] + 1]
  /\ UNCHANGED taken

\* Core 0 looks at several queues in one step.
Take ==
  \E looked \in SUBSET Queues :
    LET found == {q \in looked : latest[q] # 0}
    IN  /\ taken' = [q \in Queues |-> IF q \in found THEN latest[q] ELSE taken[q]]
        /\ latest' = [q \in Queues |-> IF q \in found THEN 0 ELSE latest[q]]
        /\ UNCHANGED put

Next == (\E q \in Queues : Put(q)) \/ Take
Spec == Init /\ [][Next]_<<put, latest, taken>>
=============================================================================
