---------------------------- MODULE MCTaskRunner ----------------------------
(* Values of the constants for the run of TaskRunner. *)
EXTENDS TaskRunner, TLC

CONSTANTS a, b, h1, h2, h3

RetriesOfA == [i \in Id |-> IF i = a THEN 1 ELSE 0]
=============================================================================
