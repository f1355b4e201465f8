-------------------------- MODULE MCMigrationQueue --------------------------
(* Values of the constants for the runs of MigrationQueue. *)
EXTENDS MigrationQueue, TLC

CONSTANTS r1, n1, n2, p1, p2, w1, w3

HomeN1 == [r \in Request |-> n1]

\* Each loop has a pool of its own, of one worker.
Pools == [w \in Worker |-> IF w = w3 THEN p2 ELSE p1]
=============================================================================
