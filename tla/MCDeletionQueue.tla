-------------------------- MODULE MCDeletionQueue --------------------------
(* Values of the constants for the runs of DeletionQueue. *)
EXTENDS DeletionQueue

CONSTANTS r1, r2, v1, a1, w1, l1

\* Two requests for the same machine.
SameMachine == [r \in Row |-> v1]
=============================================================================
