-------------------------- MODULE MCBatchProvision --------------------------
(* Values of the constants for the run of BatchProvision. *)
EXTENDS BatchProvision, TLC

CONSTANTS j1, j2, u1, u2

MembersOfJob == j1 :> {1, 2} @@ j2 :> {1}

OwnerOfTask == <<j1, 1>> :> u1 @@ <<j1, 2>> :> u2 @@ <<j2, 1>> :> u2
=============================================================================
