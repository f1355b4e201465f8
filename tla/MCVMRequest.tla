---------------------------- MODULE MCVMRequest ----------------------------
(* Values of the constants for the runs of VMRequest. *)
EXTENDS VMRequest, TLC

CONSTANTS r1, r2, s1, s2, t1, t2, d1, v1, v2, v3, i1, i2, i3

\* Every request asks for a hostname of its own.
OwnHost == [r \in Request |-> r]

\* Nothing makes hostnames unique: all requests ask for the same.
SameHost == [r \in Request |-> "lab"]

\* Machines, addresses and requests are interchangeable; CHOOSE is applied to
\* threads only, which are left alone.
Symmetry == Permutations(Request) \cup Permutations(Vmid) \cup Permutations(Ip)
=============================================================================
