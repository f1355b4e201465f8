--------------------------- MODULE ProvisionOnce ---------------------------
(***************************************************************************)
(* What the provisioning protocol promises when every thread starts from a *)
(* fresh copy of the row: a request in provisioning belongs to one worker, *)
(* nobody else moves it except to cancel it, and a request is provisioned  *)
(* again only after its worker gave it back.  VMRequest implements this    *)
(* specification with background tasks alone.                              *)
(***************************************************************************)
CONSTANTS Request, Worker, Nobody

VARIABLES
    phase,   \* what the user sees of each request
    owner    \* the worker provisioning it, or Nobody

vars == <<phase, owner>>

Init ==
    /\ phase = [r \in Request |-> "none"]
    /\ owner = [r \in Request |-> Nobody]

Move(r, from, to) ==
    /\ phase[r] \in from
    /\ phase' = [phase EXCEPT ![r] = to]

Submit(r) == Move(r, {"none"}, "pending") /\ UNCHANGED owner

Approve(r) == Move(r, {"none", "pending"}, "approved") /\ UNCHANGED owner

Refuse(r) == Move(r, {"pending"}, "rejected") /\ UNCHANGED owner

Cancel(r) ==
    Move(r, {"pending", "approved", "provisioning"}, "cancelled") /\ UNCHANGED owner

\* A machine that exists already is taken, or found running.
Adopt(r) ==
    /\ owner[r] = Nobody
    /\ Move(r, {"approved", "running"}, "running")
    /\ UNCHANGED owner

Claim(r, w) ==
    /\ owner[r] = Nobody
    /\ Move(r, {"approved", "running"}, "provisioning")
    /\ owner' = [owner EXCEPT ![r] = w]

\* A cancellation that came too late is overruled by the finished machine,
\* and by a failure before the machine was asked for.
Complete(r, w) ==
    /\ owner[r] = w
    /\ Move(r, {"provisioning", "cancelled"}, "running")
    /\ owner' = [owner EXCEPT ![r] = Nobody]

GiveBack(r, w) ==
    /\ owner[r] = w
    /\ Move(r, {"provisioning", "cancelled"}, "approved")
    /\ owner' = [owner EXCEPT ![r] = Nobody]

\* The worker died or failed, or there was nothing to give back.
Abandon(r, w) ==
    /\ owner[r] = w
    /\ owner' = [owner EXCEPT ![r] = Nobody]
    /\ UNCHANGED phase

\* The machine was deleted.
Retire(r) ==
    /\ owner[r] = Nobody
    /\ Move(r, {"running"}, "rejected")
    /\ UNCHANGED owner

Next ==
    \E r \in Request :
        \/ Submit(r) \/ Approve(r) \/ Refuse(r) \/ Cancel(r) \/ Adopt(r) \/ Retire(r)
        \/ \E w \in Worker : Claim(r, w) \/ Complete(r, w) \/ GiveBack(r, w) \/ Abandon(r, w)

Spec == Init /\ [][Next]_vars
=============================================================================
