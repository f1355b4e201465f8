----------------------------- MODULE BatchOnce -----------------------------
(***************************************************************************)
(* What a batch job promises to a group: nothing is created before an      *)
(* administrator has approved the job, its members are served one after    *)
(* the other, and a member is served once, by one machine at most.         *)
(* BatchProvision implements this specification.                           *)
(***************************************************************************)
CONSTANTS
    Job, Task,     \* a task is a job and the number of a member
    Vmid, Nothing

VARIABLES
    verdict,   \* on each job
    attempt,   \* to serve each task
    machine    \* the task each machine was created for, or Nothing

vars == <<verdict, attempt, machine>>

Init ==
    /\ verdict = [j \in Job |-> "open"]
    /\ attempt = [t \in Task |-> "none"]
    /\ machine = [v \in Vmid |-> Nothing]

Judge(j) ==
    /\ verdict[j] = "open"
    /\ \E d \in {"approved", "rejected"} : verdict' = [verdict EXCEPT ![j] = d]
    /\ UNCHANGED <<attempt, machine>>

\* The group is deleted, a member who is being served is served to the end.
Remove(j) ==
    /\ verdict' = [verdict EXCEPT ![j] = "gone"]
    /\ attempt' = [t \in Task |->
                     IF t[1] = j /\ attempt[t] = "none" THEN "over" ELSE attempt[t]]
    /\ UNCHANGED machine

\* A user is deleted: the tasks that wait for them are never begun.
Omit(S) ==
    /\ S # {} /\ \A t \in S : attempt[t] = "none"
    /\ attempt' = [t \in Task |-> IF t \in S THEN "over" ELSE attempt[t]]
    /\ UNCHANGED <<verdict, machine>>

Begin(t) ==
    /\ verdict[t[1]] = "approved" /\ attempt[t] = "none"
    /\ \A u \in Task : u[1] = t[1] => attempt[u] \notin {"going", "asked"}
    /\ attempt' = [attempt EXCEPT ![t] = "going"]
    /\ UNCHANGED <<verdict, machine>>

Create(t) == \E v \in Vmid : machine[v] = Nothing /\ machine' = [machine EXCEPT ![v] = t]

Ask(t) ==
    /\ attempt[t] = "going"
    /\ attempt' = [attempt EXCEPT ![t] = "asked"]
    /\ UNCHANGED machine \/ Create(t)
    /\ UNCHANGED verdict

\* The machine that was asked for may come to exist after all.
End(t) ==
    /\ attempt[t] \in {"going", "asked"}
    /\ attempt' = [attempt EXCEPT ![t] = "over"]
    /\ UNCHANGED machine \/ (attempt[t] = "going" /\ Create(t))
    /\ UNCHANGED verdict

Drop(v) ==
    /\ machine' = [machine EXCEPT ![v] = Nothing]
    /\ UNCHANGED <<verdict, attempt>>

Next ==
    \/ \E j \in Job : Judge(j) \/ Remove(j)
    \/ \E t \in Task : Begin(t) \/ Ask(t) \/ End(t)
    \/ \E v \in Vmid : Drop(v)
    \/ \E S \in SUBSET Task : Omit(S)

Spec == Init /\ [][Next]_vars
=============================================================================
