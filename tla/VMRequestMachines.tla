------------------------- MODULE VMRequestMachines -------------------------
(* Theorems about the machines of requests, for every value of the other   *)
(* constants: while no machine is taken away, with any number of scheduler *)
(* loops and tasks; with tasks and one deletion at a time; their addresses *)
(* if vmids were reserved; and requests whose machine is being deleted.    *)
EXTENDS VMRequestRefinement

(***************************************************************************)
(* No machine is taken away: no deletions, no failed build that is cleaned *)
(* up, no loss on the cluster.                                             *)
(***************************************************************************)
NothingTaken == Deleter = {} /\ "build" \notin Fault /\ "loss" \notin Fault

Registered(v, r) == IsMachineOf(v, r) /\ v \in resource

RowsInv ==
    \A r \in Request :
        /\ vmidOf[r] # NoVmid => Registered(vmidOf[r], r)
        /\ status[r] = "running" => vmidOf[r] # NoVmid

\* What a thread has in hand: a vmid it has seen is still that of the machine
\* of its request, and the machine it is about to take or to record exists
\* under the name of its request.
Holds(t) ==
    /\ pc[t] \notin {"missing", "clearing", "retrying", "unlinking", "linking"}
    /\ pc[t] = "idle" => seen[t] = NoRow
    /\ seen[t].vmid # NoVmid =>
          vmidOf[job[t]] # NoVmid /\ Registered(seen[t].vmid, job[t])
    /\ pc[t] \in {"found", "inserting", "joining", "built"} => IsMachineOf(plan[t].vm, job[t])
    /\ pc[t] = "joining" => plan[t].vm \in resource
    /\ pc[t] = "stopping" => seen[t].vmid # NoVmid

MachineInv == RowsInv /\ \A t \in Thread : Holds(t)

LEMMA InitMachine == Init => MachineInv
  BY DEF Init, MachineInv, RowsInv, Holds, NoRow

(***************************************************************************)
(* Machines stay, and so do registrations and vmids                        *)
(***************************************************************************)
MachinesStay ==
    \A v \in Vmid : Exists(v) => Exists(v)' /\ pve'[v].host = pve[v].host

Grows ==
    /\ MachinesStay
    /\ resource \subseteq resource'
    /\ \A r \in Request : vmidOf[r] # NoVmid => vmidOf'[r] # NoVmid

LEMMA VmIsNotNoVm == NoVm \notin VM
  BY NullsAssumption DEF VM

LEMMA SameMachines ==
  ASSUME UNCHANGED pve
  PROVE  MachinesStay
  BY DEF MachinesStay, Exists

LEMMA SwitchStays ==
  ASSUME TInv, NEW v, Exists(v), NEW on \in BOOLEAN,
         pve' = [pve EXCEPT ![v] = [@ EXCEPT !.on = on]]
  PROVE  MachinesStay
<1>1. v \in Vmid /\ pve[v] \in VM
  BY DEF Exists, TInv, TypeOK
<1>2. [pve[v] EXCEPT !.on = on] \in VM /\ [pve[v] EXCEPT !.on = on].host = pve[v].host
  BY <1>1 DEF VM
<1>3. pve'[v] = [pve[v] EXCEPT !.on = on]
  BY <1>1 DEF TInv, TypeOK
<1>4. \A w \in Vmid \ {v} : pve'[w] = pve[w]
  BY DEF TInv, TypeOK
<1> QED
  BY <1>2, <1>3, <1>4, VmIsNotNoVm DEF MachinesStay, Exists

LEMMA CloneStays ==
  ASSUME TInv, NEW t \in Thread, pc[t] = "cloning", ~Exists(plan[t].vm), pve' = CloneOf(t)
  PROVE  /\ MachinesStay
         /\ pve'[plan[t].vm] \in VM /\ pve'[plan[t].vm].host = HostOf[job[t]]
<1>1. plan[t].vm \in Vmid /\ plan[t].ip \in Ip /\ job[t] \in Request
  BY DEF TInv, JobInv, PlanInv
<1>2. pve'[plan[t].vm] =
        [host |-> HostOf[job[t]], ip |-> plan[t].ip, on |-> window[job[t]] = "open"]
  BY <1>1 DEF CloneOf, TInv, TypeOK
<1>3. pve'[plan[t].vm] \in VM /\ pve'[plan[t].vm].host = HostOf[job[t]]
  BY <1>1, <1>2 DEF VM
<1>4. \A w \in Vmid \ {plan[t].vm} : pve'[w] = pve[w]
  BY DEF CloneOf, TInv, TypeOK
<1> QED
  BY <1>3, <1>4 DEF MachinesStay, Exists, IsMachineOf

(***************************************************************************)
(* What does not move is kept                                              *)
(***************************************************************************)
Stays(u) == pc'[u] = pc[u] /\ job'[u] = job[u] /\ seen'[u] = seen[u] /\ plan'[u] = plan[u]

\* After the step, v is a machine with the hostname of r.
Will(v, r) == v \in Vmid /\ pve'[v] # NoVm /\ pve'[v].host = HostOf[r]

LEMMA MachineStays ==
  ASSUME MachinesStay, NEW v, NEW r, IsMachineOf(v, r)
  PROVE  Will(v, r)
  BY DEF MachinesStay, IsMachineOf, Exists, Will

LEMMA RegisteredStays ==
  ASSUME Grows, NEW v, NEW r, Registered(v, r)
  PROVE  Will(v, r) /\ v \in resource'
  BY MachineStays DEF Grows, Registered

LEMMA HoldsKept ==
  ASSUME TInv, Grows, NEW u \in Thread, Holds(u), Stays(u)
  PROVE  Holds(u)'
<1>1. pc[u] # "idle" => job[u] \in Request
  BY DEF Holds, TInv, JobInv
<1>2. ASSUME seen[u].vmid # NoVmid
      PROVE  /\ vmidOf'[job[u]] # NoVmid
             /\ Will(seen[u].vmid, job[u]) /\ seen[u].vmid \in resource'
  <2>1. pc[u] # "idle"
    BY <1>2 DEF Holds, NoRow
  <2>2. vmidOf[job[u]] # NoVmid /\ Registered(seen[u].vmid, job[u])
    BY <1>2 DEF Holds
  <2> QED
    BY <1>1, <2>1, <2>2, RegisteredStays DEF Grows
<1>3. IsMachineOf(plan[u].vm, job[u]) => Will(plan[u].vm, job[u])
  BY MachineStays DEF Grows
<1>4. pc[u] = "joining" => plan[u].vm \in resource'
  BY DEF Holds, Grows
<1> QED
  BY <1>2, <1>3, <1>4 DEF Holds, Stays, Registered, IsMachineOf, Exists, Will

LEMMA RowsKept ==
  ASSUME TInv, RowsInv, Grows, UNCHANGED vmidOf,
         \A r \in Request : status'[r] = "running" => status[r] = "running" \/ vmidOf[r] # NoVmid
  PROVE  RowsInv'
<1> SUFFICES ASSUME NEW r \in Request
             PROVE  /\ vmidOf'[r] # NoVmid => Registered(vmidOf[r], r)'
                    /\ status'[r] = "running" => vmidOf'[r] # NoVmid
  BY DEF RowsInv
<1>1. vmidOf[r] # NoVmid => Will(vmidOf[r], r) /\ vmidOf[r] \in resource'
  BY RegisteredStays DEF RowsInv
<1> QED
  BY <1>1 DEF RowsInv, Registered, IsMachineOf, Exists, Will

\* A thread moves, the rows of requests apart.
LEMMA ThreadMachine ==
  ASSUME TInv, MachineInv, Grows, NEW t \in Thread, \A u \in Thread \ {t} : Stays(u),
         RowsInv', Holds(t)'
  PROVE  MachineInv'
  BY HoldsKept DEF MachineInv

\* Nothing but the copies and the points of threads changes.
LEMMA NothingGrows ==
  ASSUME UNCHANGED <<vmidOf, pve, resource>>
  PROVE  Grows
  BY SameMachines DEF Grows

LEMMA FinishHolds ==
  ASSUME TInv, NEW t \in Thread, Finish(t)
  PROVE  Holds(t)' /\ \A u \in Thread \ {t} : Stays(u)
  BY DEF Finish, Forget, Holds, Stays, NoRow, TInv, TypeOK

\* A thread is done and writes nothing.
LEMMA GiveUpMachine ==
  ASSUME TInv, MachineInv, NEW t \in Thread, Finish(t),
         UNCHANGED <<vmidOf, pve, resource>>,
         \A r \in Request : status'[r] = "running" => status[r] = "running"
  PROVE  MachineInv' /\ Grows
<1>1. Grows
  BY NothingGrows
<1>2. RowsInv'
  BY <1>1, RowsKept DEF MachineInv
<1> QED
  BY <1>1, <1>2, FinishHolds, ThreadMachine

\* A thread is done and makes the machine that it has in hand, registered by
\* now, that of its request.
LEMMA TakeMachine ==
  ASSUME TInv, MachineInv, NEW t \in Thread, Finish(t), MachinesStay,
         job[t] \in Request, NEW v \in Vmid, IsMachineOf(v, job[t]),
         resource \subseteq resource', v \in resource',
         vmidOf' = [vmidOf EXCEPT ![job[t]] = v],
         status' = [status EXCEPT ![job[t]] = "running"]
  PROVE  MachineInv' /\ Grows
<1>1. Grows
  BY NullsAssumption DEF Grows, TInv, TypeOK
<1>2. RowsInv'
  <2> SUFFICES ASSUME NEW r \in Request
               PROVE  /\ vmidOf'[r] # NoVmid =>
                           Will(vmidOf'[r], r) /\ vmidOf'[r] \in resource'
                      /\ status'[r] = "running" => vmidOf'[r] # NoVmid
    BY DEF RowsInv, Registered, IsMachineOf, Exists, Will
  <2>1. CASE r = job[t]
    <3>1. vmidOf'[r] = v /\ v # NoVmid
      BY <2>1, NullsAssumption DEF TInv, TypeOK
    <3>2. Will(v, r)
      BY <2>1, MachineStays
    <3> QED
      BY <3>1, <3>2
  <2>2. CASE r # job[t]
    <3>1. vmidOf'[r] = vmidOf[r] /\ status'[r] = status[r]
      BY <2>2 DEF TInv, TypeOK
    <3>2. vmidOf[r] # NoVmid => Registered(vmidOf[r], r)
      BY DEF MachineInv, RowsInv
    <3>3. status[r] = "running" => vmidOf[r] # NoVmid
      BY DEF MachineInv, RowsInv
    <3> QED
      BY <1>1, <3>1, <3>2, <3>3, RegisteredStays
  <2> QED
    BY <2>1, <2>2
<1> QED
  BY <1>1, <1>2, FinishHolds, ThreadMachine

(***************************************************************************)
(* The steps                                                               *)
(***************************************************************************)
LEMMA UserMachine ==
  ASSUME TInv, MachineInv, NEW r \in Request, UserStep(r)
  PROVE  MachineInv' /\ Grows
<1>1. /\ UNCHANGED <<vmidOf, pve, resource, pc, job, seen, plan>>
      /\ \A q \in Request : status'[q] = "running" => status[q] = "running"
  BY DEF UserStep, Create, CreateImmediate, Approve, Reject, Cancel, Retry, OpenWindow,
         EndWindow, threadVars, dbVars, TInv, TypeOK
<1>2. Grows
  BY <1>1, SameMachines DEF Grows
<1>3. RowsInv'
  BY <1>1, <1>2, RowsKept DEF MachineInv
<1>4. \A u \in Thread : Holds(u)'
  BY <1>1, <1>2, HoldsKept DEF MachineInv, Stays
<1> QED
  BY <1>2, <1>3, <1>4 DEF MachineInv

\* A copy read from the row is as good as the row.
LEMMA FreshHolds ==
  ASSUME MachineInv, NEW r \in Request, RowOf(r).vmid # NoVmid
  PROVE  vmidOf[r] # NoVmid /\ Registered(RowOf(r).vmid, r)
  BY DEF MachineInv, RowsInv, RowOf

\* A thread chooses a request and reads its row.
LEMMA ChooseMachine ==
  ASSUME TInv, MachineInv, NEW t \in Thread, NEW r \in Request, NEW p \in {"chosen", "stopping"},
         pc' = [pc EXCEPT ![t] = p], job' = [job EXCEPT ![t] = r],
         seen' = [seen EXCEPT ![t] = RowOf(r)],
         UNCHANGED <<vmidOf, status, pve, resource, plan>>,
         p = "stopping" => Ended(r)
  PROVE  MachineInv' /\ Grows
<1>1. Grows
  BY NothingGrows
<1>2. RowsInv'
  BY <1>1, RowsKept DEF MachineInv
<1>3. pc'[t] = p /\ job'[t] = r /\ seen'[t] = RowOf(r) /\ \A u \in Thread \ {t} : Stays(u)
  BY DEF Stays, TInv, TypeOK
<1>4. p = "stopping" => RowOf(r).vmid # NoVmid
  BY DEF Ended, RowOf
<1>5. RowOf(r).vmid # NoVmid => vmidOf[r] # NoVmid /\ Registered(RowOf(r).vmid, r)
  BY FreshHolds
<1>6. Holds(t)'
  BY <1>3, <1>4, <1>5 DEF Holds, Registered, IsMachineOf, Exists
<1> QED
  BY <1>1, <1>2, <1>3, <1>6, ThreadMachine

LEMMA SchedulerMachine ==
  ASSUME TInv, MachineInv, NEW s \in Scheduler, SchedulerStep(s)
  PROVE  MachineInv' /\ Grows
<1> s \in Thread
  BY DEF Thread
<1> USE DEF dbVars, Goto
<1>1. CASE List(s)
  BY <1>1, ChooseMachine DEF List
<1>2. CASE Visit(s)
  <2>1. batch[s] \subseteq Request
    BY DEF TInv, TypeOK
  <2> QED
    BY <1>2, <2>1, ChooseMachine DEF Visit
<1>3. CASE ConfirmGone(s) \/ StillThere(s) \/ Clear(s)
  BY <1>3 DEF ConfirmGone, StillThere, Clear, MachineInv, Holds
<1>4. CASE StopList(s)
  BY <1>4, ChooseMachine DEF StopList
<1>5. CASE Stop(s)
  <2>1. MachinesStay
    BY <1>5, SwitchStays DEF Stop
  <2>2. Grows
    BY <1>5, <2>1 DEF Stop, Grows
  <2>3. RowsInv'
    BY <1>5, <2>2, RowsKept DEF Stop, MachineInv
  <2> QED
    BY <1>5, <2>2, <2>3, FinishHolds, ThreadMachine DEF Stop
<1>6. CASE StopMissing(s)
  BY <1>6 DEF StopMissing, MachineInv, Holds, Registered, IsMachineOf
<1> QED
  BY <1>1, <1>2, <1>3, <1>4, <1>5, <1>6 DEF SchedulerStep

LEMMA TaskMachine ==
  ASSUME TInv, MachineInv, NEW t \in Task, TaskStep(t)
  PROVE  MachineInv' /\ Grows
<1> t \in Thread
  BY DEF Thread
<1>1. CASE Begin(t)
  <2>1. queued \subseteq Request
    BY DEF TInv, TypeOK
  <2> QED
    BY <1>1, <2>1, ChooseMachine DEF Begin, dbVars, Goto
<1>2. CASE Drop(t)
  <2>1. UNCHANGED <<status, vmidOf, pve, resource, pc, job, seen, plan>>
    BY <1>2 DEF Drop, dbVars, threadVars
  <2>2. Grows
    BY <2>1, NothingGrows
  <2>3. RowsInv'
    BY <2>1, <2>2, RowsKept DEF MachineInv
  <2> QED
    BY <2>1, <2>2, <2>3, HoldsKept DEF Stays, MachineInv
<1> QED
  BY <1>1, <1>2 DEF TaskStep

\* A thread goes on to another point and touches no table.
LEMMA MoveMachine ==
  ASSUME TInv, MachineInv, NEW t \in Thread, NEW p, pc' = [pc EXCEPT ![t] = p],
         UNCHANGED <<vmidOf, pve, resource, job>>,
         \A r \in Request : status'[r] = "running" => status[r] = "running",
         \A u \in Thread \ {t} : seen'[u] = seen[u] /\ plan'[u] = plan[u],
         Holds(t)'
  PROVE  MachineInv' /\ Grows
<1>1. Grows
  BY NothingGrows
<1>2. RowsInv'
  BY <1>1, RowsKept DEF MachineInv
<1>3. \A u \in Thread \ {t} : Stays(u)
  BY DEF Stays, TInv, TypeOK
<1> QED
  BY <1>1, <1>2, <1>3, ThreadMachine

LEMMA EnsureMachine ==
  ASSUME TInv, MachineInv, NEW t \in Thread, EnsureStep(t)
  PROVE  MachineInv' /\ Grows
<1> USE DEF dbVars, Goto
<1>0. Holds(t)
  BY DEF MachineInv
<1>1. CASE LockRow(t)
  <2>1. /\ pc' = [pc EXCEPT ![t] = "locked"]
        /\ UNCHANGED <<status, vmidOf, pve, resource, job, seen, plan>>
        /\ seen[t].vmid = NoVmid
    BY <1>1 DEF LockRow
  <2>2. Holds(t)'
    BY <2>1 DEF Holds, TInv, TypeOK
  <2> QED
    BY <2>1, <2>2, MoveMachine
<1>2. CASE SkipRow(t) \/ StartFails(t) \/ AdoptFails(t)
  BY <1>2, GiveUpMachine DEF SkipRow, StartFails, AdoptFails
<1>3. CASE Refresh(t)
  <2>1. /\ pc' = [pc EXCEPT ![t] = "refreshed"]
        /\ UNCHANGED <<status, vmidOf, pve, resource, job, plan>>
        /\ seen' = [seen EXCEPT ![t] = RowOf(job[t])]
        /\ Chosen(t)
    BY <1>3 DEF Refresh
  <2>2. job[t] \in Request
    BY <2>1 DEF Chosen, TInv, JobInv
  <2>3. RowOf(job[t]).vmid # NoVmid =>
           vmidOf[job[t]] # NoVmid /\ Registered(RowOf(job[t]).vmid, job[t])
    BY <2>2, FreshHolds
  <2>4. pc'[t] = "refreshed" /\ seen'[t] = RowOf(job[t])
        /\ \A u \in Thread \ {t} : seen'[u] = seen[u]
    BY <2>1 DEF TInv, TypeOK
  <2>5. Holds(t)'
    BY <2>1, <2>3, <2>4 DEF Holds, Registered, IsMachineOf, Exists
  <2> QED
    BY <2>1, <2>4, <2>5, MoveMachine
<1>4. CASE RefreshMissing(t)
  BY <1>0, <1>4 DEF RefreshMissing, Holds, Registered
<1>5. CASE Start(t)
  <2>1. MachinesStay
    BY <1>5, SwitchStays DEF Start, PowerOn
  <2>2. Grows
    BY <1>5, <2>1 DEF Start, Grows
  <2>3. seen[t].vmid # NoVmid
    BY <1>5, NullsAssumption DEF Start, Exists
  <2>4. vmidOf[job[t]] # NoVmid
    BY <1>0, <2>3 DEF Holds
  <2>5. RowsInv'
    BY <1>5, <2>2, <2>4, RowsKept DEF Start, MachineInv, TInv, TypeOK
  <2> QED
    BY <1>5, <2>2, <2>5, FinishHolds, ThreadMachine DEF Start
<1>6. CASE Find(t)
  <2>1. PICK v \in Adoptable(t) : plan' = [plan EXCEPT ![t] = [vm |-> v, ip |-> NoIp]]
    BY <1>6 DEF Find
  <2>2. /\ UNCHANGED <<status, vmidOf, pve, resource, job, seen>> /\ pc[t] = "looking"
        /\ pc' = [pc EXCEPT ![t] = "found"] /\ IsMachineOf(v, job[t])
    BY <1>6 DEF Find, Adoptable
  <2>3. /\ pc'[t] = "found" /\ plan'[t].vm = v
        /\ \A u \in Thread \ {t} : plan'[u] = plan[u]
    BY <2>1, <2>2 DEF TInv, TypeOK
  <2>4. Holds(t)'
    BY <1>0, <2>2, <2>3 DEF Holds, Registered, IsMachineOf, Exists
  <2> QED
    BY <2>1, <2>2, <2>3, <2>4, MoveMachine
<1>8. CASE ReadClaims(t) \/ Adopt(t)
  <2>1. /\ UNCHANGED <<status, vmidOf, pve, resource, job, seen, plan>>
        /\ \/ pc[t] = "locked" /\ pc' = [pc EXCEPT ![t] = "looking"]
           \/ /\ pc[t] = "found"
              /\ pc' = [pc EXCEPT ![t] = IF plan[t].vm \in resource THEN "joining"
                                                                  ELSE "inserting"]
    BY <1>8 DEF ReadClaims, Adopt
  <2>2. Holds(t)'
    BY <1>0, <2>1 DEF Holds, Registered, IsMachineOf, Exists, TInv, TypeOK
  <2> QED
    BY <2>1, <2>2, MoveMachine
<1>7. CASE AdoptCommit(t)
  <2>1. MachinesStay
    BY <1>7, SwitchStays DEF AdoptCommit, PowerOn
  <2>2. IsMachineOf(plan[t].vm, job[t]) /\ job[t] \in Request /\ plan[t].vm \in Vmid
    BY <1>0, <1>7 DEF AdoptCommit, Holds, TInv, JobInv, PlanInv
  <2>3. resource \subseteq resource' /\ plan[t].vm \in resource'
    BY <1>0, <1>7 DEF AdoptCommit, Holds
  <2> QED
    BY <1>7, <2>1, <2>2, <2>3, TakeMachine DEF AdoptCommit
<1> QED
  BY <1>1, <1>2, <1>3, <1>4, <1>5, <1>6, <1>7, <1>8 DEF EnsureStep

LEMMA ProvisionMachine ==
  ASSUME "build" \notin Fault, TInv, MachineInv, NEW t \in Thread, ProvisionStep(t)
  PROVE  MachineInv' /\ Grows
<1> USE DEF dbVars, Goto
<1>0. Holds(t)
  BY DEF MachineInv
<1>1. CASE MarkProvisioning(t) \/ Plan(t) \/ BuildFails(t) \/ ReleaseIp(t)
  <2>1. /\ UNCHANGED <<vmidOf, pve, resource, job, seen>>
        /\ \A r \in Request : status'[r] = "running" => status[r] = "running"
        /\ \E p \in InFlight \ {"built"} : pc' = [pc EXCEPT ![t] = p]
        /\ pc[t] # "idle"
    BY <1>1
    DEF MarkProvisioning, Plan, BuildFails, ReleaseIp, MayFault, InFlight, TInv,
        TypeOK
  <2>2. \A u \in Thread \ {t} : plan'[u] = plan[u]
    BY <1>1 DEF MarkProvisioning, Plan, BuildFails, ReleaseIp, TInv, TypeOK
  <2>3. PICK p \in InFlight \ {"built"} : pc' = [pc EXCEPT ![t] = p]
    BY <2>1
  <2>4. pc'[t] \in InFlight \ {"built"}
    BY <2>3 DEF TInv, TypeOK
  <2>5. Holds(t)'
    BY <1>0, <2>1, <2>4 DEF Holds, Registered, IsMachineOf, Exists, InFlight
  <2> QED
    BY <2>1, <2>2, <2>3, <2>5, MoveMachine
<1>2. CASE PlanFails(t) \/ Revert(t) \/ RecordFails(t)
  <2>1. /\ Finish(t) /\ UNCHANGED <<vmidOf, pve, resource>>
        /\ \A r \in Request : status'[r] = "running" => status[r] = "running"
    BY <1>2 DEF PlanFails, Revert, RecordFails, TInv, TypeOK
  <2> QED
    BY <2>1, GiveUpMachine
<1>3. CASE Clone(t)
  <2>1. /\ pc[t] = "cloning" /\ ~Exists(plan[t].vm) /\ pve' = CloneOf(t)
        /\ pc' = [pc EXCEPT ![t] = "built"]
        /\ UNCHANGED <<status, vmidOf, window, resource, job, seen, plan>>
    BY <1>3 DEF Clone
  <2>2. Grows
    BY <2>1, CloneStays DEF Grows
  <2>3. RowsInv'
    BY <2>1, <2>2, RowsKept DEF MachineInv
  <2>4. pc'[t] = "built" /\ \A u \in Thread \ {t} : Stays(u)
    BY <2>1 DEF Stays, TInv, TypeOK
  <2>5. Will(plan[t].vm, job[t])
    BY <2>1, CloneStays, VmIsNotNoVm DEF Will, TInv, PlanInv
  <2>6. seen[t].vmid # NoVmid =>
          vmidOf[job[t]] # NoVmid /\ Will(seen[t].vmid, job[t]) /\ seen[t].vmid \in resource
    BY <1>0, <2>2, RegisteredStays DEF Holds, Registered
  <2>7. Holds(t)'
    BY <2>1, <2>4, <2>5, <2>6 DEF Holds, Registered, IsMachineOf, Exists, Will
  <2> QED
    BY <2>2, <2>3, <2>4, <2>7, ThreadMachine
<1>4. CASE Record(t)
  <2>1. IsMachineOf(plan[t].vm, job[t]) /\ job[t] \in Request /\ plan[t].vm \in Vmid
    BY <1>0, <1>4 DEF Record, Holds, TInv, JobInv, PlanInv
  <2>2. MachinesStay
    BY <1>4, SameMachines DEF Record
  <2> QED
    BY <1>4, <2>1, <2>2, TakeMachine DEF Record
<1>5. CASE CloneFails(t)
  <2>1. /\ pc[t] = "cloning" /\ pc' = [pc EXCEPT ![t] = "failed"]
        /\ UNCHANGED <<status, vmidOf, resource, job, seen, plan>>
        /\ UNCHANGED pve \/ (~Exists(plan[t].vm) /\ pve' = CloneOf(t))
    BY <1>5 DEF CloneFails
  <2>2. Grows
    BY <2>1, CloneStays, SameMachines DEF Grows
  <2>3. RowsInv'
    BY <2>1, <2>2, RowsKept DEF MachineInv
  <2>4. pc'[t] = "failed" /\ \A u \in Thread \ {t} : Stays(u)
    BY <2>1 DEF Stays, TInv, TypeOK
  <2>5. seen[t].vmid # NoVmid =>
          vmidOf[job[t]] # NoVmid /\ Will(seen[t].vmid, job[t]) /\ seen[t].vmid \in resource
    BY <1>0, <2>2, RegisteredStays DEF Holds, Registered
  <2>6. Holds(t)'
    BY <2>1, <2>4, <2>5 DEF Holds, Registered, IsMachineOf, Exists, Will
  <2> QED
    BY <2>2, <2>3, <2>4, <2>6, ThreadMachine
<1> QED
  BY <1>1, <1>2, <1>3, <1>4, <1>5 DEF ProvisionStep

LEMMA CrashMachine ==
  ASSUME TInv, MachineInv, NEW t \in Thread, Crash(t)
  PROVE  MachineInv' /\ Grows
<1>1. MachinesStay
  BY SameMachines, CloneStays DEF Crash
<1>2. Grows
  BY <1>1 DEF Crash, dbVars, Grows
<1>3. RowsInv'
  BY <1>2, RowsKept DEF MachineInv, Crash, dbVars
<1>4. Holds(t)' /\ \A u \in Thread \ {t} : Stays(u)
  BY DEF Crash, Forget, Holds, Stays, NoRow, TInv, TypeOK
<1> QED
  BY <1>2, <1>3, <1>4, ThreadMachine

LEMMA NextMachine ==
  ASSUME NothingTaken, TInv, MachineInv, [Next]_vars
  PROVE  MachineInv' /\ Grows
<1>1. CASE UNCHANGED vars
  <2>1. UNCHANGED <<status, vmidOf, pve, resource, pc, job, seen, plan>>
    BY <1>1 DEF vars
  <2>2. Grows
    BY <2>1, NothingGrows
  <2>3. RowsInv'
    BY <2>1, <2>2, RowsKept DEF MachineInv
  <2> QED
    BY <2>1, <2>2, <2>3, HoldsKept DEF Stays, MachineInv
<1>2. CASE \E v \in Vmid : Lose(v)
  BY <1>2 DEF Lose, MayFault, NothingTaken
<1> QED
  BY <1>1, <1>2, UserMachine, SchedulerMachine, TaskMachine, EnsureMachine, ProvisionMachine,
     CrashMachine
  DEF Next, NothingTaken, Thread

THEOREM Machines ==
  ASSUME NothingTaken
  PROVE  Spec => []MachineInv
<1>1. TInv /\ MachineInv /\ [Next]_vars => MachineInv'
  BY NextMachine
<1> QED
  BY <1>1, InitMachine, Typed, PTL DEF Spec

\* Where no machine is taken away, a request shown as running has a machine,
\* and the machine that a request names exists under its hostname and is
\* registered, with any number of loops, tasks and requests, although tasks
\* and loops may provision a request twice, fail, crash, or work from a copy
\* of the row that is out of date.
THEOREM RunningHasItsMachine ==
  ASSUME NothingTaken
  PROVE  Spec => []RunningHasMachine
<1>1. MachineInv => RunningHasMachine
  BY DEF MachineInv, RowsInv, RunningHasMachine, Registered
<1> QED
  BY <1>1, Machines, PTL

(***************************************************************************)
(* Who will take a request out of provisioning                             *)
(***************************************************************************)
\* Nothing is taken away, no worker dies, and requests ask for hostnames of
\* their own.
OwnHosts == \A q, r \in Request : HostOf[q] = HostOf[r] => q = r

NobodyDies == NothingTaken /\ "crash" \notin Fault

\* A thread that will not find its vmid registered by another when it is to
\* record it.
Tends(t, r) ==
    /\ pc[t] \in InFlight /\ job[t] = r
    /\ pc[t] = "built" => plan[t].vm \notin resource

OwnInv ==
    /\ \A v \in resource : Exists(v)
    /\ \A t, u \in Thread :
          pc[t] = "built" /\ pc[u] = "built" /\ plan[t].vm = plan[u].vm => t = u
    /\ \A r \in Request : status[r] = "provisioning" => \E t \in Thread : Tends(t, r)

LEMMA InitOwn == Init => OwnInv
  BY DEF Init, OwnInv

\* No thread comes to the record of a machine, or none has left it, and
\* nobody who tends a request leaves it.
LEMMA OwnKept ==
  ASSUME TInv, OwnInv, Grows, resource' = resource,
         \A u \in Thread : pc'[u] = "built" => pc[u] = "built" /\ plan'[u] = plan[u],
         \A r \in Request : status'[r] = "provisioning" =>
            \/ status[r] = "provisioning" /\ \A u \in Thread : Tends(u, r) => Tends(u, r)'
            \/ \E u \in Thread : Tends(u, r)'
  PROVE  OwnInv'
<1>1. \A v \in resource : v \in Vmid /\ Exists(v)
  BY DEF OwnInv, TInv, TypeOK
<1>2. \A v \in resource' : Exists(v)'
  BY <1>1 DEF Grows, MachinesStay
<1>3. \A t, u \in Thread :
        (pc[t] = "built" /\ pc[u] = "built" /\ plan[t].vm = plan[u].vm)' => t = u
  BY DEF OwnInv
<1>4. \A r \in Request : status'[r] = "provisioning" => \E t \in Thread : Tends(t, r)'
  BY DEF OwnInv
<1> QED
  BY <1>2, <1>3, <1>4 DEF OwnInv

LEMMA MoveOwn ==
  ASSUME TInv, OwnInv, Grows, resource' = resource, NEW t \in Thread,
         \A u \in Thread \ {t} : Stays(u), pc'[t] # "built",
         \A r \in Request : status'[r] = "provisioning" =>
            (status[r] = "provisioning" /\ (Tends(t, r) => Tends(t, r)')) \/ Tends(t, r)'
  PROVE  OwnInv'
<1>1. \A u \in Thread \ {t}, r \in Request : Tends(u, r) => Tends(u, r)'
  BY DEF Tends, Stays
<1> QED
  BY <1>1, OwnKept DEF Stays

\* A thread that tends no request moves.
LEMMA QuietOwn ==
  ASSUME TInv, OwnInv, Grows, resource' = resource, NEW t \in Thread,
         \A u \in Thread \ {t} : Stays(u), pc'[t] # "built", pc[t] \notin InFlight,
         \A r \in Request : status'[r] = "provisioning" => status[r] = "provisioning"
  PROVE  OwnInv'
  BY MoveOwn DEF Tends

LEMMA UserOwn ==
  ASSUME TInv, MachineInv, OwnInv, NEW r \in Request, UserStep(r)
  PROVE  OwnInv'
<1>1. /\ UNCHANGED <<resource, pc, job, plan>>
      /\ \A q \in Request : status'[q] = "provisioning" => status[q] = "provisioning"
  BY DEF UserStep, Create, CreateImmediate, Approve, Reject, Cancel, Retry, OpenWindow,
         EndWindow, threadVars, dbVars, TInv, TypeOK
<1>2. \A u \in Thread, q \in Request : Tends(u, q) => Tends(u, q)'
  BY <1>1 DEF Tends
<1> QED
  BY <1>1, <1>2, UserMachine, OwnKept

LEMMA SchedulerOwn ==
  ASSUME TInv, MachineInv, OwnInv, NEW s \in Scheduler, SchedulerStep(s)
  PROVE  OwnInv'
<1> s \in Thread
  BY DEF Thread
<1>1. ~ConfirmGone(s) /\ ~StillThere(s) /\ ~Clear(s) /\ ~StopMissing(s)
  BY DEF ConfirmGone, StillThere, Clear, StopMissing, MachineInv, Holds, Registered, IsMachineOf
<1>2. pc[s] \notin InFlight /\ resource' = resource /\ status' = status
  BY <1>1 DEF SchedulerStep, List, Visit, StopList, Stop, dbVars, InFlight
<1>3. pc'[s] # "built" /\ \A u \in Thread \ {s} : Stays(u)
  <2>1. CASE Stop(s)
    <3>1. Finish(s)
      BY <2>1 DEF Stop
    <3> QED
      BY <3>1, FinishHolds DEF Finish, Forget, TInv, TypeOK
  <2>2. CASE ~Stop(s)
    <3>1. /\ \E p \in {"chosen", "stopping"} : pc' = [pc EXCEPT ![s] = p]
          /\ \E r : job' = [job EXCEPT ![s] = r] /\ seen' = [seen EXCEPT ![s] = RowOf(r)]
          /\ UNCHANGED plan
      BY <1>1, <2>2 DEF SchedulerStep, List, Visit, StopList, Goto
    <3> QED
      BY <3>1 DEF Stays, TInv, TypeOK
  <2> QED
    BY <2>1, <2>2
<1> QED
  BY <1>2, <1>3, SchedulerMachine, QuietOwn

LEMMA TaskOwn ==
  ASSUME TInv, MachineInv, OwnInv, NEW t \in Task, TaskStep(t)
  PROVE  OwnInv'
<1> t \in Thread
  BY DEF Thread
<1>1. pc[t] = "idle" /\ resource' = resource /\ status' = status
  BY DEF TaskStep, Begin, Drop, dbVars
<1>2. pc'[t] # "built" /\ \A u \in Thread \ {t} : Stays(u)
  <2>1. CASE Begin(t)
    <3>1. /\ pc' = [pc EXCEPT ![t] = "chosen"]
          /\ \E r : job' = [job EXCEPT ![t] = r] /\ seen' = [seen EXCEPT ![t] = RowOf(r)]
          /\ UNCHANGED plan
      BY <2>1 DEF Begin, Goto
    <3> QED
      BY <3>1 DEF Stays, TInv, TypeOK
  <2>2. CASE Drop(t)
    BY <1>1, <2>2 DEF Drop, threadVars, Stays
  <2> QED
    BY <2>1, <2>2 DEF TaskStep
<1> QED
  BY <1>1, <1>2, TaskMachine, QuietOwn DEF InFlight

\* The machine that a request is getting has its hostname; hence it is not the
\* one that another request is about to record.
LEMMA OtherMachine ==
  ASSUME OwnHosts, TInv, MachineInv, NEW r \in Request, NEW v, IsMachineOf(v, r),
         NEW u \in Thread, pc[u] = "built", job[u] # r
  PROVE  plan[u].vm # v
<1>1. job[u] \in Request /\ IsMachineOf(plan[u].vm, job[u])
  BY DEF TInv, JobInv, MachineInv, Holds
<1> QED
  BY <1>1 DEF OwnHosts, IsMachineOf

\* A thread registers the machine that it has in hand for its request, which
\* becomes running: the threads that tend other requests are not concerned.
LEMMA RegisterOwn ==
  ASSUME OwnHosts, TInv, MachineInv, OwnInv, Grows, NEW t \in Thread, Finish(t),
         job[t] \in Request, NEW v, IsMachineOf(v, job[t]), resource' \subseteq resource \cup {v},
         status' = [status EXCEPT ![job[t]] = "running"]
  PROVE  OwnInv'
<1>1. pc'[t] = "idle" /\ \A u \in Thread \ {t} : Stays(u)
  BY FinishHolds DEF Finish, Forget, TInv, TypeOK
<1>2. \A w \in resource' : Exists(w)'
  BY DEF OwnInv, Grows, MachinesStay, IsMachineOf, TInv, TypeOK, Exists
<1>3. \A u, x \in Thread :
        (pc[u] = "built" /\ pc[x] = "built" /\ plan[u].vm = plan[x].vm)' => u = x
  BY <1>1 DEF OwnInv, Stays
<1>4. ASSUME NEW r \in Request, status'[r] = "provisioning"
      PROVE  \E u \in Thread : Tends(u, r)'
  <2>1. r # job[t] /\ status[r] = "provisioning"
    BY <1>4 DEF TInv, TypeOK
  <2>2. PICK u \in Thread : Tends(u, r)
    BY <2>1 DEF OwnInv
  <2>3. u # t
    BY <2>1, <2>2 DEF Tends
  <2>4. pc[u] = "built" => plan[u].vm # v
    BY <2>1, <2>2, OtherMachine DEF Tends
  <2> QED
    BY <1>1, <2>2, <2>3, <2>4 DEF Tends, Stays
<1> QED
  BY <1>2, <1>3, <1>4 DEF OwnInv

LEMMA EnsureOwn ==
  ASSUME OwnHosts, TInv, MachineInv, OwnInv, NEW t \in Thread, EnsureStep(t)
  PROVE  OwnInv'
<1>1. Grows /\ Holds(t)
  BY EnsureMachine DEF MachineInv
<1>2. ~RefreshMissing(t)
  BY <1>1 DEF RefreshMissing, Holds, Registered
<1>3. pc[t] \notin InFlight /\ (resource' = resource \/ AdoptCommit(t))
  BY DEF EnsureStep, LockRow, SkipRow, Refresh, RefreshMissing, Start, StartFails, ReadClaims,
         Find, Adopt, AdoptCommit, AdoptFails, Chosen, dbVars, InFlight
<1>4. CASE AdoptCommit(t)
  <2>1. job[t] \in Request /\ IsMachineOf(plan[t].vm, job[t])
    BY <1>1, <1>4 DEF AdoptCommit, Holds, TInv, JobInv
  <2> QED
    BY <1>1, <1>4, <2>1, RegisterOwn DEF AdoptCommit
<1>5. CASE Finish(t) /\ ~AdoptCommit(t)
  <2>1. pc'[t] # "built" /\ \A u \in Thread \ {t} : Stays(u)
    BY <1>5, FinishHolds DEF Finish, Forget, TInv, TypeOK
  <2>2. \A r \in Request : status'[r] = "provisioning" => status[r] = "provisioning"
    BY <1>5
    DEF EnsureStep, LockRow, SkipRow, Refresh, RefreshMissing, Start, StartFails, ReadClaims,
        Find, Adopt, AdoptFails, dbVars, TInv, TypeOK
  <2> QED
    BY <1>1, <1>3, <1>5, <2>1, <2>2, QuietOwn
<1>6. CASE LockRow(t) \/ Refresh(t) \/ ReadClaims(t) \/ Find(t) \/ Adopt(t)
  <2>1. /\ \E p \in Locking : pc' = [pc EXCEPT ![t] = p]
        /\ UNCHANGED <<status, resource, job>>
        /\ \A u \in Thread \ {t} : seen'[u] = seen[u] /\ plan'[u] = plan[u]
    BY <1>6 DEF LockRow, Refresh, ReadClaims, Find, Adopt, Goto, Locking, dbVars, TInv, TypeOK
  <2>2. pc'[t] # "built" /\ \A u \in Thread \ {t} : Stays(u)
    BY <2>1 DEF Locking, Stays, TInv, TypeOK
  <2> QED
    BY <1>1, <1>3, <2>1, <2>2, QuietOwn
<1> QED
  BY <1>2, <1>4, <1>5, <1>6 DEF EnsureStep, SkipRow, Start, StartFails, AdoptFails

LEMMA ProvisionOwn ==
  ASSUME OwnHosts, "build" \notin Fault, TInv, MachineInv, OwnInv, NEW t \in Thread,
         ProvisionStep(t)
  PROVE  OwnInv'
<1> USE DEF dbVars, Goto
<1>1. Grows /\ Holds(t)
  BY ProvisionMachine DEF MachineInv
<1>2. CASE MarkProvisioning(t) \/ Plan(t) \/ CloneFails(t) \/ BuildFails(t) \/ ReleaseIp(t)
  <2>1. /\ UNCHANGED <<resource, job, seen>>
        /\ \E p \in InFlight \ {"built"} : pc' = [pc EXCEPT ![t] = p]
        /\ \A u \in Thread \ {t} : plan'[u] = plan[u]
    BY <1>2
    DEF MarkProvisioning, Plan, CloneFails, BuildFails, ReleaseIp, InFlight, TInv, TypeOK
  <2>2. pc'[t] \in InFlight \ {"built"} /\ \A u \in Thread \ {t} : Stays(u)
    BY <2>1 DEF Stays, TInv, TypeOK
  <2>3. \A r \in Request : status'[r] = "provisioning" => status[r] = "provisioning" \/ r = job[t]
    BY <1>2
    DEF MarkProvisioning, Plan, CloneFails, BuildFails, ReleaseIp, TInv, TypeOK
  <2>4. \A r \in Request : Tends(t, r) \/ r = job[t] => Tends(t, r)'
    BY <2>1, <2>2 DEF Tends
  <2> QED
    BY <1>1, <2>1, <2>2, <2>3, <2>4, MoveOwn
<1>3. CASE PlanFails(t) \/ Revert(t)
  <2>1. /\ Finish(t) /\ resource' = resource
        /\ \A r \in Request : status'[r] = "provisioning" => status[r] = "provisioning" /\ r # job[t]
    BY <1>3 DEF PlanFails, Revert, TInv, TypeOK
  <2>2. pc'[t] # "built" /\ \A u \in Thread \ {t} : Stays(u)
    BY <2>1, FinishHolds DEF Finish, Forget, TInv, TypeOK
  <2> QED
    BY <1>1, <2>1, <2>2, MoveOwn DEF Tends
<1>4. CASE Clone(t)
  <2>1. /\ pc[t] = "cloning" /\ ~Exists(plan[t].vm) /\ pc' = [pc EXCEPT ![t] = "built"]
        /\ UNCHANGED <<status, resource, job, seen, plan>>
    BY <1>4 DEF Clone
  <2>2. pc'[t] = "built" /\ \A u \in Thread \ {t} : pc'[u] = pc[u]
    BY <2>1 DEF TInv, TypeOK
  <2>3. plan[t].vm \notin resource
    BY <2>1 DEF OwnInv
  <2>4. \A v \in resource' : Exists(v)'
    BY <1>1, <2>1 DEF OwnInv, Grows, MachinesStay, TInv, TypeOK
  <2>5. \A u \in Thread : pc[u] = "built" => plan[u].vm # plan[t].vm
    BY <2>1 DEF MachineInv, Holds, IsMachineOf
  <2>6. \A u, x \in Thread :
          (pc[u] = "built" /\ pc[x] = "built" /\ plan[u].vm = plan[x].vm)' => u = x
    BY <2>1, <2>2, <2>5 DEF OwnInv
  <2>7. \A u \in Thread, r \in Request : Tends(u, r) => Tends(u, r)'
    BY <2>1, <2>2, <2>3 DEF Tends, InFlight
  <2> QED
    BY <2>1, <2>4, <2>6, <2>7 DEF OwnInv
<1>5. CASE Record(t)
  <2>1. job[t] \in Request /\ IsMachineOf(plan[t].vm, job[t])
    BY <1>1, <1>5 DEF Record, Holds, TInv, JobInv
  <2> QED
    BY <1>1, <1>5, <2>1, RegisterOwn DEF Record
<1>6. CASE RecordFails(t)
  <2>1. /\ Finish(t) /\ UNCHANGED <<status, resource>> /\ \A r \in Request : ~Tends(t, r)
    BY <1>6 DEF RecordFails, Tends
  <2>2. pc'[t] # "built" /\ \A u \in Thread \ {t} : Stays(u)
    BY <2>1, FinishHolds DEF Finish, Forget, TInv, TypeOK
  <2> QED
    BY <1>1, <2>1, <2>2, MoveOwn
<1> QED
  BY <1>2, <1>3, <1>4, <1>5, <1>6 DEF ProvisionStep

LEMMA NextOwn ==
  ASSUME OwnHosts, NobodyDies, TInv, MachineInv, OwnInv, [Next]_vars
  PROVE  OwnInv'
<1>1. CASE UNCHANGED vars
  BY <1>1 DEF vars, OwnInv, Tends, Exists
<1>2. CASE (\E v \in Vmid : Lose(v)) \/ (\E t \in Thread : Crash(t))
  BY <1>2 DEF Lose, Crash, MayFault, NobodyDies, NothingTaken
<1> QED
  BY <1>1, <1>2, UserOwn, SchedulerOwn, TaskOwn, EnsureOwn, ProvisionOwn
  DEF Next, NobodyDies, NothingTaken, Thread

\* Where no machine is taken away, no worker dies and hostnames differ, a
\* request in provisioning always has a thread that will take it out of that
\* status, with any number of loops and tasks, even when several threads are
\* provisioning it at a time and one finds the work of another registered.
THEOREM ProvisioningHasOwner ==
  ASSUME NobodyDies, OwnHosts
  PROVE  Spec => []ProvisioningIsOwned
<1>1. Spec => []MachineInv
  BY Machines DEF NobodyDies
<1>2. TInv /\ MachineInv /\ OwnInv /\ [Next]_vars => OwnInv'
  BY NextOwn
<1>3. OwnInv => ProvisioningIsOwned
  BY DEF OwnInv, ProvisioningIsOwned, Tends
<1> QED
  BY <1>1, <1>2, <1>3, InitOwn, Typed, PTL DEF Spec

\* Where no machine is taken away and hostnames differ, no two requests hold
\* one machine, loops or no loops.
THEOREM OwnHostsNotShared ==
  ASSUME NothingTaken, OwnHosts
  PROVE  Spec => []NoSharedVm
<1>1. MachineInv => NoSharedVm
  BY DEF MachineInv, RowsInv, Registered, IsMachineOf, OwnHosts, NoSharedVm
<1> QED
  BY <1>1, Machines, PTL

(***************************************************************************)
(* Tasks alone, and one deletion at a time: who holds a vmid               *)
(***************************************************************************)
\* The safety-net pass and the task of one worker delete one after the other.
OneDeletion == Scheduler = {} /\ \A c, d \in Deleter : c = d

Holders(v) == {r \in Request : status[r] = "running" /\ vmidOf[r] = v}

\* A deletion has destroyed the machine and not yet removed the registration.
Going(v) == \E d \in Deleter : pc[d] = "unlinking" /\ plan[d].vm = v

\* A deletion has removed the registration of v and not yet rejected the
\* request of the machine.
Late(v) == \E d \in Deleter : pc[d] \in {"linking", "rejecting"} /\ plan[d].vm = v

\* A registration stands for one holder, and a late deletion for one more.
Share(v) ==
    /\ v \notin resource /\ ~Late(v) => Holders(v) = {}
    /\ v \in resource /\ ~Late(v) => \E r \in Request : Holders(v) = {r}
    /\ v \notin resource /\ Late(v) => \E r \in Request : Holders(v) = {r}
    /\ v \in resource /\ Late(v) =>
          \E q, r \in Request : q # r /\ Holders(v) = {q, r}

\* What a thread has read of a vmid still tells whether it is registered: with
\* hostnames of their own, only the thread that holds or provisions a request
\* registers a machine for it.
Sight(t) ==
    /\ pc[t] = "looking" =>
          \A v \in Vmid \ abandoned :
             IsMachineOf(v, job[t]) /\ v \notin claimed[t] => v \notin resource
    /\ pc[t] \in {"found", "inserting", "built"} /\ plan[t].vm \notin abandoned =>
          IsMachineOf(plan[t].vm, job[t])
    /\ pc[t] \in {"found", "inserting"} /\ plan[t].vm \in resource =>
          plan[t].vm \in abandoned
    /\ pc[t] = "built" /\ plan[t].vm \in resource =>
          plan[t].vm \in abandoned \/ Going(plan[t].vm)
    /\ pc[t] = "joining" => plan[t].vm \in abandoned

DeletionKnows(d) ==
    /\ pc[d] = "unlinking" => plan[d].vm \in resource
    /\ pc[d] = "rejecting" => job[d] \in Holders(plan[d].vm)

ShareInv ==
    /\ \A v \in Vmid \ abandoned : Share(v)
    /\ \A v \in resource \ abandoned : Exists(v) \/ Going(v)
    /\ \A t \in Thread : Sight(t)
    /\ \A d \in Deleter : DeletionKnows(d)

LEMMA InitShare == Init => ShareInv
  BY NullsAssumption, ThreadsAssumption
  DEF Init, ShareInv, Share, Holders, Late, Sight, DeletionKnows, Thread

(***************************************************************************)
(* What a step leaves alone                                                *)
(***************************************************************************)
SameRows == \A v \in Vmid : Holders(v)' = Holders(v)

LEMMA SameShare ==
  ASSUME NEW v, Holders(v)' = Holders(v), Late(v)' <=> Late(v),
         v \in resource' <=> v \in resource, Share(v)
  PROVE  Share(v)'
  BY DEF Share

\* Writing a row that has no vmid, or whose status is running before and
\* after, changes the holders of no vmid.
LEMMA RowsSame ==
  ASSUME TInv, UNCHANGED vmidOf,
         \A r \in Request : (status'[r] = "running") # (status[r] = "running") => vmidOf[r] = NoVmid
  PROVE  SameRows
  BY NullsAssumption DEF SameRows, Holders

\* Two threads never hold or provision the same request.
LEMMA Apart ==
  ASSUME ProvInv, NEW t \in Thread, NEW u \in Thread \ {t},
         pc[t] \in Holding \cup InFlight, pc[u] \in Holding \cup InFlight
  PROVE  job[u] # job[t]
  BY ThreadsAssumption DEF ProvInv, Knows, AtMostOneProvisioner, Holding, Locking, InFlight

Looking(u) == pc[u] \in {"looking", "found", "inserting", "built"}

\* The world of thread u stays: no machine appears under the name of its
\* request or is registered, the one it has in hand stays, and a deletion
\* about to remove a registration goes on, removes it or is given up.
WorldKept(u) ==
    /\ Looking(u) => \A v \in Vmid \ abandoned' :
          /\ Will(v, job[u]) => IsMachineOf(v, job[u])
          /\ IsMachineOf(v, job[u]) /\ v \in resource' => v \in resource
    /\ Looking(u) /\ pc[u] # "looking" /\ IsMachineOf(plan[u].vm, job[u])
          => Will(plan[u].vm, job[u]) \/ plan[u].vm \in abandoned'

GoingKept == \A v \in resource' \ abandoned' : Going(v) => Going(v)'

LEMMA SightKept ==
  ASSUME TInv, NEW u \in Thread, Sight(u), Stays(u), claimed'[u] = claimed[u],
         abandoned \subseteq abandoned', WorldKept(u), GoingKept
  PROVE  Sight(u)'
<1>1. pc[u] \in {"found", "inserting", "built"} => plan[u].vm \in Vmid
  BY DEF TInv, PlanInv
<1>2. ASSUME pc[u] = "looking", NEW v \in Vmid \ abandoned', Will(v, job[u]), v \notin claimed[u]
      PROVE  v \notin resource'
  BY <1>2 DEF Sight, WorldKept, Looking
<1>3. ASSUME pc[u] \in {"found", "inserting", "built"}, plan[u].vm \notin abandoned'
      PROVE  Will(plan[u].vm, job[u])
  BY <1>3 DEF Sight, WorldKept, Looking
<1>4. ASSUME pc[u] \in {"found", "inserting", "built"}, plan[u].vm \in resource',
             plan[u].vm \notin abandoned'
      PROVE  pc[u] = "built" /\ Going(plan[u].vm)'
  <2>1. IsMachineOf(plan[u].vm, job[u]) /\ plan[u].vm \in resource
    BY <1>1, <1>4 DEF Sight, WorldKept, Looking
  <2>2. pc[u] = "built" /\ Going(plan[u].vm)
    BY <1>4, <2>1 DEF Sight
  <2>3. Going(plan[u].vm)' <=> \E d \in Deleter : pc'[d] = "unlinking" /\ plan'[d].vm = plan[u].vm
    BY DEF Going, Stays
  <2>4. \E d \in Deleter : pc'[d] = "unlinking" /\ plan'[d].vm = plan[u].vm
    BY <1>4, <2>2 DEF GoingKept, Going
  <2> QED
    BY <2>2, <2>3, <2>4
<1> QED
  BY <1>2, <1>3, <1>4 DEF Sight, Stays, Will, IsMachineOf, Exists

\* A step of thread t, the deletions apart: everything but its own sight and
\* the registrations.
LEMMA ThreadShare ==
  ASSUME TInv, ShareInv, NEW t \in Thread \ Deleter, UNCHANGED abandoned,
         \A u \in Thread \ {t} : Stays(u) /\ claimed'[u] = claimed[u],
         \A u \in Thread \ {t} : WorldKept(u),
         \A v \in Vmid \ abandoned : Share(v)',
         \A v \in resource' \ abandoned : Exists(v)' \/ Going(v),
         resource \subseteq resource',
         \A v \in Vmid : Holders(v) \subseteq Holders(v)',
         Sight(t)'
  PROVE  ShareInv'
<1>1. \A d \in Deleter : d \in Thread \ {t} /\ Stays(d)
  BY DEF Thread
<1>2. \A v : Going(v)' <=> Going(v)
  BY <1>1 DEF Going, Stays
<1>3. \A u \in Thread \ {t} : Sight(u)'
  BY <1>2, SightKept DEF ShareInv, GoingKept
<1>4. ASSUME NEW d \in Deleter
      PROVE  DeletionKnows(d)'
  <2>1. pc[d] = "rejecting" => plan[d].vm \in Vmid
    BY <1>1 DEF TInv, PlanInv
  <2> DEFINE v == plan[d].vm
  <2>2. pc[d] = "rejecting" => job[d] \in {r \in Request : status'[r] = "running" /\ vmidOf'[r] = v}
    BY <2>1 DEF ShareInv, DeletionKnows, Holders
  <2>3. pc'[d] = pc[d] /\ job'[d] = job[d] /\ plan'[d] = plan[d]
    BY <1>1 DEF Stays
  <2> QED
    BY <2>2, <2>3 DEF ShareInv, DeletionKnows, Holders
<1>5. \A v \in (resource \ abandoned)' : Exists(v)' \/ Going(v)'
  BY <1>2
<1> QED
  BY <1>3, <1>4, <1>5 DEF ShareInv

LEMMA SameWorld ==
  ASSUME UNCHANGED <<pve, resource>>, NEW u
  PROVE  WorldKept(u)
  BY DEF WorldKept, Will, IsMachineOf, Exists

LEMMA SwitchedWorld ==
  ASSUME TInv, NEW w, Exists(w), NEW on \in BOOLEAN,
         pve' = [pve EXCEPT ![w] = [@ EXCEPT !.on = on]]
  PROVE  \A r : \A v \in Vmid : Will(v, r) <=> IsMachineOf(v, r)
<1>1. w \in Vmid /\ pve[w] \in VM
  BY DEF Exists, TInv, TypeOK
<1>2. [pve[w] EXCEPT !.on = on] \in VM /\ [pve[w] EXCEPT !.on = on].host = pve[w].host
  BY <1>1 DEF VM
<1>3. pve'[w] = [pve[w] EXCEPT !.on = on]
  BY <1>1 DEF TInv, TypeOK
<1>4. \A v \in Vmid \ {w} : pve'[v] = pve[v]
  BY DEF TInv, TypeOK
<1> QED
  BY <1>1, <1>2, <1>3, <1>4, VmIsNotNoVm DEF Will, IsMachineOf, Exists

\* Nothing happens to the holders of vmids, to machines or to registrations.
LEMMA ShareKept ==
  ASSUME TInv, ShareInv, NEW t \in Thread \ Deleter, UNCHANGED <<pve, resource, abandoned>>,
         SameRows, \A u \in Thread \ {t} : Stays(u) /\ claimed'[u] = claimed[u], Sight(t)'
  PROVE  ShareInv'
<1>1. \A v \in Vmid : Late(v)' <=> Late(v)
  BY DEF Late, Stays, Thread
<1>2. \A v \in Vmid \ abandoned : Share(v)'
  BY <1>1, SameShare DEF ShareInv, SameRows
<1>3. \A v \in resource' \ abandoned : Exists(v)' \/ Going(v)
  BY DEF ShareInv, Exists
<1>4. \A v \in Vmid : Holders(v) \subseteq Holders(v)'
  BY DEF SameRows
<1> QED
  BY <1>2, <1>3, <1>4, SameWorld, ThreadShare

\* A thread that is not looking sees nothing that could change.
LEMMA Blind ==
  ASSUME NEW t, pc'[t] \notin {"looking", "found", "inserting", "joining", "built"}
  PROVE  Sight(t)'
  BY DEF Sight

LEMMA FinishStays ==
  ASSUME TInv, NEW t \in Thread, Finish(t)
  PROVE  /\ pc'[t] = "idle" /\ Sight(t)'
         /\ \A u \in Thread \ {t} : Stays(u) /\ claimed'[u] = claimed[u]
<1>1. pc'[t] = "idle" /\ \A u \in Thread \ {t} : Stays(u) /\ claimed'[u] = claimed[u]
  BY DEF Finish, Forget, Stays, TInv, TypeOK
<1> QED
  BY <1>1, Blind

LEMMA FinishShare ==
  ASSUME TInv, ShareInv, NEW t \in Thread \ Deleter, Finish(t), SameRows,
         UNCHANGED <<pve, resource, abandoned>>
  PROVE  ShareInv'
  BY FinishStays, ShareKept

\* A task goes on to another point and writes no row that counts.
LEMMA MoveShare ==
  ASSUME TInv, ShareInv, NEW t \in Thread \ Deleter, SameRows,
         UNCHANGED <<pve, resource, abandoned, job>>,
         NEW p, pc' = [pc EXCEPT ![t] = p],
         \A u \in Thread \ {t} : seen'[u] = seen[u] /\ plan'[u] = plan[u] /\ claimed'[u] = claimed[u],
         Sight(t)'
  PROVE  ShareInv'
<1>1. \A u \in Thread \ {t} : Stays(u)
  BY DEF Stays, TInv, TypeOK
<1> QED
  BY <1>1, ShareKept

(***************************************************************************)
(* A machine becomes that of a request                                     *)
(***************************************************************************)
\* The vmid was not registered, or its deletion broke off long ago.
LEMMA TakeShare ==
  ASSUME OwnHosts, TInv, ProvInv, HeldInv, ShareInv, NEW t \in Thread \ Deleter,
         pc[t] \in {"built", "inserting", "joining"},
         NEW v \in Vmid, v = plan[t].vm, NEW r \in Request, r = job[t],
         vmidOf[r] = NoVmid, v \notin abandoned => v \notin resource,
         resource' = resource \/ resource' = resource \cup {v},
         v \notin abandoned => v \in resource',
         vmidOf' = [vmidOf EXCEPT ![r] = v],
         status' = [status EXCEPT ![r] = "running"], Finish(t), UNCHANGED abandoned,
         \A q : \A w \in Vmid : Will(w, q) <=> IsMachineOf(w, q)
  PROVE  ShareInv'
<1>1. \A u \in Thread \ {t} : Stays(u) /\ claimed'[u] = claimed[u]
  BY FinishStays
<1>2. \A w \in Vmid : Late(w)' <=> Late(w)
  BY <1>1 DEF Late, Stays, Thread
<1>3. /\ r \notin Holders(v)
      /\ Holders(v)' = Holders(v) \cup {r}
      /\ \A w \in Vmid \ {v} : Holders(w)' = Holders(w)
  BY NullsAssumption DEF Holders, TInv, TypeOK
<1>4. \A w \in (Vmid \ abandoned) \ {v} : Share(w)'
  BY <1>2, <1>3, SameShare DEF ShareInv
<1>5. ASSUME v \notin abandoned
      PROVE  Share(v)'
  <2>1. v \notin resource /\ v \in resource' /\ Share(v)
    BY <1>5 DEF ShareInv
  <2>2. CASE Late(v)
    <3>1. PICK q \in Request : Holders(v) = {q}
      BY <2>1, <2>2 DEF Share
    <3>2. q # r /\ Holders(v)' = {r, q}
      BY <1>3, <3>1
    <3> QED
      BY <1>2, <2>1, <2>2, <3>2 DEF Share
  <2>3. CASE ~Late(v)
    <3>1. Holders(v)' = {r}
      BY <1>3, <2>1, <2>3 DEF Share
    <3> QED
      BY <1>2, <2>1, <2>3, <3>1 DEF Share
  <2> QED
    BY <2>2, <2>3
<1>6. v \notin abandoned => IsMachineOf(v, r)
  BY DEF ShareInv, Sight
<1>7. ASSUME NEW u \in Thread \ {t}
      PROVE  WorldKept(u)
  <2>1. Looking(u) => job[u] # r /\ job[u] \in Request
    BY Apart DEF Looking, Holding, Locking, InFlight, TInv, JobInv
  <2>2. Looking(u) /\ v \notin abandoned => ~IsMachineOf(v, job[u])
    BY <1>6, <2>1 DEF OwnHosts, IsMachineOf
  <2>3. Looking(u) /\ pc[u] # "looking" => plan[u].vm \in Vmid
    BY DEF Looking, TInv, PlanInv
  <2> QED
    BY <2>2, <2>3 DEF WorldKept
<1>8. \A w \in resource' \ abandoned : Exists(w)' \/ Going(w)
  <2> TAKE w \in resource' \ abandoned
  <2>1. CASE w = v
    BY <1>6, <2>1 DEF Will, Exists
  <2>2. CASE w # v
    <3>1. w \in resource /\ w \in Vmid
      BY <2>2 DEF TInv, TypeOK
    <3>2. Exists(w) => Exists(w)'
      <4>2. ASSUME Exists(w)
            PROVE  pve'[w] # NoVm
        <5>1. pve[w] \in VM
          BY <3>1, <4>2 DEF Exists, TInv, TypeOK
        <5>2. PICK q \in Request : pve[w].host = HostOf[q]
          BY <5>1 DEF VM
        <5>3. IsMachineOf(w, q)
          BY <4>2, <5>2 DEF IsMachineOf
        <5> QED
          BY <3>1, <5>3 DEF Will
      <4> QED
        BY <3>1, <4>2 DEF Exists
    <3> QED
      BY <3>1, <3>2 DEF ShareInv
  <2> QED
    BY <2>1, <2>2
<1>9. \A w \in Vmid : Holders(w) \subseteq Holders(w)'
  BY <1>3
<1> QED
  BY <1>1, <1>4, <1>5, <1>7, <1>8, <1>9, FinishStays, ThreadShare

(***************************************************************************)
(* The steps                                                               *)
(***************************************************************************)
LEMMA UserShare ==
  ASSUME TInv, ShareInv, NEW r \in Request, UserStep(r)
  PROVE  ShareInv'
<1>1. /\ UNCHANGED <<vmidOf, pve, resource, abandoned, pc, job, seen, claimed, plan>>
      /\ \A q \in Request : (status'[q] = "running") <=> (status[q] = "running")
  BY DEF UserStep, Create, CreateImmediate, Approve, Reject, Cancel, Retry, OpenWindow,
         EndWindow, threadVars, dbVars, TInv, TypeOK
<1>2. SameRows
  BY <1>1, RowsSame
<1>3. \A v \in Vmid : (Late(v)' <=> Late(v)) /\ (Going(v)' <=> Going(v)) /\ (Exists(v)' <=> Exists(v))
  BY <1>1 DEF Late, Going, Exists
<1>4. \A v \in Vmid \ abandoned : Share(v)'
  BY <1>1, <1>2, <1>3, SameShare DEF ShareInv, SameRows
<1>5. \A v \in (resource \ abandoned)' : Exists(v)' \/ Going(v)'
  BY <1>1, <1>3 DEF ShareInv, TInv, TypeOK
<1>6. \A u \in Thread : Sight(u)'
  BY <1>1 DEF ShareInv, Sight, IsMachineOf, Exists, Going
<1>7. \A d \in Deleter : DeletionKnows(d)'
  <2> TAKE d \in Deleter
  <2>1. d \in Thread /\ (pc[d] = "rejecting" => plan[d].vm \in Vmid)
    BY DEF Thread, TInv, PlanInv
  <2> DEFINE v == plan[d].vm
  <2>2. pc[d] = "rejecting" => job[d] \in {q \in Request : status'[q] = "running" /\ vmidOf'[q] = v}
    BY <1>1, <2>1 DEF ShareInv, DeletionKnows, Holders
  <2> QED
    BY <1>1, <2>2 DEF ShareInv, DeletionKnows, Holders
<1> QED
  BY <1>1, <1>4, <1>5, <1>6, <1>7 DEF ShareInv

LEMMA TaskShare ==
  ASSUME TInv, ShareInv, NEW t \in Task, TaskStep(t)
  PROVE  ShareInv'
<1> t \in Thread \ Deleter
  BY ThreadsAssumption DEF Thread
<1>1. UNCHANGED <<status, vmidOf, pve, resource, abandoned>> /\ pc[t] = "idle"
  BY DEF TaskStep, Begin, Drop, dbVars
<1>2. SameRows
  BY <1>1, RowsSame
<1>3. CASE Begin(t)
  <2>1. /\ pc' = [pc EXCEPT ![t] = "chosen"] /\ UNCHANGED <<plan, claimed>>
        /\ \E r : job' = [job EXCEPT ![t] = r] /\ seen' = [seen EXCEPT ![t] = RowOf(r)]
    BY <1>3 DEF Begin, Goto
  <2>2. pc'[t] = "chosen" /\ \A u \in Thread \ {t} : Stays(u) /\ claimed'[u] = claimed[u]
    BY <2>1 DEF Stays, TInv, TypeOK
  <2> QED
    BY <1>1, <1>2, <2>2, Blind, ShareKept
<1>4. CASE Drop(t)
  <2>1. pc'[t] = "idle" /\ \A u \in Thread \ {t} : Stays(u) /\ claimed'[u] = claimed[u]
    BY <1>1, <1>4 DEF Drop, threadVars, Stays
  <2> QED
    BY <1>1, <1>2, <2>1, Blind, ShareKept
<1> QED
  BY <1>3, <1>4 DEF TaskStep

LEMMA EnsureShare ==
  ASSUME OwnHosts, TInv, ProvInv, HeldInv, ShareInv, NEW t \in Task, EnsureStep(t)
  PROVE  ShareInv'
<1> USE DEF dbVars, Goto
<1> t \in Thread \ Deleter
  BY ThreadsAssumption DEF Thread
<1>1. CASE LockRow(t) \/ Refresh(t)
  <2>1. /\ UNCHANGED <<status, vmidOf, pve, resource, abandoned, job>>
        /\ \E p \in {"locked", "refreshed"} : pc' = [pc EXCEPT ![t] = p]
        /\ \A u \in Thread \ {t} : seen'[u] = seen[u] /\ plan'[u] = plan[u] /\ claimed'[u] = claimed[u]
    BY <1>1 DEF LockRow, Refresh, TInv, TypeOK
  <2>2. Sight(t)'
    BY <2>1, Blind DEF TInv, TypeOK
  <2> QED
    BY <2>1, <2>2, RowsSame, MoveShare
<1>2. CASE SkipRow(t) \/ RefreshMissing(t) \/ StartFails(t) \/ AdoptFails(t)
  <2>1. t \notin Scheduler
    BY ThreadsAssumption
  <2> QED
    BY <1>2, <2>1, RowsSame, FinishShare DEF SkipRow, RefreshMissing, StartFails, AdoptFails
<1>3. CASE Start(t)
  <2>1. job[t] \in Request /\ status[job[t]] \in {"approved", "running"}
    BY <1>3 DEF Start, TInv, JobInv, ProvInv, Knows, Holding, Locking
  <2>2. \A r \in Request : (status'[r] = "running") # (status[r] = "running") => vmidOf[r] = NoVmid
    BY <1>3, <2>1 DEF Start, HeldInv, TInv, TypeOK
  <2>3. SameRows
    BY <1>3, <2>2, RowsSame DEF Start
  <2>4. \A r : \A v \in Vmid : Will(v, r) <=> IsMachineOf(v, r)
    BY <1>3, SwitchedWorld DEF Start, PowerOn
  <2>5. Finish(t) /\ UNCHANGED <<resource, abandoned>>
    BY <1>3 DEF Start
  <2>6. /\ Sight(t)'
        /\ \A u \in Thread \ {t} : Stays(u) /\ claimed'[u] = claimed[u]
    BY <2>5, FinishStays
  <2>7. \A v \in Vmid : Late(v)' <=> Late(v)
    BY <2>6 DEF Late, Stays, Thread
  <2>8. \A v \in Vmid \ abandoned : Share(v)'
    BY <2>3, <2>5, <2>7, SameShare DEF ShareInv, SameRows
  <2>9. \A v \in resource' \ abandoned : Exists(v)' \/ Going(v)
    <3>1. \A v \in Vmid : Exists(v) => Exists(v)'
      BY <1>3, SwitchStays DEF Start, PowerOn, MachinesStay
    <3> QED
      BY <2>5, <3>1 DEF ShareInv, TInv, TypeOK
  <2>10. \A u \in Thread \ {t} : WorldKept(u)
    <3>1. \A u \in Thread : Looking(u) /\ pc[u] # "looking" => plan[u].vm \in Vmid
      BY DEF Looking, TInv, PlanInv
    <3> QED
      BY <2>4, <2>5, <3>1 DEF WorldKept
  <2> QED
    BY <2>3, <2>5, <2>6, <2>8, <2>9, <2>10, ThreadShare DEF SameRows
<1>4. CASE ReadClaims(t)
  <2>1. /\ UNCHANGED <<status, vmidOf, pve, resource, abandoned, job, seen, plan>>
        /\ claimed' = [claimed EXCEPT ![t] = ClaimedByOthers(job[t])]
        /\ pc[t] = "locked" /\ pc' = [pc EXCEPT ![t] = "looking"]
    BY <1>4 DEF ReadClaims
  <2>2. pc'[t] = "looking" /\ claimed'[t] = ClaimedByOthers(job[t])
        /\ \A u \in Thread \ {t} : claimed'[u] = claimed[u]
    BY <2>1 DEF TInv, TypeOK
  <2>3. ASSUME NEW v \in Vmid \ abandoned, v \in resource
        PROVE  v \in ClaimedByOthers(job[t])
    <3>1. PICK q \in Request : q \in Holders(v)
      BY <2>3 DEF ShareInv, Share
    <3>2. vmidOf[job[t]] = NoVmid
      BY <2>1 DEF ProvInv, Knows
    <3>3. q # job[t] /\ status[q] \in Active /\ vmidOf[q] = v /\ v # NoVmid
      BY <2>3, <3>1, <3>2, NullsAssumption DEF Holders, Active
    <3> QED
      BY <3>3 DEF ClaimedByOthers
  <2>4. Sight(t)'
    BY <2>1, <2>2, <2>3 DEF Sight
  <2>5. SameRows
    BY <2>1, RowsSame
  <2> QED
    BY <2>1, <2>2, <2>4, <2>5, MoveShare
<1>5. CASE Find(t)
  <2>1. PICK v \in Adoptable(t) : plan' = [plan EXCEPT ![t] = [vm |-> v, ip |-> NoIp]]
    BY <1>5 DEF Find
  <2>2. /\ UNCHANGED <<status, vmidOf, pve, resource, abandoned, job, seen>>
        /\ claimed' = [claimed EXCEPT ![t] = {}]
        /\ pc[t] = "looking" /\ pc' = [pc EXCEPT ![t] = "found"]
    BY <1>5 DEF Find
  <2>3. /\ pc'[t] = "found" /\ plan'[t].vm = v
        /\ \A u \in Thread \ {t} : plan'[u] = plan[u] /\ claimed'[u] = claimed[u]
    BY <2>1, <2>2 DEF TInv, TypeOK
  <2>4. IsMachineOf(v, job[t]) /\ (v \in resource => v \in abandoned)
    BY <2>1, <2>2 DEF Adoptable, ShareInv, Sight
  <2>5. Sight(t)'
    BY <2>2, <2>3, <2>4 DEF Sight, IsMachineOf, Exists
  <2>6. SameRows
    BY <2>2, RowsSame
  <2> QED
    BY <2>2, <2>3, <2>5, <2>6, MoveShare
<1>6. CASE Adopt(t)
  <2>1. /\ UNCHANGED <<status, vmidOf, pve, resource, abandoned, job, seen, plan, claimed>>
        /\ pc[t] = "found"
        /\ pc' = [pc EXCEPT ![t] = IF plan[t].vm \in resource THEN "joining" ELSE "inserting"]
    BY <1>6 DEF Adopt
  <2>2. pc'[t] = IF plan[t].vm \in resource THEN "joining" ELSE "inserting"
    BY <2>1 DEF TInv, TypeOK
  <2>3. Sight(t)'
    BY <2>1, <2>2 DEF ShareInv, Sight, IsMachineOf, Exists
  <2>4. SameRows
    BY <2>1, RowsSame
  <2> QED
    BY <2>1, <2>3, <2>4, MoveShare
<1>7. CASE AdoptCommit(t)
  <2>1. /\ pc[t] \in {"inserting", "joining"} /\ job[t] \in Request /\ plan[t].vm \in Vmid
        /\ vmidOf[job[t]] = NoVmid
    BY <1>7 DEF AdoptCommit, TInv, JobInv, PlanInv, ProvInv, Knows
  <2>2. \A r : \A v \in Vmid : Will(v, r) <=> IsMachineOf(v, r)
    BY <1>7, SwitchedWorld DEF AdoptCommit, PowerOn
  <2>3. /\ plan[t].vm \notin abandoned => pc[t] = "inserting" /\ plan[t].vm \notin resource
        /\ resource' = resource \/ resource' = resource \cup {plan[t].vm}
        /\ pc[t] = "inserting" => plan[t].vm \in resource'
    BY <1>7, <2>1 DEF AdoptCommit, ShareInv, Sight
  <2> QED
    BY <1>7, <2>1, <2>2, <2>3, TakeShare DEF AdoptCommit
<1> QED
  BY <1>1, <1>2, <1>3, <1>4, <1>5, <1>6, <1>7 DEF EnsureStep

\* The cluster carries out a clone: it appears under the name of the request
\* of its thread and under a vmid that had no machine.
LEMMA ClonedWorld ==
  ASSUME OwnHosts, TInv, ProvInv, ShareInv, NEW t \in Thread, pc[t] = "cloning",
         ~Exists(plan[t].vm), pve' = CloneOf(t), resource' = resource,
         abandoned' = abandoned
  PROVE  /\ \A u \in Thread \ {t} : WorldKept(u)
         /\ \A v \in resource' \ abandoned : Exists(v)' \/ Going(v)
         /\ Will(plan[t].vm, job[t])
<1>1. /\ plan[t].vm \in Vmid /\ job[t] \in Request
      /\ pve'[plan[t].vm] \in VM /\ pve'[plan[t].vm].host = HostOf[job[t]]
  BY CloneStays DEF TInv, JobInv, PlanInv
<1>2. \A v \in Vmid \ {plan[t].vm} : pve'[v] = pve[v]
  BY DEF CloneOf, TInv, TypeOK
<1>3. ASSUME NEW u \in Thread \ {t}
      PROVE  WorldKept(u)
  <2>1. Looking(u) => job[u] # job[t] /\ job[u] \in Request
    BY Apart DEF Looking, Holding, Locking, InFlight, TInv, JobInv
  <2>2. Looking(u) => ~Will(plan[t].vm, job[u])
    BY <1>1, <2>1 DEF OwnHosts, Will
  <2>3. Looking(u) /\ pc[u] # "looking" => plan[u].vm \in Vmid
    BY DEF Looking, TInv, PlanInv
  <2> QED
    BY <1>2, <2>2, <2>3 DEF WorldKept, Will, IsMachineOf, Exists
<1>4. \A v \in resource' \ abandoned : Exists(v)' \/ Going(v)
  BY <1>1, <1>2, VmIsNotNoVm DEF ShareInv, Exists, TInv, TypeOK
<1> QED
  BY <1>1, <1>3, <1>4, VmIsNotNoVm DEF Will

\* A task moves on its way to a machine, which it may have made or destroyed.
LEMMA MadeShare ==
  ASSUME TInv, ShareInv, NEW t \in Thread \ Deleter, UNCHANGED <<status, vmidOf, resource, abandoned>>,
         UNCHANGED <<job, seen, claimed, plan>>, NEW p, pc' = [pc EXCEPT ![t] = p],
         \A u \in Thread \ {t} : WorldKept(u),
         \A v \in resource' \ abandoned : Exists(v)' \/ Going(v),
         Sight(t)'
  PROVE  ShareInv'
<1>1. \A u \in Thread \ {t} : Stays(u) /\ claimed'[u] = claimed[u]
  BY DEF Stays, TInv, TypeOK
<1>2. SameRows
  BY RowsSame
<1>3. \A v \in Vmid : Late(v)' <=> Late(v)
  BY <1>1 DEF Late, Stays, Thread
<1>4. \A v \in Vmid \ abandoned : Share(v)'
  BY <1>2, <1>3, SameShare DEF ShareInv, SameRows
<1> QED
  BY <1>1, <1>2, <1>4, ThreadShare DEF SameRows

LEMMA ProvisionShare ==
  ASSUME OwnHosts, TInv, ProvInv, HeldInv, ShareInv, NEW t \in Task, ProvisionStep(t)
  PROVE  ShareInv'
<1> USE DEF dbVars, Goto
<1> t \in Thread \ Deleter
  BY ThreadsAssumption DEF Thread
<1>0. job[t] \in Request /\ vmidOf[job[t]] = NoVmid
  BY DEF ProvisionStep, MarkProvisioning, Plan, PlanFails, Clone, CloneFails, BuildFails,
         ReleaseIp, Revert, Record, RecordFails, TInv, JobInv, ProvInv, Knows, InFlight
<1>1. CASE PlanFails(t) \/ Revert(t)
  <2>1. /\ UNCHANGED <<vmidOf, pve, resource, abandoned>> /\ Finish(t)
        /\ \A r \in Request \ {job[t]} : status'[r] = status[r]
    BY <1>1 DEF PlanFails, Revert, TInv, TypeOK
  <2>2. SameRows
    BY <1>0, <2>1, RowsSame
  <2> QED
    BY <2>1, <2>2, FinishShare
<1>2. CASE MarkProvisioning(t) \/ Plan(t) \/ ReleaseIp(t)
  <2>1. /\ UNCHANGED <<vmidOf, pve, resource, abandoned, job>>
        /\ \A r \in Request \ {job[t]} : status'[r] = status[r]
        /\ \E p \in {"planning", "cloning", "reverting"} : pc' = [pc EXCEPT ![t] = p]
        /\ \A u \in Thread \ {t} : seen'[u] = seen[u] /\ plan'[u] = plan[u] /\ claimed'[u] = claimed[u]
    BY <1>2 DEF MarkProvisioning, Plan, ReleaseIp, TInv, TypeOK
  <2>2. SameRows
    BY <1>0, <2>1, RowsSame
  <2>3. Sight(t)'
    BY <2>1, Blind DEF TInv, TypeOK
  <2> QED
    BY <2>1, <2>2, <2>3, MoveShare
<1>3. CASE Clone(t)
  <2>1. /\ pc[t] = "cloning" /\ ~Exists(plan[t].vm) /\ pve' = CloneOf(t)
        /\ pc' = [pc EXCEPT ![t] = "built"]
        /\ UNCHANGED <<status, vmidOf, resource, abandoned, job, seen, claimed, plan>>
    BY <1>3 DEF Clone
  <2>2. pc'[t] = "built" /\ Will(plan[t].vm, job[t])
    BY <1>0, <2>1, ClonedWorld DEF TInv, TypeOK
  <2>3. plan[t].vm \in resource => plan[t].vm \in abandoned \/ Going(plan[t].vm)
    BY <2>1 DEF ShareInv
  <2>4. Going(plan[t].vm)
            => \E d \in Deleter : pc'[d] = "unlinking" /\ plan'[d].vm = plan[t].vm
    BY <2>1 DEF Going, TInv, TypeOK, Thread
  <2>5. Sight(t)'
    BY <2>1, <2>2, <2>3, <2>4 DEF Sight, Going, Will, IsMachineOf, Exists
  <2> QED
    BY <2>1, <2>5, ClonedWorld, MadeShare
<1>4. CASE CloneFails(t)
  <2>1. /\ pc[t] = "cloning" /\ pc' = [pc EXCEPT ![t] = "failed"]
        /\ UNCHANGED <<status, vmidOf, resource, abandoned, job, seen, claimed, plan>>
        /\ UNCHANGED pve \/ (~Exists(plan[t].vm) /\ pve' = CloneOf(t))
    BY <1>4 DEF CloneFails
  <2>2. Sight(t)'
    BY <2>1, Blind DEF TInv, TypeOK
  <2>3. CASE UNCHANGED pve
    <3>1. \A v \in resource' \ abandoned : Exists(v)' \/ Going(v)
      BY <2>1, <2>3 DEF ShareInv, Exists
    <3> QED
      BY <2>1, <2>2, <2>3, <3>1, SameWorld, MadeShare
  <2>4. CASE ~Exists(plan[t].vm) /\ pve' = CloneOf(t)
    BY <2>1, <2>2, <2>4, ClonedWorld, MadeShare
  <2> QED
    BY <2>1, <2>3, <2>4
<1>5. CASE BuildFails(t)
  <2>1. /\ pc[t] = "built" /\ pc' = [pc EXCEPT ![t] = "failed"]
        /\ UNCHANGED <<status, vmidOf, resource, abandoned, job, seen, claimed, plan>>
        /\ UNCHANGED pve \/ pve' = [pve EXCEPT ![plan[t].vm] = NoVm]
        /\ plan[t].vm \in Vmid
    BY <1>5 DEF BuildFails, TInv, PlanInv
  <2>2. Sight(t)'
    BY <2>1, Blind DEF TInv, TypeOK
  <2>3. CASE UNCHANGED pve
    <3>1. \A v \in resource' \ abandoned : Exists(v)' \/ Going(v)
      BY <2>1, <2>3 DEF ShareInv, Exists
    <3> QED
      BY <2>1, <2>2, <2>3, <3>1, SameWorld, MadeShare
  <2>4. CASE pve' = [pve EXCEPT ![plan[t].vm] = NoVm]
    <3>1. pve'[plan[t].vm] = NoVm /\ \A v \in Vmid \ {plan[t].vm} : pve'[v] = pve[v]
      BY <2>1, <2>4 DEF TInv, TypeOK
    <3>2. \A v \in resource' \ abandoned : Exists(v)' \/ Going(v)
      BY <2>1, <3>1 DEF ShareInv, Sight, Exists
    <3>3. ASSUME NEW u \in Thread \ {t}
          PROVE  WorldKept(u)
      <4>1. Looking(u) => job[u] # job[t] /\ job[u] \in Request
        BY <2>1, Apart DEF Looking, Holding, Locking, InFlight, TInv, JobInv
      <4>2. plan[t].vm \notin abandoned => IsMachineOf(plan[t].vm, job[t])
        BY <2>1 DEF ShareInv, Sight
      <4>3. Looking(u) /\ plan[t].vm \notin abandoned => ~IsMachineOf(plan[t].vm, job[u])
        BY <1>0, <4>1, <4>2 DEF OwnHosts, IsMachineOf
      <4>4. Looking(u) /\ pc[u] # "looking" => plan[u].vm \in Vmid
        BY DEF Looking, TInv, PlanInv
      <4> QED
        BY <2>1, <3>1, <4>3, <4>4 DEF WorldKept, Will, IsMachineOf, Exists
    <3> QED
      BY <2>1, <2>2, <3>2, <3>3, MadeShare
  <2> QED
    BY <2>1, <2>3, <2>4
<1>6. CASE Record(t)
  <2>1. plan[t].vm \in Vmid /\ pc[t] = "built" /\ pve' = pve
    BY <1>6 DEF Record, TInv, PlanInv
  <2>2. \A q : \A w \in Vmid : Will(w, q) <=> IsMachineOf(w, q)
    BY <2>1 DEF Will, IsMachineOf, Exists
  <2> QED
    BY <1>0, <1>6, <2>1, <2>2, TakeShare DEF Record
<1>7. CASE RecordFails(t)
  BY <1>7, RowsSame, FinishShare DEF RecordFails
<1> QED
  BY <1>1, <1>2, <1>3, <1>4, <1>5, <1>6, <1>7 DEF ProvisionStep

\* The point of a single deletion d: it is late for its own vmid, and nobody
\* is late for another.
LEMMA LateOne ==
  ASSUME OneDeletion, NEW d \in Deleter, NEW v
  PROVE  /\ Late(v) <=> pc[d] \in {"linking", "rejecting"} /\ plan[d].vm = v
         /\ Going(v) <=> pc[d] = "unlinking" /\ plan[d].vm = v
  BY DEF OneDeletion, Late, Going

LEMMA LateOneNext ==
  ASSUME OneDeletion, NEW d \in Deleter, NEW v
  PROVE  /\ Late(v)' <=> pc'[d] \in {"linking", "rejecting"} /\ plan'[d].vm = v
         /\ Going(v)' <=> pc'[d] = "unlinking" /\ plan'[d].vm = v
  BY DEF OneDeletion, Late, Going

LEMMA DeletionMoves ==
  ASSUME OneDeletion, TInv, ShareInv, NEW d \in Deleter,
         \A u \in Thread \ {d} : Stays(u) /\ claimed'[u] = claimed[u],
         \A u \in Thread \ {d} : WorldKept(u),
         abandoned \subseteq abandoned', GoingKept,
         pc'[d] \in {"idle", "unlinking", "linking", "rejecting"},
         DeletionKnows(d)',
         \A v \in (Vmid \ abandoned)' : Share(v)',
         \A v \in (resource \ abandoned)' : Exists(v)' \/ Going(v)'
  PROVE  ShareInv'
<1>1. \A u \in Thread \ {d} : Sight(u)'
  BY SightKept DEF ShareInv
<1>2. Sight(d)'
  BY Blind
<1>3. \A c \in Deleter : c = d
  BY DEF OneDeletion
<1> QED
  BY <1>1, <1>2, <1>3 DEF ShareInv

\* A deletion gives up: its vmid is abandoned.
LEMMA GiveUpShare ==
  ASSUME OneDeletion, TInv, ShareInv, NEW d \in Deleter,
         UNCHANGED <<status, vmidOf, pve, resource>>, pc[d] \in Deleting, pc'[d] = "idle",
         \A u \in Thread \ {d} : Stays(u) /\ claimed'[u] = claimed[u],
         abandoned' = abandoned \cup {plan[d].vm}
  PROVE  ShareInv'
<1>1. \A v \in (Vmid \ abandoned)' : ~Late(v) /\ ~Late(v)' /\ ~Going(v)
  BY LateOne, LateOneNext
<1>2. \A v \in Vmid : Holders(v)' = Holders(v)
  BY DEF Holders
<1>3. \A v \in (Vmid \ abandoned)' : Share(v)'
  BY <1>1, <1>2, SameShare DEF ShareInv
<1>4. GoingKept
  BY <1>1 DEF GoingKept, TInv, TypeOK
<1>5. \A v \in (resource \ abandoned)' : Exists(v)' \/ Going(v)'
  BY <1>1 DEF ShareInv, Exists, TInv, TypeOK
<1>6. DeletionKnows(d)'
  BY DEF DeletionKnows
<1> QED
  BY <1>3, <1>4, <1>5, <1>6, SameWorld, DeletionMoves

LEMMA DeleterShare ==
  ASSUME OneDeletion, TInv, HeldInv, ShareInv, NEW d \in Deleter, DeleterStep(d)
  PROVE  ShareInv'
<1> USE DEF dbVars, Goto
<1>0. d \in Thread /\ d \notin Task /\ \A c \in Deleter : c = d
  BY ThreadsAssumption DEF Thread, OneDeletion
<1>1. CASE Destroy(d)
  <2>1. PICK v \in resource : /\ plan' = [plan EXCEPT ![d] = [vm |-> v, ip |-> NoIp]]
                              /\ pve' = [pve EXCEPT ![v] = NoVm]
    BY <1>1 DEF Destroy
  <2>2. /\ pc[d] = "idle" /\ pc' = [pc EXCEPT ![d] = "unlinking"]
        /\ UNCHANGED <<status, vmidOf, resource, abandoned, job, seen, claimed>>
    BY <1>1 DEF Destroy
  <2>3. /\ pc'[d] = "unlinking" /\ plan'[d].vm = v /\ v \in Vmid
        /\ \A u \in Thread \ {d} : Stays(u) /\ claimed'[u] = claimed[u]
        /\ pve'[v] = NoVm /\ \A w \in Vmid \ {v} : pve'[w] = pve[w]
    BY <1>0, <2>1, <2>2 DEF Stays, TInv, TypeOK
  <2>4. \A w \in Vmid : ~Late(w) /\ ~Late(w)' /\ ~Going(w) /\ (Going(w)' <=> w = v)
    BY <2>2, <2>3, LateOne, LateOneNext
  <2>5. \A w \in (Vmid \ abandoned)' : Share(w)'
    <3> TAKE w \in (Vmid \ abandoned)'
    <3>1. Holders(w)' = Holders(w)
      BY <2>2 DEF Holders
    <3> QED
      BY <2>2, <2>4, <3>1, SameShare DEF ShareInv
  <2>6. \A w \in (resource \ abandoned)' : Exists(w)' \/ Going(w)'
    BY <2>2, <2>3, <2>4 DEF ShareInv, Exists, TInv, TypeOK
  <2>7. ASSUME NEW u \in Thread \ {d}
        PROVE  WorldKept(u)
    <3>1. Looking(u) /\ pc[u] # "looking" /\ plan[u].vm = v => v \in abandoned
      BY <2>3, <2>4 DEF Looking, ShareInv, Sight
    <3>2. Looking(u) /\ pc[u] # "looking" => plan[u].vm \in Vmid
      BY DEF Looking, TInv, PlanInv
    <3> QED
      BY <2>2, <2>3, <3>1, <3>2 DEF WorldKept, Will, IsMachineOf, Exists
  <2>8. GoingKept /\ DeletionKnows(d)'
    BY <2>2, <2>3, <2>4 DEF GoingKept, DeletionKnows, TInv, TypeOK
  <2> QED
    BY <2>2, <2>3, <2>5, <2>6, <2>7, <2>8, DeletionMoves
<1>2. CASE Unlink(d)
  <2> DEFINE v == plan[d].vm
  <2>1. /\ pc[d] = "unlinking" /\ pc' = [pc EXCEPT ![d] = "linking"]
        /\ resource' = resource \ {v}
        /\ UNCHANGED <<status, vmidOf, pve, abandoned, job, seen, claimed, plan>>
    BY <1>2 DEF Unlink
  <2>2. /\ v \in resource /\ v \in Vmid /\ pc'[d] = "linking"
        /\ \A u \in Thread \ {d} : Stays(u) /\ claimed'[u] = claimed[u]
    BY <1>0, <2>1 DEF Stays, ShareInv, DeletionKnows, TInv, TypeOK
  <2>3. \A w \in Vmid : ~Late(w) /\ (Late(w)' <=> w = v) /\ (Going(w) <=> w = v)
    BY <2>1, <2>2, LateOne, LateOneNext
  <2>4. ASSUME NEW w \in (Vmid \ abandoned)'
        PROVE  Share(w)'
    <3>1. Holders(w)' = Holders(w)
      BY <2>1 DEF Holders
    <3> QED
      BY <2>1, <2>2, <2>3, <3>1 DEF ShareInv, Share
  <2>5. \A w \in (resource \ abandoned)' : Exists(w)' \/ Going(w)'
    BY <2>1, <2>3 DEF ShareInv, Exists, TInv, TypeOK
  <2>6. \A u \in Thread : WorldKept(u)
    BY <2>1 DEF WorldKept, Will, IsMachineOf, Exists
  <2>7. GoingKept /\ DeletionKnows(d)'
    BY <2>1, <2>2, <2>3 DEF GoingKept, DeletionKnows, TInv, TypeOK
  <2> QED
    BY <2>1, <2>2, <2>4, <2>5, <2>6, <2>7, DeletionMoves
<1>3. CASE FindLinked(d)
  <2>1. /\ pc[d] = "linking" /\ plan[d].vm \in Vmid
        /\ UNCHANGED <<status, vmidOf, pve, resource, abandoned>>
    BY <1>0, <1>3 DEF FindLinked, TInv, PlanInv
  <2>2. \A w \in Vmid : Late(w) <=> w = plan[d].vm
    BY <2>1, LateOne
  <2>3. CASE Finish(d)
    <3>1. /\ pc'[d] = "idle"
          /\ \A u \in Thread \ {d} : Stays(u) /\ claimed'[u] = claimed[u]
      BY <1>0, <2>3, FinishStays
    <3>2. \A w \in Vmid : ~Late(w)' /\ ~Going(w)
      BY <2>1, <3>1, LateOne, LateOneNext
    <3>3. \A w \in Vmid : Holders(w)' = Holders(w)
      BY <2>1 DEF Holders
    <3>4. plan[d].vm \notin abandoned => \E q \in Request : q \in Holders(plan[d].vm)
      BY <2>1, <2>2 DEF ShareInv, Share
    <3>5. CASE plan[d].vm \notin abandoned
      <4>1. PICK r \in Request : /\ pc' = [pc EXCEPT ![d] = "rejecting"]
                                 /\ job' = [job EXCEPT ![d] = r]
        BY <1>3, <3>4, <3>5 DEF FindLinked, Holders, Active
      <4> QED
        BY <1>0, <3>1, <4>1 DEF TInv, TypeOK
    <3>6. CASE plan[d].vm \in abandoned
      <4>1. \A w \in (Vmid \ abandoned)' : Share(w)'
        BY <2>1, <2>2, <3>2, <3>3, <3>6, SameShare DEF ShareInv
      <4>2. \A w \in (resource \ abandoned)' : Exists(w)' \/ Going(w)'
        BY <2>1, <3>2 DEF ShareInv, Exists, TInv, TypeOK
      <4>3. GoingKept /\ DeletionKnows(d)'
        BY <2>1, <3>1, <3>2 DEF GoingKept, DeletionKnows, TInv, TypeOK
      <4>4. \A u \in Thread : WorldKept(u)
        BY <2>1, SameWorld
      <4> QED
        BY <2>1, <3>1, <4>1, <4>2, <4>3, <4>4, DeletionMoves
    <3> QED
      BY <3>5, <3>6
  <2>4. CASE ~Finish(d)
    <3>1. PICK r \in Request :
            /\ vmidOf[r] = plan[d].vm /\ status[r] \in Active
            /\ job' = [job EXCEPT ![d] = r]
            /\ pc' = [pc EXCEPT ![d] = "rejecting"] /\ UNCHANGED <<seen, claimed, plan>>
      BY <1>3, <2>4 DEF FindLinked
    <3>2. r \in Holders(plan[d].vm)
      BY <2>1, <3>1, NullsAssumption DEF HeldInv, Holders, Active
    <3>3. /\ pc'[d] = "rejecting" /\ job'[d] = r
          /\ \A u \in Thread \ {d} : Stays(u) /\ claimed'[u] = claimed[u]
      BY <1>0, <3>1 DEF Stays, TInv, TypeOK
    <3>4. \A w \in Vmid : (Late(w)' <=> Late(w)) /\ ~Going(w)
      BY <2>1, <3>1, <3>3, LateOne, LateOneNext
    <3>5. \A w \in Vmid : Holders(w)' = Holders(w)
      BY <2>1 DEF Holders
    <3>6. \A w \in (Vmid \ abandoned)' : Share(w)'
      BY <2>1, <3>4, <3>5, SameShare DEF ShareInv
    <3>7. \A w \in (resource \ abandoned)' : Exists(w)' \/ Going(w)'
      BY <2>1, <3>4 DEF ShareInv, Exists, TInv, TypeOK
    <3>8. GoingKept
      BY <2>1, <3>4 DEF GoingKept, TInv, TypeOK
    <3>9. DeletionKnows(d)'
      BY <2>1, <3>1, <3>2, <3>3 DEF DeletionKnows, Holders
    <3>10. \A u \in Thread : WorldKept(u)
      BY <2>1, SameWorld
    <3> QED
      BY <2>1, <3>3, <3>6, <3>7, <3>8, <3>9, <3>10, DeletionMoves
  <2> QED
    BY <2>3, <2>4
<1>4. CASE RejectLinked(d)
  <2>1. /\ pc[d] = "rejecting" /\ UNCHANGED <<vmidOf, pve, resource, abandoned>> /\ Finish(d)
        /\ status' = [status EXCEPT ![job[d]] = "rejected"]
        /\ plan[d].vm \in Vmid /\ job[d] \in Holders(plan[d].vm)
    BY <1>0, <1>4 DEF RejectLinked, ShareInv, DeletionKnows, TInv, PlanInv
  <2>2. /\ pc'[d] = "idle"
        /\ \A u \in Thread \ {d} : Stays(u) /\ claimed'[u] = claimed[u]
    BY <1>0, <2>1, FinishStays
  <2>3. \A w : Holders(w)' = Holders(w) \ {job[d]}
    BY <2>1 DEF Holders, TInv, TypeOK
  <2>4. \A w \in Vmid \ {plan[d].vm} : job[d] \notin Holders(w)
    BY <2>1 DEF Holders
  <2>5. \A w \in Vmid : ~Late(w)' /\ ~Going(w) /\ (Late(w) <=> w = plan[d].vm)
    BY <2>1, <2>2, LateOne, LateOneNext
  <2>6. \A w \in (Vmid \ abandoned) \ {plan[d].vm} : Share(w)'
    BY <2>1, <2>3, <2>4, <2>5 DEF ShareInv, Share
  <2>7. ASSUME NEW v \in Vmid \ abandoned, v = plan[d].vm
        PROVE  Share(v)'
    <3>1. CASE v \in resource
      <4>1. PICK q, r \in Request : q # r /\ Holders(v) = {q, r}
        BY <2>1, <2>5, <2>7, <3>1 DEF ShareInv, Share
      <4>2. Holders(v)' = {q} \/ Holders(v)' = {r}
        BY <2>1, <2>3, <2>7, <4>1
      <4> QED
        BY <2>1, <2>5, <2>7, <3>1, <4>2 DEF Share
    <3>2. CASE v \notin resource
      <4>1. PICK r \in Request : Holders(v) = {r}
        BY <2>1, <2>5, <2>7, <3>2 DEF ShareInv, Share
      <4>2. Holders(v)' = {}
        BY <2>1, <2>3, <2>7, <4>1
      <4> QED
        BY <2>1, <2>5, <2>7, <3>2, <4>2 DEF Share
    <3> QED
      BY <3>1, <3>2
  <2>8. \A w \in (Vmid \ abandoned)' : Share(w)'
    BY <2>1, <2>6, <2>7
  <2>9. \A w \in (resource \ abandoned)' : Exists(w)' \/ Going(w)'
    BY <2>1, <2>5 DEF ShareInv, Exists, TInv, TypeOK
  <2>10. GoingKept /\ DeletionKnows(d)'
    BY <2>1, <2>2, <2>5 DEF GoingKept, DeletionKnows, TInv, TypeOK
  <2>11. \A u \in Thread : WorldKept(u)
    BY <2>1, SameWorld
  <2> QED
    BY <2>1, <2>2, <2>8, <2>9, <2>10, <2>11, DeletionMoves
<1>5. CASE DeleteFails(d)
  <2>1. /\ pc[d] \in Deleting /\ UNCHANGED <<status, vmidOf, pve, resource>> /\ Finish(d)
        /\ abandoned' = abandoned \cup {plan[d].vm}
    BY <1>5 DEF DeleteFails
  <2> QED
    BY <1>0, <2>1, FinishStays, GiveUpShare
<1> QED
  BY <1>1, <1>2, <1>3, <1>4, <1>5 DEF DeleterStep

LEMMA CrashShare ==
  ASSUME OwnHosts, OneDeletion, TInv, ProvInv, ShareInv, NEW t \in Thread, Crash(t)
  PROVE  ShareInv'
<1>1. UNCHANGED <<status, vmidOf, resource>>
  BY DEF Crash, dbVars
<1>2. /\ pc'[t] = "idle" /\ Sight(t)'
      /\ \A u \in Thread \ {t} : Stays(u) /\ claimed'[u] = claimed[u]
  <2>1. pc'[t] = "idle" /\ \A u \in Thread \ {t} : Stays(u) /\ claimed'[u] = claimed[u]
    BY DEF Crash, Forget, Stays, TInv, TypeOK
  <2> QED
    BY <2>1, Blind
<1>3. CASE t \in Deleter
  <2>1. pc[t] \in Deleting /\ UNCHANGED pve /\ abandoned' = abandoned \cup {plan[t].vm}
    BY <1>3 DEF Crash, ProvInv, RoleInv, Deleting
  <2> QED
    BY <1>1, <1>2, <1>3, <2>1, GiveUpShare
<1>4. CASE t \notin Deleter
  <2>1. pc[t] \notin Deleting
    BY <1>4 DEF OneDeletion, Thread, ProvInv, RoleInv, Deleting, Holding, Locking, InFlight
  <2>2. UNCHANGED abandoned
    BY <2>1 DEF Crash
  <2>3. SameRows
    BY <1>1, RowsSame
  <2>4. CASE UNCHANGED pve
    BY <1>1, <1>2, <1>4, <2>2, <2>3, <2>4, ShareKept
  <2>5. CASE pc[t] = "cloning" /\ ~Exists(plan[t].vm) /\ pve' = CloneOf(t)
    <3>1. \A v \in Vmid : Late(v)' <=> Late(v)
      BY <1>2, <1>4 DEF Late, Stays, Thread
    <3>2. \A v \in Vmid \ abandoned : Share(v)'
      BY <1>1, <2>3, <3>1, SameShare DEF ShareInv, SameRows
    <3> QED
      BY <1>1, <1>2, <1>4, <2>2, <2>3, <2>5, <3>2, ClonedWorld, ThreadShare DEF SameRows
  <2> QED
    BY <2>4, <2>5 DEF Crash
<1> QED
  BY <1>3, <1>4

LEMMA NextShare ==
  ASSUME OwnHosts, OneDeletion, "loss" \notin Fault,
         TInv, ProvInv, HeldInv, ShareInv, [Next]_vars
  PROVE  ShareInv'
<1>1. CASE UNCHANGED vars
  <2>1. UNCHANGED <<status, vmidOf, pve, resource, abandoned, pc, job, seen, claimed, plan>>
    BY <1>1 DEF vars
  <2> QED
    BY <2>1
    DEF ShareInv, Share, Holders, Late, Going, Exists, Sight, DeletionKnows, IsMachineOf
<1>2. ~\E v \in Vmid : Lose(v)
  BY DEF Lose, MayFault
<1> QED
  BY <1>1, <1>2, UserShare, TaskShare, EnsureShare, ProvisionShare, DeleterShare, CrashShare
  DEF Next, OneDeletion

\* With background tasks alone, one deletion at a time, hostnames that differ
\* and no loss on the cluster, two active requests never hold one vmid, but
\* for a vmid whose deletion is late or has broken off: although what others
\* claim, the machines and the registrations are read at three moments, and
\* whatever else fails.  With one hostname for all, or with a machine lost
\* between Find and Adopt, TLC finds two holders.
THEOREM TasksNeverShare ==
  ASSUME OneDeletion, OwnHosts, "loss" \notin Fault
  PROVE  Spec => []NoSharedVm
<1>1. Init => ProvInv /\ HeldInv /\ ShareInv
  BY InitProv, InitHeld, InitShare
<1>2. TInv /\ ProvInv /\ HeldInv /\ ShareInv /\ [Next]_vars => ProvInv' /\ HeldInv' /\ ShareInv'
  BY NextProv, NextHeld, NextShare DEF OneDeletion
<1>3. TInv /\ HeldInv /\ ShareInv => NoSharedVm
  <2> SUFFICES ASSUME TInv, HeldInv, ShareInv, NEW q \in Request, NEW r \in Request,
                      status[q] \in Active, status[r] \in Active,
                      vmidOf[q] = vmidOf[r], vmidOf[q] # NoVmid, q # r,
                      vmidOf[q] \notin abandoned
               PROVE  Late(vmidOf[q])
    BY DEF NoSharedVm, Late
  <2>1. vmidOf[q] \in Vmid /\ q \in Holders(vmidOf[q]) /\ r \in Holders(vmidOf[q])
    BY DEF TInv, TypeOK, HeldInv, Holders, Active
  <2>2. Share(vmidOf[q])
    BY <2>1 DEF ShareInv
  <2> QED
    BY <2>1, <2>2 DEF Share
<1> QED
  BY <1>1, <1>2, <1>3, Typed, PTL DEF Spec

(***************************************************************************)
(* Addresses: what would have to be reserved                               *)
(***************************************************************************)
\* Points at which a thread acts on the address of the vmid of its plan.
Claiming == {"cloning", "failed", "unlinking"}

\* No two threads that clone, clean up or delete do so under one vmid: what
\* the platform would have if the cluster's next free id were reserved.
OwnPlans ==
    \A t, u \in Thread :
        pc[t] \in Claiming /\ pc[u] \in Claiming /\ plan[t].vm = plan[u].vm => t = u

\* The address of a machine is recorded for its vmid; a plan has its address,
\* and the vmid of who gives an address back is that of no machine.
Recorded(v) == Exists(v) => pve[v].ip \in Ip /\ ips[pve[v].ip] = v

Claims(t) ==
    /\ pc[t] = "cloning" => ips[plan[t].ip] = plan[t].vm
    /\ pc[t] \in Claiming => ~Exists(plan[t].vm)

IpInv == (\A v \in Vmid : Recorded(v)) /\ (\A t \in Thread : Claims(t))

LEMMA InitIps == Init => IpInv
  BY DEF Init, IpInv, Recorded, Claims, Claiming, Exists

\* No machine is made and no address moves.
LEMMA IpsKept ==
  ASSUME IpInv, UNCHANGED ips,
         \A v \in Vmid : pve'[v] = NoVm \/ (Exists(v) /\ pve'[v].ip = pve[v].ip),
         \A t \in Thread : pc'[t] = "cloning" => pc[t] = "cloning" /\ plan'[t] = plan[t],
         \A t \in Thread : pc'[t] \in Claiming =>
            (pc[t] \in Claiming /\ plan'[t] = plan[t]) \/ pve'[plan'[t].vm] = NoVm
  PROVE  IpInv'
<1>1. ASSUME NEW v \in Vmid PROVE Recorded(v)'
  BY DEF IpInv, Recorded, Exists
<1>2. ASSUME NEW t \in Thread PROVE Claims(t)'
  BY DEF IpInv, Claims, Claiming, Exists
<1> QED
  BY <1>1, <1>2 DEF IpInv

\* A thread moves between points at which it claims nothing.
LEMMA IpsMoved ==
  ASSUME IpInv, UNCHANGED <<pve, ips>>, NEW t \in Thread, pc'[t] \notin Claiming,
         \A u \in Thread \ {t} : pc'[u] = pc[u] /\ plan'[u] = plan[u]
  PROVE  IpInv'
<1>1. \A v \in Vmid : pve'[v] = NoVm \/ (Exists(v) /\ pve'[v].ip = pve[v].ip)
  BY DEF Exists
<1> QED
  BY <1>1, IpsKept DEF Claiming

LEMMA IpsSwitched ==
  ASSUME TInv, NEW v, Exists(v), NEW on \in BOOLEAN,
         pve' = [pve EXCEPT ![v] = [@ EXCEPT !.on = on]]
  PROVE  \A w \in Vmid : pve'[w] = NoVm \/ (Exists(w) /\ pve'[w].ip = pve[w].ip)
<1>1. v \in Vmid /\ pve[v] \in VM
  BY DEF Exists, TInv, TypeOK
<1>2. [pve[v] EXCEPT !.on = on].ip = pve[v].ip
  BY <1>1 DEF VM
<1>3. pve'[v] = [pve[v] EXCEPT !.on = on]
  BY <1>1 DEF TInv, TypeOK
<1>4. \A w \in Vmid \ {v} : pve'[w] = pve[w]
  BY DEF TInv, TypeOK
<1> QED
  BY <1>2, <1>3, <1>4 DEF Exists

LEMMA IpsFinished ==
  ASSUME TInv, NEW t \in Thread, Finish(t)
  PROVE  pc'[t] = "idle" /\ \A u \in Thread \ {t} : pc'[u] = pc[u] /\ plan'[u] = plan[u]
  BY DEF Finish, Forget, TInv, TypeOK

\* The machine of a plan is made, whether its thread lives to see it or not.
LEMMA IpsCloned ==
  ASSUME TInv, IpInv, OwnPlans, NEW t \in Thread, pc[t] = "cloning", pve' = CloneOf(t),
         UNCHANGED ips, pc'[t] \notin Claiming,
         \A u \in Thread \ {t} : pc'[u] = pc[u] /\ plan'[u] = plan[u]
  PROVE  IpInv'
<1>1. plan[t].vm \in Vmid /\ plan[t].ip \in Ip /\ ips[plan[t].ip] = plan[t].vm
  BY DEF TInv, PlanInv, IpInv, Claims
<1>2. pve'[plan[t].vm].ip = plan[t].ip /\ \A v \in Vmid \ {plan[t].vm} : pve'[v] = pve[v]
  BY <1>1 DEF CloneOf, TInv, TypeOK
<1>3. ASSUME NEW v \in Vmid PROVE Recorded(v)'
  BY <1>1, <1>2 DEF IpInv, Recorded, Exists
<1>4. ASSUME NEW u \in Thread PROVE Claims(u)'
  <2>1. CASE pc'[u] \notin Claiming
    BY <2>1 DEF Claims, Claiming
  <2>2. CASE pc'[u] \in Claiming
    <3>1. u # t /\ pc'[u] = pc[u] /\ plan'[u] = plan[u]
      BY <2>2
    <3>2. plan[u].vm # plan[t].vm
      BY <2>2, <3>1 DEF OwnPlans, Claiming
    <3> QED
      BY <1>2, <3>1, <3>2 DEF IpInv, Claims, Exists
  <2> QED
    BY <2>1, <2>2
<1> QED
  BY <1>3, <1>4 DEF IpInv

\* An address that is given back is that of no machine and of no other plan.
LEMMA IpsReleased ==
  ASSUME TInv, IpInv, OwnPlans, NEW t \in Thread, pc[t] \in Claiming, pc'[t] \notin Claiming,
         \/ UNCHANGED ips
         \/ \E i \in {j \in Ip : ips[j] = plan[t].vm} : ips' = [ips EXCEPT ![i] = NoVmid],
         UNCHANGED pve, \A u \in Thread \ {t} : pc'[u] = pc[u] /\ plan'[u] = plan[u]
  PROVE  IpInv'
<1>1. CASE UNCHANGED ips
  BY <1>1, IpsMoved
<1>2. CASE \E i \in {j \in Ip : ips[j] = plan[t].vm} : ips' = [ips EXCEPT ![i] = NoVmid]
  <2>1. PICK i \in Ip : ips[i] = plan[t].vm /\ ips' = [ips EXCEPT ![i] = NoVmid]
    BY <1>2
  <2>2. \A j \in Ip \ {i} : ips'[j] = ips[j]
    BY <2>1 DEF TInv, TypeOK
  <2>3. ~Exists(plan[t].vm)
    BY DEF IpInv, Claims
  <2>4. ASSUME NEW v \in Vmid PROVE Recorded(v)'
    BY <2>1, <2>2, <2>3 DEF IpInv, Recorded, Exists
  <2>5. ASSUME NEW u \in Thread PROVE Claims(u)'
    <3>1. CASE pc'[u] \notin Claiming
      BY <3>1 DEF Claims, Claiming
    <3>2. CASE pc'[u] \in Claiming
      <4>1. u # t /\ pc'[u] = pc[u] /\ plan'[u] = plan[u]
        BY <3>2
      <4>2. plan[u].vm # plan[t].vm
        BY <3>2, <4>1 DEF OwnPlans
      <4>3. pc[u] = "cloning" => plan[u].ip \in Ip
        BY DEF TInv, PlanInv
      <4> QED
        BY <2>1, <2>2, <4>1, <4>2, <4>3 DEF IpInv, Claims, Exists
    <3> QED
      BY <3>1, <3>2
  <2> QED
    BY <2>4, <2>5 DEF IpInv
<1> QED
  BY <1>1, <1>2

LEMMA IpsPlanned ==
  ASSUME TInv, IpInv, OwnPlans', NEW t \in Thread, Plan(t)
  PROVE  IpInv'
<1>1. PICK v \in Vmid, i \in Ip :
        /\ ~Exists(v) /\ ips[i] = NoVmid
        /\ ips' = [ips EXCEPT ![i] = v] /\ plan' = [plan EXCEPT ![t] = [vm |-> v, ip |-> i]]
  BY DEF Plan
<1>2. /\ ips'[i] = v /\ \A j \in Ip \ {i} : ips'[j] = ips[j]
      /\ plan'[t] = [vm |-> v, ip |-> i] /\ pc'[t] = "cloning"
      /\ \A u \in Thread \ {t} : pc'[u] = pc[u] /\ plan'[u] = plan[u]
      /\ UNCHANGED pve
  BY <1>1 DEF Plan, Goto, TInv, TypeOK
<1>n. NoVmid \notin Vmid
  BY NullsAssumption
<1>3. ASSUME NEW w \in Vmid PROVE Recorded(w)'
  BY <1>1, <1>2, <1>3, <1>n DEF IpInv, Recorded, Exists
<1>4. ASSUME NEW u \in Thread PROVE Claims(u)'
  <2>1. CASE u = t
    BY <1>1, <1>2, <2>1 DEF Claims, Exists
  <2>2. CASE u # t
    <3>1. pc[u] = "cloning" => plan[u].ip \in Ip /\ plan[u].vm \in Vmid
      BY DEF TInv, PlanInv
    <3> QED
      BY <1>1, <1>2, <1>n, <2>2, <3>1 DEF IpInv, Claims, Exists
  <2> QED
    BY <2>1, <2>2
<1> QED
  BY <1>3, <1>4 DEF IpInv

LEMMA NextIps ==
  ASSUME {"unseen", "leftover"} \cap Fault = {}, TInv, IpInv, OwnPlans, OwnPlans', [Next]_vars
  PROVE  IpInv'
<1> USE DEF dbVars, threadVars
<1>m. ASSUME NEW t \in Thread, NEW point, Goto(t, point)
      PROVE  pc'[t] = point /\ \A u \in Thread \ {t} : pc'[u] = pc[u]
  BY <1>m DEF Goto, TInv, TypeOK
<1>p. ASSUME NEW t \in Thread, NEW new, plan' = [plan EXCEPT ![t] = new]
      PROVE  plan'[t] = new /\ \A u \in Thread \ {t} : plan'[u] = plan[u]
  BY <1>p DEF TInv, TypeOK
<1>s. ASSUME UNCHANGED <<pve, ips, pc, plan>> PROVE IpInv'
  <2>1. \A v \in Vmid : pve'[v] = NoVm \/ (Exists(v) /\ pve'[v].ip = pve[v].ip)
    BY <1>s DEF Exists
  <2> QED
    BY <1>s, <2>1, IpsKept
<1>1. CASE UNCHANGED vars
  BY <1>1, <1>s DEF vars
<1>2. ASSUME NEW r \in Request, UserStep(r) PROVE IpInv'
  BY <1>2, <1>s DEF UserStep, Create, CreateImmediate, Approve, Reject, Cancel, Retry, OpenWindow,
     EndWindow
<1>3. ASSUME NEW s \in Scheduler, SchedulerStep(s) PROVE IpInv'
  <2>0. s \in Thread
    BY DEF Thread
  <2>1. CASE List(s) \/ Visit(s) \/ ConfirmGone(s) \/ Clear(s) \/ StopList(s)
    <3>1. /\ \E point \in {"chosen", "clearing", "retrying", "stopping"} : Goto(s, point)
          /\ UNCHANGED <<pve, ips, plan>>
      BY <2>1 DEF List, Visit, ConfirmGone, Clear, StopList
    <3> QED
      BY <1>m, <2>0, <3>1, IpsMoved DEF Claiming
  <2>2. CASE StillThere(s) \/ StopMissing(s)
    <3>1. Finish(s) /\ UNCHANGED <<pve, ips>>
      BY <2>2 DEF StillThere, StopMissing
    <3> QED
      BY <2>0, <3>1, IpsFinished, IpsMoved DEF Claiming
  <2>3. CASE Stop(s)
    <3>1. Finish(s) /\ UNCHANGED ips
      BY <2>3 DEF Stop
    <3>2. \A w \in Vmid : pve'[w] = NoVm \/ (Exists(w) /\ pve'[w].ip = pve[w].ip)
      BY <2>3, IpsSwitched DEF Stop
    <3> QED
      BY <2>0, <3>1, <3>2, IpsFinished, IpsKept DEF Claiming
  <2> QED
    BY <1>3, <2>1, <2>2, <2>3 DEF SchedulerStep
<1>4. ASSUME NEW t \in Task, TaskStep(t) PROVE IpInv'
  <2>1. CASE Begin(t)
    <3>1. Goto(t, "chosen") /\ UNCHANGED <<pve, ips, plan>> /\ t \in Thread
      BY <2>1 DEF Begin, Thread
    <3> QED
      BY <1>m, <3>1, IpsMoved DEF Claiming
  <2>2. CASE Drop(t)
    BY <1>s, <2>2 DEF Drop
  <2> QED
    BY <1>4, <2>1, <2>2 DEF TaskStep
<1>5. ASSUME NEW t \in Scheduler \cup Task, EnsureStep(t) PROVE IpInv'
  <2>0. t \in Thread
    BY DEF Thread
  <2>1. CASE LockRow(t) \/ Refresh(t)
    <3>1. (Goto(t, "locked") \/ Goto(t, "refreshed")) /\ UNCHANGED <<pve, ips, plan>>
      BY <2>1 DEF LockRow, Refresh
    <3> QED
      BY <1>m, <2>0, <3>1, IpsMoved DEF Claiming
  <2>2. CASE SkipRow(t) \/ StartFails(t) \/ AdoptFails(t)
    <3>1. Finish(t) /\ UNCHANGED <<pve, ips>>
      BY <2>2 DEF SkipRow, StartFails, AdoptFails
    <3> QED
      BY <2>0, <3>1, IpsFinished, IpsMoved DEF Claiming
  <2>3. CASE RefreshMissing(t)
    <3>1. UNCHANGED <<pve, ips>> /\ (Finish(t) \/ (Goto(t, "missing") /\ UNCHANGED plan))
      BY <2>3 DEF RefreshMissing
    <3> QED
      BY <1>m, <2>0, <3>1, IpsFinished, IpsMoved DEF Claiming
  <2>4. CASE Start(t) \/ AdoptCommit(t)
    <3>1. Finish(t) /\ UNCHANGED ips
      BY <2>4 DEF Start, AdoptCommit
    <3>2. \A w \in Vmid : pve'[w] = NoVm \/ (Exists(w) /\ pve'[w].ip = pve[w].ip)
      BY <2>4, IpsSwitched DEF Start, AdoptCommit, PowerOn
    <3> QED
      BY <2>0, <3>1, <3>2, IpsFinished, IpsKept DEF Claiming
  <2>5. CASE ReadClaims(t) \/ Find(t) \/ Adopt(t)
    <3>1. /\ \E point \in {"looking", "found", "joining", "inserting"} : Goto(t, point)
          /\ UNCHANGED <<pve, ips>>
      BY <2>5 DEF ReadClaims, Find, Adopt
    <3>2. UNCHANGED plan \/ \E new : plan' = [plan EXCEPT ![t] = new]
      BY <2>5 DEF ReadClaims, Find, Adopt
    <3>3. \A u \in Thread \ {t} : plan'[u] = plan[u]
      BY <1>p, <2>0, <3>2
    <3>4. pc'[t] \notin Claiming /\ \A u \in Thread \ {t} : pc'[u] = pc[u]
      BY <1>m, <2>0, <3>1 DEF Claiming
    <3> QED
      BY <2>0, <3>1, <3>3, <3>4, IpsMoved
  <2> QED
    BY <1>5, <2>1, <2>2, <2>3, <2>4, <2>5 DEF EnsureStep
<1>6. ASSUME NEW t \in Scheduler \cup Task, ProvisionStep(t) PROVE IpInv'
  <2>0. t \in Thread
    BY DEF Thread
  <2>1. CASE MarkProvisioning(t)
    <3>1. Goto(t, "planning") /\ UNCHANGED <<pve, ips, plan>>
      BY <2>1 DEF MarkProvisioning
    <3> QED
      BY <1>m, <2>0, <3>1, IpsMoved DEF Claiming
  <2>2. CASE Plan(t)
    BY <2>0, <2>2, IpsPlanned
  <2>3. CASE PlanFails(t) \/ Revert(t) \/ Record(t) \/ RecordFails(t)
    <3>1. Finish(t) /\ UNCHANGED <<pve, ips>>
      BY <2>3 DEF PlanFails, Revert, Record, RecordFails
    <3> QED
      BY <2>0, <3>1, IpsFinished, IpsMoved DEF Claiming
  <2>4. CASE Clone(t)
    <3>1. pc[t] = "cloning" /\ pve' = CloneOf(t) /\ Goto(t, "built") /\ UNCHANGED <<ips, plan>>
      BY <2>4 DEF Clone
    <3>2. pc'[t] \notin Claiming /\ \A u \in Thread \ {t} : pc'[u] = pc[u] /\ plan'[u] = plan[u]
      BY <1>m, <2>0, <3>1 DEF Claiming
    <3> QED
      BY <2>0, <3>1, <3>2, IpsCloned
  <2>5. CASE CloneFails(t)
    <3>1. pc[t] = "cloning" /\ Goto(t, "failed") /\ UNCHANGED <<pve, ips, plan>>
      BY <2>5 DEF CloneFails, MayFault
    <3>2. pc'[t] = "failed" /\ \A u \in Thread \ {t} : pc'[u] = pc[u]
      BY <1>m, <2>0, <3>1
    <3>3. \A v \in Vmid : pve'[v] = NoVm \/ (Exists(v) /\ pve'[v].ip = pve[v].ip)
      BY <3>1 DEF Exists
    <3> QED
      BY <3>1, <3>2, <3>3, IpsKept DEF Claiming
  <2>6. CASE BuildFails(t)
    <3>1. /\ pc[t] = "built" /\ Goto(t, "failed") /\ UNCHANGED <<ips, plan>>
          /\ pve' = [pve EXCEPT ![plan[t].vm] = NoVm]
      BY <2>6 DEF BuildFails, MayFault
    <3>2. plan[t].vm \in Vmid
      BY <2>0, <3>1 DEF TInv, PlanInv
    <3>3. pc'[t] = "failed" /\ \A u \in Thread \ {t} : pc'[u] = pc[u]
      BY <1>m, <2>0, <3>1
    <3>4. pve'[plan[t].vm] = NoVm /\ \A v \in Vmid \ {plan[t].vm} : pve'[v] = pve[v]
      BY <3>1, <3>2 DEF TInv, TypeOK
    <3>5. \A v \in Vmid : pve'[v] = NoVm \/ (Exists(v) /\ pve'[v].ip = pve[v].ip)
      BY <3>4 DEF Exists
    <3>6. plan'[t] = plan[t]
      BY <3>1
    <3> QED
      BY <3>1, <3>3, <3>4, <3>5, <3>6, IpsKept DEF Claiming
  <2>7. CASE ReleaseIp(t)
    <3>1. /\ pc[t] = "failed" /\ Goto(t, "reverting") /\ UNCHANGED <<pve, plan>>
          /\ \/ UNCHANGED ips
             \/ \E i \in {j \in Ip : ips[j] = plan[t].vm} : ips' = [ips EXCEPT ![i] = NoVmid]
      BY <2>7 DEF ReleaseIp
    <3>2. pc[t] \in Claiming /\ pc'[t] \notin Claiming
          /\ \A u \in Thread \ {t} : pc'[u] = pc[u] /\ plan'[u] = plan[u]
      BY <1>m, <2>0, <3>1 DEF Claiming
    <3> QED
      BY <2>0, <3>1, <3>2, IpsReleased
  <2> QED
    BY <1>6, <2>1, <2>2, <2>3, <2>4, <2>5, <2>6, <2>7 DEF ProvisionStep
<1>7. ASSUME NEW d \in Deleter, DeleterStep(d) PROVE IpInv'
  <2>0. d \in Thread
    BY DEF Thread
  <2>1. CASE Destroy(d)
    <3>1. PICK v \in resource : /\ pve' = [pve EXCEPT ![v] = NoVm]
                                /\ plan' = [plan EXCEPT ![d] = [vm |-> v, ip |-> NoIp]]
      BY <2>1 DEF Destroy
    <3>2. Goto(d, "unlinking") /\ UNCHANGED ips /\ v \in Vmid
      BY <2>1 DEF Destroy, TInv, TypeOK
    <3>3. pc'[d] = "unlinking" /\ \A u \in Thread \ {d} : pc'[u] = pc[u]
      BY <1>m, <2>0, <3>2
    <3>n. plan'[d] = [vm |-> v, ip |-> NoIp] /\ \A u \in Thread \ {d} : plan'[u] = plan[u]
      BY <1>p, <2>0, <3>1
    <3>4. plan'[d].vm = v /\ \A u \in Thread \ {d} : plan'[u] = plan[u]
      BY <3>n
    <3>5. pve'[v] = NoVm /\ \A w \in Vmid \ {v} : pve'[w] = pve[w]
      BY <3>1, <3>2 DEF TInv, TypeOK
    <3>6. \A w \in Vmid : pve'[w] = NoVm \/ (Exists(w) /\ pve'[w].ip = pve[w].ip)
      BY <3>5 DEF Exists
    <3> QED
      BY <3>2, <3>3, <3>4, <3>5, <3>6, IpsKept DEF Claiming
  <2>2. CASE Unlink(d)
    <3>1. /\ pc[d] = "unlinking" /\ Goto(d, "linking") /\ UNCHANGED <<pve, plan>>
          /\ \/ UNCHANGED ips
             \/ \E i \in {j \in Ip : ips[j] = plan[d].vm} : ips' = [ips EXCEPT ![i] = NoVmid]
      BY <2>2 DEF Unlink
    <3>2. pc[d] \in Claiming /\ pc'[d] \notin Claiming
          /\ \A u \in Thread \ {d} : pc'[u] = pc[u] /\ plan'[u] = plan[u]
      BY <1>m, <2>0, <3>1 DEF Claiming
    <3> QED
      BY <2>0, <3>1, <3>2, IpsReleased
  <2>3. CASE FindLinked(d)
    <3>1. UNCHANGED <<pve, ips>> /\ (Finish(d) \/ (Goto(d, "rejecting") /\ UNCHANGED plan))
      BY <2>3 DEF FindLinked
    <3> QED
      BY <1>m, <2>0, <3>1, IpsFinished, IpsMoved DEF Claiming
  <2>4. CASE RejectLinked(d)
    <3>1. Finish(d) /\ UNCHANGED <<pve, ips>>
      BY <2>4 DEF RejectLinked
    <3> QED
      BY <2>0, <3>1, IpsFinished, IpsMoved DEF Claiming
  <2>5. CASE DeleteFails(d)
    <3>1. Finish(d) /\ UNCHANGED <<pve, ips>>
      BY <2>5 DEF DeleteFails
    <3> QED
      BY <2>0, <3>1, IpsFinished, IpsMoved DEF Claiming
  <2> QED
    BY <1>7, <2>1, <2>2, <2>3, <2>4, <2>5 DEF DeleterStep
<1>8. ASSUME NEW t \in Thread, Crash(t) PROVE IpInv'
  <2>1. pc'[t] = "idle" /\ UNCHANGED ips
        /\ \A u \in Thread \ {t} : pc'[u] = pc[u] /\ plan'[u] = plan[u]
    BY <1>8 DEF Crash, Forget, TInv, TypeOK
  <2>2. CASE UNCHANGED pve
    BY <2>1, <2>2, IpsMoved DEF Claiming
  <2>3. CASE pc[t] = "cloning" /\ pve' = CloneOf(t)
    BY <2>1, <2>3, IpsCloned DEF Claiming
  <2> QED
    BY <1>8, <2>2, <2>3 DEF Crash
<1>9. ASSUME NEW v \in Vmid, Lose(v) PROVE IpInv'
  <2>1. UNCHANGED <<ips, pc, plan>> /\ pve' = [pve EXCEPT ![v] = NoVm]
    BY <1>9 DEF Lose
  <2>2. \A w \in Vmid : pve'[w] = NoVm \/ (Exists(w) /\ pve'[w].ip = pve[w].ip)
    BY <2>1 DEF Exists, TInv, TypeOK
  <2> QED
    BY <2>1, <2>2, IpsKept
<1> QED
  BY <1>1, <1>2, <1>3, <1>4, <1>5, <1>6, <1>7, <1>8, <1>9 DEF Next

\* Machines have addresses of their own as long as no two threads clone, clean
\* up or delete under one vmid at a time and a failed provisioning leaves no
\* machine behind: with any number of loops, tasks and deletions, other
\* failures and crashes.  A clone that goes on after its poll failed and a
\* clean-up that fails leave a machine whose address is released; they and ids
\* that the cluster does not reserve are all that an address race can be due to.
THEOREM ReservedIdsKeepAddresses ==
  ASSUME {"unseen", "leftover"} \cap Fault = {}
  PROVE  Spec /\ []OwnPlans => []DistinctIps
<1>1. TInv /\ IpInv /\ OwnPlans /\ OwnPlans' /\ [Next]_vars => IpInv'
  BY NextIps
<1>2. IpInv => DistinctIps
  BY DEF IpInv, Recorded, DistinctIps, Exists
<1> QED
  BY <1>1, <1>2, InitIps, Typed, PTL DEF Spec

(***************************************************************************)
(* Who brings a deleted machine back                                       *)
(***************************************************************************)
LEMMA HeldIsNotApproved ==
  ASSUME Scheduler = {}, TInv, ProvInv, [Next]_vars,
         NEW r \in Request, status[r] = "running", vmidOf[r] # NoVmid
  PROVE  status'[r] # "approved"
<1> USE DEF dbVars
<1>w. ASSUME NEW q \in Request, NEW s, status' = [status EXCEPT ![q] = s], q # r \/ s # "approved"
      PROVE  status'[r] # "approved"
  BY <1>w DEF TInv, TypeOK
<1>1. CASE UNCHANGED status
  BY <1>1
<1>2. ASSUME NEW q \in Request, UserStep(q)
      PROVE  status'[r] # "approved"
  BY <1>2, <1>w, <1>1
  DEF UserStep, Create, CreateImmediate, Approve, Reject, Cancel, Retry, OpenWindow, EndWindow
<1>3. ASSUME NEW t \in Task, TaskStep(t) \/ EnsureStep(t) \/ ProvisionStep(t)
      PROVE  status'[r] # "approved"
  <2>0. t \in Thread
    BY <1>3 DEF Thread
  <2>1. CASE Start(t) \/ AdoptCommit(t) \/ Record(t) \/ MarkProvisioning(t)
    <3>1. job[t] \in Request
      BY <2>0, <2>1 DEF Start, AdoptCommit, Record, MarkProvisioning, TInv, JobInv
    <3> QED
      BY <2>1, <3>1, <1>w DEF Start, AdoptCommit, Record, MarkProvisioning
  <2>2. CASE PlanFails(t) \/ Revert(t)
    <3>1. job[t] \in Request /\ vmidOf[job[t]] = NoVmid
      BY <2>0, <2>2 DEF PlanFails, Revert, TInv, JobInv, ProvInv, Knows, InFlight
    <3>2. \E s : status' = [status EXCEPT ![job[t]] = s]
      BY <2>2 DEF PlanFails, Revert
    <3> QED
      BY <3>1, <3>2, <1>w
  <2> QED
    BY <1>1, <1>3, <2>1, <2>2
    DEF TaskStep, Begin, Drop, EnsureStep, LockRow, SkipRow, Refresh, RefreshMissing,
        StartFails, ReadClaims, Find, Adopt, AdoptFails, ProvisionStep, Plan, Clone, CloneFails, BuildFails,
        ReleaseIp, RecordFails
<1>4. ASSUME NEW d \in Deleter, DeleterStep(d)
      PROVE  status'[r] # "approved"
  <2>1. CASE RejectLinked(d)
    <3>1. job[d] \in Request
      BY <1>4, <2>1 DEF RejectLinked, TInv, JobInv, Thread
    <3> QED
      BY <2>1, <3>1, <1>w DEF RejectLinked
  <2> QED
    BY <1>1, <1>4, <2>1 DEF DeleterStep, Destroy, Unlink, FindLinked, DeleteFails
<1>5. ASSUME NEW t \in Thread, Crash(t)
      PROVE  status'[r] # "approved"
  BY <1>1, <1>5 DEF Crash
<1>6. ASSUME NEW v \in Vmid, Lose(v)
      PROVE  status'[r] # "approved"
  BY <1>1, <1>6 DEF Lose
<1> QED
  BY <1>1, <1>2, <1>3, <1>4, <1>5, <1>6 DEF Next, vars

\* Without scheduler loops the request of a machine that is being deleted is
\* not handed out again, whatever the tasks, handlers and failures do: none of
\* them moves a request that holds a vmid back to approved.  Only the start
\* pass does, as the counterexample of the run of DeletedIsNotReapproved shows.
THEOREM TasksDoNotReapprove ==
  ASSUME Scheduler = {}
  PROVE  Spec => DeletedIsNotReapproved
<1>1. Init => ProvInv /\ HeldInv
  BY InitProv, InitHeld
<1>2. TInv /\ ProvInv /\ HeldInv /\ [Next]_vars => ProvInv' /\ HeldInv'
  BY NextProv, NextHeld
<1>3. TInv /\ ProvInv /\ HeldInv /\ [Next]_vars
        => [\A d \in Deleter, r \in Request :
              /\ pc[d] \in Deleting
              /\ vmidOf[r] = plan[d].vm /\ status[r] \in Active
              => status'[r] # "approved"]_vars
  <2>1. SUFFICES ASSUME TInv, ProvInv, HeldInv, [Next]_vars,
                        NEW d \in Deleter, NEW r \in Request,
                        pc[d] \in Deleting,
                        vmidOf[r] = plan[d].vm, status[r] \in Active
                 PROVE  status'[r] # "approved"
    OBVIOUS
  <2>2. vmidOf[r] # NoVmid
    BY <2>1, NullsAssumption DEF TInv, PlanInv, Thread, Deleting
  <2>3. status[r] = "running"
    BY <2>1, <2>2 DEF HeldInv, Active
  <2> QED
    BY <2>1, <2>2, <2>3, HeldIsNotApproved
<1> QED
  BY <1>1, <1>2, <1>3, Typed, PTL DEF Spec, DeletedIsNotReapproved
=============================================================================
