-------------------------- MODULE VMRequestProofs --------------------------
(* Theorems about VMRequest, for every value of its constants. *)
EXTENDS VMRequest, TLAPS

\* A thread at work on a request knows which one.
JobInv ==
    \A t \in Thread : pc[t] \notin {"idle", "unlinking", "linking"} => job[t] \in Request

\* A thread past the choice of a machine knows its vmid, and before the clone
\* its address.
PlanInv ==
    \A t \in Thread :
        /\ pc[t] \in {"found", "inserting", "joining", "cloning", "built", "failed", "reverting",
                      "unlinking", "linking", "rejecting"} => plan[t].vm \in Vmid
        /\ pc[t] = "cloning" => plan[t].ip \in Ip

TInv == TypeOK /\ JobInv /\ PlanInv

LEMMA InitTyped == Init => TInv
  BY NullsAssumption, ThreadsAssumption, FaultAssumption
  DEF Init, TInv, TypeOK, JobInv, PlanInv, Status, PC, InFlight, Locking, Row, NoRow, NoPlan,
      Thread

LEMMA FinishTyped ==
  ASSUME TInv, NEW t \in Thread, Finish(t)
  PROVE  /\ lock' \in [Request -> Thread \cup {Free}]
         /\ pc' \in [Thread -> PC]
         /\ job' \in [Thread -> Request \cup {NoRequest}]
         /\ seen' \in [Thread -> Row]
         /\ claimed' \in [Thread -> SUBSET Vmid]
         /\ plan' \in [Thread -> [vm : Vmid \cup {NoVmid}, ip : Ip \cup {NoIp}]]
         /\ batch' = batch
         /\ JobInv' /\ PlanInv'
  BY DEF Finish, Release, Forget, TInv, TypeOK, JobInv, PlanInv, PC, Row, NoRow, NoPlan,
         Status

LEMMA RowTyped ==
  ASSUME TInv, NEW r \in Request
  PROVE  RowOf(r) \in Row
  BY DEF RowOf, Row, TInv, TypeOK

LEMMA PowerOnTyped ==
  ASSUME TInv, NEW v, Exists(v)
  PROVE  PowerOn(v) \in [Vmid -> VM \cup {NoVm}]
<1>1. v \in Vmid /\ pve[v] \in VM
  BY DEF Exists, TInv, TypeOK
<1>2. [pve[v] EXCEPT !.on = TRUE] \in VM
  BY <1>1 DEF VM
<1> QED
  BY <1>1, <1>2 DEF PowerOn, TInv, TypeOK

LEMMA CloneTyped ==
  ASSUME TInv, NEW t \in Thread, pc[t] = "cloning"
  PROVE  CloneOf(t) \in [Vmid -> VM \cup {NoVm}]
  BY DEF CloneOf, TInv, TypeOK, JobInv, PlanInv, VM, PC

LEMMA UserTyped ==
  ASSUME TInv, NEW r \in Request, UserStep(r)
  PROVE  TInv'
<1> USE DEF threadVars, dbVars, TInv, TypeOK, JobInv, PlanInv
<1>1. CASE Create(r)
  BY <1>1 DEF Create, Status
<1>6. CASE CreateImmediate(r)
  BY <1>6 DEF CreateImmediate, Status
<1>2. CASE Approve(r) \/ Reject(r)
  BY <1>2 DEF Approve, Reject, Status
<1>3. CASE Cancel(r)
  BY <1>3 DEF Cancel, Status
<1>4. CASE Retry(r)
  BY <1>4 DEF Retry
<1>5. CASE OpenWindow(r) \/ EndWindow(r)
  BY <1>5 DEF OpenWindow, EndWindow
<1> QED
  BY <1>1, <1>2, <1>3, <1>4, <1>5, <1>6 DEF UserStep

LEMMA SchedulerTyped ==
  ASSUME TInv, NEW s \in Scheduler, SchedulerStep(s)
  PROVE  TInv'
<1> s \in Thread
  BY DEF Thread
<1> USE DEF dbVars, Goto
<1>1. CASE List(s)
  <2>1. PICK r \in Request : /\ job' = [job EXCEPT ![s] = r]
                             /\ seen' = [seen EXCEPT ![s] = RowOf(r)]
                             /\ batch' = [batch EXCEPT ![s] = {q \in Request : Due(q)} \ {r}]
    BY <1>1 DEF List
  <2>2. RowOf(r) \in Row
    BY RowTyped
  <2> QED
    BY <1>1, <2>1, <2>2 DEF List, TInv, TypeOK, JobInv, PlanInv, PC
<1>2. CASE Visit(s)
  <2>1. PICK r \in batch[s] : /\ job' = [job EXCEPT ![s] = r]
                              /\ seen' = [seen EXCEPT ![s] = RowOf(r)]
                              /\ batch' = [batch EXCEPT ![s] = @ \ {r}]
    BY <1>2 DEF Visit
  <2>2. r \in Request
    BY DEF TInv, TypeOK
  <2>3. RowOf(r) \in Row
    BY <2>2, RowTyped
  <2> QED
    BY <1>2, <2>1, <2>2, <2>3 DEF Visit, TInv, TypeOK, JobInv, PlanInv, PC
<1>3. CASE ConfirmGone(s)
  <2>1. job[s] \in Request
    BY <1>3 DEF ConfirmGone, TInv, JobInv
  <2> QED
    BY <1>3, <2>1, RowTyped DEF ConfirmGone, TInv, TypeOK, JobInv, PlanInv, PC
<1>4. CASE StillThere(s)
  BY <1>4, FinishTyped DEF StillThere, TInv, TypeOK
<1>5. CASE Clear(s)
  <2>1. job[s] \in Request
    BY <1>5 DEF Clear, TInv, JobInv
  <2>2. /\ vmidOf' \in [Request -> Vmid \cup {NoVmid}]
        /\ status' \in [Request -> Status]
        /\ resource' \subseteq Vmid
    BY <1>5, <2>1 DEF Clear, TInv, TypeOK, Status
  <2>3. seen' \in [Thread -> Row]
    BY <1>5, <2>1, <2>2 DEF Clear, TInv, TypeOK, Row, Status
  <2>4. pc' \in [Thread -> PC] /\ JobInv' /\ PlanInv'
    BY <1>5, <2>1 DEF Clear, TInv, TypeOK, JobInv, PlanInv, PC
  <2> QED
    BY <1>5, <2>2, <2>3, <2>4 DEF Clear, TInv, TypeOK
<1>6. CASE StopList(s)
  BY <1>6, RowTyped DEF StopList, TInv, TypeOK, JobInv, PlanInv, PC
<1>7. CASE Stop(s)
  <2>1. pve' \in [Vmid -> VM \cup {NoVm}]
    <3>1. PICK v \in Vmid : pve[v] # NoVm /\ pve' = [pve EXCEPT ![v] = [@ EXCEPT !.on = FALSE]]
      BY <1>7 DEF Stop, Exists
    <3>2. pve[v] \in VM
      BY <3>1 DEF TInv, TypeOK
    <3>3. [pve[v] EXCEPT !.on = FALSE] \in VM
      BY <3>2 DEF VM
    <3> QED
      BY <3>1, <3>3 DEF TInv, TypeOK
  <2> QED
    BY <1>7, <2>1, FinishTyped DEF Stop, TInv, TypeOK
<1>8. CASE StopMissing(s)
  <2>1. vmidOf' \in [Request -> Vmid \cup {NoVmid}]
    BY <1>8 DEF StopMissing, TInv, TypeOK
  <2> QED
    BY <1>8, <2>1, FinishTyped DEF StopMissing, TInv, TypeOK
<1> QED
  BY <1>1, <1>2, <1>3, <1>4, <1>5, <1>6, <1>7, <1>8 DEF SchedulerStep

LEMMA TaskTyped ==
  ASSUME TInv, NEW t \in Task, TaskStep(t)
  PROVE  TInv'
<1> t \in Thread
  BY DEF Thread
<1>1. CASE Begin(t)
  BY <1>1, RowTyped DEF Begin, Goto, dbVars, TInv, TypeOK, JobInv, PlanInv, PC
<1>2. CASE Drop(t)
  BY <1>2 DEF Drop, dbVars, threadVars, TInv, TypeOK, JobInv, PlanInv
<1> QED
  BY <1>1, <1>2 DEF TaskStep

LEMMA EnsureTyped ==
  ASSUME TInv, NEW t \in Thread, EnsureStep(t)
  PROVE  TInv'
<1> USE DEF dbVars, Goto
<1>1. CASE LockRow(t)
  BY <1>1 DEF LockRow, Chosen, TInv, TypeOK, JobInv, PlanInv, PC, Locking
<1>2. CASE SkipRow(t)
  BY <1>2, FinishTyped DEF SkipRow, TInv, TypeOK
<1>3. CASE Refresh(t)
  <2>1. job[t] \in Request
    BY <1>3 DEF Refresh, Chosen, TInv, JobInv
  <2> QED
    BY <1>3, <2>1, RowTyped
    DEF Refresh, TInv, TypeOK, JobInv, PlanInv, PC, Locking
<1>4. CASE RefreshMissing(t)
  <2>1. CASE Finish(t)
    BY <1>4, <2>1, FinishTyped DEF RefreshMissing, TInv, TypeOK
  <2>2. CASE ~Finish(t)
    <3>1. /\ pc' = [pc EXCEPT ![t] = "missing"]
          /\ Release(t) /\ UNCHANGED <<job, seen, claimed, plan, batch>>
      BY <1>4, <2>2 DEF RefreshMissing
    <3>2. job[t] \in Request
      BY <1>4 DEF RefreshMissing, Chosen, TInv, JobInv
    <3>3. lock' \in [Request -> Thread \cup {Free}]
      BY <3>1 DEF Release, TInv, TypeOK
    <3> QED
      BY <1>4, <3>1, <3>2, <3>3 DEF RefreshMissing, TInv, TypeOK, JobInv, PlanInv, PC
  <2> QED
    BY <2>1, <2>2
<1>5. CASE Start(t)
  <2>1. pve' \in [Vmid -> VM \cup {NoVm}] /\ status' \in [Request -> Status]
    BY <1>5, PowerOnTyped DEF Start, TInv, TypeOK, Status
  <2> QED
    BY <1>5, <2>1, FinishTyped DEF Start, TInv, TypeOK
<1>6. CASE StartFails(t)
  BY <1>6, FinishTyped DEF StartFails, TInv, TypeOK
<1>7. CASE ReadClaims(t)
  <2>1. ClaimedByOthers(job[t]) \in SUBSET Vmid
    BY DEF ClaimedByOthers, TInv, TypeOK
  <2> QED
    BY <1>7, <2>1 DEF ReadClaims, TInv, TypeOK, JobInv, PlanInv, PC, Locking
<1>10. CASE Find(t)
  BY <1>10 DEF Find, Adoptable, TInv, TypeOK, JobInv, PlanInv, PC, Locking
<1>11. CASE Adopt(t)
  BY <1>11 DEF Adopt, TInv, TypeOK, JobInv, PlanInv, PC, Locking
<1>8. CASE AdoptCommit(t)
  <2>1. plan[t].vm \in Vmid
    BY <1>8 DEF AdoptCommit, TInv, PlanInv
  <2>2. /\ pve' \in [Vmid -> VM \cup {NoVm}]
        /\ status' \in [Request -> Status]
        /\ vmidOf' \in [Request -> Vmid \cup {NoVmid}]
        /\ resource' \subseteq Vmid
    BY <1>8, <2>1, PowerOnTyped DEF AdoptCommit, TInv, TypeOK, Status
  <2> QED
    BY <1>8, <2>2, FinishTyped DEF AdoptCommit, TInv, TypeOK
<1>9. CASE AdoptFails(t)
  BY <1>9, FinishTyped DEF AdoptFails, TInv, TypeOK
<1> QED
  BY <1>1, <1>2, <1>3, <1>4, <1>5, <1>6, <1>7, <1>8, <1>9, <1>10, <1>11 DEF EnsureStep

LEMMA ProvisionTyped ==
  ASSUME TInv, NEW t \in Thread, ProvisionStep(t)
  PROVE  TInv'
<1> USE DEF dbVars, Goto
<1>1. CASE MarkProvisioning(t)
  BY <1>1
  DEF MarkProvisioning, Release, TInv, TypeOK, JobInv, PlanInv, PC, InFlight, Locking, Status
<1>2. CASE Plan(t)
  BY <1>2 DEF Plan, TInv, TypeOK, JobInv, PlanInv, PC, InFlight
<1>3. CASE PlanFails(t)
  <2>1. status' \in [Request -> Status]
    BY <1>3 DEF PlanFails, TInv, TypeOK, Status
  <2>2. faults' \in 0 .. MaxFault
    BY <1>3, FaultAssumption DEF PlanFails, MayFault, TInv, TypeOK
  <2> QED
    BY <1>3, <2>1, <2>2, FinishTyped DEF PlanFails, TInv, TypeOK
<1>4. CASE Clone(t)
  <2>1. pve' \in [Vmid -> VM \cup {NoVm}]
    BY <1>4, CloneTyped DEF Clone
  <2> QED
    BY <1>4, <2>1 DEF Clone, TInv, TypeOK, JobInv, PlanInv, PC, InFlight
<1>5. CASE CloneFails(t)
  <2>1. faults' \in 0 .. MaxFault
    BY <1>5, FaultAssumption DEF CloneFails, MayFault, TInv, TypeOK
  <2>2. pve' \in [Vmid -> VM \cup {NoVm}]
    BY <1>5, CloneTyped DEF CloneFails, TInv, TypeOK
  <2> QED
    BY <1>5, <2>1, <2>2 DEF CloneFails, TInv, TypeOK, JobInv, PlanInv, PC, InFlight
<1>6. CASE BuildFails(t)
  <2>1. faults' \in 0 .. MaxFault /\ pve' \in [Vmid -> VM \cup {NoVm}]
    BY <1>6, FaultAssumption DEF BuildFails, MayFault, TInv, TypeOK
  <2> QED
    BY <1>6, <2>1 DEF BuildFails, TInv, TypeOK, JobInv, PlanInv, PC, InFlight
<1>7. CASE ReleaseIp(t)
  BY <1>7 DEF ReleaseIp, TInv, TypeOK, JobInv, PlanInv, PC, InFlight
<1>8. CASE Revert(t)
  <2>1. status' \in [Request -> Status]
    BY <1>8 DEF Revert, TInv, TypeOK, Status
  <2> QED
    BY <1>8, <2>1, FinishTyped DEF Revert, TInv, TypeOK
<1>9. CASE Record(t)
  <2>1. plan[t].vm \in Vmid
    BY <1>9 DEF Record, TInv, PlanInv
  <2>2. /\ status' \in [Request -> Status]
        /\ vmidOf' \in [Request -> Vmid \cup {NoVmid}]
        /\ resource' \subseteq Vmid
    BY <1>9, <2>1 DEF Record, TInv, TypeOK, Status
  <2> QED
    BY <1>9, <2>2, FinishTyped DEF Record, TInv, TypeOK
<1>10. CASE RecordFails(t)
  BY <1>10, FinishTyped DEF RecordFails, TInv, TypeOK
<1> QED
  BY <1>1, <1>2, <1>3, <1>4, <1>5, <1>6, <1>7, <1>8, <1>9, <1>10 DEF ProvisionStep

LEMMA DeleterTyped ==
  ASSUME TInv, NEW d \in Deleter, DeleterStep(d)
  PROVE  TInv'
<1> d \in Thread
  BY DEF Thread
<1> USE DEF dbVars, Goto
<1>1. CASE Destroy(d)
  BY <1>1 DEF Destroy, TInv, TypeOK, JobInv, PlanInv, PC, Deleting
<1>2. CASE Unlink(d)
  <2>1. faults' \in 0 .. MaxFault
    BY <1>2, FaultAssumption DEF Unlink, MayFault, TInv, TypeOK
  <2> QED
    BY <1>2, <2>1 DEF Unlink, TInv, TypeOK, JobInv, PlanInv, PC, Deleting
<1>3. CASE FindLinked(d)
  <2>1. CASE Finish(d)
    BY <1>3, <2>1, FinishTyped DEF FindLinked, TInv, TypeOK
  <2>2. CASE ~Finish(d)
    <3>1. PICK r \in Request : job' = [job EXCEPT ![d] = r]
      BY <1>3, <2>2 DEF FindLinked
    <3>2. pc' = [pc EXCEPT ![d] = "rejecting"] /\ UNCHANGED <<lock, seen, claimed, plan, batch>>
      BY <1>3, <2>2 DEF FindLinked
    <3>3. plan[d].vm \in Vmid /\ UNCHANGED <<dbVars, window, pve, queued, abandoned, faults>>
      BY <1>3 DEF FindLinked, TInv, PlanInv
    <3>4. TypeOK'
      BY <3>1, <3>2, <3>3 DEF TInv, TypeOK, PC, Deleting
    <3>5. JobInv' /\ PlanInv'
      BY <3>1, <3>2, <3>3 DEF TInv, TypeOK, JobInv, PlanInv, PC, Deleting
    <3> QED
      BY <3>4, <3>5 DEF TInv
  <2> QED
    BY <2>1, <2>2
<1>4. CASE RejectLinked(d)
  <2>1. status' \in [Request -> Status]
    BY <1>4 DEF RejectLinked, TInv, TypeOK, Status
  <2> QED
    BY <1>4, <2>1, FinishTyped DEF RejectLinked, TInv, TypeOK
<1>5. CASE DeleteFails(d)
  <2>1. faults' \in 0 .. MaxFault
    BY <1>5, FaultAssumption DEF DeleteFails, MayFault, TInv, TypeOK
  <2>2. abandoned' \subseteq Vmid
    BY <1>5 DEF DeleteFails, Deleting, TInv, TypeOK, PlanInv
  <2> QED
    BY <1>5, <2>1, <2>2, FinishTyped DEF DeleteFails, TInv, TypeOK
<1> QED
  BY <1>1, <1>2, <1>3, <1>4, <1>5 DEF DeleterStep

LEMMA CrashTyped ==
  ASSUME TInv, NEW t \in Thread, Crash(t)
  PROVE  TInv'
<1>1. pve' \in [Vmid -> VM \cup {NoVm}]
  BY CloneTyped DEF Crash, TInv, TypeOK
<1>2. faults' \in 0 .. MaxFault
  BY FaultAssumption DEF Crash, MayFault, TInv, TypeOK
<1>3. queued' \subseteq Request /\ batch' \in [Thread -> SUBSET Request]
  BY DEF Crash, TInv, TypeOK
<1>4. /\ lock' \in [Request -> Thread \cup {Free}]
      /\ pc' \in [Thread -> PC]
      /\ job' \in [Thread -> Request \cup {NoRequest}]
      /\ seen' \in [Thread -> Row]
      /\ claimed' \in [Thread -> SUBSET Vmid]
      /\ plan' \in [Thread -> [vm : Vmid \cup {NoVmid}, ip : Ip \cup {NoIp}]]
      /\ JobInv' /\ PlanInv'
  BY DEF Crash, Release, Forget, TInv, TypeOK, JobInv, PlanInv, PC, Row, NoRow, NoPlan, Status
<1>5. abandoned' \subseteq Vmid
  BY DEF Crash, Deleting, TInv, TypeOK, PlanInv
<1> QED
  BY <1>1, <1>2, <1>3, <1>4, <1>5 DEF Crash, dbVars, TInv, TypeOK

LEMMA LoseTyped ==
  ASSUME TInv, NEW v \in Vmid, Lose(v)
  PROVE  TInv'
  BY FaultAssumption
  DEF Lose, MayFault, dbVars, threadVars, TInv, TypeOK, JobInv, PlanInv

LEMMA NextTyped == TInv /\ [Next]_vars => TInv'
<1> SUFFICES ASSUME TInv, [Next]_vars PROVE TInv'
  OBVIOUS
<1>1. CASE UNCHANGED vars
  BY <1>1 DEF vars, TInv, TypeOK, JobInv, PlanInv
<1>2. CASE Next
  BY <1>2, UserTyped, SchedulerTyped, TaskTyped, EnsureTyped, ProvisionTyped, DeleterTyped,
     CrashTyped, LoseTyped
  DEF Next, Thread
<1> QED
  BY <1>1, <1>2

THEOREM Typed == Spec => []TInv
  BY InitTyped, NextTyped, PTL DEF Spec

\* Every variable keeps its type in every behaviour of the program.
THEOREM TypeCorrect == Spec => []TypeOK
<1>1. TInv => TypeOK
  BY DEF TInv
<1> QED
  BY <1>1, Typed, PTL

(***************************************************************************)
(* One provisioner at most, when no scheduler loop runs.                   *)
(***************************************************************************)
\* Points at which a background task holds the lock of its request.
Holding == {"chosen"} \cup Locking

\* Each kind of thread stays within its own part of the coordinator.
RoleInv ==
    /\ \A t \in Task : pc[t] \in {"idle"} \cup Holding \cup InFlight
    /\ \A d \in Deleter : pc[d] \in {"idle", "unlinking", "linking", "rejecting"}

\* What a thread knows of its request: under the lock the request is neither
\* being provisioned nor cancelled, and the copy read with the lock is the
\* row; between the two transactions nobody else gives it a vmid; a request
\* about to be rejected by a deletion keeps its vmid.
Knows(t) ==
    /\ pc[t] \in Holding =>
          lock[job[t]] = t /\ status[job[t]] \in {"approved", "running"}
    /\ pc[t] = "chosen" => seen[t] = RowOf(job[t])
    /\ pc[t] \in {"locked", "looking", "found", "inserting", "joining"} =>
          vmidOf[job[t]] = NoVmid
    /\ pc[t] \in InFlight =>
          status[job[t]] \in {"provisioning", "cancelled"} /\ vmidOf[job[t]] = NoVmid
    /\ pc[t] = "rejecting" => vmidOf[job[t]] # NoVmid

ProvInv ==
    /\ RoleInv
    /\ \A t \in Thread : Knows(t)
    /\ AtMostOneProvisioner

LEMMA InitProv == Init => ProvInv
  BY DEF Init, ProvInv, RoleInv, Knows, AtMostOneProvisioner, Holding, Locking, InFlight,
         Thread

\* A thread that does not move keeps what it knows if the others leave alone
\* the parts of its request that matter at its point.
LEMMA KnowsKept ==
  ASSUME NEW u \in Thread, Knows(u),
         pc'[u] = pc[u], job'[u] = job[u], seen'[u] = seen[u],
         pc[u] \in Holding \cup InFlight => RowOf(job[u])' = RowOf(job[u]),
         pc[u] \in Holding /\ lock[job[u]] = u => lock'[job[u]] = u,
         pc[u] = "rejecting" /\ vmidOf[job[u]] # NoVmid => vmidOf'[job[u]] # NoVmid
  PROVE  Knows(u)'
  BY DEF Knows, RowOf, Holding, Locking, InFlight

LEMMA AtMostOneKept ==
  ASSUME AtMostOneProvisioner,
         \A u \in Thread : pc'[u] \in InFlight => pc[u] \in InFlight /\ job'[u] = job[u]
  PROVE  AtMostOneProvisioner'
  BY DEF AtMostOneProvisioner

LEMMA FinishProv ==
  ASSUME TInv, ProvInv, NEW t \in Thread, Finish(t)
  PROVE  /\ RoleInv' /\ Knows(t)' /\ AtMostOneProvisioner'
         /\ \A u \in Thread \ {t} :
               /\ pc'[u] = pc[u] /\ job'[u] = job[u] /\ seen'[u] = seen[u]
               /\ pc[u] \in Holding => lock'[job[u]] = u
  BY ThreadsAssumption
  DEF Finish, Forget, Release, ProvInv, RoleInv, Knows, AtMostOneProvisioner, Holding, Locking,
      InFlight, Thread, TInv, TypeOK, JobInv

\* A handler may write a row that no thread holds or provisions.
LEMMA HandlerProv ==
  ASSUME TInv, ProvInv, NEW r \in Request,
         lock[r] = Free \/ status[r] = "none",
         status[r] \notin {"approved", "running", "provisioning", "cancelled"},
         NEW s, status' = [status EXCEPT ![r] = s],
         UNCHANGED <<vmidOf, lock, threadVars>>
  PROVE  ProvInv'
<1>1. ASSUME NEW u \in Thread
      PROVE  Knows(u)'
  <2>1. pc[u] \in Holding \cup InFlight => job[u] # r /\ job[u] \in Request
    BY <1>1 DEF ProvInv, Knows, TInv, JobInv, Holding, Locking, InFlight
  <2>2. pc[u] \in Holding \cup InFlight => RowOf(job[u])' = RowOf(job[u])
    BY <2>1 DEF RowOf, TInv, TypeOK, threadVars
  <2> QED
    BY <1>1, <2>2, KnowsKept DEF ProvInv, threadVars
<1> QED
  BY <1>1 DEF ProvInv, RoleInv, AtMostOneProvisioner, threadVars

\* A thread moves without writing a row.
LEMMA MoveProv ==
  ASSUME TInv, ProvInv, NEW t \in Thread,
         UNCHANGED <<status, vmidOf>>,
         \A u \in Thread \ {t} : pc'[u] = pc[u] /\ job'[u] = job[u] /\ seen'[u] = seen[u],
         \A r \in Request : lock[r] \in Thread \ {t} => lock'[r] = lock[r],
         pc'[t] \in InFlight => pc[t] \in InFlight /\ job'[t] = job[t],
         Knows(t)',
         RoleInv'
  PROVE  ProvInv'
<1>1. ASSUME NEW u \in Thread \ {t}
      PROVE  Knows(u)'
  <2>1. pc[u] \in Holding => job[u] \in Request
    BY DEF TInv, JobInv, Holding, Locking
  <2>2. pc[u] \in Holding /\ lock[job[u]] = u => lock'[job[u]] = u
    BY <2>1
  <2> QED
    BY <2>2, KnowsKept DEF ProvInv, RowOf
<1>2. AtMostOneProvisioner'
  BY AtMostOneKept DEF ProvInv
<1> QED
  BY <1>1, <1>2 DEF ProvInv

\* A thread gives up without writing a row.
LEMMA GiveUpProv ==
  ASSUME TInv, ProvInv, NEW t \in Thread, Finish(t), UNCHANGED <<status, vmidOf>>
  PROVE  ProvInv'
<1>1. ASSUME NEW u \in Thread \ {t}
      PROVE  Knows(u)'
  BY FinishProv, KnowsKept DEF ProvInv, RowOf
<1> QED
  BY <1>1, FinishProv DEF ProvInv

\* Nobody else holds or provisions the request that a thread holds, provisions
\* or is about to reject with its row free.
LEMMA Alone ==
  ASSUME TInv, ProvInv, NEW t \in Thread, NEW u \in Thread \ {t},
         pc[u] \in Holding \cup InFlight,
         \/ pc[t] \in Holding
         \/ lock[job[t]] = Free /\ pc[t] \in InFlight \cup {"rejecting"}
  PROVE  job[u] # job[t]
<1>1. CASE pc[u] \in Holding
  BY <1>1, ThreadsAssumption DEF ProvInv, Knows, Holding, Locking, InFlight
<1>2. CASE pc[u] \in InFlight
  <2>1. status[job[u]] \in {"provisioning", "cancelled"} /\ vmidOf[job[u]] = NoVmid
    BY <1>2 DEF ProvInv, Knows
  <2>2. CASE pc[t] \in Holding
    BY <2>1, <2>2 DEF ProvInv, Knows
  <2>3. CASE pc[t] \in InFlight
    BY <1>2, <2>3 DEF ProvInv, AtMostOneProvisioner
  <2>4. CASE pc[t] = "rejecting"
    BY <2>1, <2>4 DEF ProvInv, Knows
  <2> QED
    BY <2>2, <2>3, <2>4
<1> QED
  BY <1>1, <1>2

\* A thread writes the outcome into the row of its request and is done.
LEMMA OutcomeProv ==
  ASSUME TInv, ProvInv, NEW t \in Thread, Finish(t),
         \/ pc[t] \in Holding
         \/ lock[job[t]] = Free /\ pc[t] \in InFlight \cup {"rejecting"},
         \A r \in Request \ {job[t]} : RowOf(r)' = RowOf(r),
         vmidOf'[job[t]] = vmidOf[job[t]] \/ vmidOf'[job[t]] # NoVmid
  PROVE  ProvInv'
<1>1. ASSUME NEW u \in Thread \ {t}
      PROVE  Knows(u)'
  <2>1. pc[u] \in Holding \cup InFlight \cup {"rejecting"} => job[u] \in Request
    BY DEF TInv, JobInv, Holding, Locking, InFlight
  <2>2. pc[u] \in Holding \cup InFlight => RowOf(job[u])' = RowOf(job[u])
    BY <2>1, Alone, FinishProv DEF RowOf
  <2>3. pc[u] = "rejecting" /\ vmidOf[job[u]] # NoVmid => vmidOf'[job[u]] # NoVmid
    BY <2>1 DEF RowOf
  <2> QED
    BY <2>2, <2>3, FinishProv, KnowsKept DEF ProvInv
<1> QED
  BY <1>1, FinishProv DEF ProvInv

LEMMA UserProv ==
  ASSUME TInv, ProvInv, NEW r \in Request, UserStep(r)
  PROVE  ProvInv'
<1>1. CASE Create(r)
  BY <1>1, HandlerProv DEF Create
<1>2. CASE CreateImmediate(r)
  BY <1>2, HandlerProv DEF CreateImmediate
<1>3. CASE Approve(r)
  BY <1>3, HandlerProv DEF Approve
<1>4. CASE Reject(r)
  BY <1>4, HandlerProv DEF Reject
<1>5. CASE Cancel(r)
  <2>1. ASSUME NEW u \in Thread
        PROVE  Knows(u)'
    <3>1. pc[u] \in Holding => job[u] # r
      BY <1>5, <2>1, ThreadsAssumption DEF Cancel, ProvInv, Knows
    <3>2. pc[u] \in Holding \cup InFlight => job[u] \in Request
      BY <2>1 DEF TInv, JobInv, Holding, Locking, InFlight
    <3> QED
      BY <1>5, <2>1, <3>1, <3>2
      DEF Cancel, ProvInv, Knows, RowOf, TInv, TypeOK, threadVars, Holding, Locking, InFlight
  <2> QED
    BY <1>5, <2>1 DEF Cancel, ProvInv, RoleInv, AtMostOneProvisioner, threadVars
<1>6. CASE Retry(r) \/ OpenWindow(r) \/ EndWindow(r)
  BY <1>6
  DEF Retry, OpenWindow, EndWindow, dbVars, threadVars, ProvInv, RoleInv, Knows, RowOf,
      AtMostOneProvisioner
<1> QED
  BY <1>1, <1>2, <1>3, <1>4, <1>5, <1>6 DEF UserStep

LEMMA TaskProv ==
  ASSUME TInv, ProvInv, NEW t \in Task, TaskStep(t)
  PROVE  ProvInv'
<1> t \in Thread
  BY DEF Thread
<1>1. CASE Begin(t)
  <2>1. PICK r \in Request :
          /\ lock[r] = Free /\ status[r] \in {"approved", "running"}
          /\ lock' = [lock EXCEPT ![r] = t]
          /\ job' = [job EXCEPT ![t] = r]
          /\ seen' = [seen EXCEPT ![t] = RowOf(r)]
    BY <1>1 DEF Begin, TInv, TypeOK
  <2>2. pc' = [pc EXCEPT ![t] = "chosen"] /\ UNCHANGED dbVars
    BY <1>1 DEF Begin, Goto
  <2>3. Knows(t)'
    BY <2>1, <2>2 DEF Knows, Holding, Locking, InFlight, RowOf, dbVars, TInv, TypeOK
  <2>4. RoleInv'
    BY <2>2, ThreadsAssumption DEF ProvInv, RoleInv, Holding, Thread, TInv, TypeOK
  <2>5. \A q \in Request : lock[q] \in Thread \ {t} => lock'[q] = lock[q]
    BY <2>1, ThreadsAssumption DEF TInv, TypeOK
  <2> QED
    BY <2>1, <2>2, <2>3, <2>4, <2>5, MoveProv DEF dbVars, InFlight, TInv, TypeOK
<1>2. CASE Drop(t)
  BY <1>2 DEF Drop, dbVars, threadVars, ProvInv, RoleInv, Knows, RowOf, AtMostOneProvisioner
<1> QED
  BY <1>1, <1>2 DEF TaskStep

LEMMA EnsureProv ==
  ASSUME TInv, ProvInv, Scheduler = {}, NEW t \in Task, EnsureStep(t)
  PROVE  ProvInv'
<1> t \in Thread
  BY DEF Thread
<1> USE DEF dbVars, Goto
<1>1. CASE LockRow(t) \/ Refresh(t)
  <2>1. /\ pc[t] = "chosen" /\ lock[job[t]] = t /\ seen[t] = RowOf(job[t])
        /\ status[job[t]] \in {"approved", "running"}
    BY <1>1 DEF LockRow, Refresh, Chosen, ProvInv, RoleInv, Knows, Holding, Locking, InFlight
  <2>2. /\ lock' = [lock EXCEPT ![job[t]] = t]
        /\ pc' = [pc EXCEPT ![t] = IF seen[t].vmid = NoVmid THEN "locked" ELSE "refreshed"]
        /\ UNCHANGED <<status, vmidOf, job>>
    BY <1>1 DEF LockRow, Refresh
  <2>3. \A u \in Thread \ {t} : seen'[u] = seen[u]
    BY <1>1 DEF LockRow, Refresh, TInv, TypeOK
  <2>4. job[t] \in Request
    BY <2>1 DEF TInv, JobInv
  <2>5. Knows(t)'
    BY <2>1, <2>2, <2>4 DEF Knows, Holding, Locking, InFlight, RowOf, TInv, TypeOK
  <2>6. RoleInv'
    BY <2>2, ThreadsAssumption DEF ProvInv, RoleInv, Holding, Locking, Thread, TInv, TypeOK
  <2>7. \A q \in Request : lock[q] \in Thread \ {t} => lock'[q] = lock[q]
    BY <2>1, <2>2 DEF TInv, TypeOK
  <2> QED
    BY <2>2, <2>3, <2>5, <2>6, <2>7, MoveProv DEF InFlight, TInv, TypeOK
<1>2. CASE SkipRow(t) \/ StartFails(t) \/ AdoptFails(t)
  BY <1>2, GiveUpProv DEF SkipRow, StartFails, AdoptFails
<1>3. CASE RefreshMissing(t)
  BY <1>3, GiveUpProv DEF RefreshMissing
<1>4. CASE Start(t)
  <2>1. pc[t] \in Holding
    BY <1>4 DEF Start, Holding, Locking
  <2>2. \A r \in Request \ {job[t]} : RowOf(r)' = RowOf(r)
    BY <1>4 DEF Start, RowOf, TInv, TypeOK
  <2> QED
    BY <1>4, <2>1, <2>2, OutcomeProv DEF Start
<1>5. CASE ReadClaims(t) \/ Find(t) \/ Adopt(t)
  <2>1. /\ pc[t] \in {"locked", "looking", "found"}
        /\ pc'[t] \in {"looking", "found", "inserting", "joining"}
    BY <1>5 DEF ReadClaims, Find, Adopt, TInv, TypeOK
  <2>2. /\ UNCHANGED <<status, vmidOf, lock, job, seen>>
        /\ \A u \in Thread \ {t} : pc'[u] = pc[u]
    BY <1>5 DEF ReadClaims, Find, Adopt, TInv, TypeOK
  <2>3. Knows(t)'
    BY <2>1, <2>2 DEF ProvInv, Knows, Holding, Locking, InFlight
  <2>4. RoleInv'
    BY <2>1, <2>2, ThreadsAssumption DEF ProvInv, RoleInv, Holding, Locking, Thread
  <2> QED
    BY <2>1, <2>2, <2>3, <2>4, MoveProv DEF InFlight
<1>6. CASE AdoptCommit(t)
  <2>1. pc[t] \in Holding /\ plan[t].vm # NoVmid /\ job[t] \in Request
    BY <1>6, NullsAssumption DEF AdoptCommit, Holding, Locking, TInv, JobInv, PlanInv
  <2>2. \A r \in Request \ {job[t]} : RowOf(r)' = RowOf(r)
    BY <1>6 DEF AdoptCommit, RowOf, TInv, TypeOK
  <2>3. vmidOf'[job[t]] # NoVmid
    BY <1>6, <2>1 DEF AdoptCommit, TInv, TypeOK
  <2> QED
    BY <1>6, <2>1, <2>2, <2>3, OutcomeProv DEF AdoptCommit
<1> QED
  BY <1>1, <1>2, <1>3, <1>4, <1>5, <1>6 DEF EnsureStep

LEMMA ProvisionProv ==
  ASSUME TInv, ProvInv, NEW t \in Task, ProvisionStep(t)
  PROVE  ProvInv'
<1> t \in Thread
  BY DEF Thread
<1> USE DEF dbVars, Goto
<1>1. CASE MarkProvisioning(t)
  <2>1. ASSUME NEW u \in Thread \ {t}, pc[u] \in Holding \cup InFlight
        PROVE  job[u] # job[t]
    BY <1>1, <2>1, Alone DEF MarkProvisioning, Holding, Locking
  <2>2. job[t] \in Request
    BY <1>1 DEF MarkProvisioning, TInv, JobInv
  <2>3. ASSUME NEW u \in Thread \ {t}
        PROVE  Knows(u)'
    <3>1. pc[u] \in Holding \cup InFlight => RowOf(job[u])' = RowOf(job[u])
      BY <1>1, <2>1, <2>3 DEF MarkProvisioning, RowOf, TInv, TypeOK
    <3>2. pc[u] \in Holding /\ lock[job[u]] = u => lock'[job[u]] = u
      BY <1>1, <2>3 DEF MarkProvisioning, Release, TInv, TypeOK, JobInv, Holding, Locking
    <3> QED
      BY <1>1, <2>3, <3>1, <3>2, KnowsKept DEF MarkProvisioning, ProvInv, TInv, TypeOK
  <2>4. Knows(t)'
    BY <1>1, <2>2
    DEF MarkProvisioning, ProvInv, Knows, Holding, Locking, InFlight, TInv, TypeOK
  <2>5. AtMostOneProvisioner'
    BY <1>1, <2>1
    DEF MarkProvisioning, ProvInv, AtMostOneProvisioner, TInv, TypeOK
  <2>6. RoleInv'
    BY <1>1, ThreadsAssumption
    DEF MarkProvisioning, ProvInv, RoleInv, InFlight, TInv, TypeOK, Thread
  <2> QED
    BY <2>3, <2>4, <2>5, <2>6 DEF ProvInv
<1>2. CASE Plan(t) \/ Clone(t) \/ CloneFails(t) \/ BuildFails(t) \/ ReleaseIp(t)
  <2>1. /\ pc[t] \in InFlight /\ pc'[t] \in InFlight
        /\ UNCHANGED <<status, vmidOf, lock, job, seen>>
        /\ \A u \in Thread \ {t} : pc'[u] = pc[u]
    BY <1>2 DEF Plan, Clone, CloneFails, BuildFails, ReleaseIp, InFlight, TInv, TypeOK
  <2>2. Knows(t)'
    BY <2>1 DEF ProvInv, Knows, Holding, Locking, InFlight
  <2>3. RoleInv'
    BY <2>1, ThreadsAssumption DEF ProvInv, RoleInv, Thread
  <2> QED
    BY <2>1, <2>2, <2>3, MoveProv
<1>3. CASE PlanFails(t) \/ Revert(t)
  <2>1. lock[job[t]] = Free /\ pc[t] \in InFlight /\ Finish(t) /\ UNCHANGED vmidOf
    BY <1>3 DEF PlanFails, Revert, InFlight
  <2>2. \A r \in Request \ {job[t]} : RowOf(r)' = RowOf(r)
    BY <1>3 DEF PlanFails, Revert, RowOf, TInv, TypeOK
  <2> QED
    BY <2>1, <2>2, OutcomeProv
<1>4. CASE Record(t)
  <2>1. /\ lock[job[t]] = Free /\ pc[t] \in InFlight
        /\ plan[t].vm # NoVmid /\ job[t] \in Request
    BY <1>4, NullsAssumption DEF Record, InFlight, TInv, JobInv, PlanInv
  <2>2. \A r \in Request \ {job[t]} : RowOf(r)' = RowOf(r)
    BY <1>4 DEF Record, RowOf, TInv, TypeOK
  <2>3. vmidOf'[job[t]] # NoVmid
    BY <1>4, <2>1 DEF Record, TInv, TypeOK
  <2> QED
    BY <1>4, <2>1, <2>2, <2>3, OutcomeProv DEF Record
<1>5. CASE RecordFails(t)
  BY <1>5, GiveUpProv DEF RecordFails
<1> QED
  BY <1>1, <1>2, <1>3, <1>4, <1>5 DEF ProvisionStep

LEMMA DeleterProv ==
  ASSUME TInv, ProvInv, NEW d \in Deleter, DeleterStep(d)
  PROVE  ProvInv'
<1> d \in Thread /\ d \notin Task
  BY ThreadsAssumption DEF Thread
<1> USE DEF dbVars, Goto
<1>1. CASE Destroy(d) \/ Unlink(d)
  <2>1. /\ pc'[d] \in {"unlinking", "linking"}
        /\ UNCHANGED <<status, vmidOf, lock, job, seen>>
        /\ \A u \in Thread \ {d} : pc'[u] = pc[u]
    BY <1>1 DEF Destroy, Unlink, TInv, TypeOK
  <2>2. Knows(d)' /\ pc'[d] \notin InFlight
    BY <2>1 DEF Knows, Holding, Locking, InFlight
  <2>3. RoleInv'
    BY <2>1 DEF ProvInv, RoleInv, Thread
  <2> QED
    BY <2>1, <2>2, <2>3, MoveProv
<1>2. CASE FindLinked(d)
  <2>1. CASE Finish(d)
    BY <1>2, <2>1, GiveUpProv DEF FindLinked
  <2>2. CASE ~Finish(d)
    <3>1. PICK r \in Request : vmidOf[r] = plan[d].vm /\ job' = [job EXCEPT ![d] = r]
      BY <1>2, <2>2 DEF FindLinked
    <3>2. /\ pc' = [pc EXCEPT ![d] = "rejecting"]
          /\ UNCHANGED <<status, vmidOf, lock, seen>>
      BY <1>2, <2>2 DEF FindLinked
    <3>3. vmidOf[r] # NoVmid
      BY <1>2, <3>1, NullsAssumption DEF FindLinked, TInv, PlanInv
    <3>4. Knows(d)' /\ pc'[d] \notin InFlight
      BY <3>1, <3>2, <3>3 DEF Knows, Holding, Locking, InFlight, TInv, TypeOK
    <3>5. RoleInv'
      BY <3>2 DEF ProvInv, RoleInv, Thread, TInv, TypeOK
    <3> QED
      BY <3>1, <3>2, <3>4, <3>5, MoveProv DEF TInv, TypeOK
  <2> QED
    BY <2>1, <2>2
<1>3. CASE RejectLinked(d)
  <2>1. \A r \in Request \ {job[d]} : RowOf(r)' = RowOf(r)
    BY <1>3 DEF RejectLinked, RowOf, TInv, TypeOK
  <2> QED
    BY <1>3, <2>1, OutcomeProv DEF RejectLinked
<1>4. CASE DeleteFails(d)
  BY <1>4, GiveUpProv DEF DeleteFails
<1> QED
  BY <1>1, <1>2, <1>3, <1>4 DEF DeleterStep

LEMMA CrashProv ==
  ASSUME TInv, ProvInv, NEW t \in Thread, Crash(t)
  PROVE  ProvInv'
<1>1. ASSUME NEW u \in Thread \ {t}
      PROVE  Knows(u)'
  <2>1. pc'[u] = pc[u] /\ job'[u] = job[u] /\ seen'[u] = seen[u]
    BY <1>1 DEF Crash, Forget, TInv, TypeOK
  <2>2. pc[u] \in Holding /\ lock[job[u]] = u => lock'[job[u]] = u
    BY <1>1 DEF Crash, Release, TInv, TypeOK, JobInv, Holding, Locking
  <2> QED
    BY <1>1, <2>1, <2>2, KnowsKept DEF Crash, ProvInv, RowOf, dbVars
<1>2. Knows(t)' /\ RoleInv' /\ AtMostOneProvisioner'
  BY ThreadsAssumption
  DEF Crash, Forget, ProvInv, RoleInv, Knows, AtMostOneProvisioner, Holding, Locking, InFlight,
      Thread, TInv, TypeOK
<1> QED
  BY <1>1, <1>2 DEF ProvInv

LEMMA NextProv ==
  ASSUME Scheduler = {}, TInv, ProvInv, [Next]_vars
  PROVE  ProvInv'
<1>1. CASE UNCHANGED vars
  BY <1>1 DEF vars, threadVars, ProvInv, RoleInv, Knows, AtMostOneProvisioner, RowOf
<1>2. CASE \E v \in Vmid : Lose(v)
  BY <1>2 DEF Lose, dbVars, threadVars, ProvInv, RoleInv, Knows, AtMostOneProvisioner, RowOf
<1> QED
  BY <1>1, <1>2, UserProv, TaskProv, EnsureProv, ProvisionProv, DeleterProv, CrashProv DEF Next

\* Background tasks alone, however many, never provision a request twice at a
\* time: the row lock taken with the first read of a session and the status
\* committed before it is given up are enough.
THEOREM TasksProvisionOnce ==
  ASSUME Scheduler = {}
  PROVE  Spec => []AtMostOneProvisioner
<1>1. Init => ProvInv
  BY InitProv
<1>2. TInv /\ ProvInv /\ [Next]_vars => ProvInv'
  BY NextProv
<1>3. ProvInv => AtMostOneProvisioner
  BY DEF ProvInv
<1> QED
  BY <1>1, <1>2, <1>3, Typed, PTL DEF Spec
=============================================================================
