------------------------ MODULE VMRequestRefinement ------------------------
(* Background tasks alone implement ProvisionOnce, for every value of the  *)
(* other constants.                                                        *)
EXTENDS VMRequestProofs

(***************************************************************************)
(* The abstract owner of a request                                         *)
(***************************************************************************)
Works(t, r) == pc[t] \in InFlight /\ job[t] = r

LEMMA OwnerIs ==
  ASSUME AtMostOneProvisioner, NEW r \in Request, NEW t \in Thread, Works(t, r)
  PROVE  Owner[r] = t
<1>1. \A u \in Thread : Works(u, r) => u = t
  BY DEF AtMostOneProvisioner, Works
<1>2. (CHOOSE u \in Thread : pc[u] \in InFlight /\ job[u] = r) = t
  BY <1>1 DEF Works
<1> QED
  BY <1>2 DEF Owner, Works

LEMMA OwnerIsNext ==
  ASSUME AtMostOneProvisioner', NEW r \in Request, NEW t \in Thread, Works(t, r)'
  PROVE  Owner'[r] = t
<1>1. \A u \in Thread : Works(u, r)' => u = t
  BY DEF AtMostOneProvisioner, Works
<1>2. (CHOOSE u \in Thread : pc'[u] \in InFlight /\ job'[u] = r) = t
  BY <1>1 DEF Works
<1> QED
  BY <1>2 DEF Owner, Works

LEMMA OwnerNobody ==
  ASSUME NEW r \in Request, \A t \in Thread : ~Works(t, r)
  PROVE  Owner[r] = Free
  BY DEF Owner, Works

LEMMA OwnerNobodyNext ==
  ASSUME NEW r \in Request, \A t \in Thread : ~Works(t, r)'
  PROVE  Owner'[r] = Free
  BY DEF Owner, Works

LEMMA OwnerKept ==
  ASSUME AtMostOneProvisioner, AtMostOneProvisioner', NEW r \in Request,
         \A t \in Thread : Works(t, r)' <=> Works(t, r)
  PROVE  Owner'[r] = Owner[r]
<1>1. CASE \E t \in Thread : Works(t, r)
  <2>1. PICK t \in Thread : Works(t, r)
    BY <1>1
  <2> QED
    BY <2>1, OwnerIs, OwnerIsNext
<1>2. CASE \A t \in Thread : ~Works(t, r)
  BY <1>2, OwnerNobody, OwnerNobodyNext
<1> QED
  BY <1>1, <1>2

\* Nobody's step begins or ends the work on a request: the owners stay.
LEMMA OwnersKept ==
  ASSUME AtMostOneProvisioner, AtMostOneProvisioner',
         \A t \in Thread, r \in Request : Works(t, r)' <=> Works(t, r)
  PROVE  Owner' = Owner
<1>1. \A r \in Request : Owner'[r] = Owner[r]
  BY OwnerKept
<1>2. /\ Owner = [r \in Request |-> Owner[r]]
      /\ Owner' = [r \in Request |-> Owner'[r]]
  BY DEF Owner
<1> QED
  BY <1>1, <1>2

\* One request gets another owner or loses its owner.
LEMMA OwnerMoves ==
  ASSUME AtMostOneProvisioner, AtMostOneProvisioner', NEW r \in Request,
         \A t \in Thread, q \in Request \ {r} : Works(t, q)' <=> Works(t, q)
  PROVE  Owner' = [Owner EXCEPT ![r] = Owner'[r]]
<1>1. \A q \in Request \ {r} : Owner'[q] = Owner[q]
  BY OwnerKept
<1>2. /\ Owner = [q \in Request |-> Owner[q]]
      /\ Owner' = [q \in Request |-> Owner'[q]]
  BY DEF Owner
<1> QED
  BY <1>1, <1>2

(***************************************************************************)
(* A request with a vmid is running, or was rejected with its machine.     *)
(***************************************************************************)
HeldInv ==
    \A r \in Request : vmidOf[r] # NoVmid => status[r] \in {"running", "rejected"}

LEMMA InitHeld == Init => HeldInv
  BY DEF Init, HeldInv

LEMMA HeldKept ==
  ASSUME HeldInv, UNCHANGED <<status, vmidOf>>
  PROVE  HeldInv'
  BY DEF HeldInv

\* A handler moves a request that has no vmid.
LEMMA HeldHandler ==
  ASSUME TInv, HeldInv, NEW r \in Request, status[r] \notin {"running", "rejected"},
         UNCHANGED vmidOf, NEW s, status' = [status EXCEPT ![r] = s]
  PROVE  HeldInv'
  BY DEF HeldInv, TInv, TypeOK

\* A thread writes the status of its request.
LEMMA HeldOutcome ==
  ASSUME TInv, HeldInv, NEW r \in Request, NEW s, status' = [status EXCEPT ![r] = s],
         \A q \in Request \ {r} : vmidOf'[q] = vmidOf[q],
         vmidOf'[r] = NoVmid \/ s \in {"running", "rejected"}
  PROVE  HeldInv'
  BY DEF HeldInv, TInv, TypeOK

LEMMA NextHeld ==
  ASSUME Scheduler = {}, TInv, ProvInv, HeldInv, [Next]_vars
  PROVE  HeldInv'
<1> USE DEF dbVars
<1>1. CASE UNCHANGED vars
  BY <1>1, HeldKept DEF vars
<1>2. ASSUME NEW r \in Request, UserStep(r)
      PROVE  HeldInv'
  <2>1. CASE Create(r) \/ CreateImmediate(r) \/ Approve(r) \/ Reject(r) \/ Cancel(r)
    BY <2>1, HeldHandler DEF Create, CreateImmediate, Approve, Reject, Cancel
  <2>2. CASE Retry(r) \/ OpenWindow(r) \/ EndWindow(r)
    BY <2>2, HeldKept DEF Retry, OpenWindow, EndWindow
  <2> QED
    BY <1>2, <2>1, <2>2 DEF UserStep
<1>3. ASSUME NEW t \in Task, TaskStep(t) \/ EnsureStep(t) \/ ProvisionStep(t)
      PROVE  HeldInv'
  <2>1. t \in Thread
    BY <1>3 DEF Thread
  <2>2. CASE Start(t) \/ AdoptCommit(t) \/ Record(t)
    <3>1. job[t] \in Request
      BY <2>1, <2>2 DEF Start, AdoptCommit, Record, TInv, JobInv
    <3>2. \A q \in Request \ {job[t]} : vmidOf'[q] = vmidOf[q]
      BY <2>2 DEF Start, AdoptCommit, Record, TInv, TypeOK
    <3> QED
      BY <2>2, <3>1, <3>2, HeldOutcome DEF Start, AdoptCommit, Record
  <2>3. CASE MarkProvisioning(t) \/ PlanFails(t) \/ Revert(t)
    <3>1. job[t] \in Request /\ vmidOf[job[t]] = NoVmid
      BY <2>1, <2>3
      DEF MarkProvisioning, PlanFails, Revert, TInv, JobInv, ProvInv, Knows, Holding, Locking,
          InFlight
    <3>2. UNCHANGED vmidOf /\ \E s : status' = [status EXCEPT ![job[t]] = s]
      BY <2>3 DEF MarkProvisioning, PlanFails, Revert
    <3> QED
      BY <3>1, <3>2, HeldOutcome
  <2>4. CASE UNCHANGED <<status, vmidOf>>
    BY <2>4, HeldKept
  <2> QED
    BY <1>3, <2>2, <2>3, <2>4
    DEF TaskStep, Begin, Drop, EnsureStep, LockRow, SkipRow, Refresh, RefreshMissing,
        StartFails, ReadClaims, Find, Adopt, AdoptFails, ProvisionStep, Plan, Clone, CloneFails, BuildFails,
        ReleaseIp, RecordFails
<1>4. ASSUME NEW d \in Deleter, DeleterStep(d)
      PROVE  HeldInv'
  <2>1. CASE RejectLinked(d)
    <3>1. job[d] \in Request
      BY <1>4, <2>1 DEF RejectLinked, TInv, JobInv, Thread
    <3> QED
      BY <2>1, <3>1, HeldOutcome DEF RejectLinked
  <2>2. CASE Destroy(d) \/ Unlink(d) \/ FindLinked(d) \/ DeleteFails(d)
    BY <2>2, HeldKept DEF Destroy, Unlink, FindLinked, DeleteFails
  <2> QED
    BY <1>4, <2>1, <2>2 DEF DeleterStep
<1>5. ASSUME NEW t \in Thread, Crash(t)
      PROVE  HeldInv'
  BY <1>5, HeldKept DEF Crash
<1>6. ASSUME NEW v \in Vmid, Lose(v)
      PROVE  HeldInv'
  BY <1>6, HeldKept DEF Lose
<1> QED
  BY <1>1, <1>2, <1>3, <1>4, <1>5, <1>6 DEF Next

(***************************************************************************)
(* The steps of threads, seen from the protocol                            *)
(***************************************************************************)
\* Only thread t moves.
Others(t) == \A u \in Thread \ {t} : pc'[u] = pc[u] /\ job'[u] = job[u]

\* A step of a thread that is not provisioning, before and after it.
LEMMA QuietStep ==
  ASSUME AtMostOneProvisioner, AtMostOneProvisioner', NEW t \in Thread, Others(t),
         pc[t] \notin InFlight, pc'[t] \notin InFlight
  PROVE  Owner' = Owner
<1>1. \A u \in Thread, r \in Request : Works(u, r)' <=> Works(u, r)
  BY DEF Works, Others
<1> QED
  BY <1>1, OwnersKept

\* A step from one point of phases 1 to 3 to the next.
LEMMA FlightStep ==
  ASSUME AtMostOneProvisioner, AtMostOneProvisioner', NEW t \in Thread, Others(t),
         pc[t] \in InFlight, pc'[t] \in InFlight, job'[t] = job[t]
  PROVE  Owner' = Owner
<1>1. \A u \in Thread, r \in Request : Works(u, r)' <=> Works(u, r)
  BY DEF Works, Others
<1> QED
  BY <1>1, OwnersKept

LEMMA ClaimStep ==
  ASSUME AtMostOneProvisioner, AtMostOneProvisioner', NEW t \in Thread, Others(t),
         NEW r \in Request, job[t] = r, job'[t] = r,
         pc[t] \notin InFlight, pc'[t] \in InFlight,
         \A u \in Thread \ {t} : ~Works(u, r)
  PROVE  Owner[r] = Free /\ Owner' = [Owner EXCEPT ![r] = t]
<1>1. Owner[r] = Free
  BY OwnerNobody DEF Works
<1>2. Works(t, r)'
  BY DEF Works
<1>3. Owner'[r] = t
  BY <1>2, OwnerIsNext
<1>4. \A u \in Thread, q \in Request \ {r} : Works(u, q)' <=> Works(u, q)
  BY DEF Works, Others
<1> QED
  BY <1>1, <1>3, <1>4, OwnerMoves

LEMMA EndStep ==
  ASSUME AtMostOneProvisioner, AtMostOneProvisioner', NEW t \in Thread, Others(t),
         NEW r \in Request, job[t] = r, pc[t] \in InFlight, pc'[t] \notin InFlight
  PROVE  Owner[r] = t /\ Owner' = [Owner EXCEPT ![r] = Free]
<1>1. Owner[r] = t
  BY OwnerIs DEF Works
<1>2. \A u \in Thread : ~Works(u, r)'
  BY DEF Works, Others, AtMostOneProvisioner
<1>3. Owner'[r] = Free
  BY <1>2, OwnerNobodyNext
<1>4. \A u \in Thread, q \in Request \ {r} : Works(u, q)' <=> Works(u, q)
  BY DEF Works, Others
<1> QED
  BY <1>1, <1>3, <1>4, OwnerMoves

LEMMA FinishOthers ==
  ASSUME TInv, NEW t \in Thread, Finish(t)
  PROVE  Others(t) /\ pc'[t] = "idle"
  BY DEF Finish, Forget, Others, TInv, TypeOK

(***************************************************************************)
(* Every step is a step of the protocol, or none                           *)
(***************************************************************************)
LEMMA UserSimulates ==
  ASSUME TInv, ProvInv, ProvInv', NEW r \in Request, UserStep(r)
  PROVE  [Protocol!Next]_(Protocol!vars)
<1>1. UNCHANGED <<pc, job>>
  BY DEF UserStep, Create, CreateImmediate, Approve, Reject, Cancel, Retry, OpenWindow,
         EndWindow, threadVars
<1>2. Owner' = Owner
  BY <1>1, OwnersKept DEF ProvInv, Works
<1> USE DEF Protocol!Move
<1>3. CASE Create(r)
  <2>1. Protocol!Submit(r)
    BY <1>2, <1>3 DEF Create, Protocol!Submit
  <2> QED
    BY <2>1 DEF Protocol!Next
<1>4. CASE CreateImmediate(r) \/ Approve(r)
  <2>1. Protocol!Approve(r)
    BY <1>2, <1>4 DEF CreateImmediate, Approve, Protocol!Approve
  <2> QED
    BY <2>1 DEF Protocol!Next
<1>5. CASE Reject(r)
  <2>1. Protocol!Refuse(r)
    BY <1>2, <1>5 DEF Reject, Protocol!Refuse
  <2> QED
    BY <2>1 DEF Protocol!Next
<1>6. CASE Cancel(r)
  <2>1. Protocol!Cancel(r)
    BY <1>2, <1>6 DEF Cancel, Protocol!Cancel
  <2> QED
    BY <2>1 DEF Protocol!Next
<1>7. CASE Retry(r) \/ OpenWindow(r) \/ EndWindow(r)
  BY <1>2, <1>7 DEF Retry, OpenWindow, EndWindow, dbVars, Protocol!vars
<1> QED
  BY <1>3, <1>4, <1>5, <1>6, <1>7 DEF UserStep

\* Points that a thread reaches and leaves without a trace in the protocol.
LEMMA QuietSimulates ==
  ASSUME ProvInv, ProvInv', NEW t \in Thread, Others(t), UNCHANGED status,
         pc[t] \notin InFlight, pc'[t] \notin InFlight
  PROVE  UNCHANGED Protocol!vars
  BY QuietStep DEF ProvInv, Protocol!vars

LEMMA TaskSimulates ==
  ASSUME TInv, ProvInv, ProvInv', NEW t \in Task, TaskStep(t)
  PROVE  UNCHANGED Protocol!vars
<1> t \in Thread
  BY DEF Thread
<1>1. CASE Begin(t)
  <2>1. /\ pc' = [pc EXCEPT ![t] = "chosen"] /\ pc[t] = "idle" /\ UNCHANGED status
        /\ \E r : job' = [job EXCEPT ![t] = r]
    BY <1>1 DEF Begin, Goto, dbVars
  <2>2. Others(t) /\ pc'[t] = "chosen"
    BY <2>1 DEF Others, TInv, TypeOK
  <2> QED
    BY <2>1, <2>2, QuietSimulates DEF InFlight
<1>2. CASE Drop(t)
  <2>1. UNCHANGED <<pc, job, status>> /\ pc[t] = "idle"
    BY <1>2 DEF Drop, threadVars, dbVars
  <2> QED
    BY <2>1, QuietSimulates DEF InFlight, Others
<1> QED
  BY <1>1, <1>2 DEF TaskStep

LEMMA EnsureSimulates ==
  ASSUME Scheduler = {}, TInv, ProvInv, ProvInv', NEW t \in Task, EnsureStep(t)
  PROVE  [Protocol!Next]_(Protocol!vars)
<1> t \in Thread
  BY DEF Thread
<1>0. pc[t] \notin InFlight
  BY DEF EnsureStep, LockRow, SkipRow, Refresh, RefreshMissing, Start, StartFails, ReadClaims,
         Find, Adopt, AdoptCommit, AdoptFails, Chosen, InFlight
<1>1. CASE LockRow(t) \/ Refresh(t) \/ ReadClaims(t) \/ Find(t) \/ Adopt(t)
  <2>1. /\ UNCHANGED <<job, status>>
        /\ \E p \in Locking : pc' = [pc EXCEPT ![t] = p]
    BY <1>1 DEF LockRow, Refresh, ReadClaims, Find, Adopt, Goto, dbVars, Locking
  <2>2. Others(t) /\ pc'[t] \in Locking
    BY <2>1 DEF Others, TInv, TypeOK
  <2> QED
    BY <1>0, <2>1, <2>2, QuietSimulates DEF InFlight, Locking
<1>2. CASE SkipRow(t) \/ RefreshMissing(t) \/ StartFails(t) \/ AdoptFails(t)
  <2>1. Finish(t) /\ UNCHANGED status
    BY <1>2 DEF SkipRow, RefreshMissing, StartFails, AdoptFails, dbVars
  <2>2. Others(t) /\ pc'[t] = "idle"
    BY <2>1, FinishOthers
  <2> QED
    BY <1>0, <2>1, <2>2, QuietSimulates DEF InFlight
<1>3. CASE Start(t) \/ AdoptCommit(t)
  <2>1. /\ Finish(t) /\ status' = [status EXCEPT ![job[t]] = "running"]
        /\ pc[t] \in Holding /\ job[t] \in Request
    BY <1>3 DEF Start, AdoptCommit, Holding, Locking, TInv, JobInv
  <2>2. Others(t) /\ pc'[t] \notin InFlight
    BY <2>1, FinishOthers DEF InFlight
  <2>3. Owner' = Owner
    BY <1>0, <2>2, QuietStep DEF ProvInv
  <2>4. \A u \in Thread : ~Works(u, job[t])
    BY <1>0, <2>1, Alone DEF Works
  <2>5. Owner[job[t]] = Free
    BY <2>1, <2>4, OwnerNobody
  <2>6. status[job[t]] \in {"approved", "running"}
    BY <2>1 DEF ProvInv, Knows
  <2>7. Protocol!Adopt(job[t])
    BY <2>1, <2>3, <2>5, <2>6 DEF Protocol!Adopt, Protocol!Move
  <2> QED
    BY <2>1, <2>7 DEF Protocol!Next
<1> QED
  BY <1>1, <1>2, <1>3 DEF EnsureStep

LEMMA ProvisionSimulates ==
  ASSUME TInv, ProvInv, ProvInv', NEW t \in Task, ProvisionStep(t)
  PROVE  [Protocol!Next]_(Protocol!vars)
<1> t \in Thread
  BY DEF Thread
<1> DEFINE r == job[t]
<1>0. r \in Request
  BY DEF ProvisionStep, MarkProvisioning, Plan, PlanFails, Clone, CloneFails, BuildFails,
         ReleaseIp, Revert, Record, RecordFails, TInv, JobInv
<1> HIDE DEF r
<1>1. CASE MarkProvisioning(t)
  <2>1. /\ pc' = [pc EXCEPT ![t] = "planning"] /\ job' = job /\ pc[t] = "looking"
        /\ status' = [status EXCEPT ![r] = "provisioning"]
    BY <1>1 DEF MarkProvisioning, Goto, r
  <2>2. Others(t) /\ pc[t] \notin InFlight /\ pc'[t] \in InFlight
    BY <2>1 DEF Others, InFlight, TInv, TypeOK
  <2>3. \A u \in Thread \ {t} : ~Works(u, r)
    BY <2>1, Alone DEF Works, Holding, Locking, r
  <2>4. Owner[r] = Free /\ Owner' = [Owner EXCEPT ![r] = t]
    BY <1>0, <2>1, <2>2, <2>3, ClaimStep DEF ProvInv, r
  <2>5. status[r] \in {"approved", "running"}
    BY <2>1 DEF ProvInv, Knows, Holding, Locking, r
  <2>6. Protocol!Claim(r, t)
    BY <2>1, <2>4, <2>5 DEF Protocol!Claim, Protocol!Move
  <2> QED
    BY <1>0, <2>6 DEF Protocol!Next
<1>2. CASE Plan(t) \/ Clone(t) \/ CloneFails(t) \/ BuildFails(t) \/ ReleaseIp(t)
  <2>1. /\ pc[t] \in InFlight /\ UNCHANGED <<job, status>>
        /\ \E p \in InFlight : pc' = [pc EXCEPT ![t] = p]
    BY <1>2 DEF Plan, Clone, CloneFails, BuildFails, ReleaseIp, Goto, dbVars, InFlight
  <2>2. Others(t) /\ pc'[t] \in InFlight
    BY <2>1 DEF Others, TInv, TypeOK
  <2> QED
    BY <2>1, <2>2, FlightStep DEF ProvInv, Protocol!vars
<1>3. CASE PlanFails(t) \/ Revert(t) \/ Record(t) \/ RecordFails(t)
  <2>1. pc[t] \in InFlight /\ Finish(t)
    BY <1>3 DEF PlanFails, Revert, Record, RecordFails, InFlight
  <2>2. Owner[r] = t /\ Owner' = [Owner EXCEPT ![r] = Free]
    BY <1>0, <2>1, FinishOthers, EndStep DEF ProvInv, InFlight, r
  <2>3. status[r] \in {"provisioning", "cancelled"}
    BY <2>1 DEF ProvInv, Knows, r
  <2>4. CASE status' = [status EXCEPT ![r] = "approved"]
    <3>1. Protocol!GiveBack(r, t)
      BY <2>2, <2>3, <2>4 DEF Protocol!GiveBack, Protocol!Move
    <3> QED
      BY <1>0, <3>1 DEF Protocol!Next
  <2>5. CASE status' = [status EXCEPT ![r] = "running"]
    <3>1. Protocol!Complete(r, t)
      BY <2>2, <2>3, <2>5 DEF Protocol!Complete, Protocol!Move
    <3> QED
      BY <1>0, <3>1 DEF Protocol!Next
  <2>6. CASE UNCHANGED status
    <3>1. Protocol!Abandon(r, t)
      BY <2>2, <2>6 DEF Protocol!Abandon
    <3> QED
      BY <1>0, <3>1 DEF Protocol!Next
  <2> QED
    BY <1>3, <2>3, <2>4, <2>5, <2>6
    DEF PlanFails, Revert, Record, RecordFails, dbVars, TInv, TypeOK, r
<1> QED
  BY <1>1, <1>2, <1>3 DEF ProvisionStep

LEMMA DeleterSimulates ==
  ASSUME TInv, ProvInv, ProvInv', HeldInv, NEW d \in Deleter, DeleterStep(d)
  PROVE  [Protocol!Next]_(Protocol!vars)
<1> d \in Thread
  BY DEF Thread
<1>0. pc[d] \notin InFlight
  BY DEF ProvInv, RoleInv, InFlight
<1>1. pc'[d] \notin InFlight
  BY DEF ProvInv, RoleInv, InFlight
<1>2. Others(d)
  <2>1. CASE Finish(d)
    BY <2>1, FinishOthers
  <2>2. CASE ~Finish(d)
    BY <2>2
    DEF DeleterStep, Destroy, Unlink, FindLinked, RejectLinked, DeleteFails, Goto, Others,
        TInv, TypeOK
  <2> QED
    BY <2>1, <2>2
<1>3. CASE RejectLinked(d)
  <2>1. /\ pc[d] = "rejecting" /\ lock[job[d]] = Free /\ job[d] \in Request
        /\ status' = [status EXCEPT ![job[d]] = "rejected"]
    BY <1>3 DEF RejectLinked, TInv, JobInv
  <2>2. Owner' = Owner
    BY <1>0, <1>1, <1>2, QuietStep DEF ProvInv
  <2>3. status[job[d]] \in {"running", "rejected"}
    BY <2>1 DEF ProvInv, Knows, HeldInv
  <2>4. \A u \in Thread : ~Works(u, job[d])
    BY <1>0, <2>1, Alone DEF Works
  <2>5. Owner[job[d]] = Free
    BY <2>1, <2>4, OwnerNobody
  <2>6. CASE status[job[d]] = "running"
    <3>1. Protocol!Retire(job[d])
      BY <2>1, <2>2, <2>5, <2>6 DEF Protocol!Retire, Protocol!Move
    <3> QED
      BY <2>1, <3>1 DEF Protocol!Next
  <2>7. CASE status[job[d]] = "rejected"
    BY <2>1, <2>2, <2>7 DEF Protocol!vars, TInv, TypeOK
  <2> QED
    BY <2>3, <2>6, <2>7
<1>4. CASE Destroy(d) \/ Unlink(d) \/ FindLinked(d) \/ DeleteFails(d)
  BY <1>0, <1>1, <1>2, <1>4, QuietSimulates
  DEF Destroy, Unlink, FindLinked, DeleteFails, dbVars
<1> QED
  BY <1>3, <1>4 DEF DeleterStep

LEMMA CrashSimulates ==
  ASSUME TInv, ProvInv, ProvInv', NEW t \in Thread, Crash(t)
  PROVE  [Protocol!Next]_(Protocol!vars)
<1>1. Others(t) /\ pc'[t] \notin InFlight /\ UNCHANGED status
  BY DEF Crash, Forget, dbVars, Others, InFlight, TInv, TypeOK
<1>2. CASE pc[t] \in InFlight
  <2>1. job[t] \in Request
    BY <1>2 DEF TInv, JobInv, InFlight
  <2>2. Owner[job[t]] = t /\ Owner' = [Owner EXCEPT ![job[t]] = Free]
    BY <1>1, <1>2, <2>1, EndStep DEF ProvInv
  <2>3. Protocol!Abandon(job[t], t)
    BY <1>1, <2>2 DEF Protocol!Abandon
  <2> QED
    BY <2>1, <2>3 DEF Protocol!Next
<1>3. CASE pc[t] \notin InFlight
  BY <1>1, <1>3, QuietSimulates
<1> QED
  BY <1>2, <1>3

LEMMA NextSimulates ==
  ASSUME Scheduler = {}, TInv, ProvInv, ProvInv', HeldInv, [Next]_vars
  PROVE  [Protocol!Next]_(Protocol!vars)
<1>1. CASE UNCHANGED vars \/ \E v \in Vmid : Lose(v)
  <2>1. UNCHANGED <<status, pc, job>>
    BY <1>1 DEF vars, Lose, dbVars, threadVars
  <2>2. Owner' = Owner
    BY <2>1, OwnersKept DEF ProvInv, Works
  <2> QED
    BY <2>1, <2>2 DEF Protocol!vars
<1> QED
  BY <1>1, UserSimulates, TaskSimulates, EnsureSimulates, ProvisionSimulates,
     DeleterSimulates, CrashSimulates
  DEF Next

LEMMA InitSimulates == Init => Protocol!Init
  BY DEF Init, Protocol!Init, Owner, InFlight

\* Where no scheduler loop runs, the requests and the threads at work on them
\* go through the protocol: a request in provisioning has one owner, who alone
\* moves it on, whatever fails, is cancelled or is deleted.
THEOREM TasksImplementOnce ==
  ASSUME Scheduler = {}
  PROVE  Spec => ProvisionedOnce
<1>1. Init => ProvInv /\ HeldInv
  BY InitProv, InitHeld
<1>2. TInv /\ ProvInv /\ HeldInv /\ [Next]_vars => ProvInv' /\ HeldInv'
  BY NextProv, NextHeld
<1>3. TInv /\ ProvInv /\ ProvInv' /\ HeldInv /\ [Next]_vars => [Protocol!Next]_(Protocol!vars)
  BY NextSimulates
<1> QED
  BY <1>1, <1>2, <1>3, InitSimulates, Typed, PTL DEF Spec, ProvisionedOnce, Protocol!Spec
=============================================================================
