----------------------------- MODULE VMRequest -----------------------------
(***************************************************************************)
(* The life of a VM request of Campus-Cloud, from submission to a machine  *)
(* on the hypervisor: the request handlers of vm_request_service, the      *)
(* provisioning protocol of scheduling/coordinator.py run by scheduler     *)
(* loops and by background tasks, the resource and IP tables it writes,    *)
(* and the part of a resource deletion that touches the same rows.         *)
(*                                                                         *)
(* Every uvicorn worker runs its own scheduler loop and its own background *)
(* tasks; all of them share PostgreSQL (READ COMMITTED) and one Proxmox    *)
(* cluster.  A thread holds the row lock of a request from its             *)
(* SELECT ... FOR UPDATE to the end of that transaction, and keeps in      *)
(* seen[t] the copy of the row that its ORM session loaded: a later        *)
(* SELECT ... FOR UPDATE in the same transaction does not reload it.       *)
(***************************************************************************)
EXTENDS Naturals, FiniteSets

CONSTANTS
    Request,      \* rows of vm_requests
    Scheduler,    \* scheduler loops, one per worker with SCHEDULER_ENABLED
    Task,         \* threads of the background runners
    Deleter,      \* threads executing resource_service.delete
    Vmid,         \* identifiers that the cluster can hand out
    Ip,           \* addresses of the managed subnet
    HostOf,       \* hostname asked for by each request
    Fault,        \* which failures may happen, see Faults
    MaxFault,     \* bound on the failures of one behaviour
    NoRequest, NoVmid, NoIp, NoVm, Free

Thread == Scheduler \cup Task \cup Deleter

Faults == {"plan", "clone", "unseen", "build", "leftover", "delete", "crash", "loss"}

ASSUME ThreadsAssumption ==
    /\ Scheduler \cap Task = {}
    /\ Deleter \cap (Scheduler \cup Task) = {}
    /\ Free \notin Thread

ASSUME NullsAssumption ==
    /\ NoRequest \notin Request
    /\ NoVmid \notin Vmid
    /\ NoIp \notin Ip
    /\ NoVm \notin [host : {HostOf[r] : r \in Request}, ip : Ip, on : BOOLEAN]

ASSUME FaultAssumption == Fault \subseteq Faults /\ MaxFault \in Nat

VARIABLES
    status,    \* vm_requests.status
    vmidOf,    \* vm_requests.vmid
    window,    \* where the clock stands in [start_at, end_at)
    lock,      \* the thread whose open transaction locks the row
    pve,       \* the machines of the Proxmox pool
    resource,  \* primary keys of table resources
    ips,       \* table ip_allocations: the vmid each address is recorded for
    queued,    \* requests with a task vm_request:<id> waiting in a runner
    pc,        \* where each thread stands in the coordinator
    job,       \* the request it works on
    seen,      \* its session's copy of that row
    claimed,   \* the vmids of other requests, as it read them
    plan,      \* the vmid and the address it is going to use
    batch,     \* requests its start pass has still to visit
    abandoned, \* history: vmids whose deletion broke off half way
    faults     \* failures so far

dbVars     == <<status, vmidOf, resource, ips>>
threadVars == <<pc, job, seen, claimed, plan, batch>>
vars == <<status, vmidOf, window, lock, pve, resource, ips, queued,
          pc, job, seen, claimed, plan, batch, abandoned, faults>>

Status == {"none", "pending", "approved", "provisioning", "running",
           "rejected", "cancelled"}

\* vm_request_repo._ACTIVE_STATUSES
Active == {"approved", "provisioning", "running"}

\* Points of the provisioning protocol between the commit of status
\* 'provisioning' and the record of its outcome: no row lock is held.
InFlight == {"planning", "cloning", "built", "failed", "reverting"}

\* Points at which the thread's transaction holds the lock of its request.
Locking == {"locked", "looking", "found", "inserting", "joining", "refreshed"}

\* Points of a deletion after the machine is destroyed.
Deleting == {"unlinking", "linking", "rejecting"}

PC == {"idle", "chosen", "retrying", "missing", "clearing", "stopping"}
        \cup InFlight \cup Locking \cup Deleting

VM == [host : {HostOf[r] : r \in Request}, ip : Ip, on : BOOLEAN]

Row == [status : Status, vmid : Vmid \cup {NoVmid}]

TypeOK ==
    /\ status \in [Request -> Status]
    /\ vmidOf \in [Request -> Vmid \cup {NoVmid}]
    /\ window \in [Request -> {"before", "open", "ended"}]
    /\ lock \in [Request -> Thread \cup {Free}]
    /\ pve \in [Vmid -> VM \cup {NoVm}]
    /\ resource \subseteq Vmid
    /\ ips \in [Ip -> Vmid \cup {NoVmid}]
    /\ queued \subseteq Request
    /\ pc \in [Thread -> PC]
    /\ job \in [Thread -> Request \cup {NoRequest}]
    /\ seen \in [Thread -> Row]
    /\ claimed \in [Thread -> SUBSET Vmid]
    /\ plan \in [Thread -> [vm : Vmid \cup {NoVmid}, ip : Ip \cup {NoIp}]]
    /\ batch \in [Thread -> SUBSET Request]
    /\ abandoned \subseteq Vmid
    /\ faults \in 0 .. MaxFault

NoRow  == [status |-> "none", vmid |-> NoVmid]
NoPlan == [vm |-> NoVmid, ip |-> NoIp]

Init ==
    /\ status = [r \in Request |-> "none"]
    /\ vmidOf = [r \in Request |-> NoVmid]
    /\ window = [r \in Request |-> "before"]
    /\ lock = [r \in Request |-> Free]
    /\ pve = [v \in Vmid |-> NoVm]
    /\ resource = {}
    /\ ips = [i \in Ip |-> NoVmid]
    /\ queued = {}
    /\ pc = [t \in Thread |-> "idle"]
    /\ job = [t \in Thread |-> NoRequest]
    /\ seen = [t \in Thread |-> NoRow]
    /\ claimed = [t \in Thread |-> {}]
    /\ plan = [t \in Thread |-> NoPlan]
    /\ batch = [t \in Thread |-> {}]
    /\ abandoned = {}
    /\ faults = 0

(***************************************************************************)
(* Helpers                                                                 *)
(***************************************************************************)
RowOf(r) == [status |-> status[r], vmid |-> vmidOf[r]]

Exists(v) == v \in Vmid /\ pve[v] # NoVm

\* find_resource by vmid, then the comparison of its name.
IsMachineOf(v, r) == Exists(v) /\ pve[v].host = HostOf[r]

\* Mutant of Due: the list leaves out the approved requests.
DueStartedOnly(r) == status[r] \in {"provisioning", "running"} /\ window[r] = "open"

Due(r) == status[r] \in Active /\ window[r] = "open"

Ended(r) == status[r] \in Active /\ window[r] = "ended" /\ vmidOf[r] # NoVmid

\* The vmids of other requests, which find_existing_resource_for_request
\* leaves to them.
ClaimedByOthers(r) ==
    {vmidOf[q] : q \in {p \in Request \ {r} : status[p] \in Active}} \ {NoVmid}

\* What the listing of the cluster shows the thread for its request.
Adoptable(t) == {v \in Vmid : IsMachineOf(v, job[t]) /\ v \notin claimed[t]}

PowerOn(v) == [pve EXCEPT ![v] = [@ EXCEPT !.on = TRUE]]

\* Mutant of CloneOf: the network configuration of the plan gets lost.
CloneWithoutIp(t) ==
    [pve EXCEPT ![plan[t].vm] =
        [host |-> HostOf[job[t]], ip |-> NoIp, on |-> window[job[t]] = "open"]]

\* start_immediately is should_start_now: the window is open.
CloneOf(t) ==
    [pve EXCEPT ![plan[t].vm] =
        [host |-> HostOf[job[t]], ip |-> plan[t].ip, on |-> window[job[t]] = "open"]]

\* The thread is done with its request: the transaction ends, its lock with it.
Release(t) == lock' = [r \in Request |-> IF lock[r] = t THEN Free ELSE lock[r]]

Forget(t) ==
    /\ pc' = [pc EXCEPT ![t] = "idle"]
    /\ job' = [job EXCEPT ![t] = NoRequest]
    /\ seen' = [seen EXCEPT ![t] = NoRow]
    /\ claimed' = [claimed EXCEPT ![t] = {}]
    /\ plan' = [plan EXCEPT ![t] = NoPlan]

Finish(t) == Release(t) /\ Forget(t) /\ UNCHANGED batch

Goto(t, point) == pc' = [pc EXCEPT ![t] = point]

MayFault(f) == f \in Fault /\ faults < MaxFault /\ faults' = faults + 1

(***************************************************************************)
(* Handlers of vm_request_service: one short transaction each              *)
(***************************************************************************)
\* create(): a student, or a teacher asking for a later window, gets a
\* pending request.
Create(r) ==
    /\ status[r] = "none"
    /\ status' = [status EXCEPT ![r] = "pending"]
    /\ UNCHANGED <<vmidOf, window, lock, pve, resource, ips, queued,
                   threadVars, abandoned, faults>>

\* create() in immediate mode with auto-approval: the window opens now and
\* provisioning is submitted to the background runner.
CreateImmediate(r) ==
    /\ status[r] = "none"
    /\ window[r] = "before"
    /\ \A q \in Request : status[q] \in Active \cup {"pending"} => lock[q] = Free
    /\ status' = [status EXCEPT ![r] = "approved"]
    /\ window' = [window EXCEPT ![r] = "open"]
    /\ queued' = queued \cup {r}
    /\ UNCHANGED <<vmidOf, lock, pve, resource, ips, threadVars, abandoned, faults>>

\* review() with "approved": _approve_and_place locks every request whose
\* window overlaps; a request whose window is open is submitted at once.
Approve(r) ==
    /\ status[r] = "pending"
    /\ window[r] # "ended"
    /\ \A q \in Request : status[q] \in Active \cup {"pending"} => lock[q] = Free
    /\ status' = [status EXCEPT ![r] = "approved"]
    /\ queued' = IF window[r] = "open" THEN queued \cup {r} ELSE queued
    /\ UNCHANGED <<vmidOf, window, lock, pve, resource, ips, threadVars, abandoned,
                   faults>>

\* review() with "rejected".
Reject(r) ==
    /\ status[r] = "pending"
    /\ lock[r] = Free
    /\ status' = [status EXCEPT ![r] = "rejected"]
    /\ UNCHANGED <<vmidOf, window, lock, pve, resource, ips, queued,
                   threadVars, abandoned, faults>>

\* cancel(): only the runner of this worker is asked to drop the task, and a
\* thread that has begun goes on.
Cancel(r) ==
    /\ status[r] \in {"pending", "approved", "provisioning"}
    /\ lock[r] = Free
    /\ status' = [status EXCEPT ![r] = "cancelled"]
    /\ \/ queued' = queued
       \/ status[r] = "provisioning" /\ r \in queued /\ queued' = queued \ {r}
    /\ UNCHANGED <<vmidOf, window, lock, pve, resource, ips, threadVars, abandoned,
                   faults>>

\* retry(): fires the background task again.
Retry(r) ==
    /\ status[r] = "approved"
    /\ lock[r] = Free
    /\ r \notin queued
    /\ queued' = queued \cup {r}
    /\ UNCHANGED <<dbVars, window, lock, pve, threadVars, abandoned, faults>>

(***************************************************************************)
(* The clock                                                               *)
(***************************************************************************)
OpenWindow(r) ==
    /\ status[r] # "none" /\ window[r] = "before"
    /\ window' = [window EXCEPT ![r] = "open"]
    /\ UNCHANGED <<dbVars, lock, pve, queued, threadVars, abandoned, faults>>

EndWindow(r) ==
    /\ window[r] = "open"
    /\ window' = [window EXCEPT ![r] = "ended"]
    /\ UNCHANGED <<dbVars, lock, pve, queued, threadVars, abandoned, faults>>

(***************************************************************************)
(* process_due_request_starts: the pass of one scheduler loop              *)
(***************************************************************************)
\* One SELECT lists the due requests.  The objects keep the values of that
\* moment until the first commit expires them, so the request visited first
\* is seen as it was listed.
List(s) ==
    /\ pc[s] = "idle" /\ batch[s] = {}
    /\ \E r \in {q \in Request : Due(q)} :
          /\ job' = [job EXCEPT ![s] = r]
          /\ seen' = [seen EXCEPT ![s] = RowOf(r)]
          /\ batch' = [batch EXCEPT ![s] = {q \in Request : Due(q)} \ {r}]
    /\ Goto(s, "chosen")
    /\ UNCHANGED <<dbVars, window, lock, pve, queued, claimed, plan, abandoned, faults>>

\* The next request of the pass: it is reloaded, but the filter of the list
\* is not applied again.
Visit(s) ==
    /\ pc[s] = "idle"
    /\ \E r \in batch[s] :
          /\ job' = [job EXCEPT ![s] = r]
          /\ seen' = [seen EXCEPT ![s] = RowOf(r)]
          /\ batch' = [batch EXCEPT ![s] = @ \ {r}]
    /\ Goto(s, "chosen")
    /\ UNCHANGED <<dbVars, window, lock, pve, queued, claimed, plan, abandoned, faults>>

\* Three find_resource calls in a row found nothing under the stale vmid; the
\* rolled back session then reloads the request.
ConfirmGone(s) ==
    /\ pc[s] = "missing"
    /\ ~Exists(seen[s].vmid)
    /\ seen' = [seen EXCEPT ![s] = RowOf(job[s])]
    /\ Goto(s, "clearing")
    /\ UNCHANGED <<dbVars, window, lock, pve, queued, job, claimed, plan, batch,
                   abandoned, faults>>

\* The machine is there after all: skip the recovery.
StillThere(s) ==
    /\ pc[s] = "missing"
    /\ Exists(seen[s].vmid)
    /\ Finish(s)
    /\ UNCHANGED <<dbVars, window, pve, queued, abandoned, faults>>

\* clear_vm_request_provisioning, then status = approved, whatever it was.
Clear(s) ==
    LET r == job[s] IN
    /\ pc[s] = "clearing"
    /\ lock[r] = Free
    /\ vmidOf' = [vmidOf EXCEPT ![r] = IF seen[s].vmid = NoVmid THEN @ ELSE NoVmid]
    /\ status' = [status EXCEPT ![r] = "approved"]
    /\ resource' = resource \ {seen[s].vmid}
    /\ seen' = [seen EXCEPT ![s] = [status |-> "approved", vmid |-> vmidOf'[r]]]
    /\ Goto(s, "retrying")
    /\ UNCHANGED <<window, lock, pve, ips, queued, job, claimed, plan, batch,
                   abandoned, faults>>

(***************************************************************************)
(* process_single_request_start: a background task                         *)
(***************************************************************************)
\* Mutant of Begin: a cancelled request is started all the same.
BeginCancelled(t) ==
    /\ pc[t] = "idle"
    /\ \E r \in queued :
          /\ lock[r] = Free
          /\ status[r] \in {"approved", "running", "cancelled"}
          /\ lock' = [lock EXCEPT ![r] = t]
          /\ job' = [job EXCEPT ![t] = r]
          /\ seen' = [seen EXCEPT ![t] = RowOf(r)]
          /\ queued' = queued \ {r}
    /\ Goto(t, "chosen")
    /\ UNCHANGED <<dbVars, window, pve, claimed, plan, batch, abandoned, faults>>

\* The first SELECT of a new session: locks the row and reads it fresh.
Begin(t) ==
    /\ pc[t] = "idle"
    /\ \E r \in queued :
          /\ lock[r] = Free
          /\ status[r] \in {"approved", "running"}
          /\ lock' = [lock EXCEPT ![r] = t]
          /\ job' = [job EXCEPT ![t] = r]
          /\ seen' = [seen EXCEPT ![t] = RowOf(r)]
          /\ queued' = queued \ {r}
    /\ Goto(t, "chosen")
    /\ UNCHANGED <<dbVars, window, pve, claimed, plan, batch, abandoned, faults>>

\* SKIP LOCKED returned nothing, or the status is not one to start from.
Drop(t) ==
    /\ pc[t] = "idle"
    /\ \E r \in queued :
          /\ lock[r] # Free \/ status[r] \notin {"approved", "running"}
          /\ queued' = queued \ {r}
    /\ UNCHANGED <<dbVars, window, lock, pve, threadVars, abandoned, faults>>

(***************************************************************************)
(* _ensure_request_running and _adopt_or_provision_due_request             *)
(***************************************************************************)
Chosen(t) == pc[t] \in {"chosen", "retrying"}

LockedByOther(t) == lock[job[t]] \notin {Free, t}

\* FOR UPDATE SKIP LOCKED got the row.  The check that follows reads the
\* session's copy.
LockRow(t) ==
    /\ Chosen(t) /\ seen[t].vmid = NoVmid
    /\ ~LockedByOther(t)
    /\ seen[t].status # "provisioning"
    /\ lock' = [lock EXCEPT ![job[t]] = t]
    /\ Goto(t, "locked")
    /\ UNCHANGED <<dbVars, window, pve, queued, job, seen, claimed, plan, batch,
                   abandoned, faults>>

\* Another session holds the row, or the copy says it is being provisioned.
SkipRow(t) ==
    /\ Chosen(t) /\ seen[t].vmid = NoVmid
    /\ LockedByOther(t) \/ seen[t].status = "provisioning"
    /\ Finish(t)
    /\ UNCHANGED <<dbVars, window, pve, queued, abandoned, faults>>

\* _refresh_actual_node: waits for the row, finds the machine under the
\* expected name, flushes and refreshes the copy.
Refresh(t) ==
    /\ Chosen(t) /\ seen[t].vmid # NoVmid
    /\ ~LockedByOther(t)
    /\ IsMachineOf(seen[t].vmid, job[t])
    /\ lock' = [lock EXCEPT ![job[t]] = t]
    /\ seen' = [seen EXCEPT ![t] = RowOf(job[t])]
    /\ Goto(t, "refreshed")
    /\ UNCHANGED <<dbVars, window, pve, queued, job, claimed, plan, batch,
                   abandoned, faults>>

\* NotFoundError: rollback.  Only the loop's first attempt tries to recover.
RefreshMissing(t) ==
    /\ Chosen(t) /\ seen[t].vmid # NoVmid
    /\ ~LockedByOther(t)
    /\ ~IsMachineOf(seen[t].vmid, job[t])
    /\ IF t \in Scheduler /\ pc[t] = "chosen"
         THEN Goto(t, "missing") /\ Release(t) /\ UNCHANGED <<job, seen, claimed,
                                                              plan, batch>>
         ELSE Finish(t)
    /\ UNCHANGED <<dbVars, window, pve, queued, abandoned, faults>>

\* The rest of _ensure_request_running: the machine is started if it is off
\* and the status becomes running.
Start(t) ==
    LET v == seen[t].vmid IN
    /\ pc[t] = "refreshed"
    /\ Exists(v)
    /\ pve' = PowerOn(v)
    /\ status' = [status EXCEPT ![job[t]] = "running"]
    /\ Finish(t)
    /\ UNCHANGED <<vmidOf, window, resource, ips, queued, abandoned, faults>>

\* get_status or control raised: rollback.
StartFails(t) ==
    /\ pc[t] = "refreshed"
    /\ ~Exists(seen[t].vmid)
    /\ Finish(t)
    /\ UNCHANGED <<dbVars, window, pve, queued, abandoned, faults>>

\* find_existing_resource_for_request: the SELECT of what others claim ...
ReadClaims(t) ==
    /\ pc[t] = "locked"
    /\ claimed' = [claimed EXCEPT ![t] = ClaimedByOthers(job[t])]
    /\ Goto(t, "looking")
    /\ UNCHANGED <<dbVars, window, lock, pve, queued, job, seen, plan, batch,
                   abandoned, faults>>

\* ... and later the machine list of the cluster, with a machine of that name
\* that nobody claimed then.
Find(t) ==
    /\ pc[t] = "looking"
    /\ \E v \in Adoptable(t) : plan' = [plan EXCEPT ![t] = [vm |-> v, ip |-> NoIp]]
    /\ claimed' = [claimed EXCEPT ![t] = {}]
    /\ Goto(t, "found")
    /\ UNCHANGED <<dbVars, window, lock, pve, queued, job, seen, batch, abandoned,
                   faults>>

\* _adopt_existing_resource looks for the resources row; only the row of the
\* request is locked.
Adopt(t) ==
    /\ pc[t] = "found"
    /\ Goto(t, IF plan[t].vm \in resource THEN "joining" ELSE "inserting")
    /\ UNCHANGED <<dbVars, window, lock, pve, queued, job, seen, claimed, plan,
                   batch, abandoned, faults>>

\* It becomes the machine of the request and is started.
AdoptCommit(t) ==
    LET v == plan[t].vm IN
    /\ pc[t] \in {"inserting", "joining"}
    /\ Exists(v)
    /\ pc[t] = "inserting" => v \notin resource
    /\ resource' = IF pc[t] = "inserting" THEN resource \cup {v} ELSE resource
    /\ vmidOf' = [vmidOf EXCEPT ![job[t]] = v]
    /\ status' = [status EXCEPT ![job[t]] = "running"]
    /\ pve' = PowerOn(v)
    /\ Finish(t)
    /\ UNCHANGED <<window, ips, queued, abandoned, faults>>

\* The resources row exists by now, or the machine does not: rollback.
AdoptFails(t) ==
    /\ pc[t] \in {"inserting", "joining"}
    /\ ~Exists(plan[t].vm) \/ (pc[t] = "inserting" /\ plan[t].vm \in resource)
    /\ Finish(t)
    /\ UNCHANGED <<dbVars, window, pve, queued, abandoned, faults>>

(***************************************************************************)
(* _provision_new_resource                                                 *)
(***************************************************************************)
\* Mutant of MarkProvisioning: the lock is given up without the new status.
MarkNothing(t) ==
    /\ pc[t] = "looking"
    /\ Adoptable(t) = {}
    /\ claimed' = [claimed EXCEPT ![t] = {}]
    /\ Release(t)
    /\ Goto(t, "planning")
    /\ UNCHANGED <<dbVars, window, pve, queued, job, seen, plan, batch, abandoned,
                   faults>>

\* Phase 1: nothing to adopt; status provisioning is committed and the row
\* lock given up.
MarkProvisioning(t) ==
    /\ pc[t] = "looking"
    /\ Adoptable(t) = {}
    /\ status' = [status EXCEPT ![job[t]] = "provisioning"]
    /\ claimed' = [claimed EXCEPT ![t] = {}]
    /\ Release(t)
    /\ Goto(t, "planning")
    /\ UNCHANGED <<vmidOf, window, pve, resource, ips, queued,
                   job, seen, plan, batch, abandoned, faults>>

\* plan_provision: an id the cluster has free, which nothing reserves, and an
\* address recorded for it.
Plan(t) ==
    /\ pc[t] = "planning"
    /\ \E v \in Vmid, i \in Ip :
          /\ ~Exists(v)
          /\ ips[i] = NoVmid
          /\ ips' = [ips EXCEPT ![i] = v]
          /\ plan' = [plan EXCEPT ![t] = [vm |-> v, ip |-> i]]
    /\ Goto(t, "cloning")
    /\ UNCHANGED <<status, vmidOf, window, lock, pve, resource, queued,
                   job, seen, claimed, batch, abandoned, faults>>

\* plan_provision raised (no placement, no address): rollback, and the status
\* goes back to approved without a look at what it is now.
PlanFails(t) ==
    /\ pc[t] = "planning"
    /\ lock[job[t]] = Free
    /\ \/ MayFault("plan")
       \/ /\ \A v \in Vmid, i \in Ip : Exists(v) \/ ips[i] # NoVmid
          /\ UNCHANGED faults
    /\ status' = [status EXCEPT ![job[t]] = "approved"]
    /\ Finish(t)
    /\ UNCHANGED <<vmidOf, window, pve, resource, ips, queued, abandoned>>

\* Phase 2: execute_provision creates the machine, outside any transaction.
Clone(t) ==
    /\ pc[t] = "cloning"
    /\ ~Exists(plan[t].vm)
    /\ pve' = CloneOf(t)
    /\ Goto(t, "built")
    /\ UNCHANGED <<dbVars, window, lock, queued, job, seen, claimed, plan, batch,
                   abandoned, faults>>

\* The cluster refused, the id being taken meanwhile or for another reason; or
\* the poll for the end of the clone failed and the cluster carries on with it.
CloneFails(t) ==
    /\ pc[t] = "cloning"
    /\ \/ Exists(plan[t].vm) /\ UNCHANGED <<pve, faults>>
       \/ MayFault("clone") /\ UNCHANGED pve
       \/ ~Exists(plan[t].vm) /\ MayFault("unseen") /\ pve' = CloneOf(t)
    /\ Goto(t, "failed")
    /\ UNCHANGED <<dbVars, window, lock, queued, job, seen, claimed, plan, batch,
                   abandoned>>

\* A later step of execute_provision failed; _cleanup_failed_resource destroys
\* the new machine, or fails too and leaves it behind.
BuildFails(t) ==
    LET v == plan[t].vm IN
    /\ pc[t] = "built"
    /\ \/ MayFault("build") /\ pve' = [pve EXCEPT ![v] = NoVm]
       \/ MayFault("leftover") /\ UNCHANGED pve
    /\ Goto(t, "failed")
    /\ UNCHANGED <<dbVars, window, lock, queued, job, seen, claimed, plan, batch,
                   abandoned>>

\* release_ip(plan["vmid"]): the first address recorded for that vmid, which
\* need not be the one of this plan.
ReleaseIp(t) ==
    LET mine == {i \in Ip : ips[i] = plan[t].vm} IN
    /\ pc[t] = "failed"
    /\ \/ mine = {} /\ UNCHANGED ips
       \/ \E i \in mine : ips' = [ips EXCEPT ![i] = NoVmid]
    /\ Goto(t, "reverting")
    /\ UNCHANGED <<status, vmidOf, window, lock, pve, resource, queued,
                   job, seen, claimed, plan, batch, abandoned, faults>>

\* Mutant of Revert: only the address is given back.
RevertNothing(t) ==
    /\ pc[t] = "reverting"
    /\ lock[job[t]] = Free
    /\ Finish(t)
    /\ UNCHANGED <<dbVars, window, pve, queued, abandoned, faults>>

\* Back to approved, unless the request left provisioning meanwhile.
Revert(t) ==
    LET r == job[t] IN
    /\ pc[t] = "reverting"
    /\ lock[r] = Free
    /\ status' = [status EXCEPT ![r] = IF @ = "provisioning" THEN "approved" ELSE @]
    /\ Finish(t)
    /\ UNCHANGED <<vmidOf, window, pve, resource, ips, queued, abandoned, faults>>

\* Mutant of Record: the resources row is forgotten.
RecordNoResource(t) ==
    LET r == job[t] IN
    /\ pc[t] = "built"
    /\ lock[r] = Free
    /\ plan[t].vm \notin resource
    /\ vmidOf' = [vmidOf EXCEPT ![r] = plan[t].vm]
    /\ status' = [status EXCEPT ![r] = "running"]
    /\ Finish(t)
    /\ UNCHANGED <<window, pve, resource, ips, queued, abandoned, faults>>

\* Mutant of Record: a resources row of that vmid does not stand in the way.
RecordTwice(t) ==
    LET r == job[t]
        v == plan[t].vm
    IN
    /\ pc[t] = "built"
    /\ lock[r] = Free
    /\ resource' = resource \cup {v}
    /\ vmidOf' = [vmidOf EXCEPT ![r] = v]
    /\ status' = [status EXCEPT ![r] = "running"]
    /\ Finish(t)
    /\ UNCHANGED <<window, pve, ips, queued, abandoned, faults>>

\* Phase 3: a new session inserts the resources row and makes the request
\* running, whatever its status has become.
Record(t) ==
    LET r == job[t]
        v == plan[t].vm
    IN
    /\ pc[t] = "built"
    /\ lock[r] = Free
    /\ v \notin resource
    /\ resource' = resource \cup {v}
    /\ vmidOf' = [vmidOf EXCEPT ![r] = v]
    /\ status' = [status EXCEPT ![r] = "running"]
    /\ Finish(t)
    /\ UNCHANGED <<window, pve, ips, queued, abandoned, faults>>

\* A row of that primary key is left from an earlier machine: IntegrityError,
\* and nothing undoes phases 1 and 2.
RecordFails(t) ==
    /\ pc[t] = "built"
    /\ lock[job[t]] = Free
    /\ plan[t].vm \in resource
    /\ Finish(t)
    /\ UNCHANGED <<dbVars, window, pve, queued, abandoned, faults>>

(***************************************************************************)
(* process_due_request_stops                                               *)
(***************************************************************************)
\* A request whose window has ended and that holds a vmid; the stop pass goes
\* on to the next one in its next round.
StopList(s) ==
    /\ pc[s] = "idle" /\ batch[s] = {}
    /\ \E r \in Request :
          /\ Ended(r)
          /\ job' = [job EXCEPT ![s] = r]
          /\ seen' = [seen EXCEPT ![s] = RowOf(r)]
    /\ Goto(s, "stopping")
    /\ UNCHANGED <<dbVars, window, lock, pve, queued, claimed, plan, batch,
                   abandoned, faults>>

\* Mutant of Stop: the machine is looked up, not shut down.
StopNothing(s) ==
    /\ pc[s] = "stopping"
    /\ Exists(seen[s].vmid)
    /\ Finish(s)
    /\ UNCHANGED <<dbVars, window, pve, queued, abandoned, faults>>

\* The machine under the vmid, found without a look at its name, is shut down.
Stop(s) ==
    LET v == seen[s].vmid IN
    /\ pc[s] = "stopping"
    /\ Exists(v)
    /\ pve' = [pve EXCEPT ![v] = [@ EXCEPT !.on = FALSE]]
    /\ Finish(s)
    /\ UNCHANGED <<dbVars, window, queued, abandoned, faults>>

\* NotFoundError: the request forgets its vmid.
StopMissing(s) ==
    /\ pc[s] = "stopping"
    /\ ~Exists(seen[s].vmid)
    /\ lock[job[s]] = Free
    /\ vmidOf' = [vmidOf EXCEPT ![job[s]] = NoVmid]
    /\ Finish(s)
    /\ UNCHANGED <<status, window, pve, resource, ips, queued, abandoned, faults>>

(***************************************************************************)
(* resource_service.delete, run for a deletion request                     *)
(***************************************************************************)
\* The machine is stopped and destroyed on the cluster.
Destroy(d) ==
    /\ pc[d] = "idle"
    /\ \E v \in resource :
          /\ Exists(v)
          /\ pve' = [pve EXCEPT ![v] = NoVm]
          /\ plan' = [plan EXCEPT ![d] = [vm |-> v, ip |-> NoIp]]
    /\ Goto(d, "unlinking")
    /\ UNCHANGED <<dbVars, window, lock, queued, job, seen, claimed, batch,
                   abandoned, faults>>

\* After the proxy rules are gone: address and resources row, one commit.  A
\* failed release, or one rolled back with the batch tasks, stops nothing.
Unlink(d) ==
    LET v    == plan[d].vm
        mine == {i \in Ip : ips[i] = v}
    IN
    /\ pc[d] = "unlinking"
    /\ \/ mine = {} /\ UNCHANGED <<ips, faults>>
       \/ \E i \in mine : ips' = [ips EXCEPT ![i] = NoVmid] /\ UNCHANGED faults
       \/ mine # {} /\ MayFault("delete") /\ UNCHANGED ips
    /\ resource' = resource \ {v}
    /\ Goto(d, "linking")
    /\ UNCHANGED <<status, vmidOf, window, lock, pve, queued,
                   job, seen, claimed, plan, batch, abandoned>>

\* get_latest_approved_vm_request_by_vmid.
FindLinked(d) ==
    LET linked == {r \in Request : vmidOf[r] = plan[d].vm /\ status[r] \in Active} IN
    /\ pc[d] = "linking"
    /\ \/ /\ linked = {}
          /\ Finish(d)
       \/ /\ \E r \in linked : job' = [job EXCEPT ![d] = r]
          /\ Goto(d, "rejecting")
          /\ UNCHANGED <<lock, seen, claimed, plan, batch>>
    /\ UNCHANGED <<dbVars, window, pve, queued, abandoned, faults>>

\* The linked request is rejected so that the scheduler leaves it alone.
RejectLinked(d) ==
    /\ pc[d] = "rejecting"
    /\ lock[job[d]] = Free
    /\ status' = [status EXCEPT ![job[d]] = "rejected"]
    /\ Finish(d)
    /\ UNCHANGED <<vmidOf, window, pve, resource, ips, queued, abandoned, faults>>

\* The database fails after the machine is destroyed, before or after the
\* commit of Unlink: the linked request stays as it is, and a repetition of the
\* deletion finds no machine, or no row, to go on from.
DeleteFails(d) ==
    /\ pc[d] \in Deleting
    /\ MayFault("delete")
    /\ abandoned' = abandoned \cup {plan[d].vm}
    /\ Finish(d)
    /\ UNCHANGED <<dbVars, window, pve, queued>>

(***************************************************************************)
(* Failures                                                                *)
(***************************************************************************)
\* A worker process dies: the open transaction of the thread rolls back and
\* tasks queued in memory are lost.  A clone it had asked for may still be
\* carried out by the cluster.
Crash(t) ==
    /\ pc[t] # "idle"
    /\ MayFault("crash")
    /\ \/ UNCHANGED pve
       \/ /\ pc[t] = "cloning" /\ ~Exists(plan[t].vm)
          /\ pve' = CloneOf(t)
    /\ abandoned' = IF pc[t] \in Deleting THEN abandoned \cup {plan[t].vm} ELSE abandoned
    /\ Release(t)
    /\ Forget(t)
    /\ batch' = [batch EXCEPT ![t] = {}]
    /\ \E lost \in SUBSET queued : queued' = queued \ lost
    /\ UNCHANGED <<dbVars, window>>

\* A machine disappears from the pool behind the platform's back.
Lose(v) ==
    /\ Exists(v)
    /\ MayFault("loss")
    /\ pve' = [pve EXCEPT ![v] = NoVm]
    /\ UNCHANGED <<dbVars, window, lock, queued, threadVars, abandoned>>

(***************************************************************************)
(* Specification                                                           *)
(***************************************************************************)
UserStep(r) ==
    \/ Create(r) \/ CreateImmediate(r) \/ Approve(r) \/ Reject(r)
    \/ Cancel(r) \/ Retry(r) \/ OpenWindow(r) \/ EndWindow(r)

SchedulerStep(s) ==
    \/ List(s) \/ Visit(s) \/ ConfirmGone(s) \/ StillThere(s) \/ Clear(s)
    \/ StopList(s) \/ Stop(s) \/ StopMissing(s)

TaskStep(t) == Begin(t) \/ Drop(t)

EnsureStep(t) ==
    \/ LockRow(t) \/ SkipRow(t) \/ Refresh(t) \/ RefreshMissing(t)
    \/ Start(t) \/ StartFails(t) \/ ReadClaims(t) \/ Find(t) \/ Adopt(t)
    \/ AdoptCommit(t) \/ AdoptFails(t)

ProvisionStep(t) ==
    \/ MarkProvisioning(t) \/ Plan(t) \/ PlanFails(t) \/ Clone(t)
    \/ CloneFails(t) \/ BuildFails(t) \/ ReleaseIp(t) \/ Revert(t)
    \/ Record(t) \/ RecordFails(t)

DeleterStep(d) ==
    Destroy(d) \/ Unlink(d) \/ FindLinked(d) \/ RejectLinked(d) \/ DeleteFails(d)

Next ==
    \/ \E r \in Request : UserStep(r)
    \/ \E s \in Scheduler : SchedulerStep(s)
    \/ \E t \in Task : TaskStep(t)
    \/ \E t \in Scheduler \cup Task : EnsureStep(t) \/ ProvisionStep(t)
    \/ \E d \in Deleter : DeleterStep(d)
    \/ \E t \in Thread : Crash(t)
    \/ \E v \in Vmid : Lose(v)

Spec == Init /\ [][Next]_vars

(***************************************************************************)
(* Fairness.  A loop that is up ticks for ever: every tick runs the start  *)
(* pass and then the stop pass, so neither can be left out for ever        *)
(* although the other is always possible.  A thread that has begun, and a  *)
(* task handed to a runner, go on; PostgreSQL serves a transaction that    *)
(* waits for a row lock, however often others take the lock (strong        *)
(* fairness).  Users, the clock and failures owe nothing, nor does anybody *)
(* have to delete a machine, but a deletion that has begun is finished.    *)
(***************************************************************************)
Fairness ==
    /\ \A s \in Scheduler :
          SF_vars(List(s)) /\ SF_vars(StopList(s)) /\ SF_vars(SchedulerStep(s))
    /\ \A t \in Task : WF_vars(TaskStep(t))
    /\ \A t \in Scheduler \cup Task : SF_vars(EnsureStep(t)) /\ SF_vars(ProvisionStep(t))
    /\ \A d \in Deleter : SF_vars(Unlink(d) \/ FindLinked(d) \/ RejectLinked(d))

FairSpec == Spec /\ Fairness

(***************************************************************************)
(* Properties                                                              *)
(***************************************************************************)
\* What the docstring of _provision_new_resource calls the anti-duplication
\* pattern: between the commit of status provisioning and the record of the
\* outcome, one thread at most is provisioning a request.  It needs the row
\* lock, the status check under it, and a copy of the row no older than the
\* lock; sessions of process_single_request_start have such a copy, the pass
\* of a scheduler loop has not.
AtMostOneProvisioner ==
    \A t, u \in Thread :
        /\ pc[t] \in InFlight /\ pc[u] \in InFlight
        /\ job[t] = job[u]
        => t = u

\* Background tasks alone implement the abstract protocol: the owner of a
\* request is the thread that has committed status provisioning for it and
\* has not recorded an outcome yet.
Owner ==
    [r \in Request |->
        IF \E t \in Thread : pc[t] \in InFlight /\ job[t] = r
          THEN CHOOSE t \in Thread : pc[t] \in InFlight /\ job[t] = r
          ELSE Free]

Protocol == INSTANCE ProvisionOnce WITH phase <- status, owner <- Owner, Worker <- Thread, Nobody <- Free

ProvisionedOnce == Protocol!Spec

\* Two active requests never hold the same vmid, though the cluster hands the
\* id of a machine out again as soon as the machine is gone: the primary key of
\* resources has to stand in the way until the deletion is through, and a
\* machine found by name has to be nobody's.  Exceptions are a vmid whose
\* deletion has removed the resources row but not yet rejected the request, and
\* one whose deletion broke off and never will.  Requests with one hostname
\* share a vmid if one is recorded between ReadClaims and Adopt of the other, as
\* do requests with different ones if a machine is lost between Find and Adopt.
NoSharedVm ==
    \A q, r \in Request :
        /\ status[q] \in Active /\ status[r] \in Active
        /\ vmidOf[q] = vmidOf[r] /\ vmidOf[q] # NoVmid
        => \/ q = r
           \/ vmidOf[q] \in abandoned
           \/ \E d \in Deleter : pc[d] \in {"linking", "rejecting"} /\ plan[d].vm = vmidOf[q]

\* A request in status provisioning has a thread that will take it out of
\* that status: the scheduler never retries one (it takes the status for
\* somebody else's work), so a request left there would stay for ever.
ProvisioningIsOwned ==
    \A r \in Request :
        status[r] = "provisioning" =>
            \E t \in Thread : pc[t] \in InFlight /\ job[t] = r

\* A request shown as running has a machine, a recorded vmid is that of an
\* existing machine with the hostname of the request, and a resources row
\* makes it visible to its owner.  The threads that write these three places
\* do so from copies read in different transactions.
RunningHasMachine ==
    \A r \in Request :
        /\ vmidOf[r] # NoVmid => IsMachineOf(vmidOf[r], r) /\ vmidOf[r] \in resource
        /\ status[r] = "running" => vmidOf[r] # NoVmid

\* The docstring of cancel(): a cancellation that cannot be honoured is
\* answered with 409 instead of lying about the state; so a request that was
\* reported cancelled does not come back.
CancelledStays ==
    [][\A r \in Request : status[r] = "cancelled" => status'[r] = "cancelled"]_vars

\* The comment in resource_service.delete: the request of a deleted machine
\* is taken away from the scheduler, so that it is not provisioned again.
\* From the moment the machine is destroyed, its request is not handed back
\* to the scheduler as approved.
DeletedIsNotReapproved ==
    [][\A d \in Deleter, r \in Request :
          /\ pc[d] \in Deleting
          /\ vmidOf[r] = plan[d].vm /\ status[r] \in Active
          => status'[r] # "approved"]_vars

\* models/ip_allocation.py: the table makes sure that no address is used
\* twice.  Two machines on the cluster never have the same address.
DistinctIps ==
    \A v, w \in Vmid :
        Exists(v) /\ Exists(w) /\ pve[v].ip = pve[w].ip => v = w

Served(r) ==
    /\ status[r] = "running"
    /\ IsMachineOf(vmidOf[r], r) /\ pve[vmidOf[r]].on

\* An approved request whose window is open gets its machine, unless it is
\* withdrawn or the window ends first.
ApprovedIsServed ==
    \A r \in Request :
        status[r] = "approved" /\ window[r] = "open"
            ~> Served(r) \/ status[r] \in {"cancelled", "rejected"} \/ window[r] = "ended"

\* After the end of its window a request gets to a point from which on its
\* machine is off: a start pass that had listed the request before the end
\* may still start the machine, and the stop pass has the last word.
EndedIsStopped ==
    \A r \in Request : window[r] = "ended" ~> [](~Served(r))
=============================================================================
