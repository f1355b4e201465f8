--------------------------- MODULE MigrationQueue ---------------------------
(***************************************************************************)
(* The queue of migration jobs of Campus-Cloud: the scheduler passes that  *)
(* decide on nodes (_rebalance_active_window), enqueue jobs                *)
(* (sync_request_migration_job), claim them (claim_jobs_for_requests) and  *)
(* reconcile requests (_ensure_request_running), the pool of workers that  *)
(* executes claimed jobs (_process_claimed_migration_job), and the         *)
(* administrator who cancels and retries jobs.                             *)
(*                                                                         *)
(* Every process has a scheduler loop and a pool of its own.  A claim ends *)
(* by a deadline that no worker looks at again; a worker writes a job from *)
(* the copy that its session has, and only the columns that it changes.    *)
(***************************************************************************)
EXTENDS Naturals, FiniteSets

CONSTANTS
    Request,      \* requests with a machine
    Node,
    Home,         \* the node each machine starts on
    Loop,         \* scheduler loops, one per process
    Worker,       \* threads of the migration pools
    PoolOf,       \* the loop each worker serves: worker_concurrency of each
    MaxJobs,      \* bound on the jobs that are ever enqueued for a request
    Pinned,       \* requests that are never migrated automatically
    Barred,       \* <<request, node>> that lacks the storage of its machine
    RetryLimit,   \* migration_retry_limit, 0 for none
    Budget,       \* migration_max_per_rebalance
    MaxEpoch,     \* bound on the rebalancings
    MaxTries,     \* attempt_count is not counted further than this
    Fault,        \* which failures and events may happen, see Faults
    MaxFault,     \* bound on their number in one behaviour
    Nobody, NoJob, NoNode, NoRow

Slot == 1 .. MaxJobs     \* the jobs of a request, in the order of requested_at
Job  == Request \X Slot

Faults == {"query", "move", "slow", "crash", "loss", "admin", "end"}

ASSUME NodesAssumption ==
    /\ Home \in [Request -> Node] /\ NoNode \notin Node
    /\ Pinned \subseteq Request
    /\ Barred \subseteq Request \X Node

ASSUME PoolsAssumption ==
    /\ PoolOf \in [Worker -> Loop] /\ IsFiniteSet(Worker)
    /\ Loop \cap Worker = {} /\ Nobody \notin Loop \cup Worker
    /\ NoJob \notin Job

ASSUME BoundsAssumption ==
    /\ MaxJobs \in Nat /\ RetryLimit \in Nat /\ Budget \in Nat
    /\ MaxEpoch \in Nat /\ MaxFault \in Nat /\ Fault \subseteq Faults
    /\ MaxTries \in Nat /\ MaxTries > RetryLimit + MaxFault

VARIABLES
    jobs,        \* vm_migration_jobs by request and slot
    row,         \* columns of vm_requests
    active,      \* requests that list_active_approved_vm_requests returns
    recent,      \* requests migrated less than min_interval_minutes ago
    lock,        \* the worker or loop that holds the row lock of each request
    at,          \* node of each machine on the cluster, NoNode once it is lost
    moving,      \* target of the migration the cluster is executing, or NoNode
    stage,       \* where each scheduler loop stands in its tick
    todo,        \* active requests as its pass has listed them
    seen,        \* rows as its rebalancing has read them
    pc,          \* where each worker stands
    task,        \* the job it was given
    over,        \* it was given one past the budget
    copy,        \* the job as its session knows it
    route,       \* from, to, and where the machine was found afterwards
    view,        \* the row as its session has loaded it without the lock
    admin,       \* job an administrator has read, and what for
    faults, crashes,
    touched      \* jobs changed by others while a worker was at them (history)

cluster == <<at, moving>>
loops   == <<stage, todo, seen>>
workers == <<pc, task, over, copy, route, view>>
history == <<faults, crashes, touched>>
vars    == <<jobs, row, active, recent, lock, cluster, loops, workers, admin, history>>

Open   == {"pending", "running"}
Closed == {"completed", "failed", "blocked", "cancelled"}
Claim  == {"none", "live", "expired"}
Mig    == {"idle", "pending", "running", "completed", "failed", "blocked"}
Place  == Node \cup {NoNode}

JobRow == [st : {"free"} \cup Open \cup Closed, claim : Claim, due : BOOLEAN,
           tries : 0 .. MaxTries, epoch : Nat, from : Place, to : Place]
Row    == [want : Place, actual : Place, epoch : Nat, mig : Mig, vm : BOOLEAN]
Route  == [from : Place, to : Place, found : Place]

Unused   == [st |-> "free", claim |-> "none", due |-> FALSE, tries |-> 0,
             epoch |-> 0, from |-> NoNode, to |-> NoNode]
Nowhere  == [from |-> NoNode, to |-> NoNode, found |-> NoNode]

BeforeBegin == {"queued", "loaded", "locked", "located"}
AfterBegin  == {"begun", "moving", "arriving", "moved"}
Failing     == {"failed", "rolled", "reloaded"}
Point       == {"idle"} \cup BeforeBegin \cup AfterBegin \cup Failing
Stage       == {"idle", "placing", "claiming", "serial", "pool", "syncing"}

TypeOK ==
    /\ jobs \in [Request -> [Slot -> JobRow]]
    /\ row \in [Request -> Row]
    /\ active \subseteq Request /\ recent \subseteq Request
    /\ lock \in [Request -> Worker \cup Loop \cup {Nobody}]
    /\ at \in [Request -> Place] /\ moving \in [Request -> Place]
    /\ stage \in [Loop -> Stage]
    /\ todo \in [Loop -> SUBSET Request]
    /\ seen \in [Loop -> [Request -> Row]]
    /\ pc \in [Worker -> Point]
    /\ task \in [Worker -> Job \cup {NoJob}]
    /\ over \in [Worker -> BOOLEAN]
    /\ copy \in [Worker -> JobRow]
    /\ route \in [Worker -> Route]
    /\ view \in [Worker -> Row \cup {NoRow}]
    /\ admin \in (Job \X {"cancel", "retry"} \X JobRow) \cup {NoJob}
    /\ faults \in 0 .. MaxFault /\ crashes \in 0 .. MaxFault
    /\ touched \subseteq Job

\* A provisioned machine on the node that its request was assigned.
Blank == [r \in Request |-> [want |-> Home[r], actual |-> Home[r], epoch |-> 0,
                             mig |-> "idle", vm |-> TRUE]]

Init ==
    /\ jobs = [r \in Request |-> [k \in Slot |-> Unused]]
    /\ row = Blank
    /\ active = Request /\ recent = {}
    /\ lock = [r \in Request |-> Nobody]
    /\ at = Home /\ moving = [r \in Request |-> NoNode]
    /\ stage = [p \in Loop |-> "idle"]
    /\ todo = [p \in Loop |-> {}]
    /\ seen = [p \in Loop |-> Blank]
    /\ pc = [w \in Worker |-> "idle"]
    /\ task = [w \in Worker |-> NoJob]
    /\ over = [w \in Worker |-> FALSE]
    /\ copy = [w \in Worker |-> Unused]
    /\ route = [w \in Worker |-> Nowhere]
    /\ view = [w \in Worker |-> NoRow]
    /\ admin = NoJob
    /\ faults = 0 /\ crashes = 0 /\ touched = {}

MayFault(f) == f \in Fault /\ faults < MaxFault /\ faults' = faults + 1

AtWork(j) == \E w \in Worker : task[w] = j

JobAt(j) == jobs[j[1]][j[2]]

JobOf(w) == JobAt(task[w])

Put(j, new) == jobs' = [jobs EXCEPT ![j[1]] = [@ EXCEPT ![j[2]] = new]]

\* History: a step of others has changed a job that a worker is executing.
Disturb(js) ==
    touched' = touched \cup {j \in Job : AtWork(j) /\ js[j[1]][j[2]] # jobs[j[1]][j[2]]}

\* An ORM object writes the columns whose value differs from the one it has
\* loaded; the others keep what the row has become meanwhile.
Column(now, loaded, new) == IF new = loaded THEN now ELSE new

MergeJob(now, loaded, new) ==
    [st    |-> Column(now.st, loaded.st, new.st),
     claim |-> Column(now.claim, loaded.claim, new.claim),
     due   |-> Column(now.due, loaded.due, new.due),
     tries |-> Column(now.tries, loaded.tries, new.tries),
     epoch |-> Column(now.epoch, loaded.epoch, new.epoch),
     from  |-> Column(now.from, loaded.from, new.from),
     to    |-> Column(now.to, loaded.to, new.to)]

MergeRow(now, loaded, new) ==
    [want   |-> Column(now.want, loaded.want, new.want),
     actual |-> Column(now.actual, loaded.actual, new.actual),
     epoch  |-> Column(now.epoch, loaded.epoch, new.epoch),
     mig    |-> Column(now.mig, loaded.mig, new.mig),
     vm     |-> Column(now.vm, loaded.vm, new.vm)]

\* update_job_status for every status but running drops the claim.
Settle(job, status) == [job EXCEPT !.st = status, !.claim = "none"]

\* attempt_delta = 1.  No step tells apart counts beyond the retry limit.
Tried(job) == [job EXCEPT !.tries = IF @ < MaxTries THEN @ + 1 ELSE @]

Routed(job, from, to) == [job EXCEPT !.from = from, !.to = to]

(***************************************************************************)
(* Enqueueing                                                              *)
(***************************************************************************)
Latest(js, k) == js[k].st # "free" /\ \A l \in Slot : l > k => js[l].st = "free"

NewestOpen(js, k) == js[k].st \in Open /\ \A l \in Slot : l > k => js[l].st \notin Open

NextFree(js, k) == js[k].st = "free" /\ \A l \in Slot : l < k => js[l].st # "free"

\* The latest job has given up on this decision, or is carrying it out.
Decided(job, r, src) ==
    /\ job.epoch = r.epoch /\ job.to = r.want
    /\ \/ job.st \in {"failed", "blocked"}
       \/ job.st \in Open /\ job.from = src

Enqueued(r, src) ==
    [st |-> "pending", claim |-> "none", due |-> TRUE, tries |-> 0,
     epoch |-> r.epoch, from |-> src, to |-> r.want]

Arrived(r, src) == ~r.vm \/ r.want \in {NoNode, src}

Standing(js, r, src) == \E k \in Slot : Latest(js, k) /\ Decided(js[k], r, src)

Waiting(js) == \E k \in Slot : NewestOpen(js, k) /\ js[k].st = "pending"

\* The jobs of a request after sync_request_migration_job, for its row r.
Sync(js, r, src) ==
    IF Arrived(r, src)
      THEN [k \in Slot |-> IF js[k].st = "pending" THEN Settle(js[k], "cancelled") ELSE js[k]]
    ELSE IF Standing(js, r, src)
      THEN js
    ELSE IF Waiting(js)
      THEN [k \in Slot |-> IF NewestOpen(js, k)
                             THEN [Enqueued(r, src) EXCEPT !.tries = js[k].tries]
                             ELSE js[k]]
    ELSE [k \in Slot |-> IF NextFree(js, k) THEN Enqueued(r, src) ELSE js[k]]

\* Bound: a pass that would need one more job than MaxJobs does not happen.
Fits(js, r, src) ==
    Arrived(r, src) \/ Standing(js, r, src) \/ Waiting(js) \/ js[MaxJobs].st = "free"

\* Mutant: the status of the job is not looked at.
EffectiveOwn(js, r) == r.mig

\* effective_request_migration_state, for its row r.
Effective(js, r) ==
    IF \E k \in Slot : Latest(js, k) /\ js[k].to = r.want /\ js[k].epoch = r.epoch
                        /\ js[k].st # "cancelled"
      THEN js[CHOOSE k \in Slot : Latest(js, k)].st
      ELSE r.mig

(***************************************************************************)
(* The scheduler loop                                                      *)
(***************************************************************************)
Stand(p, point) == stage' = [stage EXCEPT ![p] = point]

\* _rebalance_active_window locks the requests that are due for rebalancing,
\* reads all active ones and looks for nodes.
Survey(p) ==
    /\ stage[p] = "idle"
    /\ \A r \in active : row[r].epoch < MaxEpoch
    /\ \E due \in (SUBSET active) \ {{}} :
         /\ \A r \in due : lock[r] = Nobody
         /\ lock' = [r \in Request |-> IF r \in due THEN p ELSE lock[r]]
    /\ Stand(p, "placing")
    /\ todo' = [todo EXCEPT ![p] = active]
    /\ seen' = [seen EXCEPT ![p] = row]
    /\ UNCHANGED <<jobs, row, active, recent, cluster, workers, admin, history>>

EndTransaction(p) == lock' = [r \in Request |-> IF lock[r] = p THEN Nobody ELSE lock[r]]

\* The row of a request with the decision of the pass that has read seen[p].
DecidedRow(p, r, want, epoch) ==
    MergeRow(row[r], seen[p][r],
             [seen[p][r] EXCEPT
                !.want = want, !.epoch = epoch,
                !.mig = IF seen[p][r].vm /\ seen[p][r].actual # want THEN "pending" ELSE "idle"])

\* One transaction: the decisions are written, and a job each is enqueued.
Rebalance(p) ==
    /\ stage[p] = "placing"
    /\ \A r \in todo[p] : lock[r] \in {Nobody, p}
    /\ \E node \in [todo[p] -> Node], epoch \in 1 .. MaxEpoch :
         /\ \A r \in todo[p] : epoch > seen[p][r].epoch
         /\ \E r \in todo[p] : epoch = seen[p][r].epoch + 1
         /\ \A r \in todo[p] :
              Fits(jobs[r], DecidedRow(p, r, node[r], epoch), seen[p][r].actual)
         /\ row' = [r \in Request |-> IF r \in todo[p] THEN DecidedRow(p, r, node[r], epoch)
                                                        ELSE row[r]]
         /\ jobs' = [r \in Request |->
                       IF r \in todo[p]
                         THEN Sync(jobs[r], DecidedRow(p, r, node[r], epoch), seen[p][r].actual)
                         ELSE jobs[r]]
    /\ Disturb(jobs')
    /\ EndTransaction(p)
    /\ Stand(p, "claiming")
    /\ todo' = [todo EXCEPT ![p] = {}]
    /\ seen' = [seen EXCEPT ![p] = Blank]
    /\ UNCHANGED <<active, recent, cluster, workers, admin, faults, crashes>>

\* No request is due, or no placement was found: the pass goes on.
NoRebalance(p) ==
    /\ stage[p] \in {"idle", "placing"}
    /\ EndTransaction(p)
    /\ Stand(p, "claiming")
    /\ todo' = [todo EXCEPT ![p] = {}]
    /\ seen' = [seen EXCEPT ![p] = Blank]
    /\ UNCHANGED <<jobs, row, active, recent, cluster, workers, admin, history>>

\* The claiming fails, which ends the pass: nothing is reconciled in this tick.
ClaimFails(p) ==
    /\ stage[p] = "claiming"
    /\ MayFault("query")
    /\ Stand(p, "idle")
    /\ UNCHANGED <<jobs, row, active, recent, lock, cluster, todo, seen, workers, admin,
                   crashes, touched>>

PoolOfLoop(p) == {w \in Worker : PoolOf[w] = p}

\* Mutants: the deadline of a claim is not looked at; a claim never runs out;
\* jobs that have failed are candidates too.
ClaimableHeld(js) == {j \in Job : /\ j[1] \in active
                                  /\ js[j[1]][j[2]].st \in Open
                                  /\ js[j[1]][j[2]].due}

ClaimableOnce(js) == {j \in ClaimableHeld(js) : js[j[1]][j[2]].claim = "none"}

ClaimableFailed(js) == {j \in Job : /\ j[1] \in active
                                    /\ js[j[1]][j[2]].st \in Open \cup {"failed"}
                                    /\ js[j[1]][j[2]].due
                                    /\ js[j[1]][j[2]].claim # "live"}

Claimable(js) == {j \in Job : /\ j[1] \in active
                              /\ js[j[1]][j[2]].st \in Open
                              /\ js[j[1]][j[2]].due
                              /\ js[j[1]][j[2]].claim # "live"}

Claimed(job) ==
    [job EXCEPT !.claim = "live",
                !.st = IF job.st = "running" /\ job.claim = "expired" THEN "pending" ELSE job.st]

\* As many jobs as there are workers, those due longest first; the jobs past
\* the budget are executed too, with the budget used up.
ClaimJobs(p) ==
    /\ stage[p] = "claiming"
    /\ todo' = [todo EXCEPT ![p] = active]
    /\ \E give \in [PoolOfLoop(p) -> Claimable(jobs) \cup {NoJob}] :
         LET busy  == {w \in PoolOfLoop(p) : give[w] # NoJob}
             given == {give[w] : w \in busy}
         IN  /\ \A v, w \in busy : give[v] = give[w] => v = w
             /\ busy = PoolOfLoop(p) \/ given = Claimable(jobs)
             /\ jobs' = [r \in Request |-> [k \in Slot |->
                            IF <<r, k>> \in given THEN Claimed(jobs[r][k]) ELSE jobs[r][k]]]
             /\ task' = [w \in Worker |-> IF w \in busy THEN give[w] ELSE task[w]]
             /\ pc' = [w \in Worker |-> IF w \in busy THEN "queued" ELSE pc[w]]
             /\ \E first \in SUBSET busy :
                  /\ Cardinality(first) <= Budget
                  /\ first = busy \/ Cardinality(first) = Budget
                  /\ over' = [w \in Worker |-> IF w \in busy THEN w \notin first ELSE over[w]]
             /\ Stand(p, IF active = {} THEN "idle" ELSE IF busy = {} THEN "syncing"
                         ELSE IF \E w \in busy : busy = {w} THEN "serial" ELSE "pool")
    /\ UNCHANGED <<row, active, recent, lock, cluster, seen, copy, route, view, admin, history>>

PoolDone(p) ==
    /\ stage[p] \in {"serial", "pool"}
    /\ \A w \in PoolOfLoop(p) : task[w] = NoJob
    /\ Stand(p, "syncing")
    /\ UNCHANGED <<jobs, row, active, recent, lock, cluster, todo, seen, workers, admin, history>>

\* The pass goes on to the next request, or ends.
Visited(p, r) ==
    /\ todo' = [todo EXCEPT ![p] = @ \ {r}]
    /\ Stand(p, IF todo[p] = {r} THEN "idle" ELSE "syncing")

\* _ensure_request_running for a request with a machine.
Ensure(p, r) ==
    /\ stage[p] = "syncing" /\ r \in todo[p]
    /\ lock[r] = Nobody /\ row[r].vm /\ at[r] # NoNode
    /\ LET found == [row[r] EXCEPT !.actual = at[r],
                        !.mig = IF row[r].want # at[r] THEN "pending" ELSE row[r].mig]
       IN  /\ Fits(jobs[r], found, at[r])
           /\ jobs' = [jobs EXCEPT ![r] = Sync(jobs[r], found, at[r])]
           /\ row' = [row EXCEPT ![r] = [found EXCEPT
                         !.mig = IF found.want = at[r] THEN "completed"
                                 ELSE Effective(Sync(jobs[r], found, at[r]), found)]]
    /\ Disturb(jobs')
    /\ Visited(p, r)
    /\ UNCHANGED <<active, recent, lock, cluster, seen, workers, admin, faults, crashes>>

\* The machine is confirmed absent.  Its replacement is not followed here.
EnsureGone(p, r) ==
    /\ stage[p] = "syncing" /\ r \in todo[p]
    /\ lock[r] = Nobody /\ row[r].vm /\ at[r] = NoNode
    /\ row' = [row EXCEPT ![r] = [@ EXCEPT !.want = NoNode, !.actual = NoNode,
                                          !.mig = "idle", !.vm = FALSE]]
    /\ Visited(p, r)
    /\ UNCHANGED <<jobs, active, recent, lock, cluster, seen, workers, admin, history>>

\* A request without a machine is provisioned, which leaves its jobs alone.
EnsureNew(p, r) ==
    /\ stage[p] = "syncing" /\ r \in todo[p]
    /\ ~row[r].vm
    /\ Visited(p, r)
    /\ UNCHANGED <<jobs, row, active, recent, lock, cluster, seen, workers, admin, history>>

\* A query fails: rollback, and _mark_request_runtime_error.
EnsureFails(p, r) ==
    /\ stage[p] = "syncing" /\ r \in todo[p]
    /\ lock[r] = Nobody
    /\ MayFault("query")
    /\ row' = [row EXCEPT ![r].mig = "failed"]
    /\ Visited(p, r)
    /\ UNCHANGED <<jobs, active, recent, lock, cluster, seen, workers, admin,
                   crashes, touched>>

(***************************************************************************)
(* A worker of the pool                                                    *)
(***************************************************************************)
Goto(w, point) == pc' = [pc EXCEPT ![w] = point]

ReqOf(w) == task[w][1]

WriteJob(w, new) == Put(task[w], new)

WriteRow(w, new) == row' = [row EXCEPT ![ReqOf(w)] = new]

Unlock(w) == lock' = [lock EXCEPT ![ReqOf(w)] = Nobody]

Leave(w) ==
    /\ Goto(w, "idle")
    /\ task' = [task EXCEPT ![w] = NoJob]
    /\ over' = [over EXCEPT ![w] = FALSE]
    /\ copy' = [copy EXCEPT ![w] = Unused]
    /\ route' = [route EXCEPT ![w] = Nowhere]
    /\ view' = [view EXCEPT ![w] = NoRow]

\* The job as it is now, whoever has it by now.
Load(w) ==
    /\ pc[w] = "queued"
    /\ copy' = [copy EXCEPT ![w] = JobOf(w)]
    /\ Goto(w, "loaded")
    /\ UNCHANGED <<jobs, row, active, recent, lock, cluster, loops, task, over, route, view, admin, history>>

LockRow(w) ==
    /\ pc[w] = "loaded"
    /\ lock[ReqOf(w)] = Nobody
    /\ lock' = [lock EXCEPT ![ReqOf(w)] = w]
    /\ Goto(w, "locked")
    /\ UNCHANGED <<jobs, row, active, recent, cluster, loops, task, over, copy, route, view, admin, history>>

\* _refresh_actual_node finds the machine on another node than the wanted one.
Locate(w) ==
    /\ pc[w] = "locked"
    /\ LET r == ReqOf(w)
       IN  /\ row[r].vm /\ at[r] # NoNode /\ row[r].want # at[r]
           /\ route' = [route EXCEPT ![w] = [from |-> at[r], to |-> row[r].want, found |-> NoNode]]
    /\ Goto(w, "located")
    /\ UNCHANGED <<jobs, row, active, recent, lock, cluster, loops, task, over, copy, view, admin, history>>

\* Any other exception of the refresh leaves the worker: the job keeps its
\* claim, and a pass that runs its only job by itself ends with it.
RefreshFails(w) ==
    /\ pc[w] = "locked"
    /\ MayFault("query")
    /\ Unlock(w)
    /\ Leave(w)
    /\ IF stage[PoolOf[w]] = "serial"
         THEN Stand(PoolOf[w], "idle") /\ todo' = [todo EXCEPT ![PoolOf[w]] = {}]
         ELSE UNCHANGED <<stage, todo>>
    /\ UNCHANGED <<jobs, row, active, recent, cluster, seen, admin, crashes, touched>>

\* One look at the cluster decides that the machine is gone.
Stale(w) ==
    /\ pc[w] = "locked"
    /\ LET r == ReqOf(w)
       IN  /\ ~row[r].vm \/ at[r] = NoNode
           /\ WriteJob(w, MergeJob(JobOf(w), copy[w], Tried(Settle(copy[w], "failed"))))
           /\ WriteRow(w, [row[r] EXCEPT !.want = NoNode, !.actual = NoNode, !.mig = "idle", !.vm = FALSE])
    /\ Unlock(w)
    /\ Leave(w)
    /\ UNCHANGED <<active, recent, cluster, loops, admin, history>>

AlreadyThere(w) ==
    /\ pc[w] = "locked"
    /\ LET r == ReqOf(w)
       IN  /\ row[r].vm /\ at[r] # NoNode /\ row[r].want = at[r]
           /\ WriteJob(w, MergeJob(JobOf(w), copy[w], Routed(Settle(copy[w], "completed"), at[r], at[r])))
           /\ WriteRow(w, [row[r] EXCEPT !.actual = at[r], !.mig = "completed"])
    /\ Unlock(w)
    /\ Leave(w)
    /\ UNCHANGED <<active, recent, cluster, loops, admin, history>>

(* _record_migration_gate_result: budget, pin, interval and storage, in this order. *)
Spent(w)    == over[w] \/ Budget = 0
Deferred(w) == Spent(w) \/ (ReqOf(w) \notin Pinned /\ ReqOf(w) \in recent)
Blocked(w)  == ~Deferred(w) /\ (ReqOf(w) \in Pinned \/ <<ReqOf(w), route[w].to>> \in Barred)

\* Mutant: the reason of a result is taken for its status.
VerdictReason(w) == IF Deferred(w) THEN "deferred" ELSE "blocked"

Verdict(w) == IF Deferred(w) THEN "pending" ELSE "blocked"

Gate(w) ==
    /\ pc[w] = "located"
    /\ Deferred(w) \/ Blocked(w)
    /\ LET routed == Routed(Settle(copy[w], Verdict(w)), route[w].from, route[w].to)
       IN  /\ WriteJob(w, MergeJob(JobOf(w), copy[w],
                             IF Deferred(w) THEN [routed EXCEPT !.due = FALSE] ELSE routed))
           /\ WriteRow(w, [row[ReqOf(w)] EXCEPT !.actual = route[w].from,
                                               !.mig = Verdict(w)])
    /\ Unlock(w)
    /\ Leave(w)
    /\ UNCHANGED <<active, recent, cluster, loops, admin, history>>

\* The configuration or the status cannot be read, or not on that node any more.
GateFails(w) ==
    /\ pc[w] = "located"
    /\ ~Spent(w)
    /\ \/ at[ReqOf(w)] # route[w].from /\ UNCHANGED faults
       \/ MayFault("query")
    /\ Unlock(w)
    /\ Goto(w, "failed")
    /\ UNCHANGED <<jobs, row, active, recent, cluster, loops, task, over, copy, route, view, admin,
                   crashes, touched>>

\* The row lock ends with this commit, nothing is locked while the machine moves;
\* the session forgets what it knows of the job and of the row,
Begin(w) ==
    /\ pc[w] = "located"
    /\ ~Deferred(w) /\ ~Blocked(w)
    /\ WriteJob(w, MergeJob(JobOf(w), copy[w],
                    Routed([Tried(copy[w]) EXCEPT !.st = "running"], route[w].from, route[w].to)))
    /\ WriteRow(w, [row[ReqOf(w)] EXCEPT !.actual = route[w].from, !.mig = "running"])
    /\ Unlock(w)
    /\ copy' = [copy EXCEPT ![w] = Unused]
    /\ Goto(w, "begun")
    /\ UNCHANGED <<active, recent, cluster, loops, task, over, route, view, admin, history>>

\* and loads the row once more, for its vmid.  The cluster refuses a machine that
\* is not there or is being migrated.
Start(w) ==
    /\ pc[w] = "begun"
    /\ LET r == ReqOf(w)
       IN  /\ view' = [view EXCEPT ![w] = row[r]]
           /\ IF at[r] = route[w].from /\ moving[r] = NoNode
                THEN moving' = [moving EXCEPT ![r] = route[w].to] /\ Goto(w, "moving")
                ELSE UNCHANGED moving /\ Goto(w, "failed")
    /\ UNCHANGED <<jobs, row, active, recent, lock, at, loops, task, over, copy, route, admin, history>>

\* The progress callback writes the job whoever owns it by now, reads it again
\* and forgets the row.  (One that changes nothing is left out.)
Heartbeat(w) ==
    LET held == [JobOf(w) EXCEPT !.claim = "live"] IN
    /\ pc[w] = "moving"
    /\ held # JobOf(w) \/ held # copy[w] \/ view[w] # NoRow
    /\ WriteJob(w, held)
    /\ copy' = [copy EXCEPT ![w] = held]
    /\ view' = [view EXCEPT ![w] = NoRow]
    /\ UNCHANGED <<row, active, recent, lock, cluster, loops, pc, task, over, route, admin, history>>

\* Polling the task or writing the claim fails: the migration itself goes on.
WatchFails(w) ==
    /\ pc[w] = "moving"
    /\ MayFault("query")
    /\ Goto(w, "failed")
    /\ UNCHANGED <<jobs, row, active, recent, lock, cluster, loops, task, over, copy, route, view, admin,
                   crashes, touched>>

\* The task has ended well: where is the machine?  The row is loaded for its vmid
\* if a heartbeat has come in between.
Arrive(w) ==
    /\ pc[w] = "arriving"
    /\ view' = [view EXCEPT ![w] = IF @ = NoRow THEN row[ReqOf(w)] ELSE @]
    /\ IF at[ReqOf(w)] = NoNode
         THEN Goto(w, "failed") /\ UNCHANGED route
         ELSE /\ Goto(w, "moved")
              /\ route' = [route EXCEPT ![w].found = at[ReqOf(w)]]
    /\ UNCHANGED <<jobs, row, active, recent, lock, cluster, loops, task, over, copy, admin, history>>

\* The job as the last heartbeat has read it, or as it is now.
Known(w) == IF copy[w] = Unused THEN JobOf(w) ELSE copy[w]

\* Job and request are written with the decision of the time the worker began, as
\* far as this changes what the session has loaded without a lock.
Record(w) ==
    /\ pc[w] = "moved"
    /\ lock[ReqOf(w)] = Nobody
    /\ LET there  == route[w].found = route[w].to
           result == IF there THEN "completed" ELSE "blocked"
       IN  /\ WriteJob(w, MergeJob(JobOf(w), Known(w),
                             Routed(Settle(Known(w), result), route[w].from, route[w].to)))
           /\ WriteRow(w, MergeRow(row[ReqOf(w)], view[w],
                             [view[w] EXCEPT !.want = route[w].to, !.actual = route[w].found,
                                             !.mig = result]))
           /\ recent' = IF there THEN recent \cup {ReqOf(w)} ELSE recent
    /\ Leave(w)
    /\ UNCHANGED <<active, lock, cluster, loops, admin, history>>

RecordFails(w) ==
    /\ pc[w] = "moved"
    /\ MayFault("query")
    /\ Goto(w, "failed")
    /\ UNCHANGED <<jobs, row, active, recent, lock, cluster, loops, task, over, copy, route, view, admin,
                   crashes, touched>>

\* w has written its job and waits for the row; who has locked the row is going
\* to write the same job.  The database aborts one of them (the loop: NoRebalance).
Deadlock(w) ==
    LET u == lock[ReqOf(w)]
    IN  /\ pc[w] = "moved"
        /\ IF u \in Worker THEN task[u] = task[w]
                           ELSE u \in Loop /\ JobOf(w).st = "pending"
        /\ \/ Goto(w, "failed") /\ UNCHANGED lock
           \/ u \in Worker /\ pc[u] = "located" /\ Goto(u, "failed") /\ Unlock(u)
        /\ UNCHANGED <<jobs, row, active, recent, cluster, loops, task, over, copy, route, view, admin,
                       history>>

\* The exception handler: after the rollback the row is loaded for its id, without
\* a lock, then the job.  Locking the row later does not refresh what is loaded.
Rollback(w) ==
    /\ pc[w] = "failed"
    /\ view' = [view EXCEPT ![w] = row[ReqOf(w)]]
    /\ Goto(w, "rolled")
    /\ UNCHANGED <<jobs, row, active, recent, lock, cluster, loops, task, over, copy, route, admin, history>>

Reload(w) ==
    /\ pc[w] = "rolled"
    /\ copy' = [copy EXCEPT ![w] = JobOf(w)]
    /\ Goto(w, "reloaded")
    /\ UNCHANGED <<jobs, row, active, recent, lock, cluster, loops, task, over, route, view, admin, history>>

\* Mutant: one attempt too many.
ExhaustedLate(job) == RetryLimit > 0 /\ job.tries > RetryLimit

Exhausted(job) == RetryLimit > 0 /\ job.tries >= RetryLimit

Fail(w) ==
    /\ pc[w] = "reloaded"
    /\ lock[ReqOf(w)] = Nobody
    /\ LET result == IF Exhausted(copy[w]) THEN "failed" ELSE "pending"
           routed == Routed(Settle(copy[w], result), route[w].from, route[w].to)
       IN  /\ WriteJob(w, MergeJob(JobOf(w), copy[w],
                             IF result = "pending" THEN [routed EXCEPT !.due = FALSE] ELSE routed))
           /\ WriteRow(w, MergeRow(row[ReqOf(w)], view[w],
                             [view[w] EXCEPT !.want = route[w].to, !.actual = route[w].from,
                                             !.mig = result]))
    /\ Leave(w)
    /\ UNCHANGED <<active, recent, lock, cluster, loops, admin, history>>

(***************************************************************************)
(* The administrator: each handler reads the job, and writes it later      *)
(***************************************************************************)
Ask(j, kind) ==
    /\ admin = NoJob
    /\ JobAt(j).st \in IF kind = "cancel" THEN {"pending", "blocked", "failed"}
                                          ELSE {"failed", "blocked", "cancelled"}
    /\ MayFault("admin")
    /\ admin' = <<j, kind, JobAt(j)>>
    /\ touched' = touched \cup {j}
    /\ UNCHANGED <<jobs, row, active, recent, lock, cluster, loops, workers, crashes>>

Answer ==
    /\ admin # NoJob
    /\ LET j    == admin[1]
           read == admin[3]
           new  == IF admin[2] = "cancel" THEN Settle(read, "cancelled")
                   ELSE [Settle(read, "pending") EXCEPT !.due = TRUE]
       IN  Put(j, MergeJob(JobAt(j), read, new))
    /\ admin' = NoJob
    /\ UNCHANGED <<row, active, recent, lock, cluster, loops, workers, history>>

(***************************************************************************)
(* Time, cluster and crashes                                               *)
(***************************************************************************)
Expire(j) ==
    /\ JobAt(j).claim = "live" /\ ~AtWork(j)
    /\ Put(j, [JobAt(j) EXCEPT !.claim = "expired"])
    /\ UNCHANGED <<row, active, recent, lock, cluster, loops, workers, admin, history>>

\* A worker waits or works for longer than claim_timeout_seconds.
Overrun(j) ==
    /\ JobAt(j).claim = "live" /\ AtWork(j)
    /\ MayFault("slow")
    /\ Put(j, [JobAt(j) EXCEPT !.claim = "expired"])
    /\ Disturb(jobs')
    /\ UNCHANGED <<row, active, recent, lock, cluster, loops, workers, admin, crashes>>

BecomeDue(j) ==
    /\ JobAt(j).st = "pending" /\ ~JobAt(j).due
    /\ Put(j, [JobAt(j) EXCEPT !.due = TRUE])
    /\ UNCHANGED <<row, active, recent, lock, cluster, loops, workers, admin, history>>

Cool(r) ==
    /\ r \in recent
    /\ recent' = recent \ {r}
    /\ UNCHANGED <<jobs, row, active, lock, cluster, loops, workers, admin, history>>

\* The window of a request ends, or its user gives it up.
End(r) ==
    /\ r \in active
    /\ MayFault("end")
    /\ active' = active \ {r}
    /\ UNCHANGED <<jobs, row, recent, lock, cluster, loops, workers, admin, crashes, touched>>

\* The cluster's task ends; the worker that watches it learns how.
MoveEnds(r) ==
    /\ moving[r] # NoNode
    /\ \E ok \in BOOLEAN :
         /\ IF ok THEN at[r] # NoNode /\ UNCHANGED faults
                  ELSE (at[r] = NoNode /\ UNCHANGED faults) \/ MayFault("move")
         /\ at' = IF ok THEN [at EXCEPT ![r] = moving[r]] ELSE at
         /\ pc' = [w \in Worker |-> IF pc[w] = "moving" /\ task[w][1] = r
                                     THEN IF ok THEN "arriving" ELSE "failed"
                                     ELSE pc[w]]
    /\ moving' = [moving EXCEPT ![r] = NoNode]
    /\ UNCHANGED <<jobs, row, active, recent, lock, loops, task, over, copy, route, view, admin,
                   crashes, touched>>

Lose(r) ==
    /\ at[r] # NoNode
    /\ MayFault("loss")
    /\ at' = [at EXCEPT ![r] = NoNode]
    /\ UNCHANGED <<jobs, row, active, recent, lock, moving, loops, workers, admin, crashes, touched>>

\* A process dies: its transactions roll back, its claims stay until they expire.
Crash(p) ==
    /\ MayFault("crash")
    /\ stage[p] # "idle"
    /\ crashes' = crashes + 1
    /\ Stand(p, "idle")
    /\ todo' = [todo EXCEPT ![p] = {}]
    /\ seen' = [seen EXCEPT ![p] = Blank]
    /\ LET dead == PoolOfLoop(p)
       IN  /\ lock' = [r \in Request |-> IF lock[r] \in dead \cup {p} THEN Nobody ELSE lock[r]]
           /\ pc' = [w \in Worker |-> IF w \in dead THEN "idle" ELSE pc[w]]
           /\ task' = [w \in Worker |-> IF w \in dead THEN NoJob ELSE task[w]]
           /\ over' = [w \in Worker |-> w \notin dead /\ over[w]]
           /\ copy' = [w \in Worker |-> IF w \in dead THEN Unused ELSE copy[w]]
           /\ route' = [w \in Worker |-> IF w \in dead THEN Nowhere ELSE route[w]]
           /\ view' = [w \in Worker |-> IF w \in dead THEN NoRow ELSE view[w]]
    /\ UNCHANGED <<jobs, row, active, recent, cluster, admin, touched>>

LoopStep(p) ==
    \/ Survey(p) \/ Rebalance(p) \/ NoRebalance(p) \/ ClaimJobs(p) \/ ClaimFails(p) \/ PoolDone(p)
    \/ \E r \in Request : Ensure(p, r) \/ EnsureGone(p, r) \/ EnsureNew(p, r) \/ EnsureFails(p, r)

WorkerStep(w) ==
    \/ Load(w) \/ LockRow(w) \/ Locate(w) \/ RefreshFails(w) \/ Stale(w) \/ AlreadyThere(w)
    \/ Gate(w) \/ GateFails(w) \/ Begin(w) \/ Start(w) \/ Heartbeat(w) \/ WatchFails(w)
    \/ Arrive(w) \/ Record(w) \/ RecordFails(w) \/ Deadlock(w) \/ Rollback(w) \/ Reload(w)
    \/ Fail(w)

Next ==
    \/ \E p \in Loop : LoopStep(p) \/ Crash(p)
    \/ \E w \in Worker : WorkerStep(w)
    \/ \E j \in Job : Expire(j) \/ Overrun(j) \/ BecomeDue(j)
    \/ \E j \in Job, kind \in {"cancel", "retry"} : Ask(j, kind)
    \/ Answer
    \/ \E r \in Request : Cool(r) \/ End(r) \/ MoveEnds(r) \/ Lose(r)

\* A loop ticks for ever, a thread that can go on does, the database grants a
\* row lock that is waited for although others take it in between (hence SF),
\* time passes and the cluster ends its tasks.  Failures owe nothing.
Tick(p) ==
    \/ NoRebalance(p) \/ ClaimJobs(p) \/ PoolDone(p)
    \/ \E r \in Request : Ensure(p, r) \/ EnsureGone(p, r) \/ EnsureNew(p, r)

Work(w) ==
    /\ \/ Load(w) \/ LockRow(w) \/ Locate(w) \/ Stale(w) \/ AlreadyThere(w) \/ Gate(w)
       \/ GateFails(w) \/ Begin(w) \/ Start(w) \/ Arrive(w) \/ Record(w) \/ Rollback(w)
       \/ Reload(w) \/ Fail(w)
    /\ UNCHANGED faults

Fairness ==
    /\ \A p \in Loop : SF_vars(Tick(p))
    /\ \A w \in Worker : SF_vars(Work(w))
    /\ \A j \in Job : WF_vars(Expire(j) \/ BecomeDue(j))
    /\ \A r \in Request : WF_vars(Cool(r)) /\ WF_vars(MoveEnds(r) /\ UNCHANGED faults)

Spec == Init /\ [][Next]_vars /\ Fairness

(***************************************************************************)
(* Properties                                                              *)
(***************************************************************************)
Untouched(j) == j \notin touched

\* The claim gives a job to one worker: two execute it only after the claim was
\* taken from one of them, by its deadline, a reset or an administrator.
OneWorkerPerJob ==
    \A v, w \in Worker : task[v] = task[w] /\ task[v] # NoJob /\ Untouched(task[v]) => v = w

\* The retry limit holds: an attempt beyond it needs a crash that left the job
\* running, whose claim expired and which was then queued once more.
TriesBounded ==
    RetryLimit > 0 =>
        \A r \in Request, k \in Slot :
            Untouched(<<r, k>>) => jobs[r][k].tries <= RetryLimit + crashes

\* The outcome of a job is written once: nothing but an administrator reopens or
\* changes a job that has ended.
OutcomeIsFinal ==
    [][\A r \in Request, k \in Slot :
         jobs[r][k].st \in Closed /\ <<r, k>> \notin touched' =>
             jobs'[r][k].st = jobs[r][k].st]_vars

GivenUp(r) == \E k \in Slot : /\ Latest(jobs[r], k)
                              /\ jobs[r][k].st \in {"failed", "blocked"}
                              /\ jobs[r][k].to = row[r].want

\* What the user sees is how it ended.
ShowsOutcome(r) ==
    row[r].mig \in IF row[r].want = at[r] THEN {"completed"} ELSE {"failed", "blocked"}

AtRest(r) == /\ \A k \in Slot : jobs[r][k].st \notin Open
             /\ row[r].want = at[r] \/ GivenUp(r)
             /\ ShowsOutcome(r)

Full(r) == ~Fits(jobs[r], row[r], at[r])

\* Once no more rebalancing comes, the queue comes to rest: every job ends, and
\* every machine is on the node decided for it unless the latest job for this
\* decision has failed or is blocked, or the request has ended or lost it.  The
\* request shows that outcome, although stale sessions leave it "running" without
\* a job meanwhile.  Two loops can keep each other busy with a machine that was
\* decided on twice, each restoring its own decision: that behaviour ends where
\* the jobs of the bound do.
ComesToRest ==
    \A r \in Request : <>[](r \notin active \/ ~row[r].vm \/ Full(r) \/ AtRest(r))
=============================================================================
