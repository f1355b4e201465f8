# Campus-Cloud in TLA+

Campus-Cloud is the self-service portal of a campus Proxmox VE cluster: students
and teachers ask for virtual machines and containers, requests are approved for
a time window, machines are cloned when the window opens and shut down when it
ends, and everything can be cancelled, retried or deleted meanwhile. The work is
done by FastAPI handlers, by background tasks in the memory of each uvicorn
worker, and by a scheduler loop in each worker; they share one PostgreSQL
database and one cluster, and nothing else. This directory models that shared
state and checks and proves what the threads do to it.

All paths below are relative to `src/backend/app/` unless they start with `src/`.

## The system

### Parts that this development is about

| Component | State | Operations | Talks to |
|---|---|---|---|
| VM request lifecycle (`services/vm/vm_request_service.py`, `repositories/vm_request.py`) | `vm_requests`: status, vmid, window, placement | create, review, cancel, retry | submits to the task runner; locks rows against the coordinator |
| Provisioning coordinator (`services/scheduling/coordinator.py`, `support.py`) | none of its own: ORM copies of rows in each session | start pass, stop pass, start of a single request, adoption, the three phases of provisioning | reads and writes the tables, calls the executor |
| Provisioning executor (`services/proxmox/provisioning_service.py`) | none; a plan in flight | `plan_provision`, `execute_provision`, clean-up | cluster, IP management |
| IP address management (`services/network/ip_management_service.py`) | `ip_allocations` | `allocate_ip`, `release_ip` | used by executor, coordinator and deletion |
| Resource registry (`repositories/resource.py`) | `resources`, primary key vmid | create, delete, auto-stop columns | used by coordinator and deletion |
| Resource deletion (`services/resource/deletion_service.py`, `resource_service.py`) | `deletion_requests` | ask, cancel, retry, execute with retries, safety-net pass | task runner, cluster, requests, resources, addresses |
| Hypervisor (`infrastructure/proxmox/`) | machines by vmid, with name and power state | nextid, find, clone, start, stop, destroy | external |
| Task runner (`infrastructure/worker/background_tasks.py`) | tasks by id, a semaphore, threads | submit, submit_sync, cancel, drain | called by handlers, runs tasks in threads |
| Scheduler loop (`domain/scheduling/runner.py`, `main.py`) | none | one tick after another, forever | runs the passes of the other components |
| Migration jobs (`services/scheduling/migration.py`, `repositories/vm_migration_job.py`) | `vm_migration_jobs` with claim owner and claim expiry; placement columns of `vm_requests` | rebalance, enqueue, claim, run in a pool, retry, cancel | coordinator, cluster |
| Batch provisioning (`services/vm/batch_provision_service.py`, `repositories/batch_provision.py`) | `batch_provision_jobs` and `batch_provision_tasks` with their counters; one thread for each approved job | review, serve the members one by one, delete the group | executor, addresses, resources, deletion of machines and of users (`services/user/user_service.py`), which takes tasks away |
| Recurrence windows and auto-stop (`services/scheduling/recurrence_scheduler.py`) | auto-stop columns of `resources`, power state | boot at the start of a window, stop at its end | cluster, resources |

The remaining components (placement, availability, spec changes, NAT, reverse
proxy, firewall, snapshots, GPU inventory, scripts, AI gateway and assistants,
users and audit, the clients) are listed with the reason for leaving them out in
`PROJECT.json` and under "Not modelled". They compute without shared protocol
state or are I/O with external services.

### What is hard

* **Copies older than their lock.** `SELECT ... FOR UPDATE` returns an object
  that the session's identity map already holds without reloading it. A pass of
  the scheduler that lists requests first and locks one later re-checks what it
  has listed (`coordinator.py:691-702`).
* **No lock while the cluster works.** Cloning takes minutes, so the row lock is
  given up for it; the committed status `provisioning` is what keeps others away.
* **Outcomes written blindly.** The end of a clone, a failed plan, a cancel and
  each write of a deletion request overwrite whatever the row has become.
* **Identities that are reused.** The cluster's next free id reserves nothing,
  hostnames are not unique, vmids come back after a deletion; addresses and
  resources rows are keyed by vmid.
* **Deletion in pieces.** Machine, address, resources row and request go in four
  transactions, start passes run in between, and a deletion that breaks off in between
  is taken up by nobody. The release of the address and the clearing of batch tasks
  may fail without stopping it.
* **Reads at different moments.** An adoption reads the vmids that others claim, then
  lists the cluster, then looks at the registry, and locks none of them.
* **Claims and threads that nobody can take back.** A worker of a migration goes
  on after its claim has expired, a task's thread goes on after its cancellation,
  and nobody takes up the queue of a batch whose thread has died.
* **Counters beside rows.** Attempts of a migration and the counters of a batch are
  written in other transactions than the outcome they count.
* **Several workers.** Each has a scheduler loop and a runner of its own; a
  cancel reaches only the runner of the worker that handles it, and tasks in
  memory die with their process.

### What makes each part correct

* Requests and coordinator: one provisioning at a time per request; no vmid held
  by two requests; a running request has machine, vmid and resources row; no
  request stays in `provisioning` with nobody provisioning it; approved requests are
  served and ended ones switched off in the end; cancelled and deleted requests do
  not come back.
* Addresses: no two machines have the same one.
* Deletion: `completed` means the machine and its row are gone; `running` means
  that somebody is working on it; `pending` requests are taken up although their
  task is lost.
* Migration: a job has one worker unless its claim was taken from that worker; the
  retry limit holds; a job that has ended stays as it is; after the last rebalancing
  every job ends with its machine where it was decided to be, or given up, and the
  request shows that.
* Runner: every task is known under its id; no more functions than the limit are
  started; shutdown returns and leaves nothing behind; accepted tasks run and their
  ids come back.
* Batches: one thread serves an approved job, each member once and in turn; the
  counters of a finished job are those of its tasks, the ones that went with their
  user included; every machine has a row or a thread that takes care of it; a machine
  keeps its address; a task names no machine of somebody else, except where the
  deletion of its own could not clear it; approved jobs end.

## Modules

| Module | Models |
|---|---|
| `VMRequest` | request handlers, coordinator, executor, addresses, registry, and the part of a deletion that touches the same rows |
| `ProvisionOnce` | abstract promise of the provisioning protocol: a request in provisioning belongs to one worker |
| `MCVMRequest` | constants of the runs of `VMRequest` |
| `VMRequestProofs` | theorems about `VMRequest`: types, one provisioner |
| `VMRequestRefinement` | proof that background tasks implement `ProvisionOnce` |
| `VMRequestMachines` | theorems about the machines, vmids and addresses of requests |
| `DeletionQueue` | deletion requests: handlers, tasks with retries, safety-net pass of the loop |
| `MCDeletionQueue` | constants of the runs of `DeletionQueue` |
| `DeletionQueueProofs` | theorems about `DeletionQueue` |
| `MigrationQueue` | migration jobs: rebalancing, queue, claims, pools of workers, administrator |
| `MCMigrationQueue`, `MigrationQueueProofs` | constants of its run, theorems about it |
| `TaskRunner` | the background runner of one process: dictionary, semaphore, threads, shutdown |
| `MCTaskRunner`, `TaskRunnerProofs` | constants of its run, theorems about it |
| `BatchProvision` | batch jobs, their threads, and the machines, rows and addresses they make |
| `BatchOnce` | abstract promise of a batch: approved before anything is made, each member served once, one after the other |
| `MCBatchProvision`, `BatchProvisionProofs` | constants of its run, theorems about `BatchProvision` |
| `BatchRefinement` | proof that `BatchProvision` implements `BatchOnce` |

### VMRequest

`status`, `vmidOf`, `resource` and `ips` are the tables; `pve` is the cluster;
`lock` is the row lock of each request; `queued` are the tasks handed to a
runner; `window` is where the clock stands relative to the request's window.
Each thread (a scheduler loop, a task or a deletion) has a point `pc`, the
request `job`, the copy `seen` that its session holds, the `plan` it carries, the vmids
it has read as `claimed` by others and, for a loop, the `batch` it has still to visit.
`abandoned` are the vmids whose deletion broke off after their registration was gone.

Actions are cut where the code commits, rolls back, waits for a lock or calls the
cluster, so that every interleaving the database and the cluster allow is there:

* `Create`, `CreateImmediate`, `Approve`, `Reject`, `Cancel`, `Retry`: one
  handler, one transaction.
* `List`, `Visit`, `ConfirmGone`, `StillThere`, `Clear`: the start pass and its
  recovery of lost machines. `List` reads all due requests at once and `seen` is
  the copy of that moment; `Visit` reloads, because earlier commits have expired
  the copies, but does not filter again.
* `Begin`, `Drop`: the entry point of a background task, whose first statement
  locks and loads the row, so that its copy is fresh.
* `LockRow`, `SkipRow`, `Refresh`, `RefreshMissing`, `Start`, `StartFails`,
  `ReadClaims`, `Find`, `Adopt`, `AdoptCommit`, `AdoptFails`: `_ensure_request_running`
  and the adoption of a machine found by its name. The claimed vmids, the listing of
  the cluster and the resources row are read at three moments (`support.py:38-51`,
  `coordinator.py:113`), with nothing locked but the request itself.
* `MarkProvisioning`, `Plan`, `PlanFails`, `Clone`, `CloneFails`, `BuildFails`,
  `ReleaseIp`, `Revert`, `Record`, `RecordFails`: the three phases of
  `_provision_new_resource` and all their exits.
* `StopList`, `Stop`, `StopMissing`: the stop pass.
* `Destroy`, `Unlink`, `FindLinked`, `RejectLinked`, `DeleteFails`:
  `resource_service.delete`. `Unlink` commits the removal of the registration whether
  or not the address could be released (`resource_service.py:303-332`); `DeleteFails`
  is an exception before or after that commit, and nobody goes on with what is left.
* `Crash`, `Lose`: a thread of any kind dies with its transaction, its copies and
  tasks in memory, while the cluster may carry out the clone it was asked for; a
  machine vanishes from the cluster.

Failures are named in `Fault` and limited to `MaxFault` in one behaviour: `plan`,
`clone` and `build` are exceptions of the three stages, `unseen` a clone that goes on
although polling it failed (`client.py:148`), so that its address is released and its
request reverted under a machine that appears, `leftover` a build whose clean-up fails
too, `delete` a failure inside a deletion, `crash` and `loss` the last two actions.

Abstracted: placement, storage, specifications and the choice of template;
hostnames are model values; the window is three-valued; a plan takes any id that
is free at that moment, since `nextid` and the allocation of an address depend on
data that is not modelled. Left out: the path of LXC service templates
(`coordinator.py:337-578`), rebalancing and migration from inside the start pass,
pass order and sleep within a tick.

### DeletionQueue

`status` is the status of each row, `VmOf` its vmid; `machine` and `resource` are
what is left of cluster and registry; `submitted` are rows with a task in a
runner. A thread reads a row (`copy`) and writes it later: no row is locked
anywhere in this component, so handlers are two steps (`Cancel` then
`CancelWrite`, `Retry` then `RetryWrite`, `Ask` then `Insert`), and
`_execute_deletion` is `Claim`, `Find` or `FindNothing`, `Destroy` or `Refused`,
`Unlink`, `Finish`, `Complete`. `AttemptFails` is a failure of the database anywhere in
an attempt, before or after a commit of it. `Fail` is where its two callers differ: a
task (`Take`, `Load`, ..., `Exhausted`, `MarkFailed`) counts attempts, the loop (`Scan`,
`Visit`) only logs. `ReloadFails` is a failure outside of every `try`: of a handler, and
of a task where it loads the row for its next attempt (`deletion_service.py:341-342`) or
for the final verdict (`:375-392`). It ends the task and strands the row in `running`.
Every row has the snapshot of node and type
that the API dependency provides, so the early exit without one is not modelled.
No machine is created here: reuse of a vmid is the subject of `VMRequest`.

### ProvisionOnce

Status and owner of each request, and what an owner may do. `VMRequest` with
background tasks alone implements it (property `ProvisionedOnce`): the owner is
the thread between `MarkProvisioning` and the record of an outcome. With
scheduler loops it does not, which the run `twice` shows.

### MigrationQueue

`jobs` is the table of jobs, in the order each request enqueued them (`Slot`); `row`
holds the columns of a request that a migration reads and writes (desired and actual
node, status of its migration, epoch of the rebalancing); `lock` is its row lock and
`at` the node of its machine. Every process is a loop with its own pool of workers.
`copy` and `view` are the job and the request as the session of a worker has loaded
them, the request without its lock. Locking a row does not refresh what is loaded, and a
session writes only the columns that differ from it, which `MergeJob` and `MergeRow` say.

* A tick of a loop is `Survey` (the due requests are read), `Rebalance` or
  `NoRebalance`, `ClaimJobs` or `ClaimFails`, `PoolDone` (it waits for its pool), and
  `Ensure` and its failing variants for each request.
* A worker goes through `Load`, `LockRow`, `Locate`, `Gate`, `Begin`, `Start`,
  `Heartbeat`, `Arrive`, `Record` with an exit at every commit, call and early return
  (`RefreshFails`, `Stale`, `AlreadyThere`, `GateFails`, `WatchFails`, `RecordFails`).
  The failing ones go on with `Rollback`, which loads the request unlocked
  (`migration.py:531`), `Reload`, which loads the job, and `Fail`, which waits for the
  row lock and writes (`:536`). `Deadlock` is PostgreSQL ending one of
  two transactions that wait for each other.
* `Ask` and `Answer` are the administrator, whose handler writes from the copy it has
  read. `Expire` is the deadline of a claim passing, `Overrun` the same under a worker
  that is alive; `BecomeDue` and `Cool` are the other clocks.
* `Arrive` and `MoveEnds` are the cluster; `End`, `Lose`, `Crash` are the environment.

The choice of nodes by the placement is any choice; gates are the ones that read
shared state (budget, interval, pins, storage).

What the code does beyond the properties, all of it visible in the model: a stale
worker's `Fail` reopens a job that its successor has completed, hence `touched` in the
properties; another loop's `Ensure` between `Rollback` and `Fail` leaves a request
`running` with no open job until a later tick, since `Fail` does not write a status
that equals the one it has loaded; `Record` writes the decision of the time the job
was loaded over a newer one, and two loops may restore their own decisions in turns,
which `ComesToRest` excludes by the bound on jobs (`Full`); a claim that expires puts
the job back without a look at the retry limit (`crashes` in `TriesBounded`); failures
before `Begin` count for nothing; a cancelled job is enqueued again by the next pass;
jobs of requests that have ended stay pending for ever.

### TaskRunner

`id`, `st`, `tries`, `stop` and `thread` describe tasks in the order of their
creation; `tasks` is the dictionary; `call` is an id that a handler has looked up and
not handed over yet. `Submit` and `Post` are the two halves of `submit_sync` from a
handler thread, `Register` the callback in the loop, `SubmitInLoop` a submission by a
coroutine, which is atomic. `Begin`, `Acquire`, `Resume`, `Retry`, `Cleanup` are the
steps of `_run_task` between two awaits; `ThreadStart`, `ThreadEnds`, `ThreadHangs`
are the executor. `Cancel` asks, `TakeCancel` is when the task notices: the place and
the id come back then, the thread goes on. `Shutdown`, `Drained`, `Timeout` are the
end of the lifespan.

What the code does beyond the properties: two handler threads may both pass the
duplicate check before either task is registered (`raced`), and the end of the first
then removes the registration of the second; a submission is skipped while the task
before it has ended and is not cleaned up yet, so that only the next scheduler pass
brings it again; a task registered after shutdown has begun is not waited for
(`late`); after a cancellation more functions may be at work than the limit, which is
why `ConcurrencyBounded` speaks of tasks. Each uvicorn worker has a runner of its own,
so ids are unique in a process only.

### BatchProvision

`job` and `task` are the two tables, `machine` is the cluster, `resource` and
`address` the registry and the allocations, `leaving` the machines in deletion, `away`
the users who are deleted. Of history there are `outcome`, what the row of a task
would read had it stayed, and `clash`, `lost`, `overtaken` and `kept` (see below).
`Approve`, `Reject`, `DeleteGroup` are handlers, and so is `DeleteUser`: a user
without machines is deleted, and the foreign key of the tasks takes theirs along
(`models/batch_provision.py:105`) while the job lives on. `Start`, `Skip` (a task that
is gone when its turn comes, `batch_provision_service.py:226-227`), `Take`, `Plan`,
`Allocate`, `Create`, `Register`, `Release`, `Destroy`, `Report`, `Count`, `Fail`,
`FailCount`, `Finish` are the thread of a job, cut at every commit and every call of
the cluster, each with its failures (`PlanFails`, `CreateFails`, `CreateUnseen`,
`RegisterFails`, `ReleaseFails`, `DestroyFails`, `OutcomeFails`, `Hang`, `Crash`);
`Delete` and `Unlink` are the deletion of a machine by its owner; in `Unlink` the
release of the address and the clearing of the tasks may fail, and the row of the
machine goes all the same (`resource_service.py:303-332`). A `Crash` may leave a
machine the cluster was asked for. The subnet row is locked from `Allocate` to the
commit of `Register`, over the clone (`Unlocked`).

What the code does beyond the properties: nobody takes up the queue of a dead thread,
so its job reads `running` for ever; two threads can plan one vmid, and the loser's
clean-up releases the winner's address (`clash`); a polling error while the clone goes
on leaves a machine that nobody looks for, and so does a failing clean-up (`lost`); a
machine deleted between its registration and the report of the thread leaves a task
that names a vmid somebody else may get (`overtaken`), although
`resource_service.py:309-310` detaches the tasks of a deleted machine so that this
does not happen, and so does a deletion that fails to clear the tasks (`kept`); the
counters of a job go on counting tasks that went with their user, and those that went
before their turn are counted nowhere, so that they do not add up to the total; when
the writes of an outcome fail after the first, a completed task
reads failed; a group deleted meanwhile still gets the machine of the member that is
being served. The form that creates a job is the initial state; the filter of members
who have a machine already is left out, since it only shortens the list.

### BatchOnce

Verdict on each job, attempts for each task, and the task each machine was made for.
`Omit` passes over the tasks of deleted users; `End` may leave a machine that was asked
for, since a call that failed may have been carried out.
`BatchProvision` implements it without any restriction on faults or threads
(`ServedOnce`): an attempt is `going` while its thread has not asked the cluster for
a machine, `asked` until the thread lets go of the task.

## Runs

| Run | Instance | Checks |
|---|---|---|
| `tasks` | 2 requests with hostnames of their own, 2 tasks, 1 deletion, 3 vmids, 2 addresses, all faults but `loss`, at most 3 | `TypeOK`, `AtMostOneProvisioner`, `NoSharedVm`, `ProvisionedOnce` |
| `workers` | 2 requests, 2 loops, 2 vmids, 2 addresses, one clone that fails or goes on unseen | `RunningHasMachine`, `ProvisioningIsOwned` |
| `one_loop` | 1 request, 1 loop, 1 task, one lost machine, fairness | `ApprovedIsServed`, `EndedIsStopped` |
| `queue` | 2 rows of one machine, handler, task, loop, one retry, all faults (`refuse`, `database`, `reload`, `crash`), at most 2, fairness | `TypeOK`, `CompletedIsGone`, `PendingIsTaken` |
| `migration` | 1 request, 2 nodes, 2 loops with one worker each, 2 jobs, 2 rebalancings, retry limit 1, one fault of any kind, fairness | `TypeOK`, `OneWorkerPerJob`, `TriesBounded`, `OutcomeIsFinal`, `ComesToRest` |
| `runner` | 2 ids, 2 handler threads and a coroutine, 2 tasks, 1 place, 2 threads, one retry, fairness | `TypeOK`, `Tracked`, `ConcurrencyBounded`, `NothingLeftBehind`, `AcceptedRuns`, `IdIsGivenBack`, `ShutdownReturns` |
| `batch` | 2 jobs with 2 and 1 members, 2 threads, 2 vmids, 2 addresses, one group and 2 users who may be deleted, one fault of any kind, fairness | `TypeOK`, `OneQueue`, `CountsAreRight`, `NoOrphan`, `AddressKept`, `NamesOwnMachine`, `ServedOnce`, `JobEnds` |
| `cancelled` | 1 request, 1 task | violates `CancelledStays` |
| `twice` | 1 request, 2 loops | violates `AtMostOneProvisioner` |
| `deleted` | 1 request, loop, task, deletion | violates `DeletedIsNotReapproved` |
| `address` | 2 requests, 2 tasks, no faults | violates `DistinctIps` |
| `stuck` | 1 row, task, loop, one refusal | violates `RunningIsOwned` |

Why the bounds are enough. The properties relate two threads, two requests or two
machines, so two of each are the smallest instance in which they can fail, and the
races found need no more. `tasks` has a third vmid because a deleted machine, its
successor and an adopted one can be around at the same time, and three failures, which
let a failure hit the handling of another and a third what both leave. Its requests
ask for different hostnames: with one hostname for both, which nothing prevents, TLC
finds two requests with one vmid, since a request may record its machine between
`ReadClaims` and `Adopt` of the other (`support.py:38-51`, `coordinator.py:113`). The
primary key of `resources` does not stand in the way when the registration of a
machine that is adopted exists. No document denies it, so that this is no finding, and
`NoSharedVm` says what holds without it. `loss` is left out of the run for a like
reason: a machine that was left by a fault and is lost between `Find` and `Adopt`
makes room for another with its vmid. One retry in `queue` stands for any number: a
task forgets everything between attempts but their number.

`migration` has one request: the races the properties speak of are between the two
loops, their workers and the two jobs of one machine. Its two rebalancings give a
machine two decisions in turn, which is what a late outcome can overwrite. With two
nodes and no gate closed for good (`Barred` and `Pinned` are empty), the gates that
act in it are the budget and the interval; storage and pins are covered by the
theorems, which hold for any `Barred` and `Pinned`. That a request shown as migrating
has an open job is not among the properties, for the code does not keep it: when
another loop's `Ensure` comes between `Rollback` and `Fail` of a worker, the request
may read `running` without one until a later tick, with two loops and no crash. What
the code does keep is in `ComesToRest`: in the end the request shows the outcome of
its latest job.

`runner` has one place for two tasks, so that one waits, holds or retries while the
other does anything; a third handler that is in the loop meets the two in threads.
`batch` has a job with a second member to serve after whatever has happened to the
first, and fewer vmids than members, so that a vmid is used again; one of the two may
be deleted by its user, and both users may be deleted while they have no machine: one
has the first task of the two-member job, the other has its second task and that of
the other job, so that a task goes before its turn, during it or after it. In these
three one fault of any kind is enough: what a fault leaves behind is met by all that
follows. The theorems below hold for any number of faults.

All runs have `CHECK_DEADLOCK FALSE`: with every request ended, cancelled or rejected
and every thread idle the system rests.

Symmetry is used in `tasks` and `workers`, on requests, vmids and addresses, which
no definition tells apart; the liveness runs use none.

### What the violations show

* `cancelled`: `cancel()` answers normally for a request whose clone is in flight
  in another worker; the finished clone makes the request running again.
* `twice`: two loops list the same approved request. The first locks it, commits
  `provisioning` and unlocks. The second locks it and re-checks its own copy from
  the list, which still says `approved`, and provisions it again.
* `deleted`: between the destruction of a machine and the rejection of its
  request a start pass finds the machine missing, and approves the request anew.
* `address`: two plans get one vmid and record an address each. The clone that is
  refused releases the first address of that vmid, which may be the other's; when the
  loser is provisioned again it gets the address of the machine that runs.
* `stuck`: a deletion executed by the safety-net pass fails; its row stays
  `running`, which no pass lists, and a further DELETE of the machine returns that
  row without submitting a task.

`workers` keeps faults low on purpose and says what survives the race of `twice`:
although both loops provision a request, the primary key of `resources` and the
exclusion of claimed vmids keep the tables consistent, and no request is left in
`provisioning`. No machine is taken away in it: no deletion, no `build` and no `loss`.
The theorems below say how far that goes: `RunningHasMachine` survives crashes and
failed clean-ups too, and fails only where machines are taken away;
`ProvisioningIsOwned` fails with crashes also, for nothing recovers a request whose
thread died in `provisioning`, and no document promises it.

### Fairness

`one_loop`: every tick of a loop runs both passes, so `List` and `StopList` each
get their turn (strong fairness: each is disabled while the thread is busy); a
thread that has begun goes on; PostgreSQL grants a row lock that is waited for,
however often others take it before (strong fairness of the steps that wait);
a runner starts the tasks it holds. Users, the clock and failures owe nothing.
`queue`: loops, tasks and attempts that have begun go on (weak fairness; nothing
in that component waits for a lock).
`migration`: loops tick and workers go on, and a row lock that is waited for is
granted (strong fairness of `Tick` and `Work`); deadlines pass, machines cool down and
moves end (weak fairness).
`runner`: a handler that has looked up an id hands its task over, the loop runs every
callback that is ready, the executor starts what is queued, and a function that does
not hang ends (weak fairness). The functions that hang are the exception that
`AcceptedRuns` and `IdIsGivenBack` name; `ShutdownReturns` has none, for `Timeout`
is the loop's own.
`batch`: a thread that is alive goes on (weak fairness of `Queue`). Hanging calls,
crashes, administrators and users owe nothing.

## Proofs

Everything here holds for all values of the constants, under the assumptions that the
modules name (`ThreadsAssumption`, `NullsAssumption`, `FaultAssumption`;
`RowsAssumption`, `ActorsAssumption`, `BoundsAssumption`; `NodesAssumption`,
`PoolsAssumption`; `SubmittersAssumption`, `LimitsAssumption`; `MembersAssumption`,
`OwnersAssumption`, `NumbersAssumption`, `NothingAssumption`): kinds of thread are
disjoint, null values are no values, bounds are numbers, a job has finitely many
members and a pool finitely many workers. A theorem that needs more says so in its
ASSUME. Each part of such a hypothesis was dropped in turn on a small instance, where
TLC finds a counterexample without it; what is left open is noted.

* `TypeCorrect` (`VMRequestProofs`): `TypeOK`. It is not inductive: a thread's
  write is well-typed because the thread knows its request and its plan.
  `TInv` adds `JobInv` and `PlanInv`.
* `TasksProvisionOnce`: without scheduler loops, `AtMostOneProvisioner`. The
  inductive invariant `ProvInv` adds what each thread `Knows` of its request: under
  the row lock it is neither being provisioned nor cancelled, and the copy read with
  the lock is the row; in flight it is `provisioning` or `cancelled` and has no vmid;
  one about to be rejected by a deletion keeps its vmid (so it is none of those).
  The hypothesis on the loops is needed:
  `twice` is the counterexample with two of them.
* `TasksImplementOnce` (`VMRequestRefinement`): without scheduler loops, `VMRequest`
  implements `ProvisionOnce` (`ProvisionedOnce`). Besides `ProvInv` it needs `HeldInv`:
  a request with a vmid is running, or was rejected with its machine, so that a deletion
  never rejects a request somebody is provisioning. `OwnerMoves` and `OwnersKept` say
  how the mapped `Owner`, a CHOOSE over threads, changes with one thread; then each kind
  of step is one abstract step or a stutter. `twice` is the counterexample with loops.
* `RunningHasItsMachine` (`VMRequestMachines`): `RunningHasMachine` for any number of
  loops, tasks and requests while no machine is taken away (`NothingTaken`: no
  deletions, no `build` and no `loss` faults; crashes, failed plans and clones, clones
  that go on unseen, and clean-ups that leave the machine may happen). `MachineInv`
  adds to the table invariant what each thread `Holds`: a vmid it has read is that of a
  registered machine of its request, and the machine it is to adopt or record exists
  under the request's hostname. It survives because machines, registrations and vmids
  only `Grow`, so that a copy that is out of date is still true.
* `OwnHostsNotShared`: under `NothingTaken`, and if hostnames differ, `NoSharedVm`,
  with loops too. With loops, a shared hostname, a lost machine or a deletion breaks
  it. Whether it survives `build` faults is open: TLC finds no counterexample with two
  loops and two requests, and the invariant does not cover them.
* `ProvisioningHasOwner`: `ProvisioningIsOwned` under `NothingTaken`, without crashes,
  and if hostnames differ, loops or no loops. The invariant `OwnInv` says that somebody
  `Tends` the request who will not be refused by the primary key of `resources` when it
  records its machine. That is the point with two provisioners: one of them may lose,
  and the other must still be on its way or have recorded. With a shared hostname a
  machine may be adopted by one request while the thread that made it for another is
  about to record it; the recorder is refused and its request stays in `provisioning`.
* `TasksNeverShare`: `NoSharedVm` for any number of tasks, without loops, with one
  deletion at a time (`OneDeletion`), hostnames that differ (`OwnHosts`) and all
  faults but `loss`: deletions may fail anywhere and any thread may die. `ShareInv`
  counts the `Holders` of a vmid: one for its registration, and one more while its
  deletion is `Late`, having removed the registration and not yet rejected the
  request, or after it has broken off there (`abandoned`). Each hypothesis is needed.
  With one hostname or with a loss the three reads of an adoption may be overtaken,
  see the bounds of `tasks`; the loss takes a second fault to have an effect. With two
  deletions, while one deletion of a vmid is late the vmid goes to a second request,
  whose machine another deletion removes, and then to a third; `FindLinked` is not
  told which request it is about, both deletions reject the first, and the two others
  share the vmid.
* `TasksDoNotReapprove`: `DeletedIsNotReapproved` without scheduler loops. No task,
  handler or deletion moves a request that holds a vmid back to `approved`; together
  with `deleted`, this says that the start pass is the only place to fix.
* `ReservedIdsKeepAddresses`: `DistinctIps`, which `address` violates, under the
  condition that no two threads clone, clean up or delete under one vmid at a time
  (`OwnPlans`), for any number of loops, tasks and deletions and all faults but
  `leftover` and `unseen`: a clean-up that fails and a clone that goes on after its
  poll has failed both leave a machine whose address is given back and goes to the
  next. `OwnPlans` is a condition on the behaviour, which the code does not guarantee:
  the theorem says that ids the cluster hands out without reserving them, and these two
  failures, are all that an address race can be due to. `IpInv`: the address of a
  machine is recorded for its vmid, and who is about to give an address back does so
  under the vmid of no machine.
* `QueueTypeCorrect` (`DeletionQueueProofs`): `TypeOK` of the queue, from `TInv`
  with the points each kind of thread can be at.
* `CompletedMeansGone`: `CompletedIsGone` in full generality. `ProgressInv` says
  what a thread has done by the time it stands at each point; since nothing brings
  a machine or a row back (`OnlyRemoved`), it stays true whatever the others do.
* `TasksStrandNothing`: `RunningIsOwned` without loops, without crashes and without a
  failure of the database outside of the attempts (`reload`): whatever the cluster
  refuses and wherever an attempt fails, the step that leaves a row leaves it in
  another status than `running` (`Faithful`). Each hypothesis is one way to strand a
  row: `stuck` is the counterexample with a loop, and TLC finds the two others (`reload`
  behind a refusal).

* `JobsTypeCorrect` (`MigrationQueueProofs`): `TypeOK` of the migration queue.
* `ClaimsAreExclusive`, `RetriesEnd`, `OutcomesAreFinal`: `OneWorkerPerJob`,
  `TriesBounded` and `OutcomeIsFinal`. Their inductive invariant `IInv` adds to the
  types that a job somebody works on and nobody has touched is that worker's alone
  (`OwnInv`), what the row of such a job reads, and how many attempts it may count
  (`SoundInv`), and that the workers of a loop that claims jobs are free (`PoolInv`):
  a loop waits for its pool before its next claim.
* `RunnerTypeCorrect`, `TasksAreTracked`, `ConcurrencyIsBounded`,
  `ShutdownLeavesNothing` (`TaskRunnerProofs`): the three safety properties of the
  runner. `RegInv` says that the dictionary names registered tasks by their own id and
  that an id with a task on its way, unless raced, is vacant and has only that task;
  `ConcInv` counts the tasks that hold a place; `ShutInv` says that all tasks that were
  registered in time are among those that are awaited.
* `BatchTypeCorrect`, `OneThreadPerJob`, `CountersAgree`, `MachinesAreAccounted`
  (`BatchProvisionProofs`): `TypeOK`, `OneQueue`, `CountsAreRight` and `NoOrphan`.
  `OneInv` adds that a job with a thread has been decided. `CInv` relates the counters
  of a job at every moment to the outcomes of its tasks that nobody is serving
  (`Counted`), deleted ones included (`Agrees`: `outcome` is the status of a row that
  is there), and the list of a thread to the tasks still pending (`Todo`, `Served`): the
  counter lags behind its task for two steps of the thread, during which the thread
  holds the task. What a finished job counts is what was served, and what is missing to
  its total are the tasks that went before their turn (`Erased`). `NInv`
  adds that a member is asked for once (`AskedOnce`), which makes the machine of a task
  unique.
* `TasksNameTheirOwn`, `AddressesAreKept`: `NamesOwnMachine` and `AddressKept`,
  without hypotheses on the constants. The first says that a deleted machine's vmid
  misleads a task in two ways only, which its exceptions name: the machine went before
  the task was written (`overtaken`), or its deletion could not clear the task
  (`kept`). `NameInv` adds what a thread is about to write into its task (`ToName`).
  `AddressInv` is a conjunction of eight: outside `clash` a vmid is planned by one
  thread (`Sole`), which alone may give its address back, addresses are allocated
  under the lock of the subnet row (`OneHolder`, `Unused`), and a machine or a plan
  keeps what was recorded for it (`ItsOwn`, `Configured`, `Unregistered`, `Alive`).
* `BatchImplementsOnce` (`BatchRefinement`): `ServedOnce`. `Do...` are the abstract
  steps in terms of what the mapping reads; `ServingStep`, `LeavingStep` and `IdleStep`
  say what a step of a thread does to all attempts; then there is one lemma for each
  kind of step. It needs `OneInv` (an attempt
  is read off one thread) and `CInv` (the list of a thread holds pending tasks, so that
  none begins twice, and the tasks of a deleted group are gone).

The modules use no recursive operator, so nothing is lost to the provers; what a
recursive definition computes for every input would be out of their reach.

Only model-checked: liveness under fairness (`ApprovedIsServed`, `EndedIsStopped`,
`PendingIsTaken`, `ComesToRest`, `AcceptedRuns`, `IdIsGivenBack`, `ShutdownReturns`,
`JobEnds`), which is out of the prover's reach. Every invariant, action property and
refinement that a passing run checks is proved, some of them in a part of the parameter
space only. `tasks` checks `NoSharedVm` and `workers` its two properties on instances
that the theorems cover.

## Not modelled

* Recurrence windows. The passes read `recurrence_rule`, `next_window_start` and
  `next_window_end` of a request, and no code writes them: `repositories/vm_request.py`
  creates requests without them, and the members of a batch have no request, although
  `recurrence_scheduler.py:10-11` says that batches are where windows come from. In
  every state the program reaches the window passes find nothing.
* Auto-stop. It shares the columns of `resources` with the power controls of
  `resource_service`, which are left out too. The hazard is listed
  (`recurrence_scheduler.py:245`): the pass works on a list read before its shutdowns
  and clears the deadline whatever a user has set since; any exception of
  `find_resource` reads as a machine that is gone (`:272-278`); a guest that ignores
  the shutdown runs on without a limit (`:232-233`). The documents promise nothing
  about these, so that there is nothing to check them against but the code itself.
* `review` locks its own row and then all rows of the window in the order of the
  query (`vm_request_service.py:544`); two reviews can wait for each other until
  PostgreSQL ends one of them, whose handler then answers with an error and changes
  nothing. `VMRequest` treats a review as one transaction, so this is outside it.
* The path of LXC service templates (`coordinator.py:337-578`): another executor with
  the same three phases.
* Placement, availability and the resource simulator: calculations on loads, weights
  and dates, whose results are any choice here.
* NAT, reverse proxy, tunnels, DNS, firewall, scripts, snapshots, GPU mappings, AI
  gateway, assistants, model servers: I/O with external systems, one transaction or
  one call at a time.
* Users, authentication and audit: of them `BatchProvision` has the deletion of a user,
  for its effect on the tasks of batches. A user who owns no machine may be deleted
  together with their requests and migration jobs (`user_service.py:43-58`), and
  `VMRequest` and `MigrationQueue` do not have that: the rows of their requests stay. In
  the code a request that goes while its machine is cloned leaves the machine behind,
  under nobody's name: the coordinator finds the request missing and only raises
  (`coordinator.py:270-272`).
* Spec changes, jobs view, the rate limiter, the other
  task queues and the clients: no protocol between threads, or not in use.
* The end of a process while its runner works. `VMRequest`, `DeletionQueue`,
  `MigrationQueue` and `BatchProvision` have it as `Crash`.

The lines that are left out are most of the repository: its larger files are views,
clients, calculations and adapters.

## Plan

1. `VMRequest`: the LXC service-template path.
2. The auto-stop pass together with the power controls.
3. Proofs: whether `OwnHostsNotShared` survives `build` faults, with three requests.

`VMRequest` came first because every other component reads or writes the rows it
is about. The modules share no variables: `DeletionQueue` details the deletion
thread of `VMRequest`, `BatchProvision` and `MigrationQueue` detail other writers of
the same tables, in modules of their own because all at once are beyond TLC. Each
sees the others as its environment: in `BatchProvision` machines are deleted by their
owners, in `MigrationQueue` requests end and machines vanish, in `VMRequest` tasks
start whenever a runner holds them, which `AcceptedRuns` justifies.
