--------------------------- MODULE BatchProvision ---------------------------
(***************************************************************************)
(* Batch provisioning of Campus-Cloud: a teacher's job for a group, its    *)
(* review by an administrator, the thread that serves the members of an    *)
(* approved job one after the other, and the deletion of groups, users and *)
(* machines meanwhile.                                                     *)
(*                                                                         *)
(* The thread keeps nothing but the rows it writes: nobody takes up a job  *)
(* whose thread has died.  The transaction that allocates an address locks *)
(* the configuration of the subnet until the machine is registered, so one *)
(* machine is created at a time.  Its vmid is chosen before.               *)
(***************************************************************************)
EXTENDS Naturals, FiniteSets

CONSTANTS
    Job, Worker,   \* batch jobs, threads that run their queues: numbers
    Members,       \* the member numbers of each job
    User, Owner,   \* users, and whom each task is for
    Vmid, Ip,      \* numbers
    Doomed,        \* bound: the jobs whose group may be deleted
    Departing,     \* bound: the users who may be deleted
    Perishing,     \* bound: the vmids whose machines their users may delete
    MaxFault,      \* bound on crashes, hanging calls and failing writes
    Nothing

Task == UNION {{j} \X Members[j] : j \in Job}

ASSUME MembersAssumption ==
    Members \in [Job -> SUBSET Nat] /\ \A j \in Job : IsFiniteSet(Members[j])

ASSUME OwnersAssumption == Owner \in [Task -> User] /\ Departing \subseteq User

ASSUME NumbersAssumption ==
    /\ Vmid \subseteq Nat /\ Perishing \subseteq Vmid /\ Ip \subseteq Nat /\ Worker \subseteq Nat /\ MaxFault \in Nat
    /\ Nothing \notin Vmid \cup Ip \cup Job \cup Task \cup Nat

ASSUME NothingAssumption == Nothing \notin [task : Task, ip : Ip]

VARIABLES
    job,        \* row of each job
    task,       \* row of each task
    worker,     \* each thread
    machine,    \* machine with each vmid on the cluster
    resource,   \* row of table resources of each vmid: the task it was made for
    address,    \* committed allocation of each address: a vmid
    leaving,    \* vmids whose machine is deleted and whose rows are not yet
    away,       \* users who are deleted
    faults,
    outcome,    \* the status of each task had its row stayed (history)
    clash,      \* vmids two threads have planned at a time (history)
    lost,       \* tasks whose machine was left behind by a fault (history)
    overtaken,  \* tasks whose machine was deleted before they were written (history)
    kept        \* tasks that a failing deletion has left naming a vmid (history)

rows    == <<job, task, outcome>>
cluster == <<machine, resource, address, leaving, away>>
history == <<faults, clash, lost, overtaken, kept>>
vars == <<rows, worker, cluster, history>>

JobStatus  == {"pending_review", "approved", "rejected", "running", "completed", "failed", "gone"}
TaskStatus == {"pending", "running", "completed", "failed", "gone"}

\* What a thread does next.  Until the machine is asked for it has one vmid in mind.
Step == {"idle", "start", "next", "plan", "allocate", "create", "register",
         "release", "destroy", "report", "count", "fail", "failcount", "hung", "dead"}

Serving  == Step \ {"idle", "start", "next", "dead"}
Planning == {"allocate", "create", "register", "release", "destroy", "hung"}
Locking  == {"create", "register", "hung"}

WorkerType == [pc : Step, job : Job \cup {Nothing}, todo : SUBSET Nat,
               on : Nat \cup {Nothing}, vm : Vmid \cup {Nothing}, ip : Ip \cup {Nothing},
               made : BOOLEAN]

TypeOK ==
    /\ job \in [Job -> [status : JobStatus, done : Nat, failed : Nat]]
    /\ task \in [Task -> [status : TaskStatus, vm : Vmid \cup {Nothing}]]
    /\ worker \in [Worker -> WorkerType]
    /\ machine \in [Vmid -> [task : Task, ip : Ip] \cup {Nothing}]
    /\ resource \in [Vmid -> Task \cup {Nothing}]
    /\ address \in [Ip -> Vmid \cup {Nothing}]
    /\ leaving \subseteq Vmid /\ away \subseteq User /\ faults \in 0 .. MaxFault
    /\ outcome \in [Task -> TaskStatus \ {"gone"}]
    /\ clash \subseteq Vmid /\ lost \subseteq Task /\ overtaken \subseteq Task /\ kept \subseteq Task

Rest == [pc |-> "idle", job |-> Nothing, todo |-> {}, on |-> Nothing,
         vm |-> Nothing, ip |-> Nothing, made |-> FALSE]

\* The jobs have been submitted.
Init ==
    /\ job = [j \in Job |-> [status |-> "pending_review", done |-> 0, failed |-> 0]]
    /\ task = [t \in Task |-> [status |-> "pending", vm |-> Nothing]]
    /\ worker = [w \in Worker |-> Rest]
    /\ machine = [v \in Vmid |-> Nothing] /\ resource = [v \in Vmid |-> Nothing]
    /\ address = [i \in Ip |-> Nothing] /\ leaving = {} /\ away = {}
    /\ outcome = [t \in Task |-> "pending"]
    /\ faults = 0 /\ clash = {} /\ lost = {} /\ overtaken = {} /\ kept = {}

First(x, S) == x \in S /\ \A y \in S : x <= y

Fault == faults < MaxFault /\ faults' = faults + 1

Exists(j) == job[j].status # "gone"

(***************************************************************************)
(* Review, deletion of the group and of a user                             *)
(***************************************************************************)
\* Mutant: the update does not look at the status.
TransitionAlways(j, d) ==
    /\ Exists(j)
    /\ job' = [job EXCEPT ![j].status = d]

\* One conditional update: of two reviewers one finds no row.
Transition(j, d) ==
    /\ job[j].status = "pending_review"
    /\ job' = [job EXCEPT ![j].status = d]

Approve(w, j) ==
    /\ First(w, {u \in Worker : worker[u].pc = "idle"})
    /\ Transition(j, "approved")
    /\ worker' = [worker EXCEPT ![w] = [Rest EXCEPT !.pc = "start", !.job = j]]
    /\ UNCHANGED <<task, outcome, cluster, history>>

Reject(j) ==
    /\ Transition(j, "rejected")
    /\ UNCHANGED <<task, outcome, worker, cluster, history>>

\* The rows of its jobs and their tasks go with the group.
DeleteGroup(j) ==
    /\ Exists(j) /\ j \in Doomed
    /\ job' = [job EXCEPT ![j] = [status |-> "gone", done |-> 0, failed |-> 0]]
    /\ task' = [t \in Task |->
                  IF t[1] = j THEN [status |-> "gone", vm |-> Nothing] ELSE task[t]]
    /\ outcome' = [t \in Task |-> IF t[1] = j THEN "pending" ELSE outcome[t]]
    /\ UNCHANGED <<worker, cluster, history>>

\* A user who has no machine: the tasks for them go, and nobody tells the jobs.
DeleteUser(u) ==
    /\ u \in Departing \ away
    /\ \A v \in Vmid : resource[v] # Nothing => Owner[resource[v]] # u
    /\ away' = away \cup {u}
    /\ task' = [t \in Task |->
                  IF Owner[t] = u THEN [status |-> "gone", vm |-> Nothing] ELSE task[t]]
    /\ UNCHANGED <<job, outcome, worker, machine, resource, address, leaving, history>>

(***************************************************************************)
(* The queue of a job                                                      *)
(***************************************************************************)
At(w, pc) == worker[w].pc = pc

Go(w, pc) == worker' = [worker EXCEPT ![w].pc = pc]

\* What a call that has returned or raised kept in mind is gone.
Leave(w, pc, vm) ==
    worker' = [worker EXCEPT ![w].pc = pc, ![w].vm = vm, ![w].ip = Nothing, ![w].made = FALSE]

JobOf(w) == worker[w].job
TaskOf(w) == <<worker[w].job, worker[w].on>>

\* Writes to rows that are gone do nothing.
SetJob(j, row) == job' = IF Exists(j) THEN [job EXCEPT ![j] = row] ELSE job

SetTask(t, row) ==
    /\ task' = IF task[t].status # "gone" THEN [task EXCEPT ![t] = row] ELSE task
    /\ outcome' = IF Exists(t[1]) THEN [outcome EXCEPT ![t] = row.status] ELSE outcome

Free == {v \in Vmid : machine[v] = Nothing}

\* The thread lists the members once.
Start(w) ==
    /\ At(w, "start")
    /\ SetJob(JobOf(w), [job[JobOf(w)] EXCEPT !.status = "running"])
    /\ worker' = [worker EXCEPT
         ![w].pc = "next",
         ![w].todo = {m \in Members[JobOf(w)] : task[<<JobOf(w), m>>].status = "pending"}]
    /\ UNCHANGED <<task, outcome, cluster, history>>

\* Mutant: neither the task nor the job is looked up again.
TakeBlindly(w) ==
    /\ At(w, "next")
    /\ \E m \in Members[JobOf(w)] :
         /\ First(m, worker[w].todo)
         /\ LET row == [task[<<JobOf(w), m>>] EXCEPT !.status = "running"]
            IN  SetTask(<<JobOf(w), m>>, row)
         /\ worker' = [worker EXCEPT ![w].pc = "plan", ![w].on = m,
                                     ![w].todo = worker[w].todo \ {m}]
    /\ UNCHANGED <<job, cluster, history>>

Here(t) == task[t].status # "gone"

\* The next member.  (A task that goes between this look and the write of "running"
\* is served, as one that goes just after.)
Take(w) ==
    /\ At(w, "next")
    /\ \E m \in Members[JobOf(w)] :
         /\ First(m, worker[w].todo) /\ Here(<<JobOf(w), m>>)
         /\ LET row == [task[<<JobOf(w), m>>] EXCEPT !.status = "running"]
            IN  SetTask(<<JobOf(w), m>>, row)
         /\ worker' = [worker EXCEPT ![w].pc = "plan", ![w].on = m,
                                     ![w].todo = worker[w].todo \ {m}]
    /\ UNCHANGED <<job, cluster, history>>

\* A task that is gone, alone or with its job, is passed over and counted nowhere.
Skip(w) ==
    /\ At(w, "next")
    /\ \E m \in Members[JobOf(w)] :
         /\ First(m, worker[w].todo) /\ ~Here(<<JobOf(w), m>>)
         /\ worker' = [worker EXCEPT ![w].todo = worker[w].todo \ {m}]
    /\ UNCHANGED <<rows, cluster, history>>

Finish(w) ==
    /\ At(w, "next") /\ worker[w].todo = {}
    /\ LET row == job[JobOf(w)]
           final == IF row.failed > 0 /\ row.done = 0 THEN "failed" ELSE "completed"
       IN  SetJob(JobOf(w), [row EXCEPT !.status = final])
    /\ worker' = [worker EXCEPT ![w] = Rest]
    /\ UNCHANGED <<task, outcome, cluster, history>>

(***************************************************************************)
(* One member                                                              *)
(***************************************************************************)
\* next_vmid: the cluster reserves nothing.
Plan(w) ==
    /\ At(w, "plan")
    /\ \E v \in Vmid :
         /\ First(v, Free)
         /\ worker' = [worker EXCEPT ![w].pc = "allocate", ![w].vm = v]
         /\ clash' = IF \E u \in Worker : worker[u].vm = v /\ worker[u].pc \in Planning
                     THEN clash \cup {v} ELSE clash
    /\ UNCHANGED <<rows, cluster, faults, lost, overtaken, kept>>

\* Mutant: the thread does not outlive the exception.
PlanFailsForGood(w) ==
    /\ worker[w].pc \in {"plan", "allocate"}
    /\ worker' = [worker EXCEPT ![w] = Rest]
    /\ UNCHANGED <<rows, cluster, history>>

\* No node, no storage, no address: nothing has to be undone.
PlanFails(w) ==
    /\ worker[w].pc \in {"plan", "allocate"}
    /\ Leave(w, "fail", Nothing)
    /\ UNCHANGED <<rows, cluster, history>>

\* Mutant: the subnet is not locked.
UnlockedAlways == TRUE

Unlocked == \A u \in Worker : worker[u].pc \notin Locking

\* The row is written and not committed.
Allocate(w) ==
    /\ At(w, "allocate")
    /\ Unlocked
    /\ \E i \in Ip : /\ First(i, {k \in Ip : address[k] = Nothing})
                     /\ worker' = [worker EXCEPT ![w].pc = "create", ![w].ip = i]
    /\ UNCHANGED <<rows, cluster, history>>

Made(w) == [task |-> TaskOf(w), ip |-> worker[w].ip]

\* Mutant: the thread notes only later that there is something to clean up.
CreateUnnoted(w) ==
    /\ At(w, "create") /\ machine[worker[w].vm] = Nothing
    /\ machine' = [machine EXCEPT ![worker[w].vm] = Made(w)]
    /\ Go(w, "register")
    /\ UNCHANGED <<rows, resource, address, leaving, away, history>>

\* create_lxc or clone_vm, with the firewall and the start.
Create(w) ==
    /\ At(w, "create") /\ machine[worker[w].vm] = Nothing
    /\ machine' = [machine EXCEPT ![worker[w].vm] = Made(w)]
    /\ worker' = [worker EXCEPT ![w].pc = "register", ![w].made = TRUE]
    /\ UNCHANGED <<rows, resource, address, leaving, away, history>>

\* It cannot fail before the call when the vmid is taken by now.
CreateFails(w) ==
    /\ At(w, "create")
    /\ Go(w, "release")
    /\ UNCHANGED <<rows, cluster, history>>

\* The task of the cluster is started, and asking for its progress fails.
CreateUnseen(w) ==
    /\ At(w, "create") /\ machine[worker[w].vm] = Nothing /\ Fault
    /\ machine' = [machine EXCEPT ![worker[w].vm] = Made(w)]
    /\ lost' = lost \cup {TaskOf(w)}
    /\ Go(w, "release")
    /\ UNCHANGED <<rows, resource, address, leaving, away, clash, overtaken, kept>>

\* The task of the cluster never ends.
Hang(w) ==
    /\ At(w, "create") /\ Fault
    /\ Go(w, "hung")
    /\ UNCHANGED <<rows, cluster, clash, lost, overtaken, kept>>

\* The commit writes the row of table resources, whose user has to be there, and
\* the address.
Register(w) ==
    /\ At(w, "register") /\ resource[worker[w].vm] = Nothing
    /\ Owner[TaskOf(w)] \notin away
    /\ resource' = [resource EXCEPT ![worker[w].vm] = TaskOf(w)]
    /\ address' = [address EXCEPT ![worker[w].ip] = worker[w].vm]
    /\ Leave(w, "report", worker[w].vm)
    /\ UNCHANGED <<rows, machine, leaving, away, history>>

\* The configuration of the machine, a row that is still there, a user who is not.
RegisterFails(w) ==
    /\ At(w, "register")
    /\ Go(w, "release")
    /\ UNCHANGED <<rows, cluster, history>>

\* release_ip deletes one row of the vmid, whoever has written it.
Freed(v) ==
    IF \E i \in Ip : address[i] = v
    THEN \E i \in Ip : address[i] = v /\ address' = [address EXCEPT ![i] = Nothing]
    ELSE UNCHANGED address

AfterRelease(w) == IF worker[w].made THEN Go(w, "destroy") ELSE Leave(w, "fail", Nothing)

Release(w) ==
    /\ At(w, "release")
    /\ Freed(worker[w].vm)
    /\ AfterRelease(w)
    /\ UNCHANGED <<rows, machine, resource, leaving, away, history>>

ReleaseFails(w) ==
    /\ At(w, "release") /\ Fault
    /\ AfterRelease(w)
    /\ UNCHANGED <<rows, cluster, clash, lost, overtaken, kept>>

Destroy(w) ==
    /\ At(w, "destroy")
    /\ machine' = [machine EXCEPT ![worker[w].vm] = Nothing]
    /\ Leave(w, "fail", Nothing)
    /\ UNCHANGED <<rows, resource, address, leaving, away, history>>

DestroyFails(w) ==
    /\ At(w, "destroy") /\ Fault
    /\ lost' = lost \cup {TaskOf(w)}
    /\ Leave(w, "fail", Nothing)
    /\ UNCHANGED <<rows, cluster, clash, overtaken, kept>>

(***************************************************************************)
(* The outcome: two commits for a machine, two for a failure               *)
(***************************************************************************)
\* Mutant: a status of the job is written to the task.
ReportDone(w) ==
    /\ At(w, "report")
    /\ SetTask(TaskOf(w), [status |-> "approved", vm |-> worker[w].vm])
    /\ Go(w, "count")
    /\ UNCHANGED <<job, cluster, history>>

Report(w) ==
    /\ At(w, "report")
    /\ SetTask(TaskOf(w), [status |-> "completed", vm |-> worker[w].vm])
    /\ Go(w, "count")
    /\ UNCHANGED <<job, cluster, history>>

Forward(w) ==
    worker' = [worker EXCEPT ![w] = [Rest EXCEPT !.pc = "next", !.job = JobOf(w),
                                                 !.todo = worker[w].todo]]

Count(w) ==
    /\ At(w, "count")
    /\ SetJob(JobOf(w), [job[JobOf(w)] EXCEPT !.done = @ + 1])
    /\ Forward(w)
    /\ UNCHANGED <<task, outcome, cluster, history>>

\* The same handler takes exceptions of these two writes.
OutcomeFails(w) ==
    /\ worker[w].pc \in {"report", "count"} /\ Fault
    /\ Leave(w, "fail", Nothing)
    /\ UNCHANGED <<rows, cluster, clash, lost, overtaken, kept>>

\* Mutant: a task that is completed stays so.
FailUnlessDone(w) ==
    /\ At(w, "fail")
    /\ LET row == task[TaskOf(w)]
       IN  SetTask(TaskOf(w), IF row.status = "completed" THEN row
                              ELSE [row EXCEPT !.status = "failed"])
    /\ Go(w, "failcount")
    /\ UNCHANGED <<job, cluster, history>>

Fail(w) ==
    /\ At(w, "fail")
    /\ SetTask(TaskOf(w), [task[TaskOf(w)] EXCEPT !.status = "failed"])
    /\ Go(w, "failcount")
    /\ UNCHANGED <<job, cluster, history>>

FailCount(w) ==
    /\ At(w, "failcount")
    /\ SetJob(JobOf(w), [job[JobOf(w)] EXCEPT !.failed = @ + 1])
    /\ Forward(w)
    /\ UNCHANGED <<task, outcome, cluster, history>>

\* The process dies, or a write outside the handler fails.  The transaction is undone;
\* the cluster may go on with the machine it was asked for.
Crash(w) ==
    /\ worker[w].pc \notin {"idle", "dead"} /\ Fault
    /\ \/ /\ worker[w].pc \in {"create", "hung"} /\ machine[worker[w].vm] = Nothing
          /\ machine' = [machine EXCEPT ![worker[w].vm] = Made(w)]
          /\ lost' = lost \cup {TaskOf(w)}
       \/ /\ lost' = IF worker[w].made /\ worker[w].pc \in Planning
                     THEN lost \cup {TaskOf(w)} ELSE lost
          /\ UNCHANGED machine
    /\ Go(w, "dead")
    /\ UNCHANGED <<rows, resource, address, leaving, away, clash, overtaken, kept>>

(***************************************************************************)
(* Deletion of a machine by its user: the machine, then the rows           *)
(***************************************************************************)
Delete(v) ==
    /\ v \in Perishing \ leaving
    /\ resource[v] # Nothing /\ machine[v] # Nothing
    /\ machine' = [machine EXCEPT ![v] = Nothing]
    /\ leaving' = leaving \cup {v}
    /\ UNCHANGED <<rows, worker, resource, address, away, history>>

Naming(v) == {t \in Task : task[t].vm = v}

\* Mutant: the tasks go on naming the vmid.
UnlinkKeeps(v) ==
    /\ v \in leaving
    /\ Freed(v)
    /\ resource' = [resource EXCEPT ![v] = Nothing]
    /\ leaving' = leaving \ {v}
    /\ overtaken' = overtaken \cup {TaskOf(w) : w \in {u \in Worker :
                                     At(u, "report") /\ worker[u].vm = v}}
    /\ UNCHANGED <<rows, worker, machine, away, faults, clash, lost, kept>>

\* The address is released and the tasks are cleared as far as this works: when a
\* statement fails both are rolled back, and the row of the machine goes all the same.
Unlink(v) ==
    /\ v \in leaving
    /\ \/ /\ Freed(v)
          /\ task' = [t \in Task |-> IF t \in Naming(v) THEN [task[t] EXCEPT !.vm = Nothing]
                                                        ELSE task[t]]
          /\ UNCHANGED <<faults, kept>>
       \/ /\ Fault
          /\ kept' = kept \cup Naming(v)
          /\ UNCHANGED <<address, task>>
    /\ resource' = [resource EXCEPT ![v] = Nothing]
    /\ leaving' = leaving \ {v}
    /\ overtaken' = overtaken \cup {TaskOf(w) : w \in {u \in Worker :
                                     At(u, "report") /\ worker[u].vm = v}}
    /\ UNCHANGED <<job, outcome, worker, machine, away, clash, lost>>

Queue(w) ==
    \/ Start(w) \/ Take(w) \/ Skip(w) \/ Finish(w)
    \/ Plan(w) \/ PlanFails(w) \/ Allocate(w) \/ Create(w) \/ CreateFails(w)
    \/ Register(w) \/ RegisterFails(w) \/ Release(w) \/ Destroy(w)
    \/ Report(w) \/ Count(w) \/ Fail(w) \/ FailCount(w)

Trouble(w) ==
    \/ CreateUnseen(w) \/ Hang(w) \/ ReleaseFails(w) \/ DestroyFails(w)
    \/ OutcomeFails(w) \/ Crash(w)

Next ==
    \/ \E j \in Job : Reject(j) \/ DeleteGroup(j) \/ \E w \in Worker : Approve(w, j)
    \/ \E w \in Worker : Queue(w) \/ Trouble(w)
    \/ \E u \in User : DeleteUser(u)
    \/ \E v \in Vmid : Delete(v) \/ Unlink(v)

\* Threads go on.  Nobody has to review, to delete, or to fail.
Fairness == \A w \in Worker : WF_vars(Queue(w))

Spec == Init /\ [][Next]_vars /\ Fairness

(***************************************************************************)
(* Properties                                                              *)
(***************************************************************************)
\* Of two administrators who approve a job at a time one starts a thread.
OneQueue ==
    \A u, w \in Worker :
        worker[u].job = worker[w].job /\ worker[u].job # Nothing => u = w

Tasks(j, status) == {t \in Task : t[1] = j /\ task[t].status = status}

\* The tasks whose row has gone with their user after such an outcome.
Erased(j, status) == {t \in Tasks(j, "gone") : outcome[t] = status}

\* The counters and the verdict of a finished job agree with its tasks, whatever
\* has failed on the way: each task that is left has been served, each one that was
\* served is counted once, under its last outcome, though its user be deleted since,
\* and what is missing to the total are the tasks that were gone before their turn.
CountsAreRight ==
    \A j \in Job : job[j].status \in {"completed", "failed"} =>
        /\ job[j].done = Cardinality(Tasks(j, "completed") \cup Erased(j, "completed"))
        /\ job[j].failed = Cardinality(Tasks(j, "failed") \cup Erased(j, "failed"))
        /\ job[j].done + job[j].failed = Cardinality(Members[j]) - Cardinality(Erased(j, "pending"))
        /\ job[j].status = "failed" <=> job[j].done = 0 /\ job[j].failed > 0

\* A machine has a row, so that its user can see and delete it, or a thread that
\* will register it or remove it, unless a fault has left it behind.
NoOrphan ==
    \A v \in Vmid : machine[v] # Nothing =>
        \/ resource[v] = machine[v].task
        \/ machine[v].task \in lost
        \/ \E w \in Worker : /\ worker[w].vm = v /\ TaskOf(w) = machine[v].task
                            /\ worker[w].pc \in {"register", "release", "destroy"}

\* A registered machine keeps the address it was configured with until it is
\* deleted, unless two threads have planned its vmid at a time.
AddressKept ==
    \A v \in Vmid \ clash :
        machine[v] # Nothing /\ resource[v] = machine[v].task => address[machine[v].ip] = v

\* A task does not name the machine of another member who has got its vmid since,
\* unless its own was deleted before it was written, or by a deletion that could not
\* clear the task and removed the row of the machine nevertheless.
NamesOwnMachine ==
    \A t \in Task \ (overtaken \cup kept) :
        task[t].vm # Nothing => resource[task[t].vm] \in {t, Nothing}

\* An approved job ends, unless its thread dies or somebody holds the subnet for ever.
JobEnds ==
    \A j \in Job :
        job[j].status = "approved" ~>
            \/ job[j].status \in {"completed", "failed", "gone"}
            \/ \E w \in Worker : At(w, "hung") \/ (At(w, "dead") /\ JobOf(w) = j)

(***************************************************************************)
(* Refinement of BatchOnce                                                 *)
(***************************************************************************)
Verdict(j) ==
    CASE job[j].status = "pending_review" -> "open"
      [] job[j].status \in {"rejected", "gone"} -> job[j].status
      [] OTHER -> "approved"

ServedBy(t) == {w \in Worker : TaskOf(w) = t /\ worker[w].pc \in Serving}

Asking == {"plan", "allocate", "create", "hung"}

Attempted(t) ==
    IF \E w \in ServedBy(t) : worker[w].pc \in Asking THEN "going"
    ELSE IF ServedBy(t) # {} THEN "asked"
    ELSE IF task[t].status = "pending" THEN "none" ELSE "over"

MadeFor(v) == IF machine[v] = Nothing THEN Nothing ELSE machine[v].task

Once == INSTANCE BatchOnce WITH
    verdict <- [j \in Job |-> Verdict(j)],
    attempt <- [t \in Task |-> Attempted(t)],
    machine <- [v \in Vmid |-> MadeFor(v)]

ServedOnce == Once!Spec
=============================================================================
