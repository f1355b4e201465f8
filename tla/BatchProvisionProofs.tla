------------------------ MODULE BatchProvisionProofs ------------------------
(* Theorems about BatchProvision, for every value of its constants. *)
EXTENDS BatchProvision, FiniteSetTheorems, TLAPS

(***************************************************************************)
(* Type correctness: what a thread has in mind at each step                *)
(***************************************************************************)
Mind(w) ==
    /\ worker[w].pc # "idle" => worker[w].job \in Job /\ worker[w].todo \subseteq Members[worker[w].job]
    /\ worker[w].pc = "idle" => worker[w] = Rest
    /\ worker[w].pc \in Serving => worker[w].on \in Members[worker[w].job]
    /\ worker[w].pc \in {"start", "next"} => worker[w].on = Nothing
    /\ worker[w].pc \in Planning \cup {"report"} => worker[w].vm \in Vmid
    /\ worker[w].pc \in Planning \ {"allocate"} => worker[w].ip \in Ip

TInv == TypeOK /\ \A w \in Worker : Mind(w)

LEMMA TaskType == \A j \in Job : \A m \in Members[j] : <<j, m>> \in Task
  BY DEF Task

LEMMA TaskParts ==
  \A t \in Task : t[1] \in Job /\ t[2] \in Members[t[1]] /\ t = <<t[1], t[2]>>
  BY DEF Task

LEMMA RestType == Rest \in WorkerType
  BY DEF Rest, WorkerType, Step

LEMMA InitTyped == Init => TInv
<1> SUFFICES ASSUME Init PROVE TInv
  OBVIOUS
<1>1. TypeOK
  BY RestType, NumbersAssumption DEF Init, TypeOK, JobStatus, TaskStatus
<1>2. \A w \in Worker : Mind(w)
  BY DEF Init, Mind, Rest, Serving, Planning, Step
<1> QED
  BY <1>1, <1>2 DEF TInv

\* The types of everything a thread names while it serves a member.
LEMMA ServingTypes ==
  ASSUME TInv, NEW w \in Worker, worker[w].pc \in Serving
  PROVE  JobOf(w) \in Job /\ TaskOf(w) \in Task
  BY TaskType DEF TInv, Mind, JobOf, TaskOf, Serving

\* Threads by and by: one changes, and its mind is right again.
LEMMA OneThread ==
  ASSUME TInv, NEW w \in Worker, NEW r \in WorkerType,
         worker' = [worker EXCEPT ![w] = r],
         r.pc # "idle" => r.job \in Job /\ r.todo \subseteq Members[r.job],
         r.pc = "idle" => r = Rest,
         r.pc \in Serving => r.on \in Members[r.job],
         r.pc \in {"start", "next"} => r.on = Nothing,
         r.pc \in Planning \cup {"report"} => r.vm \in Vmid,
         r.pc \in Planning \ {"allocate"} => r.ip \in Ip
  PROVE  worker' \in [Worker -> WorkerType] /\ \A u \in Worker : Mind(u)'
<1>1. worker' \in [Worker -> WorkerType]
  BY DEF TInv, TypeOK
<1>2. \A u \in Worker : worker'[u] = IF u = w THEN r ELSE worker[u]
  BY DEF TInv, TypeOK
<1>3. ASSUME NEW u \in Worker PROVE Mind(u)'
  <2>1. CASE u = w
    BY <1>2, <2>1 DEF Mind
  <2>2. CASE u # w
    BY <1>2, <2>2 DEF Mind, TInv
  <2> QED
    BY <2>1, <2>2
<1> QED
  BY <1>1, <1>3

\* A thread goes on to a step that needs no more than it has in mind.
LEMMA GoTyped ==
  ASSUME TInv, NEW w \in Worker, NEW pc, Go(w, pc),
         \/ pc = "dead" /\ worker[w].pc # "idle"
         \/ pc \in {"hung", "release", "register"} /\ worker[w].pc \in {"create", "register"}
         \/ pc = "destroy" /\ worker[w].pc = "release"
         \/ pc \in {"count", "failcount"} /\ worker[w].pc \in Serving
  PROVE  worker' \in [Worker -> WorkerType] /\ \A u \in Worker : Mind(u)'
<1> DEFINE r == [worker[w] EXCEPT !.pc = pc]
<1>1. worker[w] \in WorkerType /\ Mind(w)
  BY DEF TInv, TypeOK
<1>2. pc \in Step
  BY DEF Step
<1>3. /\ r \in WorkerType /\ r.pc = pc /\ r.job = worker[w].job /\ r.todo = worker[w].todo
      /\ r.on = worker[w].on /\ r.vm = worker[w].vm /\ r.ip = worker[w].ip
  BY <1>1, <1>2 DEF WorkerType
<1>4. worker' = [worker EXCEPT ![w] = r]
  BY DEF Go
<1> HIDE DEF r
<1> QED
  BY <1>1, <1>3, <1>4, OneThread DEF Mind, Serving, Planning, Step

LEMMA LeaveTyped ==
  ASSUME TInv, NEW w \in Worker, NEW pc \in {"fail", "report"}, NEW vm \in Vmid \cup {Nothing},
         Leave(w, pc, vm), worker[w].pc \in Serving, pc = "report" => vm \in Vmid
  PROVE  worker' \in [Worker -> WorkerType] /\ \A u \in Worker : Mind(u)'
<1> DEFINE r == [worker[w] EXCEPT !.pc = pc, !.vm = vm, !.ip = Nothing, !.made = FALSE]
<1>1. worker[w] \in WorkerType /\ Mind(w)
  BY DEF TInv, TypeOK
<1>2. /\ r \in WorkerType /\ r.pc = pc /\ r.job = worker[w].job /\ r.todo = worker[w].todo
      /\ r.on = worker[w].on /\ r.vm = vm
  BY <1>1 DEF WorkerType, Step
<1>3. worker' = [worker EXCEPT ![w] = r]
  BY DEF Leave
<1> HIDE DEF r
<1> QED
  BY <1>1, <1>2, <1>3, OneThread DEF Mind, Serving, Planning, Step

LEMMA ForwardTyped ==
  ASSUME TInv, NEW w \in Worker, Forward(w), worker[w].pc \in Serving
  PROVE  worker' \in [Worker -> WorkerType] /\ \A u \in Worker : Mind(u)'
<1> DEFINE r == [Rest EXCEPT !.pc = "next", !.job = JobOf(w), !.todo = worker[w].todo]
<1>1. worker[w] \in WorkerType /\ Mind(w) /\ JobOf(w) \in Job
  BY ServingTypes DEF TInv, TypeOK
<1>2. /\ r \in WorkerType /\ r.pc = "next" /\ r.job = worker[w].job /\ r.todo = worker[w].todo
      /\ r.on = Nothing
  BY <1>1 DEF Rest, WorkerType, Step, JobOf
<1>3. worker' = [worker EXCEPT ![w] = r]
  BY DEF Forward
<1> HIDE DEF r
<1> QED
  BY <1>1, <1>2, <1>3, OneThread DEF Mind, Serving, Planning, Step

LEMMA SetJobTyped ==
  ASSUME TInv, NEW j \in Job, NEW row \in [status : JobStatus, done : Nat, failed : Nat],
         SetJob(j, row)
  PROVE  job' \in [Job -> [status : JobStatus, done : Nat, failed : Nat]]
  BY DEF TInv, TypeOK, SetJob

LEMMA SetTaskTyped ==
  ASSUME TInv, NEW t \in Task, NEW row \in [status : TaskStatus, vm : Vmid \cup {Nothing}],
         row.status # "gone", SetTask(t, row)
  PROVE  /\ task' \in [Task -> [status : TaskStatus, vm : Vmid \cup {Nothing}]]
         /\ outcome' \in [Task -> TaskStatus \ {"gone"}]
  BY DEF TInv, TypeOK, SetTask

LEMMA FreedTyped ==
  ASSUME TInv, NEW v \in Vmid, Freed(v)
  PROVE  address' \in [Ip -> Vmid \cup {Nothing}]
  BY DEF TInv, TypeOK, Freed

LEMMA FaultTyped ==
  ASSUME TInv, Fault
  PROVE  faults' \in 0 .. MaxFault
  BY NumbersAssumption DEF TInv, TypeOK, Fault

TRows ==
    /\ job \in [Job -> [status : JobStatus, done : Nat, failed : Nat]]
    /\ task \in [Task -> [status : TaskStatus, vm : Vmid \cup {Nothing}]]
    /\ outcome \in [Task -> TaskStatus \ {"gone"}]

TWorkers == worker \in [Worker -> WorkerType] /\ \A w \in Worker : Mind(w)

TCluster ==
    /\ machine \in [Vmid -> [task : Task, ip : Ip] \cup {Nothing}]
    /\ resource \in [Vmid -> Task \cup {Nothing}]
    /\ address \in [Ip -> Vmid \cup {Nothing}]
    /\ leaving \subseteq Vmid /\ away \subseteq User

THistory ==
    /\ faults \in 0 .. MaxFault
    /\ clash \subseteq Vmid /\ lost \subseteq Task /\ overtaken \subseteq Task /\ kept \subseteq Task

LEMMA TypeParts == TInv <=> TRows /\ TWorkers /\ TCluster /\ THistory
  BY DEF TInv, TypeOK, TRows, TWorkers, TCluster, THistory

LEMMA TypePartsNext == TInv' <=> TRows' /\ TWorkers' /\ TCluster' /\ THistory'
  BY DEF TInv, TypeOK, TRows, TWorkers, TCluster, THistory

LEMMA TypesKept ==
  ASSUME TInv
  PROVE  /\ UNCHANGED rows => TRows'
         /\ UNCHANGED worker => TWorkers'
         /\ UNCHANGED cluster => TCluster'
         /\ UNCHANGED history => THistory'
  BY TypeParts DEF TRows, TWorkers, TCluster, THistory, rows, cluster, history, Mind

\* Each action of a thread that serves a member, which writes no row.
LEMMA ServingTyped ==
  ASSUME TInv, NEW w \in Worker,
         \/ Plan(w) \/ PlanFails(w) \/ Allocate(w) \/ CreateFails(w) \/ RegisterFails(w)
         \/ Hang(w) \/ OutcomeFails(w) \/ ReleaseFails(w) \/ DestroyFails(w)
  PROVE  TInv'
<1>1. TRows' /\ TCluster'
  BY TypesKept DEF Plan, PlanFails, Allocate, CreateFails, RegisterFails, Hang,
     OutcomeFails, ReleaseFails, DestroyFails, rows, cluster
<1>2. worker[w] \in WorkerType /\ Mind(w) /\ lost \subseteq Task /\ clash \subseteq Vmid
      /\ overtaken \subseteq Task /\ kept \subseteq Task
  BY DEF TInv, TypeOK
<1>3. TWorkers' /\ THistory'
  <2>1. CASE Plan(w)
    <3>1. PICK v \in Vmid : worker' = [worker EXCEPT ![w].pc = "allocate", ![w].vm = v]
      BY <2>1 DEF Plan
    <3> DEFINE r == [worker[w] EXCEPT !.pc = "allocate", !.vm = v]
    <3>2. worker[w].pc = "plan"
      BY <2>1 DEF Plan, At
    <3>3. /\ r \in WorkerType /\ r.pc = "allocate" /\ r.job = worker[w].job
          /\ r.todo = worker[w].todo /\ r.on = worker[w].on /\ r.vm = v
      BY <1>2 DEF WorkerType, Step
    <3>4. worker' = [worker EXCEPT ![w] = r]
      BY <3>1
    <3> HIDE DEF r
    <3>5. TWorkers'
      BY <1>2, <3>2, <3>3, <3>4, OneThread DEF Mind, Serving, Planning, Step, TWorkers
    <3>6. THistory'
      <4>1. clash' \subseteq Vmid
        BY <1>2, <2>1 DEF Plan
      <4> QED
        BY <2>1, <4>1, TypeParts DEF Plan, THistory
    <3> QED
      BY <3>5, <3>6
  <2>2. CASE PlanFails(w)
    <3>1. TWorkers'
      BY <2>2, LeaveTyped DEF PlanFails, TWorkers, Serving, Step
    <3> QED
      BY <2>2, <3>1, TypesKept DEF PlanFails, history
  <2>3. CASE Allocate(w)
    <3>1. PICK i \in Ip : worker' = [worker EXCEPT ![w].pc = "create", ![w].ip = i]
      BY <2>3 DEF Allocate
    <3> DEFINE r == [worker[w] EXCEPT !.pc = "create", !.ip = i]
    <3>2. worker[w].pc = "allocate"
      BY <2>3 DEF Allocate, At
    <3>3. /\ r \in WorkerType /\ r.pc = "create" /\ r.job = worker[w].job /\ r.ip = i
          /\ r.todo = worker[w].todo /\ r.on = worker[w].on /\ r.vm = worker[w].vm
      BY <1>2 DEF WorkerType, Step
    <3>4. worker' = [worker EXCEPT ![w] = r]
      BY <3>1
    <3> HIDE DEF r
    <3>5. TWorkers'
      BY <1>2, <3>2, <3>3, <3>4, OneThread DEF Mind, Serving, Planning, Step, TWorkers
    <3> QED
      BY <2>3, <3>5, TypesKept DEF Allocate
  <2>4. CASE CreateFails(w) \/ RegisterFails(w)
    <3>1. TWorkers'
      BY <2>4, GoTyped DEF CreateFails, RegisterFails, At, TWorkers
    <3> QED
      BY <2>4, <3>1, TypesKept DEF CreateFails, RegisterFails, history
  <2>5. CASE Hang(w)
    <3>1. TWorkers'
      BY <2>5, GoTyped DEF Hang, At, TWorkers
    <3> QED
      BY <1>2, <2>5, <3>1, FaultTyped DEF Hang, THistory
  <2>6. CASE OutcomeFails(w)
    <3>1. TWorkers'
      BY <2>6, LeaveTyped DEF OutcomeFails, TWorkers, Serving, Step
    <3> QED
      BY <1>2, <2>6, <3>1, FaultTyped DEF OutcomeFails, THistory
  <2>7. CASE ReleaseFails(w)
    <3>1. TWorkers'
      BY <2>7, GoTyped, LeaveTyped DEF ReleaseFails, AfterRelease, At, TWorkers, Serving, Step
    <3> QED
      BY <1>2, <2>7, <3>1, FaultTyped DEF ReleaseFails, THistory
  <2>8. CASE DestroyFails(w)
    <3>1. TWorkers'
      BY <2>8, LeaveTyped DEF DestroyFails, At, TWorkers, Serving, Step
    <3>2. TaskOf(w) \in Task
      BY <2>8, ServingTypes DEF DestroyFails, At, Serving, Step
    <3> QED
      BY <1>2, <2>8, <3>1, <3>2, FaultTyped DEF DestroyFails, THistory
  <2> QED
    BY <2>1, <2>2, <2>3, <2>4, <2>5, <2>6, <2>7, <2>8
<1> QED
  BY <1>1, <1>3, TypePartsNext

LEMMA CrashTyped ==
  ASSUME TInv, NEW w \in Worker, Crash(w)
  PROVE  TInv'
<1>1. TRows'
  BY TypesKept DEF Crash
<1>2. TWorkers'
  BY GoTyped DEF Crash, TWorkers
<1>3. TCluster /\ THistory
  BY TypeParts
<1>4. worker[w].pc \in {"create", "hung"} =>
        worker[w].vm \in Vmid /\ Made(w) \in [task : Task, ip : Ip]
  BY ServingTypes DEF TInv, Mind, Made, Serving, Planning, Step
<1>5. TCluster'
  BY <1>3, <1>4 DEF Crash, TCluster
<1>6. lost' \subseteq Task
  BY <1>3, ServingTypes DEF Crash, Serving, Planning, Step, THistory
<1>7. THistory'
  BY <1>3, <1>6, FaultTyped DEF Crash, THistory
<1> QED
  BY <1>1, <1>2, <1>5, <1>7, TypePartsNext

\* The steps that write the rows of the job and of its tasks.
LEMMA RowTypes ==
  ASSUME TInv, NEW j \in Job, NEW t \in Task
  PROVE  /\ job[j] \in [status : JobStatus, done : Nat, failed : Nat]
         /\ task[t] \in [status : TaskStatus, vm : Vmid \cup {Nothing}]
  BY DEF TInv, TypeOK

LEMMA ReviewTyped ==
  ASSUME TInv, NEW j \in Job, Reject(j) \/ DeleteGroup(j) \/ \E w \in Worker : Approve(w, j)
  PROVE  TInv'
<1>1. TCluster' /\ THistory'
  BY TypesKept DEF Approve, Reject, DeleteGroup
<1>2. TRows'
  <2>1. TRows
    BY TypeParts
  <2>2. CASE DeleteGroup(j)
    BY <2>1, <2>2 DEF DeleteGroup, TRows, JobStatus, TaskStatus
  <2>3. CASE Reject(j)
    BY <2>1, <2>3 DEF Reject, Transition, TRows, JobStatus
  <2>4. CASE \E w \in Worker : Approve(w, j)
    <3>1. Transition(j, "approved") /\ task' = task /\ outcome' = outcome
      BY <2>4 DEF Approve
    <3> QED
      BY <2>1, <3>1 DEF Transition, TRows, JobStatus
  <2> QED
    BY <2>2, <2>3, <2>4
<1>3. TWorkers'
  <2>1. CASE Reject(j) \/ DeleteGroup(j)
    BY <2>1, TypesKept DEF Reject, DeleteGroup
  <2>2. ASSUME NEW w \in Worker, Approve(w, j) PROVE TWorkers'
    <3> DEFINE r == [Rest EXCEPT !.pc = "start", !.job = j]
    <3>1. /\ r \in WorkerType /\ r.pc = "start" /\ r.job = j /\ r.todo = {} /\ r.on = Nothing
      BY DEF Rest, WorkerType, Step
    <3>2. worker' = [worker EXCEPT ![w] = r]
      BY <2>2 DEF Approve
    <3> HIDE DEF r
    <3> QED
      BY <3>1, <3>2, OneThread DEF TWorkers, Serving, Planning, Step
  <2> QED
    BY <2>1, <2>2
<1> QED
  BY <1>1, <1>2, <1>3, TypePartsNext

LEMMA QueueTyped ==
  ASSUME TInv, NEW w \in Worker, Start(w) \/ Take(w) \/ Skip(w) \/ Finish(w)
  PROVE  TInv'
<1>1. TCluster' /\ THistory'
  BY TypesKept DEF Start, Take, Skip, Finish
<1>2. worker[w] \in WorkerType /\ Mind(w) /\ JobOf(w) \in Job /\ worker[w].job = JobOf(w)
  BY DEF TInv, TypeOK, Start, Take, Skip, Finish, At, JobOf, Mind
<1> DEFINE j == JobOf(w)
<1>3. CASE Start(w)
  <2>1. TRows'
    <3>1. [job[j] EXCEPT !.status = "running"] \in [status : JobStatus, done : Nat, failed : Nat]
      BY <1>2, RowTypes DEF TInv, TypeOK, JobStatus
    <3>2. job' \in [Job -> [status : JobStatus, done : Nat, failed : Nat]]
      BY <1>2, <1>3, <3>1, SetJobTyped DEF Start
    <3> QED
      BY <1>3, <3>2, TypeParts DEF Start, TRows
  <2>2. TWorkers'
    <3> DEFINE T == {m \in Members[j] : task[<<j, m>>].status = "pending"}
               r == [worker[w] EXCEPT !.pc = "next", !.todo = T]
    <3>1. T \subseteq Members[j] /\ T \subseteq Nat
      BY <1>2, MembersAssumption
    <3> HIDE DEF T
    <3>2. /\ r \in WorkerType /\ r.pc = "next" /\ r.job = j /\ r.todo = T /\ r.on = worker[w].on
      BY <1>2, <3>1 DEF WorkerType, Step
    <3>3. worker' = [worker EXCEPT ![w] = r]
      BY <1>3 DEF Start, T
    <3>4. worker[w].pc = "start"
      BY <1>3 DEF Start, At
    <3> HIDE DEF r, j
    <3> QED
      BY <1>2, <3>1, <3>2, <3>3, <3>4, OneThread DEF j, TWorkers, Serving, Planning, Step, Mind
  <2> QED
    BY <1>1, <2>1, <2>2, TypePartsNext
<1>4. CASE Take(w)
  <2>1. PICK m \in Members[j] :
          /\ SetTask(<<j, m>>, [task[<<j, m>>] EXCEPT !.status = "running"])
          /\ worker' = [worker EXCEPT ![w].pc = "plan", ![w].on = m,
                                      ![w].todo = worker[w].todo \ {m}]
    BY <1>4 DEF Take
  <2>2. TRows'
    <3> DEFINE row == [task[<<j, m>>] EXCEPT !.status = "running"]
    <3>1. row \in [status : TaskStatus, vm : Vmid \cup {Nothing}] /\ row.status = "running"
      BY <1>2, TaskType, RowTypes DEF TaskStatus
    <3>2. SetTask(<<j, m>>, row) /\ job' = job
      BY <1>4, <2>1 DEF Take
    <3> HIDE DEF row
    <3> QED
      BY <1>2, <3>1, <3>2, TaskType, SetTaskTyped, TypeParts DEF TRows
  <2>3. TWorkers'
    <3> DEFINE r == [worker[w] EXCEPT !.pc = "plan", !.on = m, !.todo = worker[w].todo \ {m}]
    <3>1. m \in Nat
      BY <1>2, MembersAssumption
    <3>2. /\ r \in WorkerType /\ r.pc = "plan" /\ r.job = j /\ r.on = m
          /\ r.todo = worker[w].todo \ {m}
      BY <1>2, <3>1 DEF WorkerType, Step
    <3>3. worker' = [worker EXCEPT ![w] = r]
      BY <2>1
    <3>4. worker[w].pc = "next"
      BY <1>4 DEF Take, At
    <3> HIDE DEF r, j
    <3> QED
      BY <1>2, <3>2, <3>3, <3>4, OneThread DEF j, TWorkers, Serving, Planning, Step, Mind
  <2> QED
    BY <1>1, <2>2, <2>3, TypePartsNext
<1>4a. CASE Skip(w)
  <2>1. PICK m \in Members[j] : worker' = [worker EXCEPT ![w].todo = worker[w].todo \ {m}]
    BY <1>4a DEF Skip
  <2> DEFINE r == [worker[w] EXCEPT !.todo = worker[w].todo \ {m}]
  <2>2. /\ r \in WorkerType /\ r.pc = worker[w].pc /\ r.job = j /\ r.on = worker[w].on
        /\ r.todo = worker[w].todo \ {m}
    BY <1>2 DEF WorkerType, Step
  <2>3. worker' = [worker EXCEPT ![w] = r]
    BY <2>1
  <2>4. worker[w].pc = "next"
    BY <1>4a DEF Skip, At
  <2> HIDE DEF r, j
  <2>5. TWorkers'
    BY <1>2, <2>2, <2>3, <2>4, OneThread DEF j, TWorkers, Serving, Planning, Step, Mind
  <2> QED
    BY <1>1, <1>4a, <2>5, TypesKept, TypePartsNext DEF Skip
<1>5. CASE Finish(w)
  <2>1. PICK s \in {"failed", "completed"} : SetJob(j, [job[j] EXCEPT !.status = s])
    BY <1>5 DEF Finish
  <2>2. [job[j] EXCEPT !.status = s] \in [status : JobStatus, done : Nat, failed : Nat]
    BY <1>2, RowTypes DEF TInv, TypeOK, JobStatus
  <2>3. job' \in [Job -> [status : JobStatus, done : Nat, failed : Nat]]
    BY <1>2, <2>1, <2>2, SetJobTyped
  <2>4. TRows'
    BY <1>5, <2>3, TypeParts DEF Finish, TRows
  <2>5. TWorkers'
    BY <1>5, RestType, OneThread DEF Finish, TWorkers, Serving, Planning, Step, Rest
  <2> QED
    BY <1>1, <2>4, <2>5, TypePartsNext
<1> QED
  BY <1>3, <1>4, <1>4a, <1>5

\* The outcome of a member, written in two commits.
LEMMA OutcomeTyped ==
  ASSUME TInv, NEW w \in Worker, Report(w) \/ Count(w) \/ Fail(w) \/ FailCount(w)
  PROVE  TInv'
<1>1. TCluster' /\ THistory'
  BY TypesKept DEF Report, Count, Fail, FailCount
<1>2. worker[w].pc \in Serving
  BY DEF Report, Count, Fail, FailCount, At, Serving, Step
<1>3. JobOf(w) \in Job /\ TaskOf(w) \in Task /\ worker[w] \in WorkerType /\ Mind(w)
  BY <1>2, ServingTypes DEF TInv, TypeOK
<1>4. TWorkers'
  <2>1. CASE Report(w) \/ Fail(w)
    BY <1>2, <2>1, GoTyped DEF Report, Fail, TWorkers
  <2>2. CASE Count(w) \/ FailCount(w)
    BY <1>2, <2>2, ForwardTyped DEF Count, FailCount, TWorkers
  <2> QED
    BY <2>1, <2>2
<1> DEFINE row == job[JobOf(w)]  trow == task[TaskOf(w)]
<1>5. row \in [status : JobStatus, done : Nat, failed : Nat]
      /\ trow \in [status : TaskStatus, vm : Vmid \cup {Nothing}]
  BY <1>3, RowTypes
<1>6. TRows'
  <2>1. CASE Report(w)
    <3> DEFINE new == [status |-> "completed", vm |-> worker[w].vm]
    <3>1. new \in [status : TaskStatus, vm : Vmid \cup {Nothing}] /\ new.status = "completed"
      BY <1>3 DEF TaskStatus, WorkerType
    <3>2. SetTask(TaskOf(w), new) /\ job' = job
      BY <2>1 DEF Report
    <3> HIDE DEF new
    <3> QED
      BY <1>3, <3>1, <3>2, SetTaskTyped, TypeParts DEF TRows
  <2>2. CASE Fail(w)
    <3> DEFINE new == [trow EXCEPT !.status = "failed"]
    <3>1. new \in [status : TaskStatus, vm : Vmid \cup {Nothing}] /\ new.status = "failed"
      BY <1>5 DEF TaskStatus
    <3>2. SetTask(TaskOf(w), new) /\ job' = job
      BY <2>2 DEF Fail
    <3> HIDE DEF new
    <3> QED
      BY <1>3, <3>1, <3>2, SetTaskTyped, TypeParts DEF TRows
  <2>3. CASE Count(w)
    <3>1. [row EXCEPT !.done = @ + 1] \in [status : JobStatus, done : Nat, failed : Nat]
      BY <1>5
    <3> QED
      BY <1>3, <2>3, <3>1, SetJobTyped, TypeParts DEF Count, TRows
  <2>4. CASE FailCount(w)
    <3>1. [row EXCEPT !.failed = @ + 1] \in [status : JobStatus, done : Nat, failed : Nat]
      BY <1>5
    <3> QED
      BY <1>3, <2>4, <3>1, SetJobTyped, TypeParts DEF FailCount, TRows
  <2> QED
    BY <2>1, <2>2, <2>3, <2>4
<1> QED
  BY <1>1, <1>4, <1>6, TypePartsNext

\* The steps that change the cluster, the table resources or the addresses.
LEMMA MachineTyped ==
  ASSUME TInv, NEW w \in Worker,
         Create(w) \/ CreateUnseen(w) \/ Register(w) \/ Release(w) \/ Destroy(w)
  PROVE  TInv'
<1>1. TRows'
  BY TypesKept DEF Create, CreateUnseen, Register, Release, Destroy
<1>2. worker[w].pc \in Planning \ {"allocate"} /\ worker[w].pc \in Serving
  BY DEF Create, CreateUnseen, Register, Release, Destroy, At, Planning, Serving, Step
<1>3. /\ JobOf(w) \in Job /\ TaskOf(w) \in Task /\ worker[w] \in WorkerType /\ Mind(w)
      /\ worker[w].vm \in Vmid /\ worker[w].ip \in Ip /\ Made(w) \in [task : Task, ip : Ip]
  BY <1>2, ServingTypes DEF TInv, TypeOK, Mind, Made
<1>4. TCluster /\ THistory
  BY TypeParts
<1>5. CASE Create(w)
  <2>1. TCluster'
    BY <1>3, <1>4, <1>5 DEF Create, TCluster
  <2>2. TWorkers'
    <3> DEFINE r == [worker[w] EXCEPT !.pc = "register", !.made = TRUE]
    <3>1. /\ r \in WorkerType /\ r.pc = "register" /\ r.job = worker[w].job /\ r.ip = worker[w].ip
          /\ r.todo = worker[w].todo /\ r.on = worker[w].on /\ r.vm = worker[w].vm
      BY <1>3 DEF WorkerType, Step
    <3>2. worker' = [worker EXCEPT ![w] = r]
      BY <1>5 DEF Create
    <3> HIDE DEF r
    <3> QED
      BY <1>2, <1>3, <3>1, <3>2, OneThread DEF Mind, Serving, Planning, Step, TWorkers
  <2> QED
    BY <1>1, <1>5, <2>1, <2>2, TypesKept, TypePartsNext DEF Create
<1>6. CASE CreateUnseen(w)
  <2>1. TCluster'
    BY <1>3, <1>4, <1>6 DEF CreateUnseen, TCluster
  <2>2. TWorkers'
    BY <1>6, GoTyped DEF CreateUnseen, At, TWorkers
  <2>3. THistory'
    BY <1>3, <1>4, <1>6, FaultTyped DEF CreateUnseen, THistory
  <2> QED
    BY <1>1, <2>1, <2>2, <2>3, TypePartsNext
<1>7. CASE Register(w)
  <2>1. TCluster'
    BY <1>3, <1>4, <1>7 DEF Register, TCluster
  <2>2. TWorkers'
    BY <1>2, <1>3, <1>7, LeaveTyped DEF Register, TWorkers
  <2> QED
    BY <1>1, <1>7, <2>1, <2>2, TypesKept, TypePartsNext DEF Register
<1>8. CASE Release(w)
  <2>1. TCluster'
    BY <1>3, <1>4, <1>8, FreedTyped DEF Release, TCluster
  <2>2. TWorkers'
    BY <1>2, <1>8, GoTyped, LeaveTyped DEF Release, AfterRelease, At, TWorkers
  <2> QED
    BY <1>1, <1>8, <2>1, <2>2, TypesKept, TypePartsNext DEF Release
<1>9. CASE Destroy(w)
  <2>1. TCluster'
    BY <1>3, <1>4, <1>9 DEF Destroy, TCluster
  <2>2. TWorkers'
    BY <1>2, <1>9, LeaveTyped DEF Destroy, TWorkers
  <2> QED
    BY <1>1, <1>9, <2>1, <2>2, TypesKept, TypePartsNext DEF Destroy
<1> QED
  BY <1>5, <1>6, <1>7, <1>8, <1>9

LEMMA UserTyped ==
  ASSUME TInv, NEW u \in User, DeleteUser(u)
  PROVE  TInv'
<1>1. TRows /\ TCluster
  BY TypeParts
<1>2. TRows'
  BY <1>1 DEF DeleteUser, TRows, TaskStatus
<1>3. TCluster'
  BY <1>1 DEF DeleteUser, TCluster
<1> QED
  BY <1>2, <1>3, TypesKept, TypePartsNext DEF DeleteUser

LEMMA DeletionTyped ==
  ASSUME TInv, NEW v \in Vmid, Delete(v) \/ Unlink(v)
  PROVE  TInv'
<1>1. TWorkers'
  BY TypesKept DEF Delete, Unlink
<1>2. TRows /\ TCluster /\ THistory
  BY TypeParts
<1>3. CASE Delete(v)
  <2>1. TCluster'
    BY <1>2, <1>3 DEF Delete, TCluster
  <2> QED
    BY <1>1, <1>3, <2>1, TypesKept, TypePartsNext DEF Delete
<1>4. CASE Unlink(v)
  <2>1. TCluster'
    BY <1>2, <1>4, FreedTyped DEF Unlink, TCluster
  <2>2. TRows'
    BY <1>2, <1>4 DEF Unlink, TRows, Naming
  <2>3. \A u \in Worker : At(u, "report") => TaskOf(u) \in Task
    BY ServingTypes DEF At, Serving, Step
  <2>4. overtaken' \subseteq Task
    BY <1>2, <1>4, <2>3 DEF Unlink, THistory
  <2>5. faults' \in 0 .. MaxFault /\ kept' \subseteq Task
    BY <1>2, <1>4, FaultTyped DEF Unlink, Naming, THistory
  <2> QED
    BY <1>1, <1>2, <1>4, <2>1, <2>2, <2>4, <2>5, TypePartsNext DEF Unlink, THistory
<1> QED
  BY <1>3, <1>4

LEMMA StepTyped == TInv /\ [Next]_vars => TInv'
<1> SUFFICES ASSUME TInv, [Next]_vars PROVE TInv'
  OBVIOUS
<1>1. CASE UNCHANGED vars
  BY <1>1, TypesKept, TypePartsNext DEF vars
<1>2. ASSUME NEW j \in Job, Reject(j) \/ DeleteGroup(j) \/ \E w \in Worker : Approve(w, j)
      PROVE  TInv'
  BY <1>2, ReviewTyped
<1>3. ASSUME NEW w \in Worker, Queue(w) \/ Trouble(w) PROVE TInv'
  BY <1>3, QueueTyped, ServingTyped, OutcomeTyped, MachineTyped, CrashTyped DEF Queue, Trouble
<1>4. ASSUME NEW v \in Vmid, Delete(v) \/ Unlink(v) PROVE TInv'
  BY <1>4, DeletionTyped
<1>5. ASSUME NEW u \in User, DeleteUser(u) PROVE TInv'
  BY <1>5, UserTyped
<1> QED
  BY <1>1, <1>2, <1>3, <1>4, <1>5 DEF Next

\* Jobs, tasks, threads, machines and rows keep their types whatever the threads,
\* the reviewers, the users and the faults do.
THEOREM BatchTypeCorrect == Spec => []TypeOK
<1>1. TInv => TypeOK
  BY DEF TInv
<1> QED
  BY <1>1, InitTyped, StepTyped, PTL DEF Spec

(***************************************************************************)
(* One thread for a job: the review is decided once                        *)
(***************************************************************************)
Decided == \A w \in Worker : worker[w].job # Nothing => job[worker[w].job].status # "pending_review"

OneInv == OneQueue /\ Decided

LEMMA InitOne == Init => OneInv
  BY DEF Init, OneInv, OneQueue, Decided, Rest

\* A thread changes nothing of the others, and keeps its job or drops it.
LEMMA Alone ==
  ASSUME TInv, NEW w \in Worker, Queue(w) \/ Trouble(w)
  PROVE  /\ \A u \in Worker \ {w} : worker'[u] = worker[u]
         /\ worker[w].pc # "idle"
         /\ worker'[w].job \in {worker[w].job, Nothing}
<1>1. worker \in [Worker -> WorkerType] /\ worker[w] \in WorkerType
  BY DEF TInv, TypeOK
<1>2. worker[w].pc # "idle"
  BY DEF Queue, Trouble, Start, Take, Skip, Finish, Plan, PlanFails, Allocate, Create, CreateFails,
     Register, RegisterFails, Release, Destroy, Report, Count, Fail, FailCount, CreateUnseen,
     Hang, ReleaseFails, DestroyFails, OutcomeFails, Crash, At
<1>3. CASE Start(w) \/ Finish(w)
  BY <1>1, <1>2, <1>3 DEF Start, Finish, Rest, WorkerType
<1>3a. CASE Take(w) \/ Skip(w)
  <2>1. PICK m, T : \/ worker' = [worker EXCEPT ![w].pc = "plan", ![w].on = m, ![w].todo = T]
                    \/ worker' = [worker EXCEPT ![w].todo = T]
    BY <1>3a DEF Take, Skip
  <2> QED
    BY <1>1, <1>2, <2>1 DEF WorkerType
<1>4. CASE Plan(w) \/ Allocate(w)
  <2>1. PICK v, i : \/ worker' = [worker EXCEPT ![w].pc = "allocate", ![w].vm = v]
                    \/ worker' = [worker EXCEPT ![w].pc = "create", ![w].ip = i]
    BY <1>4 DEF Plan, Allocate
  <2> QED
    BY <1>1, <1>2, <2>1 DEF WorkerType
<1>4a. CASE PlanFails(w) \/ Create(w) \/ CreateFails(w)
  BY <1>1, <1>2, <1>4a DEF PlanFails, Create, CreateFails, Go, Leave, WorkerType
<1>5. CASE Register(w) \/ RegisterFails(w) \/ Release(w) \/ Destroy(w)
  BY <1>1, <1>2, <1>5 DEF Register, RegisterFails, Release, Destroy, AfterRelease, Go, Leave, WorkerType
<1>6. CASE Report(w) \/ Count(w) \/ Fail(w) \/ FailCount(w)
  BY <1>1, <1>2, <1>6 DEF Report, Count, Fail, FailCount, Forward, JobOf, Rest, Go, WorkerType
<1>7. CASE Trouble(w)
  BY <1>1, <1>2, <1>7 DEF Trouble, CreateUnseen, Hang, ReleaseFails, DestroyFails, OutcomeFails,
     Crash, AfterRelease, Go, Leave, WorkerType
<1> QED
  BY <1>3, <1>3a, <1>4, <1>4a, <1>5, <1>6, <1>7 DEF Queue

\* No thread reopens a review.
LEMMA StaysDecided ==
  ASSUME TInv, Decided, NEW w \in Worker, Queue(w) \/ Trouble(w),
         NEW j \in Job, job'[j].status = "pending_review"
  PROVE  job[j].status = "pending_review"
<1>1. JobOf(w) \in Job /\ worker[w].job # Nothing /\ worker[w].job = JobOf(w)
  BY Alone, NumbersAssumption DEF TInv, Mind, JobOf
<1>2. job[JobOf(w)].status # "pending_review"
  BY <1>1 DEF Decided
<1>3. job[JobOf(w)] \in [status : JobStatus, done : Nat, failed : Nat] /\ job[j] \in [status : JobStatus, done : Nat, failed : Nat]
  BY <1>1 DEF TInv, TypeOK
<1>4. CASE Start(w) \/ Finish(w) \/ Count(w) \/ FailCount(w)
  BY <1>1, <1>2, <1>3, <1>4 DEF Start, Finish, Count, FailCount, SetJob, TInv, TypeOK
<1>5. CASE job' = job
  BY <1>5
<1> QED
  BY <1>4, <1>5 DEF Queue, Trouble, Take, Skip, Plan, PlanFails, Allocate, Create, CreateFails,
     Register, RegisterFails, Release, Destroy, Report, Fail, CreateUnseen,
     Hang, ReleaseFails, DestroyFails, OutcomeFails, Crash, rows

LEMMA StepOne == TInv /\ OneInv /\ [Next]_vars => OneInv'
<1> SUFFICES ASSUME TInv, OneInv, [Next]_vars PROVE OneInv'
  OBVIOUS
<1>1. TInv'
  BY StepTyped
<1>2. \A w \in Worker : worker[w].job \in Job \cup {Nothing} /\ worker'[w].job \in Job \cup {Nothing}
  BY <1>1 DEF TInv, TypeOK, WorkerType
<1>3. CASE UNCHANGED <<job, worker>>
  BY <1>3 DEF OneInv, OneQueue, Decided
<1>4. ASSUME NEW j \in Job, Reject(j) \/ DeleteGroup(j) PROVE OneInv'
  <2>1. /\ worker' = worker
        /\ \A i \in Job : job'[i].status = "pending_review" => job[i].status = "pending_review"
    <3>1. CASE Reject(j)
      BY <3>1 DEF Reject, Transition, TInv, TypeOK
    <3>2. CASE DeleteGroup(j)
      BY <3>2 DEF DeleteGroup, TInv, TypeOK
    <3> QED
      BY <1>4, <3>1, <3>2
  <2> QED
    BY <1>2, <2>1 DEF OneInv, OneQueue, Decided
<1>5. ASSUME NEW j \in Job, NEW w \in Worker, Approve(w, j) PROVE OneInv'
  <2>1. /\ worker[w].pc = "idle" /\ worker[w].job = Nothing /\ worker'[w].job = j
        /\ \A u \in Worker \ {w} : worker'[u] = worker[u]
    BY <1>5 DEF Approve, First, TInv, TypeOK, Mind, Rest
  <2>2. job[j].status = "pending_review" /\ job' = [job EXCEPT ![j].status = "approved"]
    BY <1>5 DEF Approve, Transition
  <2>3. \A u \in Worker : worker[u].job # j
    BY <1>2, <2>2, NumbersAssumption DEF OneInv, Decided
  <2>4. \A i \in Job : job'[i].status = "pending_review" => job[i].status = "pending_review" /\ i # j
    BY <2>2 DEF TInv, TypeOK
  <2> QED
    BY <1>2, <2>1, <2>3, <2>4 DEF OneInv, OneQueue, Decided
<1>6. ASSUME NEW w \in Worker, Queue(w) \/ Trouble(w) PROVE OneInv'
  BY <1>2, <1>6, Alone, StaysDecided DEF OneInv, OneQueue, Decided
<1>7. ASSUME NEW v \in Vmid, Delete(v) \/ Unlink(v) PROVE OneInv'
  BY <1>3, <1>7 DEF Delete, Unlink, rows
<1>8. ASSUME NEW u \in User, DeleteUser(u) PROVE OneInv'
  BY <1>3, <1>8 DEF DeleteUser
<1> QED
  BY <1>3, <1>4, <1>5, <1>6, <1>7, <1>8 DEF Next, vars, rows

\* However many administrators decide at a time, one thread at most serves a job.
THEOREM OneThreadPerJob == Spec => []OneQueue
<1>1. OneInv => OneQueue
  BY DEF OneInv
<1> QED
  BY <1>1, InitTyped, StepTyped, InitOne, StepOne, PTL DEF Spec

(***************************************************************************)
(* The counters: a job counts the tasks no thread is busy with             *)
(***************************************************************************)
Held(t) == \E w \in Worker : worker[w].job = t[1] /\ worker[w].on = t[2]

Settled(j, status) == {t \in Task : t[1] = j /\ outcome[t] = status /\ ~Held(t)}

Counted(j) ==
    /\ job[j].done = Cardinality(Settled(j, "completed"))
    /\ job[j].failed = Cardinality(Settled(j, "failed"))

Ongoing(j) == \A t \in Task : t[1] = j /\ outcome[t] = "running" => Held(t)

Judged(j) ==
    job[j].status \in {"completed", "failed"} =>
        /\ \A t \in Task : t[1] = j /\ outcome[t] = "pending" => task[t].status = "gone"
        /\ job[j].status = "failed" <=> job[j].failed > 0 /\ job[j].done = 0

JobInv(j) == Exists(j) => Counted(j) /\ Ongoing(j) /\ Judged(j)

Todo(w) ==
    /\ \A m \in worker[w].todo : outcome[<<worker[w].job, m>>] = "pending"
    /\ \A t \in Task : t[1] = worker[w].job /\ outcome[t] = "pending" /\ Here(t) =>
          worker[w].pc \in {"start", "dead"} \/ t[2] \in worker[w].todo

Served(w) ==
    /\ worker[w].pc \in Serving => outcome[TaskOf(w)] # "pending"
    /\ worker[w].pc = "count" => outcome[TaskOf(w)] = "completed"
    /\ worker[w].pc = "failcount" => outcome[TaskOf(w)] = "failed"

ThreadInv(w) ==
    worker[w].job # Nothing /\ Exists(worker[w].job) =>
        job[worker[w].job].status \in {"approved", "running"} /\ Todo(w) /\ Served(w)

\* A row that is there has the status it would have, and goes with its job.
Agrees(t) == Here(t) => Exists(t[1]) /\ task[t].status = outcome[t]

CInv ==
    /\ \A j \in Job : JobInv(j)
    /\ \A w \in Worker : ThreadInv(w)
    /\ \A t \in Task : Agrees(t)

LEMMA MemberNumbers ==
  /\ \A j \in Job : Members[j] \subseteq Nat /\ IsFiniteSet(Members[j])
  /\ Nothing \notin Nat /\ Nothing \notin Job
  BY MembersAssumption, NumbersAssumption

LEMMA TasksOfJob ==
  ASSUME NEW j \in Job, NEW S \in SUBSET Task, \A t \in S : t[1] = j
  PROVE  IsFiniteSet(S)
<1>1. IsFiniteSet({j} \X Members[j])
  BY MemberNumbers, FS_Singleton, FS_Product
<1>2. S \subseteq {j} \X Members[j]
  BY TaskParts
<1> QED
  BY <1>1, <1>2, FS_Subset

LEMMA InitCounts == Init => CInv
<1> SUFFICES ASSUME Init PROVE CInv
  OBVIOUS
<1>1. ASSUME NEW j \in Job PROVE JobInv(j)
  <2>1. Settled(j, "completed") = {} /\ Settled(j, "failed") = {}
    BY DEF Init, Settled
  <2> QED
    BY <2>1, FS_EmptySet DEF Init, JobInv, Counted, Ongoing, Judged
<1>2. ASSUME NEW w \in Worker PROVE ThreadInv(w)
  BY DEF Init, ThreadInv, Rest
<1>3. ASSUME NEW t \in Task PROVE Agrees(t)
  BY TaskParts DEF Init, Agrees, Exists
<1> QED
  BY <1>1, <1>2, <1>3 DEF CInv

\* What makes a job, or a thread, notice nothing of a step.
LEMMA JobFrame ==
  ASSUME NEW j \in Job, JobInv(j), job'[j] = job[j],
         \A t \in Task : t[1] = j => /\ outcome'[t] = outcome[t]
                                     /\ task[t].status = "gone" => task'[t].status = "gone"
                                     /\ Held(t)' <=> Held(t)
  PROVE  JobInv(j)'
<1>1. \A s : Settled(j, s)' = Settled(j, s)
  BY DEF Settled
<1> QED
  BY <1>1 DEF JobInv, Counted, Ongoing, Judged, Exists

LEMMA ThreadFrame ==
  ASSUME NEW w \in Worker, ThreadInv(w), TInv, worker'[w] = worker[w],
         worker[w].job # Nothing => \/ job'[worker[w].job].status = "gone"
                                    \/ job'[worker[w].job] = job[worker[w].job],
         \A t \in Task : t[1] = worker[w].job /\ job'[t[1]].status # "gone" =>
             outcome'[t] = outcome[t] /\ (Here(t)' => Here(t))
  PROVE  ThreadInv(w)'
<1> SUFFICES ASSUME worker[w].job # Nothing, job'[worker[w].job].status # "gone"
             PROVE  /\ job[worker[w].job].status \in {"approved", "running"}
                    /\ Todo(w)' /\ Served(w)'
  BY DEF ThreadInv, Exists
<1> DEFINE j == worker[w].job
<1>1. j \in Job /\ worker[w].todo \subseteq Members[j] /\ worker[w].pc # "idle"
  BY DEF TInv, TypeOK, WorkerType, Mind, Rest
<1>2. job[j].status \in {"approved", "running"} /\ Todo(w) /\ Served(w)
  BY DEF ThreadInv, Exists
<1>3. \A m \in worker[w].todo : <<j, m>> \in Task /\ <<j, m>>[1] = j
  BY <1>1, TaskType
<1>4. worker[w].pc \in Serving => TaskOf(w) \in Task /\ TaskOf(w)[1] = j
  BY ServingTypes DEF TaskOf
<1>5. worker[w].pc \in {"count", "failcount"} => worker[w].pc \in Serving
  BY DEF Serving, Step
<1>6. Todo(w)'
  BY <1>1, <1>2, <1>3 DEF Todo
<1>7. Served(w)'
  BY <1>1, <1>2, <1>4, <1>5 DEF Served, TaskOf
<1> QED
  BY <1>2, <1>6, <1>7

\* A step of a thread concerns its own job.
LEMMA ThreadStep ==
  ASSUME TInv, OneInv, CInv, NEW w \in Worker, Queue(w) \/ Trouble(w),
         NEW j \in Job, j = worker[w].job,
         \A i \in Job \ {j} : job'[i] = job[i],
         \A t \in Task : t[1] # j => task'[t] = task[t] /\ outcome'[t] = outcome[t],
         \A t \in Task : t[1] = j => Agrees(t)',
         JobInv(j)', ThreadInv(w)'
  PROVE  CInv'
<1>1. ASSUME NEW i \in Job, i # j PROVE JobInv(i)'
  <2>1. \A t \in Task : t[1] = i => (Held(t)' <=> Held(t))
    BY <1>1, Alone, MemberNumbers DEF Held
  <2> QED
    BY <1>1, <2>1, JobFrame DEF CInv
<1>2. ASSUME NEW u \in Worker, u # w PROVE ThreadInv(u)'
  <2>1. worker[u].job # worker[w].job \/ worker[u].job = Nothing
    BY <1>2 DEF OneInv, OneQueue
  <2>2. worker'[u] = worker[u] /\ worker[u].job \in Job \cup {Nothing}
    BY <1>2, Alone DEF TInv, TypeOK, WorkerType
  <2>3. worker[u].job # Nothing => job'[worker[u].job] = job[worker[u].job]
    BY <2>1, <2>2
  <2>4. \A t \in Task : t[1] = worker[u].job => task'[t] = task[t] /\ outcome'[t] = outcome[t]
    BY <2>1, TaskParts, MemberNumbers
  <2>5. ThreadInv(u)
    BY DEF CInv
  <2> QED
    BY <2>2, <2>3, <2>4, <2>5, ThreadFrame DEF Here
<1>3. ASSUME NEW t \in Task, t[1] # j PROVE Agrees(t)'
  <2>1. task'[t] = task[t] /\ outcome'[t] = outcome[t] /\ job'[t[1]] = job[t[1]]
    BY <1>3, TaskParts
  <2> QED
    BY <2>1 DEF CInv, Agrees, Here, Exists
<1> QED
  BY <1>1, <1>2, <1>3 DEF CInv

\* Steps that write no row: a thread gets on with its member, or dies.
LEMMA SilentStep ==
  ASSUME TInv, NEW w \in Worker, Trouble(w) \/ Plan(w) \/ PlanFails(w) \/ Allocate(w)
         \/ Create(w) \/ CreateFails(w) \/ Register(w) \/ RegisterFails(w) \/ Release(w) \/ Destroy(w)
  PROVE  /\ UNCHANGED rows
         /\ worker'[w].job = worker[w].job /\ worker'[w].on = worker[w].on
         /\ worker'[w].todo = worker[w].todo
         /\ \/ worker'[w].pc = "dead" /\ worker[w].pc # "idle"
            \/ /\ worker[w].pc \in Serving
               /\ worker'[w].pc \in Serving \ {"count", "failcount"}
<1>1. worker \in [Worker -> WorkerType] /\ worker[w] \in WorkerType
  BY DEF TInv, TypeOK
<1>2. CASE Plan(w) \/ Allocate(w)
  <2>1. PICK v, i : \/ worker' = [worker EXCEPT ![w].pc = "allocate", ![w].vm = v]
                    \/ worker' = [worker EXCEPT ![w].pc = "create", ![w].ip = i]
    BY <1>2 DEF Plan, Allocate
  <2> QED
    BY <1>1, <1>2, <2>1 DEF WorkerType, Plan, Allocate, At, Serving, Step
<1>3. CASE PlanFails(w) \/ Create(w) \/ CreateFails(w)
  BY <1>1, <1>3 DEF PlanFails, Create, CreateFails, Go, Leave, WorkerType, At, Serving, Step
<1>4. CASE Register(w) \/ RegisterFails(w)
  BY <1>1, <1>4 DEF Register, RegisterFails, Go, Leave, WorkerType, At, Serving, Step, rows
<1>5. CASE Release(w) \/ Destroy(w) \/ ReleaseFails(w) \/ DestroyFails(w)
  BY <1>1, <1>5 DEF Release, Destroy, ReleaseFails, DestroyFails, AfterRelease, Go, Leave,
     WorkerType, At, Serving, Step, rows
<1>6. CASE CreateUnseen(w) \/ Hang(w)
  BY <1>1, <1>6 DEF CreateUnseen, Hang, Go, WorkerType, At, Serving, Step, rows
<1>7. CASE OutcomeFails(w) \/ Crash(w)
  BY <1>1, <1>7 DEF OutcomeFails, Crash, Go, Leave, WorkerType, Serving, Step, rows
<1> QED
  BY <1>2, <1>3, <1>4, <1>5, <1>6, <1>7 DEF Trouble

LEMMA SilentCounts ==
  ASSUME TInv, OneInv, CInv, NEW w \in Worker, Trouble(w) \/ Plan(w) \/ PlanFails(w) \/ Allocate(w)
         \/ Create(w) \/ CreateFails(w) \/ Register(w) \/ RegisterFails(w) \/ Release(w) \/ Destroy(w)
  PROVE  CInv'
<1>1. Queue(w) \/ Trouble(w)
  BY DEF Queue
<1>2. job' = job /\ task' = task /\ outcome' = outcome
  BY SilentStep DEF rows
<1>3. PICK j \in Job : j = worker[w].job
  BY <1>1, Alone, MemberNumbers DEF TInv, Mind
<1>4. JobInv(j)'
  <2>1. \A u \in Worker : worker'[u].job = worker[u].job /\ worker'[u].on = worker[u].on
    BY <1>1, Alone, SilentStep
  <2>2. \A t \in Task : Held(t)' <=> Held(t)
    BY <2>1 DEF Held
  <2> QED
    BY <1>2, <1>3, <2>2, JobFrame DEF CInv
<1>5. ThreadInv(w)'
  <2>1. ThreadInv(w)
    BY DEF CInv
  <2>2. /\ worker'[w].job = worker[w].job /\ worker'[w].on = worker[w].on /\ worker'[w].todo = worker[w].todo
        /\ \/ worker'[w].pc = "dead" /\ worker[w].pc # "idle"
           \/ /\ worker[w].pc \in Serving
              /\ worker'[w].pc \in Serving \ {"count", "failcount"}
    BY SilentStep
  <2>3. {"start", "dead"} \cap Serving = {} /\ "count" \in Serving /\ "failcount" \in Serving
    BY DEF Serving, Step
  <2>4. Todo(w) => Todo(w)'
    BY <1>2, <2>2, <2>3 DEF Todo, Here
  <2>5. Served(w) => Served(w)'
    BY <1>2, <2>2, <2>3 DEF Served, TaskOf
  <2> QED
    BY <1>2, <2>1, <2>2, <2>4, <2>5 DEF ThreadInv, Exists
<1>6. \A t \in Task : Agrees(t)'
  BY <1>2 DEF CInv, Agrees, Here, Exists
<1> QED
  BY <1>1, <1>2, <1>3, <1>4, <1>5, <1>6, ThreadStep

\* The tasks of a job are held by its thread alone.
LEMMA Holder ==
  ASSUME TInv, OneInv, NEW w \in Worker, Queue(w) \/ Trouble(w), NEW j \in Job, j = worker[w].job
  PROVE  \A t \in Task : t[1] = j =>
           /\ Held(t) <=> worker[w].on = t[2]
           /\ Held(t)' <=> worker'[w].job = j /\ worker'[w].on = t[2]
  BY Alone, MemberNumbers DEF Held, OneInv, OneQueue

\* A job whose rows are gone: nothing is counted any more.
LEMMA GoneCounts ==
  ASSUME TInv, OneInv, CInv, NEW w \in Worker, Queue(w), ~Exists(worker[w].job)
  PROVE  CInv'
<1>1. PICK j \in Job : j = worker[w].job
  BY Alone, MemberNumbers DEF TInv, Mind
<1>2. job[j].status = "gone"
  BY <1>1 DEF Exists
<1>2a. \A t \in Task : t[1] = j => ~Here(t)
  BY <1>1 DEF CInv, Agrees
<1>3. CASE Start(w) \/ Take(w) \/ Skip(w) \/ Finish(w) \/ Report(w) \/ Count(w) \/ Fail(w)
        \/ FailCount(w)
  <2>1. job' = job
    BY <1>1, <1>2, <1>3 DEF Start, Take, Skip, Finish, Report, Count, Fail, FailCount, SetJob, JobOf,
       Exists, rows
  <2>2. task' = task /\ outcome' = outcome
    <3>1. CASE Start(w) \/ Skip(w) \/ Finish(w) \/ Count(w) \/ FailCount(w)
      BY <3>1 DEF Start, Skip, Finish, Count, FailCount, rows
    <3>2. CASE Take(w)
      <4>1. PICK m \in Members[j] : Here(<<j, m>>)
        BY <1>1, <3>2 DEF Take, JobOf
      <4> QED
        BY <1>2a, <4>1, TaskType
    <3>3. CASE Report(w) \/ Fail(w)
      <4>1. TaskOf(w) \in Task /\ TaskOf(w)[1] = j
        BY <1>1, <3>3, ServingTypes DEF Report, Fail, At, Serving, Step, TaskOf
      <4>2. task[TaskOf(w)].status = "gone" /\ ~Exists(TaskOf(w)[1])
        BY <1>2, <1>2a, <4>1 DEF Here, Exists
      <4> QED
        BY <3>3, <4>2 DEF Report, Fail, SetTask
    <3> QED
      BY <1>3, <3>1, <3>2, <3>3
  <2>3. JobInv(j)' /\ (worker'[w].job # Nothing => job'[worker'[w].job].status = "gone")
    BY <1>1, <1>2, <2>1, Alone DEF JobInv, Exists
  <2>4. ThreadInv(w)'
    BY <2>3 DEF ThreadInv, Exists
  <2>5. \A t \in Task : Agrees(t)'
    BY <2>1, <2>2 DEF CInv, Agrees, Here, Exists
  <2> QED
    BY <1>1, <2>1, <2>2, <2>3, <2>4, <2>5, ThreadStep
<1> QED
  BY <1>3, SilentCounts DEF Queue

LEMMA StartCounts ==
  ASSUME TInv, OneInv, CInv, NEW w \in Worker, Start(w), Exists(worker[w].job)
  PROVE  CInv'
<1>1. Queue(w) /\ worker[w].pc = "start" /\ worker[w] \in WorkerType /\ worker[w].on = Nothing
  BY DEF Queue, Start, At, TInv, TypeOK, Mind
<1>2. PICK j \in Job : j = worker[w].job
  BY <1>1, Alone, MemberNumbers DEF TInv, Mind
<1>3. job' = [job EXCEPT ![j].status = "running"] /\ task' = task /\ outcome' = outcome
  BY <1>2 DEF Start, SetJob, JobOf, TInv, TypeOK
<1>4. /\ worker'[w].pc = "next" /\ worker'[w].job = j /\ worker'[w].on = Nothing
      /\ worker'[w].todo = {m \in Members[j] : task[<<j, m>>].status = "pending"}
  BY <1>1, <1>2 DEF Start, JobOf, TInv, TypeOK, WorkerType
<1>5. JobInv(j)'
  <2>1. \A t \in Task : t[1] = j => (Held(t)' <=> Held(t))
    BY <1>1, <1>2, <1>4, Holder
  <2>2. \A s : Settled(j, s)' = Settled(j, s)
    BY <1>3, <2>1 DEF Settled
  <2>3. /\ job'[j].status = "running" /\ job'[j].done = job[j].done
        /\ job'[j].failed = job[j].failed
    BY <1>3 DEF TInv, TypeOK
  <2>4. Counted(j) /\ Ongoing(j)
    BY <1>2 DEF CInv, JobInv
  <2> QED
    BY <1>3, <2>1, <2>2, <2>3, <2>4 DEF JobInv, Counted, Ongoing, Judged
<1>6. ThreadInv(w)'
  <2>1. \A t \in Task : t[1] = j => t[2] \in Members[j] /\ t = <<j, t[2]>>
    BY TaskParts
  <2>2. job'[j].status = "running"
    BY <1>3 DEF TInv, TypeOK
  <2>3. \A m \in worker'[w].todo : <<j, m>> \in Task /\ outcome'[<<j, m>>] = "pending"
    BY <1>3, <1>4, TaskType DEF CInv, Agrees, Here
  <2>4. \A t \in Task : t[1] = j /\ outcome[t] = "pending" /\ Here(t) => t[2] \in worker'[w].todo
    BY <1>4, <2>1 DEF CInv, Agrees
  <2>5. Todo(w)'
    BY <1>3, <1>4, <2>3, <2>4 DEF Todo, Here
  <2>6. Served(w)'
    BY <1>4 DEF Served, Serving
  <2> QED
    BY <1>4, <2>2, <2>5, <2>6 DEF ThreadInv
<1>7. \A t \in Task : t[1] = j => Agrees(t)'
  BY <1>2, <1>3, <1>6, <1>4 DEF CInv, Agrees, Here, Exists, ThreadInv
<1> QED
  BY <1>1, <1>2, <1>3, <1>5, <1>6, <1>7, ThreadStep DEF TInv, TypeOK

LEMMA TakeCounts ==
  ASSUME TInv, OneInv, CInv, NEW w \in Worker, Take(w), Exists(worker[w].job)
  PROVE  CInv'
<1>1. Queue(w) /\ worker[w].pc = "next" /\ worker[w] \in WorkerType /\ worker[w].on = Nothing
  BY DEF Queue, Take, At, TInv, TypeOK, Mind
<1>2. PICK j \in Job : j = worker[w].job
  BY <1>1, Alone, MemberNumbers DEF TInv, Mind
<1>3. PICK m \in Members[j] :
        /\ m \in worker[w].todo /\ Here(<<j, m>>)
        /\ SetTask(<<j, m>>, [task[<<j, m>>] EXCEPT !.status = "running"])
        /\ worker' = [worker EXCEPT ![w].pc = "plan", ![w].on = m, ![w].todo = worker[w].todo \ {m}]
  BY <1>2 DEF Take, First, JobOf
<1>4. job' = job
  BY DEF Take
<1>5. <<j, m>> \in Task /\ task[<<j, m>>] \in [status : TaskStatus, vm : Vmid \cup {Nothing}]
  BY TaskType, RowTypes
<1>6. /\ worker'[w].pc = "plan" /\ worker'[w].job = j /\ worker'[w].on = m
      /\ worker'[w].todo = worker[w].todo \ {m}
  BY <1>1, <1>2, <1>3 DEF TInv, TypeOK, WorkerType
<1>7. /\ task'[<<j, m>>].status = "running" /\ outcome'[<<j, m>>] = "running"
      /\ \A t \in Task : t # <<j, m>> => task'[t] = task[t] /\ outcome'[t] = outcome[t]
  <2>1. task' = [task EXCEPT ![<<j, m>>] = [task[<<j, m>>] EXCEPT !.status = "running"]]
    BY <1>3 DEF SetTask, Here
  <2>2. outcome' = [outcome EXCEPT ![<<j, m>>] = "running"]
    BY <1>2, <1>3, <1>5 DEF SetTask
  <2> QED
    BY <1>5, <2>1, <2>2 DEF TInv, TypeOK
<1>8. \A t \in Task : t[1] = j => t[2] \in Members[j] /\ t = <<j, t[2]>> /\ t[2] # Nothing
  BY TaskParts, MemberNumbers
<1>9. ThreadInv(w) /\ JobInv(j)
  BY DEF CInv
<1>10. Todo(w) /\ job[j].status \in {"approved", "running"} /\ outcome[<<j, m>>] = "pending"
  BY <1>2, <1>3, <1>9, MemberNumbers DEF ThreadInv, Todo
<1>11. JobInv(j)'
  <2>1. \A t \in Task : t[1] = j => ~Held(t) /\ (Held(t)' <=> t = <<j, m>>)
    BY <1>1, <1>2, <1>6, <1>8, Holder
  <2>2. \A s \in {"completed", "failed"} : Settled(j, s)' = Settled(j, s)
    <3> SUFFICES ASSUME NEW s \in {"completed", "failed"}, NEW t \in Task
                 PROVE  t \in Settled(j, s)' <=> t \in Settled(j, s)
      BY DEF Settled
    <3> QED
      BY <1>7, <1>10, <2>1 DEF Settled
  <2>3. Counted(j) /\ Ongoing(j) /\ Judged(j)
    BY <1>2, <1>9 DEF JobInv
  <2>4. Counted(j)' /\ Judged(j)'
    BY <1>4, <1>10, <2>2, <2>3 DEF Counted, Judged
  <2>5. Ongoing(j)'
    BY <1>7, <2>1, <2>3 DEF Ongoing
  <2> QED
    BY <2>4, <2>5 DEF JobInv
<1>12. ThreadInv(w)'
  <2>1. Todo(w)'
    <3>1. \A n \in worker[w].todo \ {m} : <<j, n>> \in Task /\ <<j, n>> # <<j, m>>
      BY <1>1, <1>2, TaskType DEF TInv, Mind
    <3>2. \A t \in Task : t[1] = j /\ outcome'[t] = "pending" /\ Here(t)' =>
             t[2] \in worker[w].todo /\ t[2] # m
      BY <1>1, <1>2, <1>7, <1>8, <1>10 DEF Todo, Here
    <3> QED
      BY <1>2, <1>6, <1>7, <1>10, <3>1, <3>2 DEF Todo
  <2>2. Served(w)'
    BY <1>6, <1>7 DEF Served, TaskOf
  <2> QED
    BY <1>4, <1>6, <1>10, <2>1, <2>2 DEF ThreadInv
<1>13. \A t \in Task : t[1] # j => task'[t] = task[t] /\ outcome'[t] = outcome[t]
  BY <1>7
<1>14. \A t \in Task : t[1] = j => Agrees(t)'
  BY <1>2, <1>4, <1>7 DEF CInv, Agrees, Here, Exists
<1> QED
  BY <1>1, <1>2, <1>4, <1>11, <1>12, <1>13, <1>14, ThreadStep

\* A task that is gone leaves the list of the thread.
LEMMA SkipCounts ==
  ASSUME TInv, OneInv, CInv, NEW w \in Worker, Skip(w), Exists(worker[w].job)
  PROVE  CInv'
<1>1. Queue(w) /\ worker[w].pc = "next" /\ worker[w] \in WorkerType
  BY DEF Queue, Skip, At, TInv, TypeOK
<1>2. PICK j \in Job : j = worker[w].job
  BY <1>1, Alone, MemberNumbers DEF TInv, Mind
<1>3. PICK m \in Members[j] : /\ ~Here(<<j, m>>)
                              /\ worker' = [worker EXCEPT ![w].todo = worker[w].todo \ {m}]
  BY <1>2 DEF Skip, JobOf
<1>4. job' = job /\ task' = task /\ outcome' = outcome
  BY DEF Skip, rows
<1>5. /\ worker'[w].pc = "next" /\ worker'[w].job = j /\ worker'[w].on = worker[w].on
      /\ worker'[w].todo = worker[w].todo \ {m}
  BY <1>1, <1>2, <1>3 DEF TInv, TypeOK, WorkerType
<1>6. JobInv(j)'
  <2>1. \A t \in Task : t[1] = j => (Held(t)' <=> Held(t))
    BY <1>1, <1>2, <1>5, Holder
  <2> QED
    BY <1>4, <2>1, JobFrame DEF CInv
<1>7. ThreadInv(w)'
  <2>1. Todo(w) /\ job[j].status \in {"approved", "running"}
    BY <1>2, MemberNumbers DEF CInv, ThreadInv
  <2>2. \A t \in Task : t[1] = j /\ Here(t) => t[2] # m
    BY <1>3, TaskParts
  <2>3. Todo(w)'
    BY <1>1, <1>2, <1>4, <1>5, <2>1, <2>2 DEF Todo, Here
  <2>4. Served(w)'
    BY <1>5 DEF Served, Serving
  <2> QED
    BY <1>4, <1>5, <2>1, <2>3, <2>4 DEF ThreadInv
<1>8. \A t \in Task : Agrees(t)'
  BY <1>4 DEF CInv, Agrees, Here, Exists
<1> QED
  BY <1>1, <1>2, <1>4, <1>6, <1>7, <1>8, ThreadStep

LEMMA FinishCounts ==
  ASSUME TInv, OneInv, CInv, NEW w \in Worker, Finish(w), Exists(worker[w].job)
  PROVE  CInv'
<1>1. /\ Queue(w) /\ worker[w].pc = "next" /\ worker[w] \in WorkerType /\ worker[w].on = Nothing
      /\ worker[w].todo = {}
  BY DEF Queue, Finish, At, TInv, TypeOK, Mind
<1>2. PICK j \in Job : j = worker[w].job
  BY <1>1, Alone, MemberNumbers DEF TInv, Mind
<1> DEFINE row == job[j]
           final == IF row.failed > 0 /\ row.done = 0 THEN "failed" ELSE "completed"
<1>3. /\ job' = [job EXCEPT ![j].status = final] /\ task' = task /\ outcome' = outcome
      /\ worker'[w] = Rest
  BY <1>2 DEF Finish, SetJob, JobOf, TInv, TypeOK
<1>4. job'[j].status = final /\ job'[j].done = row.done /\ job'[j].failed = row.failed
  BY <1>3 DEF TInv, TypeOK
<1>5. Counted(j) /\ Ongoing(j) /\ Todo(w)
  BY <1>2, MemberNumbers DEF CInv, JobInv, ThreadInv
<1>6. JobInv(j)'
  <2>1. \A t \in Task : t[1] = j => ~Held(t) /\ ~Held(t)'
    BY <1>1, <1>2, <1>3, TaskParts, MemberNumbers, Holder DEF Rest
  <2>2. \A s : Settled(j, s)' = Settled(j, s)
    BY <1>3, <2>1 DEF Settled
  <2>3. \A t \in Task : t[1] = j /\ outcome[t] = "pending" => task[t].status = "gone"
    BY <1>1, <1>2, <1>5 DEF Todo, Here
  <2>4. Judged(j)'
    BY <1>3, <1>4, <2>3 DEF Judged
  <2>5. Ongoing(j)'
    BY <1>3, <1>5, <2>1 DEF Ongoing
  <2>6. Counted(j)'
    BY <1>4, <1>5, <2>2 DEF Counted
  <2> QED
    BY <2>4, <2>5, <2>6 DEF JobInv
<1>7. ThreadInv(w)'
  BY <1>3 DEF ThreadInv, Rest
<1>8. \A t \in Task : t[1] = j => Agrees(t)'
  BY <1>3, <1>4 DEF CInv, Agrees, Here, Exists
<1> QED
  BY <1>1, <1>2, <1>3, <1>6, <1>7, <1>8, ThreadStep DEF TInv, TypeOK

\* The outcome in the task: the thread still holds it.
LEMMA OutcomeCounts ==
  ASSUME TInv, OneInv, CInv, NEW w \in Worker, Report(w) \/ Fail(w), Exists(worker[w].job)
  PROVE  CInv'
<1>1. Queue(w) /\ worker[w].pc \in Serving /\ worker[w] \in WorkerType
  BY DEF Queue, Report, Fail, At, Serving, Step, TInv, TypeOK
<1>2. PICK j \in Job : j = worker[w].job
  BY <1>1, Alone, MemberNumbers DEF TInv, Mind
<1>3. PICK t \in Task : t = TaskOf(w) /\ t[1] = j /\ t[2] = worker[w].on
  BY <1>1, <1>2, ServingTypes DEF TaskOf
<1>4. job' = job
  BY DEF Report, Fail
<1>5. /\ \A u \in Task \ {t} : task'[u] = task[u] /\ outcome'[u] = outcome[u]
      /\ Report(w) => outcome'[t] = "completed"
      /\ Fail(w) => outcome'[t] = "failed"
      /\ task'[t].status \in {outcome'[t], "gone"} /\ (Here(t)' => Here(t))
  <2>1. task[t] \in [status : TaskStatus, vm : Vmid \cup {Nothing}] /\ Exists(t[1])
    BY <1>2, <1>3 DEF TInv, TypeOK
  <2>2. PICK row : /\ SetTask(t, row)
                   /\ row \in [status : TaskStatus, vm : Vmid \cup {Nothing}]
                   /\ row.status \in {"completed", "failed"}
                   /\ row.status = IF At(w, "report") THEN "completed" ELSE "failed"
    <3>1. CASE Report(w)
      <4> DEFINE row == [status |-> "completed", vm |-> worker[w].vm]
      <4>1. row \in [status : TaskStatus, vm : Vmid \cup {Nothing}] /\ row.status = "completed"
        BY <1>1 DEF TaskStatus, WorkerType
      <4>2. SetTask(t, row) /\ At(w, "report")
        BY <1>3, <3>1 DEF Report
      <4> HIDE DEF row
      <4> QED
        BY <4>1, <4>2
    <3>2. CASE Fail(w)
      <4> DEFINE row == [task[t] EXCEPT !.status = "failed"]
      <4>1. row \in [status : TaskStatus, vm : Vmid \cup {Nothing}] /\ row.status = "failed"
        BY <2>1 DEF TaskStatus
      <4>2. SetTask(t, row) /\ ~At(w, "report")
        BY <1>3, <3>2 DEF Fail, At
      <4> HIDE DEF row
      <4> QED
        BY <4>1, <4>2
    <3> QED
      BY <3>1, <3>2
  <2>3. outcome' = [outcome EXCEPT ![t] = row.status]
        /\ task' = IF task[t].status # "gone" THEN [task EXCEPT ![t] = row] ELSE task
    BY <2>1, <2>2 DEF SetTask
  <2>4. (Report(w) => At(w, "report")) /\ (Fail(w) => ~At(w, "report"))
    BY DEF Report, Fail, At
  <2> QED
    BY <1>3, <2>2, <2>3, <2>4 DEF TInv, TypeOK, Here
<1>6. /\ worker'[w].job = j /\ worker'[w].on = worker[w].on /\ worker'[w].todo = worker[w].todo
      /\ Report(w) => worker'[w].pc = "count"
      /\ Fail(w) => worker'[w].pc = "failcount"
  <2>1. Report(w) => worker' = [worker EXCEPT ![w].pc = "count"]
    BY DEF Report, Go
  <2>2. Fail(w) => worker' = [worker EXCEPT ![w].pc = "failcount"]
    BY DEF Fail, Go
  <2> QED
    BY <1>1, <1>2, <2>1, <2>2 DEF TInv, TypeOK, WorkerType
<1>7. ThreadInv(w) /\ JobInv(j)
  BY DEF CInv
<1>8. Todo(w) /\ Served(w) /\ job[j].status \in {"approved", "running"}
  BY <1>2, <1>7, MemberNumbers DEF ThreadInv
<1>9. JobInv(j)'
  <2>1. \A u \in Task : u[1] = j => (Held(u)' <=> Held(u))
    BY <1>1, <1>2, <1>6, Holder
  <2>2. Held(t) /\ Held(t)'
    BY <1>1, <1>2, <1>3, <1>6, Holder
  <2>3. \A s : Settled(j, s)' = Settled(j, s)
    <3> SUFFICES ASSUME NEW s, NEW u \in Task PROVE u \in Settled(j, s)' <=> u \in Settled(j, s)
      BY DEF Settled
    <3> QED
      BY <1>5, <2>1, <2>2 DEF Settled
  <2>4. Counted(j) /\ Ongoing(j) /\ Judged(j)
    BY <1>2, <1>7 DEF JobInv
  <2>5. Counted(j)' /\ Judged(j)'
    BY <1>4, <1>8, <2>3, <2>4 DEF Counted, Judged
  <2>6. Ongoing(j)'
    BY <1>5, <2>1, <2>2, <2>4 DEF Ongoing
  <2> QED
    BY <2>5, <2>6 DEF JobInv
<1>10. ThreadInv(w)'
  <2>1. Served(w)'
    BY <1>2, <1>3, <1>5, <1>6 DEF Served, TaskOf
  <2>2. outcome[t] # "pending" /\ outcome'[t] # "pending"
    BY <1>1, <1>3, <1>5, <1>8 DEF Served
  <2>3. Todo(w)'
    <3>1. \A m \in worker[w].todo : <<j, m>> \in Task /\ <<j, m>> # t
      BY <1>1, <1>2, <1>8, <2>2, TaskType, Alone DEF TInv, Mind, Todo
    <3>2. worker[w].pc \notin {"start", "dead"}
      BY <1>1 DEF Serving
    <3>3. \A u \in Task : u[1] = j /\ outcome'[u] = "pending" /\ Here(u)' =>
             outcome[u] = "pending" /\ Here(u)
      BY <1>5, <2>2 DEF Here
    <3> QED
      BY <1>2, <1>5, <1>6, <1>8, <3>1, <3>2, <3>3 DEF Todo
  <2> QED
    BY <1>4, <1>6, <1>8, <2>1, <2>3 DEF ThreadInv
<1>11. \A u \in Task : u[1] # j => task'[u] = task[u] /\ outcome'[u] = outcome[u]
  BY <1>3, <1>5
<1>12. ASSUME NEW u \in Task, u[1] = j PROVE Agrees(u)'
  BY <1>2, <1>4, <1>5, <1>12 DEF CInv, Agrees, Here, Exists
<1> QED
  BY <1>1, <1>2, <1>4, <1>9, <1>10, <1>11, <1>12, ThreadStep

\* The counter: the thread lets go of the task.
LEMMA CounterCounts ==
  ASSUME TInv, OneInv, CInv, NEW w \in Worker, Count(w) \/ FailCount(w), Exists(worker[w].job)
  PROVE  CInv'
<1>1. /\ Queue(w) /\ worker[w].pc \in Serving /\ worker[w] \in WorkerType
      /\ Count(w) => worker[w].pc = "count"
      /\ FailCount(w) => worker[w].pc = "failcount"
  BY DEF Queue, Count, FailCount, At, Serving, Step, TInv, TypeOK
<1>2. PICK j \in Job : j = worker[w].job
  BY <1>1, Alone, MemberNumbers DEF TInv, Mind
<1>3. PICK t \in Task : t = TaskOf(w) /\ t[1] = j /\ t[2] = worker[w].on
  BY <1>1, <1>2, ServingTypes DEF TaskOf
<1>4. task' = task /\ outcome' = outcome
  BY DEF Count, FailCount
<1>5. job[j] \in [status : JobStatus, done : Nat, failed : Nat]
  BY DEF TInv, TypeOK
<1>6. /\ Count(w) => job'[j] = [job[j] EXCEPT !.done = @ + 1]
      /\ FailCount(w) => job'[j] = [job[j] EXCEPT !.failed = @ + 1]
      /\ \A i \in Job \ {j} : job'[i] = job[i]
  BY <1>2 DEF Count, FailCount, SetJob, JobOf, TInv, TypeOK
<1>7. /\ worker'[w].job = j /\ worker'[w].on = Nothing /\ worker'[w].todo = worker[w].todo
      /\ worker'[w].pc = "next"
  <2>1. worker' = [worker EXCEPT ![w] =
                     [Rest EXCEPT !.pc = "next", !.job = JobOf(w), !.todo = worker[w].todo]]
    BY DEF Count, FailCount, Forward
  <2>2. worker \in [Worker -> WorkerType]
    BY DEF TInv, TypeOK
  <2> QED
    BY <1>2, <2>1, <2>2 DEF JobOf, Rest
<1>8. ThreadInv(w) /\ JobInv(j)
  BY DEF CInv
<1>9. Todo(w) /\ Served(w) /\ job[j].status \in {"approved", "running"}
  BY <1>2, <1>8, MemberNumbers DEF ThreadInv
<1>10. Counted(j) /\ Ongoing(j)
  BY <1>2, <1>8 DEF JobInv
<1>11. /\ \A u \in Task : u[1] = j => ~Held(u)' /\ (Held(u) <=> u = t)
  <2>1. \A u \in Task : u = <<u[1], u[2]>> /\ (u[1] = j => u[2] # Nothing)
    BY TaskParts, MemberNumbers
  <2> QED
    BY <1>1, <1>2, <1>3, <1>7, <2>1, Holder
<1>12. job'[j].status = job[j].status
  BY <1>1, <1>5, <1>6
<1>13. JobInv(j)'
  <2>1. ASSUME NEW s \in {"completed", "failed"}
        PROVE  /\ IsFiniteSet(Settled(j, s)) /\ t \notin Settled(j, s)
               /\ outcome[t] = s => Settled(j, s)' = Settled(j, s) \cup {t}
               /\ outcome[t] # s => Settled(j, s)' = Settled(j, s)
    <3>1. IsFiniteSet(Settled(j, s))
      BY TasksOfJob DEF Settled
    <3>2. t \notin Settled(j, s)
      BY <1>3, <1>11 DEF Settled
    <3>3. \A u \in Task : u \in Settled(j, s)' <=> u \in Settled(j, s) \/ (u = t /\ outcome[t] = s)
      BY <1>3, <1>4, <1>11 DEF Settled
    <3>4. Settled(j, s)' \subseteq Task /\ Settled(j, s) \subseteq Task
      BY DEF Settled
    <3> QED
      BY <3>1, <3>2, <3>3, <3>4
  <2>2. ASSUME NEW s \in {"completed", "failed"}
        PROVE  /\ outcome[t] = s =>
                    Cardinality(Settled(j, s)') = Cardinality(Settled(j, s)) + 1
               /\ outcome[t] # s => Cardinality(Settled(j, s)') = Cardinality(Settled(j, s))
    BY <2>1, <2>2, FS_AddElement
  <2>3. /\ Count(w) => outcome[t] = "completed"
        /\ FailCount(w) => outcome[t] = "failed"
    BY <1>1, <1>3, <1>9 DEF Served
  <2>4. Counted(j)'
    <3>1. CASE Count(w)
      BY <1>5, <1>6, <1>10, <2>2, <2>3, <3>1 DEF Counted
    <3>2. CASE FailCount(w)
      BY <1>5, <1>6, <1>10, <2>2, <2>3, <3>2 DEF Counted
    <3> QED
      BY <3>1, <3>2
  <2>5. Ongoing(j)'
    BY <1>3, <1>4, <1>10, <1>11, <2>3 DEF Ongoing
  <2>6. Judged(j)'
    BY <1>9, <1>12 DEF Judged
  <2> QED
    BY <2>4, <2>5, <2>6 DEF JobInv
<1>14. ThreadInv(w)'
  <2>1. Served(w)'
    BY <1>7 DEF Served, Serving
  <2>2. worker[w].pc \notin {"start", "dead"}
    BY <1>1 DEF Serving
  <2>3. Todo(w)'
    BY <1>2, <1>4, <1>7, <1>9, <2>2 DEF Todo, Here
  <2> QED
    BY <1>7, <1>9, <1>12, <2>1, <2>3 DEF ThreadInv
<1>15. \A u \in Task : u[1] = j => Agrees(u)'
  BY <1>4, <1>9, <1>12 DEF CInv, Agrees, Here, Exists
<1> QED
  BY <1>1, <1>2, <1>4, <1>6, <1>13, <1>14, <1>15, ThreadStep

LEMMA DecisionCounts ==
  ASSUME TInv, OneInv, CInv, NEW j \in Job,
         Reject(j) \/ DeleteGroup(j) \/ \E w \in Worker : Approve(w, j)
  PROVE  CInv'
<1>1. \A i \in Job \ {j} : job'[i] = job[i]
  BY DEF Reject, DeleteGroup, Approve, Transition, TInv, TypeOK
<1>2. \A t \in Task : t[1] # j => task'[t] = task[t] /\ outcome'[t] = outcome[t]
  BY DEF Reject, DeleteGroup, Approve, TInv, TypeOK
<1>3. job[j] \in [status : JobStatus, done : Nat, failed : Nat]
  BY DEF TInv, TypeOK
<1>4. \A t \in Task : Held(t)' <=> Held(t)
  <2>1. CASE Reject(j) \/ DeleteGroup(j)
    BY <2>1 DEF Reject, DeleteGroup, Held
  <2>2. ASSUME NEW w \in Worker, Approve(w, j) PROVE \A t \in Task : Held(t)' <=> Held(t)
    <3>1. worker[w].on = Nothing
      BY <2>2 DEF Approve, First, TInv, Mind, Rest
    <3>2. worker' = [worker EXCEPT ![w] = [Rest EXCEPT !.pc = "start", !.job = j]]
      BY <2>2 DEF Approve
    <3>3. /\ worker'[w].on = Nothing
          /\ \A u \in Worker \ {w} : worker'[u] = worker[u]
      BY <3>2 DEF Rest, TInv, TypeOK
    <3> QED
      BY <3>1, <3>3, TaskParts, MemberNumbers DEF Held
  <2> QED
    BY <2>1, <2>2
<1>5. ASSUME NEW i \in Job PROVE JobInv(i)'
  <2>1. CASE i # j
    BY <1>1, <1>2, <1>4, <2>1, JobFrame DEF CInv
  <2>2. CASE i = j /\ DeleteGroup(j)
    BY <2>2 DEF DeleteGroup, JobInv, Exists, TInv, TypeOK
  <2>3. CASE i = j /\ ~DeleteGroup(j)
    <3>1. PICK d \in {"approved", "rejected"} :
            Transition(j, d) /\ task' = task /\ outcome' = outcome
      BY <2>3 DEF Reject, Approve
    <3>2. /\ job'[j].done = job[j].done /\ job'[j].failed = job[j].failed
          /\ job'[j].status \in {"approved", "rejected"} /\ job[j].status = "pending_review"
      BY <1>3, <3>1 DEF Transition, TInv, TypeOK
    <3>3. \A s : Settled(j, s)' = Settled(j, s)
      BY <1>4, <3>1 DEF Settled
    <3>4. Counted(j) /\ Ongoing(j)
      BY <3>2 DEF CInv, JobInv, Exists
    <3> QED
      BY <1>4, <2>3, <3>1, <3>2, <3>3, <3>4 DEF JobInv, Counted, Ongoing, Judged
  <2> QED
    BY <2>1, <2>2, <2>3
<1>6. ASSUME NEW u \in Worker, worker'[u] = worker[u] PROVE ThreadInv(u)'
  <2>1. worker[u].job \in Job \cup {Nothing}
    BY DEF TInv, TypeOK, WorkerType
  <2>2. worker[u].job = j => job'[j].status = "gone"
    <3>1. CASE DeleteGroup(j)
      BY <3>1 DEF DeleteGroup, TInv, TypeOK
    <3>2. CASE job[j].status = "pending_review"
      BY <3>2, MemberNumbers DEF OneInv, Decided
    <3> QED
      BY <3>1, <3>2 DEF Reject, Approve, Transition
  <2>3. ThreadInv(u)
    BY DEF CInv
  <2>4. \A t \in Task : t[1] = worker[u].job /\ job'[t[1]].status # "gone" =>
           outcome'[t] = outcome[t] /\ (Here(t)' => Here(t))
    BY <1>2, <2>2 DEF Here
  <2> QED
    BY <1>1, <1>6, <2>1, <2>2, <2>3, <2>4, ThreadFrame
<1>7. ASSUME NEW w \in Worker, Approve(w, j) PROVE \A u \in Worker : ThreadInv(u)'
  <2>1. /\ worker'[w].job = j /\ worker'[w].pc = "start" /\ worker'[w].todo = {}
        /\ \A u \in Worker \ {w} : worker'[u] = worker[u]
    BY <1>7 DEF Approve, Rest, TInv, TypeOK
  <2>2. job'[j].status = "approved"
    BY <1>7 DEF Approve, Transition, TInv, TypeOK
  <2>3. ThreadInv(w)'
    BY <2>1, <2>2 DEF ThreadInv, Todo, Served, Serving
  <2> QED
    BY <1>6, <2>1, <2>3
<1>8. \A u \in Worker : ThreadInv(u)'
  BY <1>6, <1>7 DEF Reject, DeleteGroup
<1>9. ASSUME NEW t \in Task PROVE Agrees(t)'
  <2>1. Agrees(t) /\ t[1] \in Job
    BY TaskParts DEF CInv
  <2>2. CASE t[1] # j
    BY <1>1, <1>2, <2>1, <2>2 DEF Agrees, Here, Exists
  <2>3. CASE t[1] = j /\ DeleteGroup(j)
    BY <2>3 DEF DeleteGroup, Agrees, Here
  <2>4. CASE t[1] = j /\ ~DeleteGroup(j)
    <3>1. PICK d \in {"approved", "rejected"} :
            Transition(j, d) /\ task' = task /\ outcome' = outcome
      BY <2>4 DEF Reject, Approve
    <3>2. job'[j].status # "gone"
      BY <1>3, <3>1 DEF Transition, TInv, TypeOK
    <3> QED
      BY <2>1, <2>4, <3>1, <3>2 DEF Agrees, Here, Exists
  <2> QED
    BY <2>2, <2>3, <2>4
<1> QED
  BY <1>5, <1>8, <1>9 DEF CInv

\* Steps that leave the jobs and the threads alone; rows of tasks may go.
LEMMA QuietCounts ==
  ASSUME TInv, CInv, job' = job, worker' = worker, outcome' = outcome,
         \A t \in Task : task'[t].status \in {task[t].status, "gone"}
  PROVE  CInv'
<1>1. \A t \in Task : Held(t)' <=> Held(t)
  BY DEF Held
<1>2. \A j \in Job : JobInv(j)'
  BY <1>1, JobFrame DEF CInv
<1>3. \A t \in Task : Here(t)' => Here(t)
  BY DEF Here
<1>4. \A w \in Worker : ThreadInv(w)'
  BY <1>3, ThreadFrame DEF CInv
<1>5. \A t \in Task : Agrees(t)'
  BY DEF CInv, Agrees, Here, Exists
<1> QED
  BY <1>2, <1>4, <1>5 DEF CInv

LEMMA StepCounts == TInv /\ OneInv /\ CInv /\ [Next]_vars => CInv'
<1> SUFFICES ASSUME TInv, OneInv, CInv, [Next]_vars PROVE CInv'
  OBVIOUS
<1>1. CASE UNCHANGED vars
  BY <1>1, QuietCounts DEF vars, rows
<1>2. ASSUME NEW j \in Job, Reject(j) \/ DeleteGroup(j) \/ \E w \in Worker : Approve(w, j)
      PROVE  CInv'
  BY <1>2, DecisionCounts
<1>3. ASSUME NEW w \in Worker, Queue(w) \/ Trouble(w) PROVE CInv'
  BY <1>3, GoneCounts, SilentCounts, StartCounts, TakeCounts, SkipCounts, FinishCounts,
     OutcomeCounts, CounterCounts DEF Queue
<1>4. ASSUME NEW v \in Vmid, Delete(v) \/ Unlink(v) PROVE CInv'
  <2>1. \A t \in Task : task'[t].status = task[t].status
    BY <1>4 DEF Delete, Unlink, rows, TInv, TypeOK
  <2> QED
    BY <1>4, <2>1, QuietCounts DEF Delete, Unlink, rows
<1>5. ASSUME NEW u \in User, DeleteUser(u) PROVE CInv'
  <2>1. \A t \in Task : task'[t].status \in {task[t].status, "gone"}
    BY <1>5 DEF DeleteUser
  <2> QED
    BY <1>5, <2>1, QuietCounts DEF DeleteUser
<1> QED
  BY <1>1, <1>2, <1>3, <1>4, <1>5 DEF Next

LEMMA CountsFollow == TInv /\ CInv => CountsAreRight
<1> SUFFICES ASSUME TInv, CInv, NEW j \in Job, job[j].status \in {"completed", "failed"}
             PROVE  /\ job[j].done = Cardinality(Tasks(j, "completed") \cup Erased(j, "completed"))
                    /\ job[j].failed = Cardinality(Tasks(j, "failed") \cup Erased(j, "failed"))
                    /\ job[j].done + job[j].failed =
                         Cardinality(Members[j]) - Cardinality(Erased(j, "pending"))
                    /\ job[j].status = "failed" <=> job[j].done = 0 /\ job[j].failed > 0
  BY DEF CountsAreRight
<1> DEFINE D == Settled(j, "completed")  F == Settled(j, "failed")  E == Erased(j, "pending")
<1>1. Counted(j) /\ Ongoing(j) /\ Judged(j) /\ Exists(j)
  BY DEF CInv, JobInv, Exists
<1>2. \A w \in Worker : worker[w].job # j
  BY MemberNumbers DEF CInv, ThreadInv, Exists
<1>3. ASSUME NEW t \in Task, t[1] = j
      PROVE  /\ ~Held(t) /\ outcome[t] \in {"pending", "completed", "failed"}
             /\ task[t].status \in {outcome[t], "gone"}
             /\ outcome[t] = "pending" => task[t].status = "gone"
  <2>1. ~Held(t)
    BY <1>2, <1>3 DEF Held
  <2>2. outcome[t] \in {"pending", "running", "completed", "failed"}
    BY DEF TInv, TypeOK, TaskStatus
  <2>3. Agrees(t)
    BY DEF CInv
  <2> QED
    BY <1>1, <1>3, <2>1, <2>2, <2>3 DEF Ongoing, Judged, Agrees, Here
<1>4. \A s \in {"completed", "failed"} : Tasks(j, s) \cup Erased(j, s) = Settled(j, s)
  <2> SUFFICES ASSUME NEW s \in {"completed", "failed"}, NEW t \in Task, t[1] = j
               PROVE  \/ task[t].status = s
                      \/ task[t].status = "gone" /\ outcome[t] = s
                      <=> outcome[t] = s /\ ~Held(t)
    BY DEF Tasks, Erased, Settled
  <2> QED
    BY <1>3
<1>5. D \cup F \cup E = {j} \X Members[j]
  <2>1. \A t : t \in {j} \X Members[j] <=> t \in Task /\ t[1] = j
    BY TaskParts, TaskType
  <2>2. \A t \in Task : t[1] = j => t \in D \cup F \cup E
    BY <1>3 DEF Settled, Erased, Tasks
  <2>3. \A t \in D \cup F \cup E : t \in Task /\ t[1] = j
    BY DEF Settled, Erased, Tasks
  <2> HIDE DEF D, F, E
  <2> QED
    BY <2>1, <2>2, <2>3
<1>6. Cardinality({j} \X Members[j]) = Cardinality(Members[j]) /\ Cardinality(Members[j]) \in Nat
  <2>1. /\ IsFiniteSet({j}) /\ Cardinality({j}) = 1
        /\ IsFiniteSet(Members[j]) /\ Cardinality(Members[j]) \in Nat
    BY MemberNumbers, FS_Singleton, FS_CardinalityType
  <2>2. Cardinality({j} \X Members[j]) = Cardinality({j}) * Cardinality(Members[j])
    BY <2>1, FS_Product
  <2> QED
    BY <2>1, <2>2
<1>7. D \cap F = {} /\ (D \cup F) \cap E = {}
  BY DEF Settled, Erased
<1>8. IsFiniteSet(D) /\ IsFiniteSet(F) /\ IsFiniteSet(E)
  BY TasksOfJob DEF Settled, Erased, Tasks
<1>9. job[j].done = Cardinality(D) /\ job[j].failed = Cardinality(F)
  BY <1>1 DEF Counted
<1> HIDE DEF D, F, E
<1>10. /\ Cardinality(D) \in Nat /\ Cardinality(F) \in Nat /\ Cardinality(E) \in Nat
       /\ IsFiniteSet(D \cup F) /\ Cardinality(D \cup F) \in Nat /\ Cardinality({}) = 0
  BY <1>8, FS_EmptySet, FS_CardinalityType, FS_Union
<1>11. /\ Cardinality(D \cup F) = Cardinality(D) + Cardinality(F) - Cardinality(D \cap F)
       /\ Cardinality(D \cup F \cup E) =
            Cardinality(D \cup F) + Cardinality(E) - Cardinality((D \cup F) \cap E)
  BY <1>8, <1>10, FS_Union
<1>12. job[j].done + job[j].failed = Cardinality(Members[j]) - Cardinality(E)
  <2>1. Cardinality(D \cup F \cup E) = Cardinality(Members[j])
    BY <1>5, <1>6
  <2>2. Cardinality(D \cap F) = 0 /\ Cardinality((D \cup F) \cap E) = 0
    BY <1>7, <1>10
  <2> QED
    BY <1>6, <1>9, <1>10, <1>11, <2>1, <2>2
<1>13. job[j].status = "failed" <=> job[j].done = 0 /\ job[j].failed > 0
  BY <1>1 DEF Judged
<1> QED
  BY <1>4, <1>9, <1>12, <1>13 DEF D, F, E

\* When a job is finished its counters and its verdict agree with its tasks, those
\* whose rows have gone with their user included, whenever they went, and though
\* each outcome is written in two commits and either of them may fail.
THEOREM CountersAgree == Spec => []CountsAreRight
<1>1. Init => TInv /\ OneInv /\ CInv
  BY InitTyped, InitOne, InitCounts
<1>2. TInv /\ OneInv /\ CInv /\ [Next]_vars => (TInv /\ OneInv /\ CInv)'
  BY StepTyped, StepOne, StepCounts
<1> QED
  BY <1>1, <1>2, CountsFollow, PTL DEF Spec

(***************************************************************************)
(* No machine without a row or a thread: a task is asked for once          *)
(***************************************************************************)
Waits(w, t) ==
    /\ worker[w].job = t[1]
    /\ \/ worker[w].pc = "start" \/ t[2] \in worker[w].todo
       \/ worker[w].on = t[2] /\ worker[w].pc \in {"plan", "allocate", "create", "hung"}

Seen == {t \in Task : \E v \in Vmid : \/ machine[v] # Nothing /\ machine[v].task = t
                                      \/ resource[v] = t}

InOrder == \A w \in Worker : worker[w].pc \in Serving => worker[w].on \notin worker[w].todo

AskedOnce ==
    \A t \in Seen : /\ job[t[1]].status # "pending_review"
                    /\ \A w \in Worker : ~Waits(w, t)

Noted ==
    \A w \in Worker :
        /\ worker[w].pc \in {"register", "release", "destroy"}
        /\ machine[worker[w].vm] # Nothing /\ machine[worker[w].vm].task = TaskOf(w)
        => worker[w].made \/ TaskOf(w) \in lost

RowsFollow ==
    \A v \in leaving : /\ resource[v] # Nothing
                       /\ machine[v] # Nothing => machine[v].task # resource[v]

NInv == InOrder /\ AskedOnce /\ Noted /\ RowsFollow /\ NoOrphan

LEMMA InitOrphan == Init => NInv
<1> SUFFICES ASSUME Init PROVE NInv
  OBVIOUS
<1>1. InOrder
  BY DEF Init, InOrder, Rest, Serving
<1>2. AskedOnce
  BY NumbersAssumption DEF Init, AskedOnce, Seen
<1>3. Noted
  BY DEF Init, Noted, Rest
<1>4. RowsFollow /\ NoOrphan
  BY DEF Init, RowsFollow, NoOrphan
<1> QED
  BY <1>1, <1>2, <1>3, <1>4 DEF NInv

\* A step of a thread and what it has still to ask for.
LEMMA Moves ==
  ASSUME TInv, InOrder, NEW w \in Worker, Queue(w) \/ Trouble(w)
  PROVE  /\ worker'[w].pc \in Serving => worker'[w].on \notin worker'[w].todo
         /\ \A t \in Task : Waits(w, t)' => Waits(w, t)
<1>1. worker \in [Worker -> WorkerType] /\ worker[w] \in WorkerType /\ Mind(w) /\ TInv'
  BY StepTyped DEF TInv, TypeOK, Next
<1>2. worker[w].pc \in Serving => worker[w].on \notin worker[w].todo
  BY DEF InOrder
<1>3. CASE Start(w)
  <2>1. /\ worker[w].pc = "start" /\ worker'[w].pc = "next"
        /\ worker'[w].job = worker[w].job
    BY <1>1, <1>3 DEF Start, At, WorkerType
  <2> QED
    BY <2>1 DEF Waits, Serving
<1>4. CASE Take(w) \/ Skip(w)
  <2>1. PICK m \in worker[w].todo :
          \/ worker' = [worker EXCEPT ![w].pc = "plan", ![w].on = m, ![w].todo = worker[w].todo \ {m}]
          \/ worker[w].pc = "next" /\ worker' = [worker EXCEPT ![w].todo = worker[w].todo \ {m}]
    BY <1>4 DEF Take, Skip, First, At
  <2>2. /\ worker'[w].job = worker[w].job /\ worker'[w].todo = worker[w].todo \ {m}
        /\ \/ worker'[w].pc = "plan" /\ worker'[w].on = m
           \/ worker'[w].pc = "next"
    BY <1>1, <2>1 DEF WorkerType
  <2> QED
    BY <2>2 DEF Waits, Serving
<1>5. CASE Finish(w)
  <2>1. worker'[w].pc = "idle" /\ worker'[w].job = Nothing
    BY <1>1, <1>5 DEF Finish, Rest
  <2> QED
    BY <2>1, TaskParts, MemberNumbers DEF Waits, Serving
<1>6. CASE Count(w) \/ FailCount(w)
  <2>1. /\ worker'[w].pc = "next" /\ worker'[w].job = worker[w].job
        /\ worker'[w].todo = worker[w].todo
    BY <1>1, <1>6 DEF Count, FailCount, Forward, JobOf, Rest
  <2> QED
    BY <2>1 DEF Waits, Serving
<1>7. CASE Report(w) \/ Fail(w)
  <2>1. /\ worker'[w].pc \in {"count", "failcount"} /\ worker'[w].job = worker[w].job
        /\ worker'[w].todo = worker[w].todo /\ worker'[w].on = worker[w].on
        /\ worker[w].pc \in Serving
    BY <1>1, <1>7 DEF Report, Fail, Go, WorkerType, At, Serving, Step
  <2> QED
    BY <1>2, <2>1 DEF Waits
<1>8. CASE \/ Trouble(w) \/ Plan(w) \/ PlanFails(w) \/ Allocate(w) \/ Create(w)
           \/ CreateFails(w) \/ Register(w) \/ RegisterFails(w) \/ Release(w) \/ Destroy(w)
  <2>1. /\ worker'[w].job = worker[w].job /\ worker'[w].on = worker[w].on
        /\ worker'[w].todo = worker[w].todo
        /\ \/ worker'[w].pc = "dead" /\ worker[w].pc # "idle"
           \/ worker[w].pc \in Serving /\ worker'[w].pc \in Serving \ {"count", "failcount"}
    BY <1>8, SilentStep
  <2>2. "dead" \notin Serving /\ "start" \notin Serving
    BY DEF Serving
  <2>3. worker'[w].pc \in {"allocate", "create", "hung", "plan"} =>
           worker[w].pc \in {"plan", "allocate", "create", "hung"}
    <3>1. CASE Plan(w) \/ Allocate(w) \/ PlanFails(w)
      BY <3>1 DEF Plan, Allocate, PlanFails, At
    <3>2. CASE Create(w) \/ CreateFails(w) \/ CreateUnseen(w) \/ Hang(w)
      BY <3>2 DEF Create, CreateFails, CreateUnseen, Hang, At
    <3>3. CASE Register(w) \/ RegisterFails(w) \/ OutcomeFails(w)
      BY <1>1, <3>3 DEF Register, RegisterFails, OutcomeFails, Go, Leave, WorkerType
    <3>4. CASE Release(w) \/ Destroy(w) \/ ReleaseFails(w) \/ DestroyFails(w)
      BY <1>1, <3>4 DEF Release, Destroy, ReleaseFails, DestroyFails, AfterRelease, Go, Leave, WorkerType
    <3>5. CASE Crash(w)
      BY <1>1, <3>5 DEF Crash, Go, WorkerType
    <3> QED
      BY <1>8, <3>1, <3>2, <3>3, <3>4, <3>5 DEF Trouble
  <2> QED
    BY <1>2, <2>1, <2>2, <2>3 DEF Waits
<1> QED
  BY <1>3, <1>4, <1>5, <1>6, <1>7, <1>8 DEF Queue

Keeping == {"register", "release", "destroy"}

Own(w) == machine[worker[w].vm] # Nothing /\ machine[worker[w].vm].task = TaskOf(w)

LEMMA MachineType ==
  ASSUME TInv, NEW v \in Vmid
  PROVE  /\ machine[v] # Nothing => machine[v].task \in Task
         /\ resource[v] \in Task \cup {Nothing} /\ Nothing \notin Task
  BY NumbersAssumption DEF TInv, TypeOK

\* Before it asks, a thread has no machine for its member.
LEMMA NoneYet ==
  ASSUME TInv, AskedOnce, NEW w \in Worker, worker[w].pc \in {"plan", "allocate", "create", "hung"}
  PROVE  ~(worker[w].vm \in Vmid /\ Own(w)) /\ \A v \in Vmid : resource[v] # TaskOf(w)
<1>1. TaskOf(w) \in Task
  BY ServingTypes DEF Serving, Step
<1>2. Waits(w, TaskOf(w))
  BY DEF Waits, TaskOf
<1> QED
  BY <1>1, <1>2 DEF AskedOnce, Seen, Own

\* A crash may leave a machine behind.
CrashMakes(w) ==
    /\ Crash(w) /\ worker[w].pc \in {"create", "hung"} /\ machine[worker[w].vm] = Nothing
    /\ machine' = [machine EXCEPT ![worker[w].vm] = Made(w)]
    /\ lost' = lost \cup {TaskOf(w)}

LEMMA CrashCases ==
  ASSUME NEW w \in Worker, Crash(w)
  PROVE  /\ CrashMakes(w) \/ machine' = machine
         /\ resource' = resource /\ address' = address /\ leaving' = leaving /\ away' = away
         /\ lost \subseteq lost'
         /\ worker[w].pc \in Keeping /\ worker[w].made => TaskOf(w) \in lost'
  BY DEF Crash, CrashMakes, Keeping, Planning

LEMMA AsksOnce ==
  ASSUME TInv, OneInv, NInv, NEW w \in Worker, Queue(w) \/ Trouble(w)
  PROVE  InOrder' /\ AskedOnce'
<1>1. InOrder'
  BY Alone, Moves DEF NInv, InOrder
<1>2. TInv' /\ [Next]_vars
  BY StepTyped DEF Next
<1> DEFINE asks == Create(w) \/ CreateUnseen(w) \/ CrashMakes(w) \/ Register(w)
<1>0. PICK t : t = TaskOf(w)
  OBVIOUS
<1>3. Seen' \subseteq Seen \/ (asks /\ t \in Task /\ Seen' \subseteq Seen \cup {t})
  <2>1. CASE asks
    <3>1. worker[w].vm \in Vmid /\ t \in Task
      BY <1>0, <2>1, ServingTypes DEF Create, CreateUnseen, CrashMakes, Register, At, TInv, Mind,
         Planning, Serving, Step
    <3>2. \/ machine' = [machine EXCEPT ![worker[w].vm] = Made(w)] /\ resource' = resource
          \/ resource' = [resource EXCEPT ![worker[w].vm] = t] /\ machine' = machine
      <4>1. CASE Create(w) \/ CreateUnseen(w)
        BY <4>1 DEF Create, CreateUnseen
      <4>2. CASE CrashMakes(w)
        BY <4>2, CrashCases DEF CrashMakes
      <4>3. CASE Register(w)
        BY <1>0, <4>3 DEF Register
      <4> QED
        BY <2>1, <4>1, <4>2, <4>3
    <3>3. Made(w).task = t
      BY <1>0 DEF Made
    <3>4. \A v \in Vmid : /\ machine'[v] = machine[v] \/ machine'[v].task = t
                          /\ resource'[v] = resource[v] \/ resource'[v] = t
      BY <3>1, <3>2, <3>3 DEF TInv, TypeOK
    <3> QED
      BY <2>1, <3>1, <3>4 DEF Seen
  <2>2. CASE Destroy(w)
    <3>1. resource' = resource /\ \A v \in Vmid : machine'[v] \in {machine[v], Nothing}
      BY <2>2 DEF Destroy, TInv, TypeOK
    <3> QED
      BY <3>1 DEF Seen
  <2>3. CASE resource' = resource /\ machine' = machine
    BY <2>3 DEF Seen
  <2> QED
    BY <2>1, <2>2, <2>3, CrashCases DEF Queue, Trouble, Start, Take, Skip, Finish, Plan, PlanFails,
       Allocate, CreateFails, RegisterFails, Release, Report, Count, Fail, FailCount, Hang,
       ReleaseFails, DestroyFails, OutcomeFails, cluster
<1>4. \A x \in Task : job'[x[1]].status = "pending_review" => job[x[1]].status = "pending_review"
  BY TaskParts, StaysDecided DEF OneInv
<1>5. \A x \in Task : \A u \in Worker : Waits(u, x)' => Waits(u, x)
  BY Alone, Moves DEF NInv, Waits
<1>6. ASSUME asks, t \in Task
      PROVE  /\ job'[t[1]].status # "pending_review"
             /\ \A u \in Worker : ~Waits(u, t)'
  <2>1. worker[w].job # Nothing /\ t[1] = worker[w].job /\ t[2] = worker[w].on
    BY <1>0, <1>6, TaskParts, MemberNumbers DEF TaskOf
  <2>2. job'[t[1]].status # "pending_review"
    BY <1>4, <1>6, <2>1 DEF OneInv, Decided
  <2>3. \A u \in Worker \ {w} : worker'[u].job # t[1]
    BY <2>1, Alone DEF OneInv, OneQueue
  <2>4. worker[w].pc \in Serving /\ worker[w].on \notin worker[w].todo
    BY <1>6 DEF Create, CreateUnseen, CrashMakes, Register, At, Serving, Step, NInv, InOrder
  <2>5. /\ worker'[w].todo = worker[w].todo
        /\ worker'[w].pc \notin {"start", "plan", "allocate", "create", "hung"}
    BY <1>6 DEF Create, CreateUnseen, CrashMakes, Crash, Register, Go, Leave, TInv, TypeOK, WorkerType
  <2>6. \A u \in Worker : ~Waits(u, t)'
    BY <2>1, <2>3, <2>4, <2>5 DEF Waits
  <2> QED
    BY <2>2, <2>6
<1> QED
  BY <1>1, <1>3, <1>4, <1>5, <1>6 DEF NInv, AskedOnce, Seen

\* A step of a thread that leaves the cluster alone.
LEMMA OrphanFrame ==
  ASSUME TInv, NInv, NEW w \in Worker, Queue(w) \/ Trouble(w),
         machine' = machine, resource' = resource, leaving' = leaving, lost \subseteq lost',
         worker'[w].pc \in Keeping /\ Own(w)' => worker'[w].made \/ TaskOf(w)' \in lost',
         worker[w].pc \in Keeping /\ Own(w) =>
             \/ TaskOf(w) \in lost'
             \/ /\ worker'[w].pc \in Keeping
                /\ worker'[w].vm = worker[w].vm /\ TaskOf(w)' = TaskOf(w)
  PROVE  Noted' /\ RowsFollow' /\ NoOrphan'
<1>1. \A u \in Worker \ {w} : worker'[u] = worker[u] /\ TaskOf(u)' = TaskOf(u)
  BY Alone DEF TaskOf
<1>2. Noted'
  BY <1>1 DEF NInv, Noted, Own, Keeping
<1>3. RowsFollow'
  BY DEF NInv, RowsFollow
<1>4. ASSUME NEW v \in Vmid, machine[v] # Nothing
      PROVE  \/ resource[v] = machine[v].task
             \/ machine[v].task \in lost'
             \/ \E u \in Worker : /\ worker'[u].vm = v /\ TaskOf(u)' = machine[v].task
                                 /\ worker'[u].pc \in Keeping
  <2>1. CASE resource[v] = machine[v].task \/ machine[v].task \in lost
    BY <2>1
  <2>2. ASSUME NEW u \in Worker, worker[u].vm = v, TaskOf(u) = machine[v].task,
               worker[u].pc \in Keeping
        PROVE  \/ machine[v].task \in lost'
               \/ \E x \in Worker : /\ worker'[x].vm = v /\ TaskOf(x)' = machine[v].task
                                   /\ worker'[x].pc \in Keeping
    <3>1. CASE u = w
      BY <1>4, <2>2, <3>1 DEF Own
    <3>2. CASE u # w
      BY <1>1, <2>2, <3>2
    <3> QED
      BY <3>1, <3>2
  <2> QED
    BY <1>4, <2>1, <2>2 DEF NInv, NoOrphan, Keeping
<1>5. NoOrphan'
  BY <1>4 DEF NoOrphan, Keeping
<1> QED
  BY <1>2, <1>3, <1>5

LEMMA QuietOrphan ==
  ASSUME TInv, OneInv, NInv, NEW w \in Worker,
         \/ Start(w) \/ Take(w) \/ Skip(w) \/ Finish(w) \/ Plan(w) \/ PlanFails(w) \/ Allocate(w)
         \/ Report(w) \/ Count(w) \/ Fail(w) \/ FailCount(w) \/ Hang(w) \/ OutcomeFails(w)
  PROVE  Noted' /\ RowsFollow' /\ NoOrphan'
<1>1. Queue(w) \/ Trouble(w)
  BY DEF Queue, Trouble
<1>2. machine' = machine /\ resource' = resource /\ leaving' = leaving /\ lost' = lost
  BY DEF Start, Take, Skip, Finish, Plan, PlanFails, Allocate, Report, Count, Fail, FailCount, Hang,
     OutcomeFails, cluster, history
<1>3. worker[w].pc \notin Keeping
  BY DEF Start, Take, Skip, Finish, Plan, PlanFails, Allocate, Report, Count, Fail, FailCount, Hang,
     OutcomeFails, At, Keeping
<1>4. worker'[w].pc \notin Keeping
  <2>1. worker \in [Worker -> WorkerType]
    BY DEF TInv, TypeOK
  <2>2. CASE Start(w) \/ Finish(w) \/ PlanFails(w)
    BY <2>1, <2>2 DEF Start, Finish, PlanFails, Leave, Rest, Keeping, WorkerType
  <2>2a. CASE Plan(w) \/ Allocate(w)
    <3>1. PICK x, i : \/ worker' = [worker EXCEPT ![w].pc = "allocate", ![w].vm = x]
                      \/ worker' = [worker EXCEPT ![w].pc = "create", ![w].ip = i]
      BY <2>2a DEF Plan, Allocate
    <3> QED
      BY <2>1, <3>1 DEF Keeping, WorkerType
  <2>3. CASE Take(w) \/ Skip(w)
    <3>1. PICK m, T : \/ worker' = [worker EXCEPT ![w].pc = "plan", ![w].on = m, ![w].todo = T]
                      \/ worker[w].pc = "next" /\ worker' = [worker EXCEPT ![w].todo = T]
      BY <2>3 DEF Take, Skip, At
    <3> QED
      BY <2>1, <3>1 DEF Keeping, WorkerType
  <2>4. CASE Report(w) \/ Fail(w) \/ Hang(w) \/ OutcomeFails(w)
    BY <2>1, <2>4 DEF Report, Fail, Hang, OutcomeFails, Go, Leave, Keeping, WorkerType
  <2>5. CASE Count(w) \/ FailCount(w)
    BY <2>1, <2>5 DEF Count, FailCount, Forward, Rest, Keeping
  <2> QED
    BY <2>2, <2>2a, <2>3, <2>4, <2>5
<1> QED
  BY <1>1, <1>2, <1>3, <1>4, OrphanFrame

LEMMA KeepingOrphan ==
  ASSUME TInv, OneInv, NInv, NEW w \in Worker,
         \/ CreateFails(w) \/ RegisterFails(w) \/ Release(w) \/ ReleaseFails(w)
         \/ DestroyFails(w) \/ (Crash(w) /\ machine' = machine)
  PROVE  Noted' /\ RowsFollow' /\ NoOrphan'
<1>1. Queue(w) \/ Trouble(w)
  BY DEF Queue, Trouble
<1>2. machine' = machine /\ resource' = resource /\ leaving' = leaving /\ lost \subseteq lost'
  BY CrashCases DEF CreateFails, RegisterFails, Release, ReleaseFails, DestroyFails, cluster, history
<1>3. worker[w] \in WorkerType /\ worker \in [Worker -> WorkerType] /\ Mind(w)
  BY DEF TInv, TypeOK
<1>4. worker[w].pc \in Keeping /\ Own(w) => worker[w].made \/ TaskOf(w) \in lost
  BY DEF NInv, Noted, Keeping, Own
<1>5. worker'[w].job = worker[w].job /\ worker'[w].on = worker[w].on
  BY <1>3, SilentStep DEF Trouble
<1>6. TaskOf(w)' = TaskOf(w)
  BY <1>5 DEF TaskOf
<1>7. CASE CreateFails(w) \/ RegisterFails(w)
  <2>1. /\ worker'[w].pc = "release" /\ worker'[w].vm = worker[w].vm
        /\ worker'[w].made = worker[w].made /\ worker[w].pc \in {"create", "register"}
    BY <1>3, <1>7 DEF CreateFails, RegisterFails, Go, WorkerType, At
  <2>2. worker[w].vm \in Vmid
    BY <1>3, <2>1 DEF Mind, Planning
  <2>3. Own(w)' <=> Own(w)
    BY <1>2, <1>6, <2>1 DEF Own
  <2>4. Own(w) => worker[w].made \/ TaskOf(w) \in lost
    BY <1>4, <2>1, <2>2, NoneYet DEF Keeping, NInv
  <2> QED
    BY <1>1, <1>2, <1>6, <2>1, <2>3, <2>4, OrphanFrame DEF Keeping
<1>8. CASE Release(w) \/ ReleaseFails(w)
  <2>1. /\ worker[w].pc = "release"
        /\ worker[w].made => /\ worker'[w].pc = "destroy" /\ worker'[w].made
                             /\ worker'[w].vm = worker[w].vm
        /\ ~worker[w].made => worker'[w].pc = "fail"
    BY <1>3, <1>8 DEF Release, ReleaseFails, AfterRelease, Go, Leave, WorkerType, At
  <2> QED
    BY <1>1, <1>2, <1>4, <1>6, <2>1, OrphanFrame DEF Keeping
<1>9. CASE DestroyFails(w)
  <2>1. worker'[w].pc = "fail" /\ TaskOf(w) \in lost'
    BY <1>3, <1>9 DEF DestroyFails, Leave, WorkerType
  <2> QED
    BY <1>1, <1>2, <2>1, OrphanFrame DEF Keeping
<1>10. CASE Crash(w)
  <2>1. worker'[w].pc = "dead" /\ (worker[w].pc \in Keeping /\ worker[w].made => TaskOf(w) \in lost')
    BY <1>3, <1>10, CrashCases DEF Crash, Go, WorkerType
  <2> QED
    BY <1>1, <1>2, <1>4, <2>1, OrphanFrame DEF Keeping
<1> QED
  BY <1>7, <1>8, <1>9, <1>10

LEMMA MachineOrphan ==
  ASSUME TInv, OneInv, NInv, NEW w \in Worker,
         Create(w) \/ CreateUnseen(w) \/ CrashMakes(w) \/ Register(w) \/ Destroy(w)
  PROVE  Noted' /\ RowsFollow' /\ NoOrphan'
<1>1. Queue(w) \/ Trouble(w)
  BY DEF Queue, Trouble, CrashMakes
<1>2. worker[w] \in WorkerType /\ worker \in [Worker -> WorkerType] /\ Mind(w)
  BY DEF TInv, TypeOK
<1>3. worker'[w].job = worker[w].job /\ worker'[w].on = worker[w].on
  BY <1>2, SilentStep DEF Trouble, CrashMakes
<1>4. PICK t, v : t = TaskOf(w) /\ v = worker[w].vm
  OBVIOUS
<1>5. t \in Task /\ v \in Vmid
  BY <1>2, <1>4, ServingTypes DEF Create, CreateUnseen, CrashMakes, Register, Destroy, At, Mind, Planning,
     Serving, Step
<1>6. TaskOf(w)' = t
  BY <1>3, <1>4 DEF TaskOf
<1>7. \A u \in Worker \ {w} : worker'[u] = worker[u] /\ TaskOf(u)' = TaskOf(u)
  BY <1>1, Alone DEF TaskOf
<1>8. \A u \in Worker \ {w} : worker[u].pc \in Keeping => TaskOf(u) # t
  BY <1>1, <1>4, Alone, MemberNumbers DEF TaskOf, OneInv, OneQueue, TInv, Mind, Keeping
<1>9. \A u \in Worker : worker[u].pc \in Keeping => worker[u].vm \in Vmid
  BY DEF TInv, Mind, Keeping, Planning
<1>10. leaving' = leaving /\ leaving \subseteq Vmid /\ lost \subseteq lost'
  BY CrashCases DEF Create, CreateUnseen, CrashMakes, Register, Destroy, history, TInv, TypeOK
<1>11. CASE Create(w) \/ CreateUnseen(w) \/ CrashMakes(w)
  <2>1. /\ machine[v] = Nothing /\ resource' = resource
        /\ \A x \in Vmid \ {v} : machine'[x] = machine[x]
        /\ machine'[v].task = t
    BY <1>4, <1>5, <1>11, CrashCases DEF Create, CreateUnseen, CrashMakes, Made, TInv, TypeOK
  <2>2. \A x \in Vmid : resource[x] # t
    BY <1>4, <1>11, NoneYet DEF Create, CreateUnseen, CrashMakes, At, NInv
  <2>3. \/ worker'[w].pc = "register" /\ worker'[w].made /\ worker'[w].vm = v
        \/ worker'[w].pc \in {"release", "dead"} /\ worker'[w].vm = v /\ t \in lost'
    BY <1>2, <1>4, <1>11 DEF Create, CreateUnseen, CrashMakes, Crash, Go, WorkerType
  <2>4. Noted'
    <3>1. ASSUME NEW u \in Worker, worker'[u].pc \in Keeping, Own(u)'
          PROVE  worker'[u].made \/ TaskOf(u)' \in lost'
      <4>1. CASE u = w
        BY <1>6, <2>3, <4>1
      <4>2. CASE u # w
        <5>1. worker'[u] = worker[u] /\ TaskOf(u)' = TaskOf(u) /\ worker[u].vm \in Vmid
          BY <1>7, <1>9, <3>1, <4>2
        <5>2. worker[u].vm # v
          BY <1>8, <2>1, <3>1, <4>2, <5>1 DEF Own
        <5>3. Own(u)
          BY <2>1, <3>1, <5>1, <5>2 DEF Own
        <5> QED
          BY <1>10, <3>1, <5>1, <5>3 DEF NInv, Noted, Keeping, Own
      <4> QED
        BY <4>1, <4>2
    <3> QED
      BY <3>1 DEF Noted, Keeping, Own
  <2>5. RowsFollow'
    BY <1>10, <2>1, <2>2 DEF NInv, RowsFollow
  <2>6. NoOrphan'
    <3>1. ASSUME NEW x \in Vmid, x # v, machine[x] # Nothing
          PROVE  \/ resource[x] = machine[x].task
                 \/ machine[x].task \in lost'
                 \/ \E u \in Worker : /\ worker'[u].vm = x /\ TaskOf(u)' = machine[x].task
                                     /\ worker'[u].pc \in Keeping
      <4>1. worker[w].pc \notin Keeping
        BY <1>11 DEF Create, CreateUnseen, CrashMakes, At, Keeping
      <4> QED
        BY <1>7, <1>10, <3>1, <4>1 DEF NInv, NoOrphan, Keeping
    <3> QED
      BY <1>6, <2>1, <2>3, <3>1 DEF NoOrphan, Keeping
  <2> QED
    BY <2>4, <2>5, <2>6
<1>12. CASE Register(w)
  <2>1. /\ machine' = machine /\ resource[v] = Nothing /\ lost' = lost
        /\ \A x \in Vmid \ {v} : resource'[x] = resource[x]
        /\ resource'[v] = t /\ worker[w].pc = "register"
    BY <1>4, <1>5, <1>12 DEF Register, history, At, TInv, TypeOK
  <2>2. worker'[w].pc = "report"
    BY <1>2, <1>12 DEF Register, Leave, WorkerType
  <2>3. Noted'
    BY <1>7, <2>1, <2>2 DEF NInv, Noted
  <2>4. RowsFollow'
    BY <1>10, <2>1 DEF NInv, RowsFollow
  <2>5. ASSUME NEW x \in Vmid, machine[x] # Nothing
        PROVE  \/ resource'[x] = machine[x].task
               \/ machine[x].task \in lost'
               \/ \E u \in Worker : /\ worker'[u].vm = x /\ TaskOf(u)' = machine[x].task
                                   /\ worker'[u].pc \in Keeping
    <3>1. CASE resource[x] = machine[x].task
      BY <2>1, <2>5, <3>1, MachineType
    <3>2. CASE machine[x].task \in lost
      BY <2>1, <3>2
    <3>3. ASSUME NEW u \in Worker, worker[u].vm = x, TaskOf(u) = machine[x].task,
                 worker[u].pc \in Keeping
          PROVE  \/ resource'[x] = machine[x].task
                 \/ \E y \in Worker : /\ worker'[y].vm = x /\ TaskOf(y)' = machine[x].task
                                     /\ worker'[y].pc \in Keeping
      BY <1>4, <1>7, <2>1, <3>3
    <3> QED
      BY <2>5, <3>1, <3>2, <3>3 DEF NInv, NoOrphan, Keeping
  <2>6. NoOrphan'
    BY <2>1, <2>5 DEF NoOrphan, Keeping
  <2> QED
    BY <2>3, <2>4, <2>6
<1>13. CASE Destroy(w)
  <2>1. /\ machine'[v] = Nothing /\ resource' = resource
        /\ \A x \in Vmid \ {v} : machine'[x] = machine[x]
    BY <1>4, <1>5, <1>13 DEF Destroy, TInv, TypeOK
  <2>2. worker'[w].pc = "fail"
    BY <1>2, <1>13 DEF Destroy, Leave, WorkerType
  <2>3. Noted'
    BY <1>7, <1>9, <1>10, <2>1, <2>2 DEF NInv, Noted, Keeping
  <2>4. RowsFollow'
    BY <1>10, <2>1 DEF NInv, RowsFollow
  <2>5. ASSUME NEW x \in Vmid, x # v, machine[x] # Nothing
        PROVE  \/ resource[x] = machine[x].task
               \/ machine[x].task \in lost'
               \/ \E u \in Worker : /\ worker'[u].vm = x /\ TaskOf(u)' = machine[x].task
                                   /\ worker'[u].pc \in Keeping
    BY <1>4, <1>7, <1>10, <2>5 DEF NInv, NoOrphan, Keeping
  <2>6. NoOrphan'
    BY <2>1, <2>5 DEF NoOrphan, Keeping
  <2> QED
    BY <2>3, <2>4, <2>6
<1> QED
  BY <1>11, <1>12, <1>13

\* Reviews, and deletions by users.
LEMMA RowsOrphan ==
  ASSUME TInv, OneInv, NInv, NEW j \in Job,
         Reject(j) \/ DeleteGroup(j) \/ \E w \in Worker : Approve(w, j)
  PROVE  NInv'
<1>1. machine' = machine /\ resource' = resource /\ leaving' = leaving /\ lost' = lost
  <2>1. cluster' = cluster /\ history' = history
    BY DEF Reject, DeleteGroup, Approve
  <2> QED
    BY <2>1 DEF cluster, history
<1>2. \A i \in Job : job'[i].status = "pending_review" => job[i].status = "pending_review"
  <2>1. \/ job' = [job EXCEPT ![j] = [status |-> "gone", done |-> 0, failed |-> 0]]
        \/ job' = [job EXCEPT ![j].status = "rejected"]
        \/ job' = [job EXCEPT ![j].status = "approved"]
    BY DEF Reject, DeleteGroup, Approve, Transition
  <2>2. job \in [Job -> [status : JobStatus, done : Nat, failed : Nat]]
    BY DEF TInv, TypeOK
  <2>3. job'[j].status \in {"gone", "rejected", "approved"}
    BY <2>1, <2>2
  <2>4. \A i \in Job \ {j} : job'[i] = job[i]
    BY <2>1, <2>2
  <2> QED
    BY <2>3, <2>4
<1>3. CASE worker' = worker
  <2>1. Seen' = Seen /\ \A t \in Task : \A u \in Worker : Waits(u, t)' <=> Waits(u, t)
    BY <1>1, <1>3 DEF Seen, Waits
  <2>2. AskedOnce'
    BY <1>2, <2>1, TaskParts DEF NInv, AskedOnce, Seen
  <2>3. InOrder' /\ Noted' /\ RowsFollow'
    BY <1>1, <1>3 DEF NInv, InOrder, Noted, RowsFollow, TaskOf
  <2>4. NoOrphan'
    BY <1>1, <1>3 DEF NInv, NoOrphan, TaskOf
  <2> QED
    BY <2>2, <2>3, <2>4 DEF NInv
<1>4. ASSUME NEW w \in Worker, Approve(w, j) PROVE NInv'
  <2>1. /\ worker[w].pc = "idle" /\ worker'[w].pc = "start" /\ worker'[w].job = j
        /\ \A u \in Worker \ {w} : worker'[u] = worker[u]
        /\ job[j].status = "pending_review"
    BY <1>4 DEF Approve, First, Transition, Rest, TInv, TypeOK
  <2>2. InOrder'
    BY <2>1 DEF NInv, InOrder, Serving
  <2>3. AskedOnce'
    <3>1. Seen' = Seen
      BY <1>1 DEF Seen
    <3>2. \A t \in Seen : t[1] # j
      BY <2>1 DEF NInv, AskedOnce
    <3>3. \A t \in Seen : \A u \in Worker : ~Waits(u, t)'
      BY <2>1, <3>2 DEF NInv, AskedOnce, Waits
    <3> QED
      BY <1>2, <3>1, <3>3, TaskParts DEF NInv, AskedOnce, Seen
  <2>4. \A u \in Worker \ {w} : TaskOf(u)' = TaskOf(u)
    BY <2>1 DEF TaskOf
  <2>5. Noted' /\ RowsFollow'
    BY <1>1, <2>1, <2>4 DEF NInv, Noted, RowsFollow
  <2>6. NoOrphan'
    BY <1>1, <2>1, <2>4 DEF NInv, NoOrphan
  <2> QED
    BY <2>2, <2>3, <2>5, <2>6 DEF NInv
<1> QED
  BY <1>3, <1>4 DEF Reject, DeleteGroup

LEMMA DeletionOrphan ==
  ASSUME TInv, OneInv, NInv, NEW v \in Vmid, Delete(v) \/ Unlink(v)
  PROVE  NInv'
<1>1. worker' = worker /\ job' = job /\ lost' = lost /\ leaving \subseteq Vmid
  BY DEF Delete, Unlink, rows, history, TInv, TypeOK
<1>2. \/ /\ Delete(v) /\ machine' = [machine EXCEPT ![v] = Nothing] /\ resource' = resource
         /\ resource[v] # Nothing /\ leaving' = leaving \cup {v}
      \/ /\ Unlink(v) /\ machine' = machine /\ resource' = [resource EXCEPT ![v] = Nothing]
         /\ leaving' = leaving \ {v} /\ v \in leaving
  BY DEF Delete, Unlink
<1>3. \A x \in Vmid : /\ machine'[x] \in {machine[x], Nothing}
                      /\ resource'[x] \in {resource[x], Nothing}
                      /\ x # v => resource'[x] = resource[x] /\ machine'[x] = machine[x]
  BY <1>2 DEF TInv, TypeOK
<1>4. InOrder'
  BY <1>1 DEF NInv, InOrder
<1>5. AskedOnce'
  <2>1. Seen' \subseteq Seen
    <3>1. \A t \in Task : t # Nothing
      BY NumbersAssumption
    <3>2. ASSUME NEW t \in Task, NEW x \in Vmid,
                 (machine'[x] # Nothing /\ machine'[x].task = t) \/ resource'[x] = t
          PROVE  (machine[x] # Nothing /\ machine[x].task = t) \/ resource[x] = t
      <4>1. resource'[x] = t => resource[x] = t
        BY <1>3, <3>1
      <4>2. machine'[x] # Nothing => machine'[x] = machine[x]
        BY <1>3
      <4> QED
        BY <3>2, <4>1, <4>2
    <3> QED
      BY <3>2 DEF Seen
  <2>2. \A t \in Task : \A u \in Worker : Waits(u, t)' <=> Waits(u, t)
    BY <1>1 DEF Waits
  <2> QED
    BY <1>1, <2>1, <2>2 DEF NInv, AskedOnce, Seen
<1>6. Noted'
  <2>1. \A u \in Worker : worker[u].pc \in Keeping => worker[u].vm \in Vmid
    BY DEF TInv, Mind, Keeping, Planning
  <2>2. \A u \in Worker : TaskOf(u)' = TaskOf(u)
    BY <1>1 DEF TaskOf
  <2> QED
    BY <1>1, <1>3, <2>1, <2>2 DEF NInv, Noted, Keeping
<1>7. RowsFollow'
  <2>1. \A x \in leaving' \ {v} : x \in leaving /\ machine'[x] = machine[x] /\ resource'[x] = resource[x]
    BY <1>1, <1>2, <1>3
  <2>2. v \in leaving' => resource'[v] # Nothing /\ machine'[v] = Nothing
    BY <1>2 DEF TInv, TypeOK
  <2> QED
    BY <2>1, <2>2 DEF NInv, RowsFollow
<1>8. NoOrphan'
  <2>1. machine'[v] # Nothing => machine[v].task # resource[v]
    BY <1>2 DEF NInv, RowsFollow, TInv, TypeOK
  <2>2. \A x \in Vmid : machine'[x] # Nothing =>
           /\ machine'[x] = machine[x] /\ machine[x] # Nothing
           /\ resource[x] = machine[x].task => resource'[x] = resource[x]
    BY <1>3, <2>1
  <2> QED
    BY <1>1, <2>2 DEF NInv, NoOrphan, TaskOf
<1> QED
  BY <1>4, <1>5, <1>6, <1>7, <1>8 DEF NInv

LEMMA UserOrphan ==
  ASSUME TInv, NInv, NEW u \in User, DeleteUser(u)
  PROVE  NInv'
<1>1. /\ machine' = machine /\ resource' = resource /\ leaving' = leaving /\ lost' = lost
      /\ worker' = worker /\ job' = job
  BY DEF DeleteUser, history
<1>2. InOrder' /\ AskedOnce'
  BY <1>1 DEF NInv, InOrder, AskedOnce, Seen, Waits
<1>3. Noted' /\ RowsFollow' /\ NoOrphan'
  BY <1>1 DEF NInv, Noted, RowsFollow, NoOrphan, TaskOf
<1> QED
  BY <1>2, <1>3 DEF NInv

LEMMA StepOrphan == TInv /\ OneInv /\ NInv /\ [Next]_vars => NInv'
<1> SUFFICES ASSUME TInv, OneInv, NInv, [Next]_vars PROVE NInv'
  OBVIOUS
<1>1. CASE UNCHANGED vars
  BY <1>1 DEF vars, rows, cluster, history, NInv, InOrder, AskedOnce, Seen, Waits, Noted,
     RowsFollow, NoOrphan, TaskOf
<1>2. ASSUME NEW j \in Job, Reject(j) \/ DeleteGroup(j) \/ \E w \in Worker : Approve(w, j)
      PROVE  NInv'
  BY <1>2, RowsOrphan
<1>3. ASSUME NEW w \in Worker, Queue(w) \/ Trouble(w) PROVE NInv'
  <2>1. InOrder' /\ AskedOnce'
    BY <1>3, AsksOnce
  <2>2. Noted' /\ RowsFollow' /\ NoOrphan'
    <3>1. CASE \/ Start(w) \/ Take(w) \/ Skip(w) \/ Finish(w) \/ Plan(w) \/ PlanFails(w)
               \/ Allocate(w) \/ Report(w) \/ Count(w) \/ Fail(w) \/ FailCount(w) \/ Hang(w)
               \/ OutcomeFails(w)
      BY <3>1, QuietOrphan
    <3>2. CASE \/ CreateFails(w) \/ RegisterFails(w) \/ Release(w) \/ ReleaseFails(w)
               \/ DestroyFails(w) \/ (Crash(w) /\ machine' = machine)
      BY <3>2, KeepingOrphan
    <3>3. CASE Create(w) \/ CreateUnseen(w) \/ CrashMakes(w) \/ Register(w) \/ Destroy(w)
      BY <3>3, MachineOrphan
    <3>4. Crash(w) => CrashMakes(w) \/ (Crash(w) /\ machine' = machine)
      BY CrashCases
    <3> QED
      BY <1>3, <3>1, <3>2, <3>3, <3>4 DEF Queue, Trouble
  <2> QED
    BY <2>1, <2>2 DEF NInv
<1>4. ASSUME NEW v \in Vmid, Delete(v) \/ Unlink(v) PROVE NInv'
  BY <1>4, DeletionOrphan
<1>5. ASSUME NEW u \in User, DeleteUser(u) PROVE NInv'
  BY <1>5, UserOrphan
<1> QED
  BY <1>1, <1>2, <1>3, <1>4, <1>5 DEF Next

\* A machine is in the table resources, in the hands of a thread, or was left behind
\* by a fault: whatever fails, and whoever deletes what meanwhile.
THEOREM MachinesAreAccounted == Spec => []NoOrphan
<1>1. Init => TInv /\ OneInv /\ NInv
  BY InitTyped, InitOne, InitOrphan
<1>2. TInv /\ OneInv /\ NInv /\ [Next]_vars => (TInv /\ OneInv /\ NInv)'
  BY StepTyped, StepOne, StepOrphan
<1>3. NInv => NoOrphan
  BY DEF NInv
<1> QED
  BY <1>1, <1>2, <1>3, PTL DEF Spec

(***************************************************************************)
(* What a step of a thread does to the tasks                               *)
(***************************************************************************)
Serves(w, t) == TaskOf(w) = t /\ worker[w].pc \in Serving

LEMMA ThreadTasks ==
  ASSUME TInv, NEW w \in Worker, Queue(w) \/ Trouble(w), NEW t \in Task
  PROVE  /\ ~Here(t) => task'[t] = task[t]
         /\ ~Take(w) /\ ~Serves(w, t) => task'[t] = task[t]
<1>1. task \in [Task -> [status : TaskStatus, vm : Vmid \cup {Nothing}]]
  BY DEF TInv, TypeOK
<1>2. CASE task' = task
  BY <1>2
<1>3. CASE Take(w)
  <2>1. PICK k, row : SetTask(k, row)
    BY <1>3 DEF Take
  <2> QED
    BY <1>1, <1>3, <2>1 DEF SetTask, Here
<1>4. CASE Report(w) \/ Fail(w)
  <2>1. PICK row : SetTask(TaskOf(w), row)
    BY <1>4 DEF Report, Fail
  <2>2. worker[w].pc \in Serving
    BY <1>4 DEF Report, Fail, At, Serving, Step
  <2> QED
    BY <1>1, <2>1, <2>2 DEF SetTask, Serves, Here
<1> QED
  BY <1>2, <1>3, <1>4 DEF Queue, Trouble, Start, Skip, Finish, Plan, PlanFails, Allocate, Create,
     CreateFails, Register, RegisterFails, Release, Destroy, Count, FailCount, CreateUnseen, Hang,
     ReleaseFails, DestroyFails, OutcomeFails, Crash, rows

Working == {"plan", "allocate", "create", "hung", "register", "release", "destroy",
            "report", "count", "fail", "failcount"}

LEMMA ServingIsWorking == Serving = Working /\ Asking \subseteq Working
  BY DEF Serving, Working, Step, Asking

\* A step that leaves the task with its thread.
LEMMA KeepsTask ==
  ASSUME TInv, NEW w \in Worker, Queue(w) \/ Trouble(w),
         worker[w].pc \in Serving, ~Count(w), ~FailCount(w), ~Crash(w)
  PROVE  /\ worker'[w].job = worker[w].job /\ worker'[w].on = worker[w].on
         /\ worker'[w].pc \in Serving
<1>1. ~Start(w) /\ ~Take(w) /\ ~Skip(w) /\ ~Finish(w)
  BY DEF Start, Take, Skip, Finish, At, Serving
<1>2. CASE Report(w) \/ Fail(w)
  BY <1>2 DEF Report, Fail, Go, Serving, Step, TInv, TypeOK, WorkerType
<1>3. CASE \/ CreateUnseen(w) \/ Hang(w) \/ ReleaseFails(w) \/ DestroyFails(w) \/ OutcomeFails(w)
           \/ Plan(w) \/ PlanFails(w) \/ Allocate(w) \/ Create(w) \/ CreateFails(w)
           \/ Register(w) \/ RegisterFails(w) \/ Release(w) \/ Destroy(w)
  <2>1. worker'[w].pc # "dead"
    <3>1. worker \in [Worker -> WorkerType]
      BY DEF TInv, TypeOK
    <3>2. CASE Plan(w) \/ Allocate(w)
      <4>1. PICK v, i : \/ worker' = [worker EXCEPT ![w].pc = "allocate", ![w].vm = v]
                        \/ worker' = [worker EXCEPT ![w].pc = "create", ![w].ip = i]
        BY <3>2 DEF Plan, Allocate
      <4> QED
        BY <3>1, <4>1 DEF WorkerType
    <3>3. CASE CreateUnseen(w) \/ Hang(w) \/ Create(w) \/ CreateFails(w) \/ PlanFails(w)
      BY <3>1, <3>3 DEF CreateUnseen, Hang, Create, CreateFails, PlanFails, Go, Leave, WorkerType
    <3>4. CASE \/ ReleaseFails(w) \/ DestroyFails(w) \/ OutcomeFails(w) \/ Register(w)
               \/ RegisterFails(w) \/ Release(w) \/ Destroy(w)
      BY <3>1, <3>4 DEF ReleaseFails, DestroyFails, OutcomeFails, Register, RegisterFails,
         Release, Destroy, AfterRelease, Go, Leave, WorkerType
    <3> QED
      BY <1>3, <3>2, <3>3, <3>4
  <2> QED
    BY <1>3, <2>1, SilentStep DEF Trouble
<1> QED
  BY <1>1, <1>2, <1>3 DEF Queue, Trouble

(***************************************************************************)
(* A task names the machine of its own member                              *)
(***************************************************************************)
\* What a step of a thread keeps in mind of a vmid and of an address.
LEMMA MindStep ==
  ASSUME TInv, NEW w \in Worker, Queue(w) \/ Trouble(w)
  PROVE  /\ worker'[w].pc \in Planning =>
              \/ Plan(w) /\ worker'[w].pc = "allocate"
              \/ worker[w].pc \in Planning /\ worker'[w].vm = worker[w].vm
         /\ worker'[w].pc \in Locking =>
              \/ Allocate(w)
              \/ worker[w].pc \in Locking /\ worker'[w].ip = worker[w].ip
         /\ worker'[w].pc = "register" => Create(w)
         /\ worker'[w].pc = "report" => Register(w) /\ worker'[w].vm = worker[w].vm
<1>1. worker \in [Worker -> WorkerType]
  BY DEF TInv, TypeOK
<1>2. CASE Start(w) \/ Finish(w) \/ PlanFails(w) \/ Count(w) \/ FailCount(w)
  <2>1. worker'[w].pc \in {"next", "idle", "fail"}
    <3>1. CASE Start(w) \/ PlanFails(w)
      <4>1. PICK T : \/ worker' = [worker EXCEPT ![w].pc = "next", ![w].todo = T]
                     \/ worker' = [worker EXCEPT ![w].pc = "fail", ![w].vm = Nothing,
                                                 ![w].ip = Nothing, ![w].made = FALSE]
        BY <3>1 DEF Start, PlanFails, Leave
      <4> QED
        BY <1>1, <4>1 DEF WorkerType
    <3>2. CASE Finish(w)
      <4>1. worker' = [worker EXCEPT ![w] = Rest]
        BY <3>2 DEF Finish
      <4> QED
        BY <1>1, <4>1 DEF Rest
    <3>3. CASE Count(w) \/ FailCount(w)
      <4>1. Forward(w)
        BY <3>3 DEF Count, FailCount
      <4> QED
        BY <1>1, <4>1 DEF Forward, Rest
    <3> QED
      BY <1>2, <3>1, <3>2, <3>3
  <2> QED
    BY <2>1 DEF Planning, Locking
<1>3. CASE Take(w) \/ Skip(w)
  <2>1. PICK m, T : \/ worker' = [worker EXCEPT ![w].pc = "plan", ![w].on = m, ![w].todo = T]
                    \/ worker[w].pc = "next" /\ worker' = [worker EXCEPT ![w].todo = T]
    BY <1>3 DEF Take, Skip, At
  <2>2. worker'[w].pc \in {"plan", "next"}
    BY <1>1, <2>1 DEF WorkerType
  <2> QED
    BY <2>2 DEF Planning, Locking
<1>4. CASE Plan(w)
  <2>1. PICK v \in Vmid : worker' = [worker EXCEPT ![w].pc = "allocate", ![w].vm = v]
    BY <1>4 DEF Plan
  <2>2. worker'[w].pc = "allocate"
    BY <1>1, <2>1 DEF WorkerType
  <2> QED
    BY <1>4, <2>2 DEF Planning, Locking
<1>5. CASE Allocate(w)
  <2>1. PICK i \in Ip : worker' = [worker EXCEPT ![w].pc = "create", ![w].ip = i]
    BY <1>5 DEF Allocate
  <2>2. worker'[w].pc = "create" /\ worker'[w].vm = worker[w].vm
    BY <1>1, <2>1 DEF WorkerType
  <2> QED
    BY <1>5, <2>2 DEF Allocate, At, Planning, Locking
<1>6. CASE Create(w) \/ CreateFails(w) \/ CreateUnseen(w) \/ Hang(w)
  <2>1. worker[w].pc = "create" /\ worker'[w].vm = worker[w].vm /\ worker'[w].ip = worker[w].ip
    BY <1>1, <1>6 DEF Create, CreateFails, CreateUnseen, Hang, Go, WorkerType, At
  <2>2. worker'[w].pc = "register" => Create(w)
    BY <1>1, <1>6 DEF Create, CreateFails, CreateUnseen, Hang, Go, WorkerType
  <2>3. worker'[w].pc # "report"
    BY <1>1, <1>6 DEF Create, CreateFails, CreateUnseen, Hang, Go, WorkerType
  <2> QED
    BY <2>1, <2>2, <2>3 DEF Planning, Locking
<1>7. CASE Register(w) \/ RegisterFails(w)
  BY <1>1, <1>7 DEF Register, RegisterFails, Go, Leave, WorkerType, At, Planning, Locking
<1>8. CASE Release(w) \/ ReleaseFails(w) \/ Destroy(w) \/ DestroyFails(w)
  BY <1>1, <1>8 DEF Release, ReleaseFails, Destroy, DestroyFails, AfterRelease, Go, Leave,
     WorkerType, At, Planning, Locking
<1>9. CASE Report(w) \/ Fail(w) \/ OutcomeFails(w) \/ Crash(w)
  BY <1>1, <1>9 DEF Report, Fail, OutcomeFails, Crash, Go, Leave, WorkerType, Planning, Locking
<1> QED
  BY <1>2, <1>3, <1>4, <1>5, <1>6, <1>7, <1>8, <1>9 DEF Queue, Trouble

\* Threads that serve, serve different members.
LEMMA TasksDiffer ==
  ASSUME TInv, OneInv, NEW u \in Worker, NEW w \in Worker, u # w, worker[u].pc \in Serving
  PROVE  TaskOf(u) # TaskOf(w)
<1>1. worker[u].job # Nothing
  BY ServingTypes, MemberNumbers DEF JobOf
<1> QED
  BY <1>1 DEF TaskOf, OneInv, OneQueue

\* A thread that does not end with its member goes on serving it.
LEMMA SameTask ==
  ASSUME TInv, NEW w \in Worker, Queue(w) \/ Trouble(w),
         worker'[w].pc \in Planning \cup {"report"}
  PROVE  worker[w].pc \in Serving /\ TaskOf(w)' = TaskOf(w)
<1>1. worker \in [Worker -> WorkerType]
  BY DEF TInv, TypeOK
<1>2. worker[w].pc \in Serving
  BY MindStep DEF Plan, Register, At, Planning, Serving, Step
<1>3. ~Count(w) /\ ~FailCount(w)
  <2>1. Count(w) \/ FailCount(w) => worker'[w].pc = "next"
    BY <1>1 DEF Count, FailCount, Forward, Rest
  <2> QED
    BY <2>1 DEF Planning
<1>4. ~Crash(w)
  <2>1. Crash(w) => worker'[w].pc = "dead"
    BY <1>1 DEF Crash, Go, WorkerType
  <2> QED
    BY <2>1 DEF Planning
<1> QED
  BY <1>2, <1>3, <1>4, KeepsTask DEF TaskOf

LEMMA NameStep ==
  ASSUME TInv, NEW w \in Worker, Queue(w) \/ Trouble(w), NEW t \in Task
  PROVE  \/ task'[t].vm = task[t].vm
         \/ Report(w) /\ t = TaskOf(w) /\ task'[t].vm = worker[w].vm
<1>1. task \in [Task -> [status : TaskStatus, vm : Vmid \cup {Nothing}]]
  BY DEF TInv, TypeOK
<1>2. CASE task' = task
  BY <1>2
<1>3. CASE Take(w) \/ Fail(w)
  <2>1. PICK k, s : SetTask(k, [task[k] EXCEPT !.status = s])
    BY <1>3 DEF Take, Fail
  <2> QED
    BY <1>1, <2>1 DEF SetTask
<1>4. CASE Report(w)
  <2>1. SetTask(TaskOf(w), [status |-> "completed", vm |-> worker[w].vm])
    BY <1>4 DEF Report
  <2> QED
    BY <1>1, <1>4, <2>1 DEF SetTask
<1> QED
  BY <1>2, <1>3, <1>4 DEF Queue, Trouble, Start, Skip, Finish, Plan, PlanFails, Allocate, Create,
     CreateFails, Register, RegisterFails, Release, Destroy, Count, FailCount, CreateUnseen, Hang,
     ReleaseFails, DestroyFails, OutcomeFails, Crash, rows

LEMMA ResourceStep ==
  ASSUME TInv, NEW w \in Worker, Queue(w) \/ Trouble(w)
  PROVE  /\ overtaken' = overtaken /\ kept' = kept /\ leaving' = leaving
         /\ \/ ~Register(w) /\ resource' = resource
            \/ /\ Register(w) /\ worker[w].vm \in Vmid /\ resource[worker[w].vm] = Nothing
               /\ resource' = [resource EXCEPT ![worker[w].vm] = TaskOf(w)]
<1>1. Register(w) => worker[w].vm \in Vmid
  BY DEF Register, At, TInv, Mind, Planning
<1>2. /\ overtaken' = overtaken /\ kept' = kept /\ leaving' = leaving
      /\ ~Register(w) => resource' = resource
  BY DEF Queue, Trouble, Start, Take, Skip, Finish, Plan, PlanFails, Allocate, Create, CreateFails,
     Register, RegisterFails, Release, Destroy, Report, Count, Fail, FailCount, CreateUnseen,
     Hang, ReleaseFails, DestroyFails, OutcomeFails, Crash, cluster, history
<1> QED
  BY <1>1, <1>2 DEF Register

\* The row of table resources is the task's from the moment its thread has one to name.
Named ==
    \A t \in Task \ (overtaken \cup kept) : task[t].vm # Nothing => resource[task[t].vm] = t

ToName ==
    \A w \in Worker : worker[w].pc = "report" /\ TaskOf(w) \notin overtaken =>
        resource[worker[w].vm] = TaskOf(w)

NameInv == Named /\ ToName

LEMMA InitNames == Init => NameInv
  BY DEF Init, NameInv, Named, ToName, Rest

LEMMA ThreadNames ==
  ASSUME TInv, NameInv, NEW w \in Worker, Queue(w) \/ Trouble(w)
  PROVE  NameInv'
<1>1. resource \in [Vmid -> Task \cup {Nothing}] /\ Nothing \notin Task
  BY NumbersAssumption DEF TInv, TypeOK
<1>2. \A x : resource[x] \in Task /\ x \in Vmid => resource'[x] = resource[x]
  BY <1>1, ResourceStep
<1>3. overtaken' = overtaken /\ kept' = kept
  BY ResourceStep
<1>4. \A u \in Worker : worker[u].pc = "report" => worker[u].vm \in Vmid /\ TaskOf(u) \in Task
  BY ServingTypes DEF TInv, Mind, Serving, Step
<1>5. Named'
  <2>1. ASSUME NEW t \in Task \ (overtaken \cup kept), task'[t].vm # Nothing
        PROVE  resource'[task'[t].vm] = t
    <3>1. CASE task'[t].vm = task[t].vm
      <4>1. task[t].vm \in Vmid /\ resource[task[t].vm] = t
        BY <2>1, <3>1 DEF NameInv, Named, TInv, TypeOK
      <4> QED
        BY <1>2, <3>1, <4>1
    <3>2. CASE Report(w) /\ t = TaskOf(w) /\ task'[t].vm = worker[w].vm
      <4>1. worker[w].pc = "report" /\ resource' = resource
        BY <3>2 DEF Report, At, cluster
      <4> QED
        BY <2>1, <3>2, <4>1 DEF NameInv, ToName
    <3> QED
      BY <3>1, <3>2, NameStep
  <2> QED
    BY <1>3, <2>1 DEF Named
<1>6. ToName'
  <2>1. ASSUME NEW u \in Worker, worker'[u].pc = "report", TaskOf(u)' \notin overtaken
        PROVE  resource'[worker'[u].vm] = TaskOf(u)'
    <3>1. CASE u = w
      <4>1. Register(w) /\ worker'[w].vm = worker[w].vm /\ TaskOf(w)' = TaskOf(w)
        BY <2>1, <3>1, MindStep, SameTask
      <4> QED
        BY <1>1, <3>1, <4>1, ResourceStep
    <3>2. CASE u # w
      <4>1. worker'[u] = worker[u] /\ TaskOf(u)' = TaskOf(u)
        BY <3>2, Alone DEF TaskOf
      <4> QED
        BY <1>2, <1>4, <2>1, <4>1 DEF NameInv, ToName
    <3> QED
      BY <3>1, <3>2
  <2> QED
    BY <1>3, <2>1 DEF ToName
<1> QED
  BY <1>5, <1>6 DEF NameInv

LEMMA StepNames == TInv /\ NameInv /\ [Next]_vars => NameInv'
<1> SUFFICES ASSUME TInv, NameInv, [Next]_vars PROVE NameInv'
  OBVIOUS
<1>1. CASE UNCHANGED vars
  BY <1>1 DEF vars, rows, cluster, history, NameInv, Named, ToName, TaskOf
<1>2. ASSUME NEW j \in Job, Reject(j) \/ DeleteGroup(j) \/ \E w \in Worker : Approve(w, j)
      PROVE  NameInv'
  <2>1. resource' = resource /\ overtaken' = overtaken /\ kept' = kept
    BY <1>2 DEF Reject, DeleteGroup, Approve, cluster, history
  <2>2. \A t \in Task : task'[t].vm \in {task[t].vm, Nothing}
    <3>1. \/ task' = task
          \/ task' = [t \in Task |->
                        IF t[1] = j THEN [status |-> "gone", vm |-> Nothing] ELSE task[t]]
      BY <1>2 DEF Reject, DeleteGroup, Approve
    <3> QED
      BY <3>1
  <2>3. \A u \in Worker : worker'[u].pc = "report" => worker'[u] = worker[u]
    BY <1>2 DEF Reject, DeleteGroup, Approve, Rest, TInv, TypeOK
  <2> QED
    BY <2>1, <2>2, <2>3 DEF NameInv, Named, ToName, TaskOf
<1>3. ASSUME NEW w \in Worker, Queue(w) \/ Trouble(w) PROVE NameInv'
  BY <1>3, ThreadNames
<1>4. ASSUME NEW v \in Vmid, Delete(v) PROVE NameInv'
  BY <1>4 DEF Delete, rows, history, NameInv, Named, ToName, TaskOf
<1>5. ASSUME NEW v \in Vmid, Unlink(v) PROVE NameInv'
  <2>1. worker' = worker /\ \A x \in Vmid \ {v} : resource'[x] = resource[x]
    BY <1>5 DEF Unlink, TInv, TypeOK
  <2>2. \A t \in Task : task'[t].vm \in {task[t].vm, Nothing}
    BY <1>5 DEF Unlink, TInv, TypeOK
  <2>3. \A t \in Task : t \in kept' \/ (t \notin kept /\ task'[t].vm # v)
    <3>1. CASE kept' = kept
      BY <1>5, <3>1, NumbersAssumption DEF Unlink, Naming, TInv, TypeOK
    <3>2. CASE kept' = kept \cup Naming(v) /\ task' = task
      BY <3>2 DEF Naming
    <3>3. (task' = task /\ kept' = kept \cup Naming(v)) \/ kept' = kept
      BY <1>5 DEF Unlink
    <3> QED
      BY <3>1, <3>2, <3>3
  <2>4. \A t : t \notin overtaken' =>
          /\ t \notin overtaken
          /\ \A u \in Worker : worker[u].pc = "report" /\ TaskOf(u) = t => worker[u].vm # v
    BY <1>5 DEF Unlink, At
  <2>5. Named'
    <3>1. \A t \in Task : task[t].vm \in Vmid \cup {Nothing}
      BY DEF TInv, TypeOK
    <3> QED
      BY <2>1, <2>2, <2>3, <2>4, <3>1 DEF NameInv, Named
  <2>6. ToName'
    <3>1. \A u \in Worker : worker[u].pc = "report" => worker[u].vm \in Vmid
      BY DEF TInv, Mind
    <3>2. \A u \in Worker : TaskOf(u)' = TaskOf(u)
      BY <2>1 DEF TaskOf
    <3> QED
      BY <2>1, <2>4, <3>1, <3>2 DEF NameInv, ToName
  <2> QED
    BY <2>5, <2>6 DEF NameInv
<1>6. ASSUME NEW u \in User, DeleteUser(u) PROVE NameInv'
  <2>1. resource' = resource /\ overtaken' = overtaken /\ kept' = kept /\ worker' = worker
    BY <1>6 DEF DeleteUser, history
  <2>2. \A t \in Task : task'[t].vm \in {task[t].vm, Nothing}
    BY <1>6 DEF DeleteUser
  <2> QED
    BY <2>1, <2>2 DEF NameInv, Named, ToName, TaskOf
<1> QED
  BY <1>1, <1>2, <1>3, <1>4, <1>5, <1>6 DEF Next

\* A task names no machine but its own, even after the machine is deleted and its vmid
\* goes to the machine of another member: unless the machine was deleted before the task
\* was written, or by a deletion that failed to clear the task.
THEOREM TasksNameTheirOwn == Spec => []NamesOwnMachine
<1>1. Init => TInv /\ NameInv
  BY InitTyped, InitNames
<1>2. TInv /\ NameInv /\ [Next]_vars => (TInv /\ NameInv)'
  BY StepTyped, StepNames
<1>3. NameInv => NamesOwnMachine
  BY DEF NameInv, Named, NamesOwnMachine
<1> QED
  BY <1>1, <1>2, <1>3, PTL DEF Spec

(***************************************************************************)
(* A registered machine keeps its address                                  *)
(***************************************************************************)
Plans(w, v) == worker[w].pc \in Planning /\ worker[w].vm = v

\* One thread at a time has a vmid in mind, the machine with it is that thread's, and
\* carries the address the thread has taken.
Sole == \A v \in Vmid \ clash : \A u, w \in Worker : Plans(u, v) /\ Plans(w, v) => u = w

ItsOwn ==
    \A v \in Vmid \ clash : \A w \in Worker :
        Plans(w, v) /\ machine[v] # Nothing => machine[v].task = TaskOf(w)

Configured ==
    \A v \in Vmid \ clash : \A w \in Worker :
        worker[w].pc = "register" /\ worker[w].vm = v => machine[v] = Made(w)

\* A task gets its row of table resources when nothing can fail it any more.
Unregistered ==
    \A w \in Worker : worker[w].pc \in Planning => \A v \in Vmid : resource[v] # TaskOf(w)

Alive ==
    \A v \in Vmid \ (clash \cup leaving) :
        resource[v] # Nothing => machine[v] # Nothing /\ machine[v].task = resource[v]

\* The lock of the subnet, and the address that is written and not committed.
OneHolder == \A u, w \in Worker : worker[u].pc \in Locking /\ worker[w].pc \in Locking => u = w

Unused == \A w \in Worker : worker[w].pc \in Locking => address[worker[w].ip] = Nothing

AddressInv ==
    /\ Sole /\ ItsOwn /\ Configured /\ Unregistered /\ Alive
    /\ OneHolder /\ Unused /\ AddressKept

LEMMA InitAddresses == Init => AddressInv
<1> SUFFICES ASSUME Init PROVE AddressInv
  OBVIOUS
<1>1. \A w \in Worker : worker[w].pc = "idle"
  BY DEF Init, Rest
<1>2. \A v \in Vmid : machine[v] = Nothing /\ resource[v] = Nothing
  BY DEF Init
<1>3. Sole /\ ItsOwn /\ Configured /\ Unregistered
  BY <1>1 DEF Sole, ItsOwn, Configured, Unregistered, Plans, Planning
<1>4. Alive /\ AddressKept
  BY <1>2 DEF Alive, AddressKept
<1>5. OneHolder /\ Unused
  BY <1>1 DEF OneHolder, Unused, Locking
<1> QED
  BY <1>3, <1>4, <1>5 DEF AddressInv

LEMMA FreedStep ==
  ASSUME TInv, NEW v \in Vmid, Freed(v), NEW i \in Ip
  PROVE  address'[i] = address[i] \/ (address[i] = v /\ address'[i] = Nothing)
  BY DEF Freed, TInv, TypeOK

\* What a thread does to the cluster.
Quiet == machine' = machine /\ resource' = resource /\ address' = address

Makes(w) ==
    /\ worker[w].pc \in {"create", "hung"} /\ machine[worker[w].vm] = Nothing
    /\ machine' = [machine EXCEPT ![worker[w].vm] = Made(w)]
    /\ resource' = resource /\ address' = address

LEMMA ClusterStep ==
  ASSUME TInv, NEW w \in Worker, Queue(w) \/ Trouble(w)
  PROVE  /\ clash \subseteq clash' /\ leaving' = leaving
         /\ Quiet \/ Makes(w) \/ Register(w) \/ Release(w) \/ Destroy(w)
         /\ Create(w) => Makes(w)
         /\ Plan(w) \/ Allocate(w) => Quiet
<1>1. clash \subseteq clash'
  <2>1. CASE Plan(w)
    BY <2>1 DEF Plan
  <2>2. CASE ~Plan(w)
    BY <2>2 DEF Queue, Trouble, Start, Take, Skip, Finish, PlanFails, Allocate, Create, CreateFails,
       Register, RegisterFails, Release, Destroy, Report, Count, Fail, FailCount, CreateUnseen,
       Hang, ReleaseFails, DestroyFails, OutcomeFails, Crash, history
  <2> QED
    BY <2>1, <2>2
<1>2. Create(w) \/ CreateUnseen(w) => Makes(w)
  BY DEF Create, CreateUnseen, Makes, At
<1>2a. Crash(w) => Makes(w) \/ Quiet
  BY CrashCases DEF CrashMakes, Makes, Quiet
<1>3. \/ Create(w) \/ CreateUnseen(w) \/ Register(w) \/ Release(w) \/ Destroy(w)
      \/ Crash(w) \/ Quiet
  BY DEF Queue, Trouble, Start, Take, Skip, Finish, Plan, PlanFails, Allocate, CreateFails,
     RegisterFails, Report, Count, Fail, FailCount, Hang, ReleaseFails, DestroyFails,
     OutcomeFails, cluster, Quiet
<1>4. Plan(w) \/ Allocate(w) => Quiet
  BY DEF Plan, Allocate, cluster, Quiet
<1> QED
  BY <1>1, <1>2, <1>2a, <1>3, <1>4, ResourceStep

\* The vmid a thread has in mind after a step, it had before or was free.
LEMMA PlansStep ==
  ASSUME TInv, NEW w \in Worker, Queue(w) \/ Trouble(w), NEW u \in Worker, NEW v \in Vmid,
         Plans(u, v)'
  PROVE  /\ TaskOf(u)' = TaskOf(u) /\ worker[u].pc \in Serving
         /\ u # w => worker'[u] = worker[u] /\ Plans(u, v)
         /\ \/ Plans(u, v)
            \/ /\ u = w /\ Plan(w) /\ machine[v] = Nothing
               /\ v \notin clash' => \A y \in Worker : ~Plans(y, v)
<1>1. CASE u # w
  <2>1. worker'[u] = worker[u] /\ TaskOf(u)' = TaskOf(u)
    BY <1>1, Alone DEF TaskOf
  <2> QED
    BY <1>1, <2>1 DEF Plans, Planning, Serving, Step
<1>2. CASE u = w
  <2>1. worker[w].pc \in Serving /\ TaskOf(w)' = TaskOf(w)
    BY <1>2, SameTask DEF Plans
  <2>2. CASE Plan(w)
    <3>1. PICK x \in Vmid : /\ First(x, Free)
                            /\ worker' = [worker EXCEPT ![w].pc = "allocate", ![w].vm = x]
                            /\ clash' = IF \E y \in Worker : worker[y].vm = x /\ worker[y].pc \in Planning
                                        THEN clash \cup {x} ELSE clash
      BY <2>2 DEF Plan
    <3>2. worker'[w].vm = x
      BY <3>1 DEF TInv, TypeOK, WorkerType
    <3>3. x = v /\ machine[v] = Nothing
      BY <1>2, <3>1, <3>2 DEF Plans, First, Free
    <3>4. v \notin clash' => \A y \in Worker : ~Plans(y, v)
      BY <3>1, <3>3 DEF Plans
    <3> QED
      BY <1>2, <2>1, <2>2, <3>3, <3>4
  <2>3. CASE ~Plan(w)
    BY <1>2, <2>1, <2>3, MindStep DEF Plans
  <2> QED
    BY <2>2, <2>3
<1> QED
  BY <1>1, <1>2

LEMMA ThreadSole ==
  ASSUME TInv, OneInv, AddressInv, NEW w \in Worker, Queue(w) \/ Trouble(w)
  PROVE  Sole' /\ OneHolder'
<1>1. clash \subseteq clash'
  BY ClusterStep
<1>2. ASSUME NEW v \in Vmid \ clash', NEW u \in Worker, NEW y \in Worker, Plans(u, v)', Plans(y, v)'
      PROVE  u = y
  <2>1. Plans(u, v) /\ Plans(y, v) => u = y
    BY <1>1, <1>2 DEF AddressInv, Sole
  <2>2. v \in Vmid /\ v \notin clash'
    BY <1>2
  <2>3. Plans(u, v) \/ (u = w /\ \A x \in Worker : ~Plans(x, v))
    BY <1>2, <2>2, PlansStep
  <2>4. Plans(y, v) \/ (y = w /\ \A x \in Worker : ~Plans(x, v))
    BY <1>2, <2>2, PlansStep
  <2> QED
    BY <2>1, <2>3, <2>4
<1>3. Sole'
  BY <1>2 DEF Sole
<1>4. OneHolder'
  <2>1. \A u \in Worker \ {w} : worker'[u] = worker[u]
    BY Alone
  <2>2. Allocate(w) => \A u \in Worker : worker[u].pc \notin Locking
    BY DEF Allocate, Unlocked
  <2> QED
    BY <2>1, <2>2, MindStep DEF AddressInv, OneHolder
<1> QED
  BY <1>3, <1>4

LEMMA ThreadUnregistered ==
  ASSUME TInv, OneInv, AskedOnce, AddressInv, NEW w \in Worker, Queue(w) \/ Trouble(w)
  PROVE  Unregistered'
<1>1. ASSUME NEW u \in Worker, worker'[u].pc \in Planning, NEW v \in Vmid
      PROVE  resource'[v] # TaskOf(u)'
  <2>1. TInv' /\ worker'[u].vm \in Vmid
    <3>1. TInv'
      BY StepTyped DEF Next
    <3> QED
      BY <1>1, <3>1 DEF TInv, Mind
  <2>2. TaskOf(u)' = TaskOf(u) /\ worker[u].pc \in Serving
    <3>1. PICK x \in Vmid : x = worker'[u].vm
      BY <2>1
    <3>2. Plans(u, x)'
      BY <1>1, <3>1 DEF Plans
    <3> QED
      BY <3>2, PlansStep
  <2>3. resource[v] # TaskOf(u)
    <3>1. CASE worker[u].pc \in Planning
      BY <3>1 DEF AddressInv, Unregistered
    <3>2. CASE worker[u].pc \notin Planning
      <4>1. u = w /\ Plan(w)
        BY <1>1, <3>2, MindStep, Alone
      <4> QED
        BY <4>1, NoneYet DEF Plan, At
    <3> QED
      BY <3>1, <3>2
  <2>4. CASE Register(w)
    <3>1. worker'[w].pc = "report"
      BY <2>4 DEF Register, Leave, TInv, TypeOK, WorkerType
    <3>2. u # w
      BY <1>1, <3>1 DEF Planning
    <3>3. TaskOf(u) # TaskOf(w)
      BY <2>2, <3>2, TasksDiffer
    <3>4. resource'[v] \in {resource[v], TaskOf(w)}
      BY <2>4, ResourceStep DEF TInv, TypeOK
    <3> QED
      BY <2>2, <2>3, <3>3, <3>4
  <2>5. CASE ~Register(w)
    BY <2>2, <2>3, <2>5, ResourceStep
  <2> QED
    BY <2>4, <2>5
<1> QED
  BY <1>1 DEF Unregistered

LEMMA ThreadConfigures ==
  ASSUME TInv, OneInv, AddressInv, NEW w \in Worker, Queue(w) \/ Trouble(w)
  PROVE  ItsOwn' /\ Configured'
<1>1. machine \in [Vmid -> [task : Task, ip : Ip] \cup {Nothing}] /\ worker \in [Worker -> WorkerType]
  BY DEF TInv, TypeOK
<1>2. clash \subseteq clash'
  BY ClusterStep
<1>3. ASSUME NEW v \in Vmid, machine'[v] # machine[v]
      PROVE  /\ Plans(w, v)
             /\ \/ Makes(w) /\ machine'[v] = Made(w)
                \/ Destroy(w) /\ machine'[v] = Nothing
  <2>1. CASE Makes(w)
    BY <1>1, <1>3, <2>1 DEF Makes, Plans, Planning
  <2>2. CASE Destroy(w)
    BY <1>1, <1>3, <2>2 DEF Destroy, At, Plans, Planning
  <2> QED
    BY <1>3, <2>1, <2>2, ClusterStep DEF Quiet, Register, Release
<1>4. Makes(w) => Made(w).task = TaskOf(w)
  BY DEF Made
<1>5. ASSUME NEW v \in Vmid \ clash', NEW u \in Worker, Plans(u, v)', machine'[v] # Nothing
      PROVE  machine'[v].task = TaskOf(u)'
  <2>1. v \in Vmid /\ v \notin clash /\ v \notin clash'
    BY <1>2, <1>5
  <2>2. TaskOf(u)' = TaskOf(u) /\ (Plans(u, v) \/ (Plan(w) /\ machine[v] = Nothing))
    BY <1>5, <2>1, PlansStep
  <2>3. CASE machine'[v] = machine[v]
    BY <1>5, <2>1, <2>2, <2>3 DEF AddressInv, ItsOwn
  <2>4. CASE machine'[v] # machine[v]
    <3>1. Plans(w, v) /\ machine'[v].task = TaskOf(w)
      BY <1>3, <1>4, <1>5, <2>1, <2>4
    <3>2. Plans(u, v)
      BY <2>1, <1>5, <3>1, PlansStep
    <3>3. u = w
      BY <2>1, <3>1, <3>2 DEF AddressInv, Sole
    <3> QED
      BY <2>2, <3>1, <3>3
  <2> QED
    BY <2>3, <2>4
<1>6. ASSUME NEW v \in Vmid \ clash', NEW u \in Worker, worker'[u].pc = "register", worker'[u].vm = v
      PROVE  machine'[v] = Made(u)'
  <2>1. v \in Vmid /\ v \notin clash
    BY <1>2, <1>6
  <2>2. CASE u = w
    <3>1. Create(w) /\ worker'[w].vm = worker[w].vm /\ worker'[w].ip = worker[w].ip
      <4>1. Create(w)
        BY <1>6, <2>2, MindStep
      <4> QED
        BY <1>1, <4>1 DEF Create, WorkerType
    <3>2. TaskOf(w)' = TaskOf(w)
      BY <1>6, <2>2, SameTask DEF Planning
    <3>3. Made(w)' = Made(w)
      BY <3>1, <3>2 DEF Made
    <3>4. machine'[v] = Made(w)
      BY <1>1, <1>6, <2>1, <2>2, <3>1 DEF Create
    <3> QED
      BY <2>2, <3>3, <3>4
  <2>3. CASE u # w
    <3>1. worker'[u] = worker[u] /\ Made(u)' = Made(u)
      BY <2>3, Alone DEF Made, TaskOf
    <3>2. machine[v] = Made(u) /\ Plans(u, v)
      BY <1>6, <2>1, <3>1 DEF AddressInv, Configured, Plans, Planning
    <3>3. machine'[v] = machine[v]
      BY <1>3, <2>1, <2>3, <3>2 DEF AddressInv, Sole
    <3> QED
      BY <3>1, <3>2, <3>3
  <2> QED
    BY <2>2, <2>3
<1> QED
  BY <1>5, <1>6 DEF ItsOwn, Configured

LEMMA ThreadAlive ==
  ASSUME TInv, OneInv, AddressInv, NEW w \in Worker, Queue(w) \/ Trouble(w)
  PROVE  Alive'
<1>1. machine \in [Vmid -> [task : Task, ip : Ip] \cup {Nothing}]
  BY DEF TInv, TypeOK
<1>2. clash \subseteq clash' /\ leaving' = leaving
  BY ClusterStep
<1>3. ASSUME NEW v \in Vmid, v \notin clash, v \notin leaving, resource'[v] # Nothing
      PROVE  machine'[v] # Nothing /\ machine'[v].task = resource'[v]
  <2>1. resource[v] # Nothing => machine[v] # Nothing /\ machine[v].task = resource[v]
    BY <1>3 DEF AddressInv, Alive
  <2>2. CASE Quiet \/ Release(w)
    BY <1>3, <2>1, <2>2 DEF Quiet, Release
  <2>3. CASE Makes(w)
    BY <1>1, <1>3, <2>1, <2>3 DEF Makes
  <2>4. CASE Destroy(w)
    <3>1. /\ worker[w].pc = "destroy" /\ machine' = [machine EXCEPT ![worker[w].vm] = Nothing]
          /\ resource' = resource
      BY <2>4 DEF Destroy, At
    <3>2. worker[w].vm # v
      <4>1. worker[w].vm = v => Plans(w, v)
        BY <3>1 DEF Plans, Planning
      <4>2. resource[v] # TaskOf(w)
        BY <3>1 DEF AddressInv, Unregistered, Planning
      <4> QED
        BY <1>3, <2>1, <3>1, <4>1, <4>2 DEF AddressInv, ItsOwn
    <3>3. machine'[v] = machine[v]
      BY <1>1, <3>1, <3>2
    <3> QED
      BY <1>3, <2>1, <3>1, <3>3
  <2>5. CASE Register(w)
    <3>1. /\ worker[w].pc = "register" /\ machine' = machine
          /\ resource' = [resource EXCEPT ![worker[w].vm] = TaskOf(w)]
      BY <2>5 DEF Register, At
    <3>2. CASE worker[w].vm = v
      <4>1. machine[v] = Made(w)
        BY <1>3, <3>1, <3>2 DEF AddressInv, Configured
      <4>2. machine[v] # Nothing
        <5>1. TaskOf(w) \in Task /\ worker[w].ip \in Ip
          BY <3>1, ServingTypes DEF TInv, Mind, Planning, Serving, Step
        <5> QED
          BY <4>1, <5>1, NothingAssumption DEF Made
      <4>3. resource'[v] = TaskOf(w)
        BY <3>1, <3>2 DEF TInv, TypeOK
      <4> QED
        BY <3>1, <4>1, <4>2, <4>3 DEF Made
    <3>3. CASE worker[w].vm # v
      BY <1>3, <2>1, <3>1, <3>3 DEF TInv, TypeOK
    <3> QED
      BY <3>2, <3>3
  <2> QED
    BY <2>2, <2>3, <2>4, <2>5, ClusterStep
<1> QED
  BY <1>2, <1>3 DEF Alive

LEMMA ThreadUnused ==
  ASSUME TInv, OneInv, AddressInv, NEW w \in Worker, Queue(w) \/ Trouble(w)
  PROVE  Unused'
<1>1. \A u \in Worker : worker[u].pc \in Locking => worker[u].ip \in Ip
  BY DEF TInv, Mind, Locking, Planning
<1>2. ASSUME NEW u \in Worker, worker'[u].pc \in Locking
      PROVE  address'[worker'[u].ip] = Nothing
  <2>1. CASE u = w /\ Allocate(w)
    <3>1. PICK i \in Ip : /\ First(i, {k \in Ip : address[k] = Nothing})
                          /\ worker' = [worker EXCEPT ![w].pc = "create", ![w].ip = i]
      BY <2>1 DEF Allocate
    <3>2. worker'[w].ip = i
      BY <3>1 DEF TInv, TypeOK, WorkerType
    <3>3. address' = address
      BY <2>1, ClusterStep DEF Quiet
    <3> QED
      BY <2>1, <3>1, <3>2, <3>3 DEF First
  <2>2. CASE ~(u = w /\ Allocate(w))
    <3>1. worker[u].pc \in Locking /\ worker'[u].ip = worker[u].ip
      BY <1>2, <2>2, MindStep, Alone
    <3>2. address[worker[u].ip] = Nothing /\ worker[u].ip \in Ip
      BY <1>1, <3>1 DEF AddressInv, Unused
    <3>3. ~Register(w)
      <4>1. Register(w) => worker[w].pc = "register" /\ worker'[w].pc = "report"
        BY DEF Register, Leave, At, TInv, TypeOK, WorkerType
      <4>2. "register" \in Locking /\ "report" \notin Locking
        BY DEF Locking
      <4> QED
        BY <1>2, <3>1, <4>1, <4>2 DEF AddressInv, OneHolder
    <3>4. CASE Quiet \/ Makes(w) \/ Destroy(w)
      BY <3>1, <3>2, <3>4 DEF Quiet, Makes, Destroy
    <3>5. CASE Release(w)
      <4>1. Freed(worker[w].vm) /\ worker[w].vm \in Vmid
        BY <3>5 DEF Release, At, TInv, Mind, Planning
      <4> QED
        BY <3>1, <3>2, <4>1, FreedStep
    <3> QED
      BY <3>3, <3>4, <3>5, ClusterStep
  <2> QED
    BY <2>1, <2>2
<1> QED
  BY <1>2 DEF Unused

LEMMA ThreadKeepsAddresses ==
  ASSUME TInv, OneInv, AddressInv, NEW w \in Worker, Queue(w) \/ Trouble(w)
  PROVE  AddressKept'
<1>1. /\ machine \in [Vmid -> [task : Task, ip : Ip] \cup {Nothing}]
      /\ resource \in [Vmid -> Task \cup {Nothing}] /\ address \in [Ip -> Vmid \cup {Nothing}]
      /\ Nothing \notin Task /\ Nothing \notin Vmid
  BY NumbersAssumption DEF TInv, TypeOK
<1>2. clash \subseteq clash'
  BY ClusterStep
<1>3. ASSUME NEW v \in Vmid, v \notin clash, machine'[v] # Nothing, resource'[v] = machine'[v].task
      PROVE  address'[machine'[v].ip] = v
  <2>1. ASSUME machine'[v] = machine[v], resource[v] = resource'[v]
        PROVE  address[machine[v].ip] = v /\ machine[v].ip \in Ip
    BY <1>1, <1>3, <2>1 DEF AddressInv, AddressKept
  <2>2. CASE Quiet
    BY <2>1, <2>2 DEF Quiet
  <2>3. CASE Makes(w)
    <3>1. /\ machine' = [machine EXCEPT ![worker[w].vm] = Made(w)]
          /\ resource' = resource /\ address' = address /\ worker[w].pc \in {"create", "hung"}
      BY <2>3 DEF Makes
    <3>2. worker[w].vm # v
      <4>1. resource[v] # TaskOf(w)
        BY <3>1 DEF AddressInv, Unregistered, Planning
      <4> QED
        BY <1>1, <1>3, <3>1, <4>1 DEF Made
    <3> QED
      BY <1>1, <2>1, <3>1, <3>2
  <2>4. CASE Destroy(w)
    <3>1. /\ machine' = [machine EXCEPT ![worker[w].vm] = Nothing]
          /\ resource' = resource /\ address' = address
      BY <2>4 DEF Destroy
    <3> QED
      BY <1>1, <1>3, <2>1, <3>1
  <2>5. CASE Release(w)
    <3>1. /\ machine' = machine /\ resource' = resource /\ Freed(worker[w].vm)
          /\ worker[w].pc = "release"
      BY <2>5 DEF Release, At
    <3>2. worker[w].vm \in Vmid /\ resource[v] # TaskOf(w)
      BY <3>1 DEF AddressInv, Unregistered, TInv, Mind, Planning
    <3>3. worker[w].vm # v
      BY <1>3, <3>1, <3>2 DEF AddressInv, ItsOwn, Plans, Planning
    <3> QED
      BY <2>1, <3>1, <3>2, <3>3, FreedStep
  <2>6. CASE Register(w)
    <3>1. /\ machine' = machine /\ resource' = [resource EXCEPT ![worker[w].vm] = TaskOf(w)]
          /\ address' = [address EXCEPT ![worker[w].ip] = worker[w].vm]
          /\ worker[w].pc = "register"
      BY <2>6 DEF Register, At
    <3>2. worker[w].ip \in Ip /\ address[worker[w].ip] = Nothing
      BY <3>1 DEF AddressInv, Unused, Locking, TInv, Mind, Planning
    <3>3. CASE worker[w].vm = v
      <4>1. machine[v] = Made(w)
        BY <1>3, <3>1, <3>3 DEF AddressInv, Configured
      <4> QED
        BY <1>1, <3>1, <3>2, <3>3, <4>1 DEF Made
    <3>4. CASE worker[w].vm # v
      <4>1. address[machine[v].ip] = v /\ machine[v].ip \in Ip
        BY <1>1, <2>1, <3>1, <3>4
      <4> QED
        BY <1>1, <3>1, <3>2, <4>1
    <3> QED
      BY <3>3, <3>4
  <2> QED
    BY <2>2, <2>3, <2>4, <2>5, <2>6, ClusterStep
<1> QED
  BY <1>2, <1>3 DEF AddressKept

\* Reviews change no thread that has a vmid or an address in mind.
LEMMA ReviewKeepsAddresses ==
  ASSUME TInv, AddressInv, NEW j \in Job,
         Reject(j) \/ DeleteGroup(j) \/ \E w \in Worker : Approve(w, j)
  PROVE  AddressInv'
<1>1. cluster' = cluster /\ clash' = clash
  BY DEF Reject, DeleteGroup, Approve, history
<1>2. machine' = machine /\ resource' = resource /\ address' = address /\ leaving' = leaving
  BY <1>1 DEF cluster
<1>3. \A u \in Worker : worker'[u].pc \in Planning \cup Locking => worker'[u] = worker[u]
  <2>1. \/ worker' = worker
        \/ \E w \in Worker : worker' = [worker EXCEPT ![w] = [Rest EXCEPT !.pc = "start", !.job = j]]
    BY DEF Reject, DeleteGroup, Approve
  <2>2. "start" \notin Planning \cup Locking
    BY DEF Planning, Locking
  <2>3. worker \in [Worker -> WorkerType]
    BY DEF TInv, TypeOK
  <2> QED
    BY <2>1, <2>2, <2>3 DEF Rest
<1>4. \A u \in Worker : worker'[u].pc \in Planning \cup Locking =>
          TaskOf(u)' = TaskOf(u) /\ Made(u)' = Made(u)
  BY <1>3 DEF TaskOf, Made
<1>5. Sole' /\ ItsOwn' /\ Unregistered'
  BY <1>1, <1>2, <1>3, <1>4 DEF AddressInv, Sole, ItsOwn, Unregistered, Plans
<1>6. Configured'
  <2>1. "register" \in Planning
    BY DEF Planning
  <2> QED
    BY <1>1, <1>2, <1>3, <1>4, <2>1 DEF AddressInv, Configured
<1>7. OneHolder' /\ Unused'
  BY <1>2, <1>3 DEF AddressInv, OneHolder, Unused
<1>8. Alive' /\ AddressKept'
  BY <1>1, <1>2 DEF AddressInv, Alive, AddressKept
<1> QED
  BY <1>5, <1>6, <1>7, <1>8 DEF AddressInv

LEMMA DeletionKeepsAddresses ==
  ASSUME TInv, NInv, AddressInv, NEW v \in Vmid, Delete(v) \/ Unlink(v)
  PROVE  AddressInv'
<1>1. worker' = worker /\ clash' = clash /\ \A u \in Worker : TaskOf(u)' = TaskOf(u) /\ Made(u)' = Made(u)
  BY DEF Delete, Unlink, history, TaskOf, Made
<1>2. /\ machine \in [Vmid -> [task : Task, ip : Ip] \cup {Nothing}]
      /\ resource \in [Vmid -> Task \cup {Nothing}]
      /\ Nothing \notin Task
  BY NumbersAssumption DEF TInv, TypeOK
<1>3. \A x \in Vmid : /\ machine'[x] \in {machine[x], Nothing}
                      /\ resource'[x] \in {resource[x], Nothing}
  BY <1>2 DEF Delete, Unlink
<1>4. \A i \in Ip : address'[i] = address[i] \/ (Unlink(v) /\ address[i] = v /\ address'[i] = Nothing)
  BY FreedStep DEF Delete, Unlink
<1>5. Sole' /\ ItsOwn' /\ OneHolder'
  BY <1>1, <1>3 DEF AddressInv, Sole, ItsOwn, OneHolder, Plans
<1>6. Unregistered'
  <2>1. \A u \in Worker : worker[u].pc \in Planning => TaskOf(u) # Nothing
    BY <1>2, ServingTypes DEF Planning, Serving, Step
  <2> QED
    BY <1>1, <1>3, <2>1 DEF AddressInv, Unregistered
<1>7. Unused'
  BY <1>1, <1>4 DEF AddressInv, Unused, TInv, Mind, Locking, Planning
<1>8. CASE Delete(v)
  <2>1. /\ resource[v] # Nothing /\ machine[v] # Nothing /\ v \notin leaving
        /\ machine' = [machine EXCEPT ![v] = Nothing] /\ leaving' = leaving \cup {v}
        /\ resource' = resource /\ address' = address
    BY <1>8 DEF Delete
  <2>2. Configured'
    <3>1. ASSUME NEW u \in Worker, worker[u].pc = "register", worker[u].vm = v, v \notin clash
          PROVE  FALSE
      <4>1. machine[v].task = TaskOf(u)
        <5>1. machine[v] = Made(u)
          BY <3>1 DEF AddressInv, Configured
        <5> QED
          BY <5>1 DEF Made
      <4>2. machine[v].task = resource[v]
        BY <2>1, <3>1 DEF AddressInv, Alive
      <4> QED
        BY <3>1, <4>1, <4>2 DEF AddressInv, Unregistered, Planning
    <3> QED
      BY <1>1, <1>2, <2>1, <3>1 DEF AddressInv, Configured
  <2>3. Alive' /\ AddressKept'
    BY <1>1, <1>2, <2>1 DEF AddressInv, Alive, AddressKept
  <2> QED
    BY <1>5, <1>6, <1>7, <2>2, <2>3 DEF AddressInv
<1>9. CASE Unlink(v)
  <2>1. /\ machine' = machine /\ resource' = [resource EXCEPT ![v] = Nothing]
        /\ leaving' = leaving \ {v}
    BY <1>9 DEF Unlink
  <2>2. Configured'
    BY <1>1, <2>1 DEF AddressInv, Configured
  <2>3. Alive'
    BY <1>1, <1>2, <2>1 DEF AddressInv, Alive
  <2>4. AddressKept'
    <3>1. ASSUME NEW x \in Vmid \ clash, machine[x] # Nothing, resource'[x] = machine[x].task
          PROVE  address'[machine[x].ip] = x
      <4>1. x # v /\ resource[x] = machine[x].task /\ machine[x].ip \in Ip
        BY <1>2, <2>1, <3>1
      <4>2. address[machine[x].ip] = x
        BY <3>1, <4>1 DEF AddressInv, AddressKept
      <4> QED
        BY <1>4, <4>1, <4>2
    <3> QED
      BY <1>1, <2>1, <3>1 DEF AddressKept
  <2> QED
    BY <1>5, <1>6, <1>7, <2>2, <2>3, <2>4 DEF AddressInv
<1> QED
  BY <1>8, <1>9

LEMMA StepAddresses == TInv /\ OneInv /\ NInv /\ AddressInv /\ [Next]_vars => AddressInv'
<1> SUFFICES ASSUME TInv, OneInv, NInv, AddressInv, [Next]_vars PROVE AddressInv'
  OBVIOUS
<1>1. CASE UNCHANGED vars
  BY <1>1 DEF vars, cluster, history, AddressInv, Sole, ItsOwn, Configured, Unregistered, Alive,
     OneHolder, Unused, AddressKept, Plans, TaskOf, Made
<1>2. ASSUME NEW j \in Job, Reject(j) \/ DeleteGroup(j) \/ \E w \in Worker : Approve(w, j)
      PROVE  AddressInv'
  BY <1>2, ReviewKeepsAddresses
<1>3. ASSUME NEW w \in Worker, Queue(w) \/ Trouble(w) PROVE AddressInv'
  <2>1. Sole' /\ OneHolder' /\ Unregistered'
    BY <1>3, ThreadSole, ThreadUnregistered DEF NInv
  <2>2. ItsOwn' /\ Configured' /\ Alive' /\ Unused' /\ AddressKept'
    BY <1>3, ThreadConfigures, ThreadAlive, ThreadUnused, ThreadKeepsAddresses
  <2> QED
    BY <2>1, <2>2 DEF AddressInv
<1>4. ASSUME NEW v \in Vmid, Delete(v) \/ Unlink(v) PROVE AddressInv'
  BY <1>4, DeletionKeepsAddresses
<1>5. ASSUME NEW u \in User, DeleteUser(u) PROVE AddressInv'
  <2>1. /\ machine' = machine /\ resource' = resource /\ address' = address /\ leaving' = leaving
        /\ clash' = clash /\ worker' = worker
    BY <1>5 DEF DeleteUser, history
  <2> QED
    BY <2>1 DEF AddressInv, Sole, ItsOwn, Configured, Unregistered, Alive, OneHolder, Unused,
       AddressKept, Plans, TaskOf, Made
<1> QED
  BY <1>1, <1>2, <1>3, <1>4, <1>5 DEF Next

\* A registered machine keeps the address it was configured with, whoever fails, dies,
\* gives an address back or deletes a machine meanwhile, unless two threads have had
\* its vmid in mind at a time.
THEOREM AddressesAreKept == Spec => []AddressKept
<1>1. Init => TInv /\ OneInv /\ NInv /\ AddressInv
  BY InitTyped, InitOne, InitOrphan, InitAddresses
<1>2. TInv /\ OneInv /\ NInv /\ AddressInv /\ [Next]_vars => (TInv /\ OneInv /\ NInv /\ AddressInv)'
  BY StepTyped, StepOne, StepOrphan, StepAddresses
<1>3. AddressInv => AddressKept
  BY DEF AddressInv
<1> QED
  BY <1>1, <1>2, <1>3, PTL DEF Spec
=============================================================================
