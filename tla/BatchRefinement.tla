--------------------------- MODULE BatchRefinement ---------------------------
(* BatchProvision implements BatchOnce, for every value of the constants.    *)
EXTENDS BatchProvisionProofs

(***************************************************************************)
(* What the abstract variables are, and the steps they can take            *)
(***************************************************************************)
Same(S) == \A t \in S : Attempted(t)' = Attempted(t)

SameVerdicts == \A j \in Job : Verdict(j)' = Verdict(j)

SameMachines == \A v \in Vmid : MadeFor(v)' = MadeFor(v)

LEMMA DoNothing ==
  ASSUME Same(Task), SameVerdicts, SameMachines
  PROVE  UNCHANGED Once!vars
  BY DEF Once!vars, Same, SameVerdicts, SameMachines

LEMMA DoJudge ==
  ASSUME NEW j \in Job, Verdict(j) = "open", Verdict(j)' \in {"approved", "rejected"},
         \A i \in Job \ {j} : Verdict(i)' = Verdict(i), Same(Task), SameMachines
  PROVE  Once!Next
<1>1. Once!Judge(j)
  BY DEF Once!Judge, Same, SameMachines
<1> QED
  BY <1>1 DEF Once!Next

LEMMA DoRemove ==
  ASSUME NEW j \in Job, Verdict(j)' = "gone",
         \A i \in Job \ {j} : Verdict(i)' = Verdict(i),
         \A t \in Task : Attempted(t)' = IF t[1] = j /\ Attempted(t) = "none"
                                         THEN "over" ELSE Attempted(t),
         SameMachines
  PROVE  Once!Next
<1>1. Once!Remove(j)
  BY DEF Once!Remove, SameMachines
<1> QED
  BY <1>1 DEF Once!Next

LEMMA DoBegin ==
  ASSUME NEW t \in Task, Verdict(t[1]) = "approved", Attempted(t) = "none",
         \A u \in Task : u[1] = t[1] => Attempted(u) \notin {"going", "asked"},
         Attempted(t)' = "going", Same(Task \ {t}), SameVerdicts, SameMachines
  PROVE  Once!Next
<1>1. Once!Begin(t)
  BY TaskParts DEF Once!Begin, Same, SameVerdicts, SameMachines
<1> QED
  BY <1>1 DEF Once!Next

LEMMA DoAsk ==
  ASSUME NEW t \in Task, Attempted(t) = "going", Attempted(t)' = "asked",
         Same(Task \ {t}), SameVerdicts,
         \/ SameMachines
         \/ \E v \in Vmid : /\ MadeFor(v) = Nothing /\ MadeFor(v)' = t
                            /\ \A x \in Vmid \ {v} : MadeFor(x)' = MadeFor(x)
  PROVE  Once!Next
<1>1. Once!Ask(t)
  BY DEF Once!Ask, Once!Create, Same, SameVerdicts, SameMachines
<1> QED
  BY <1>1 DEF Once!Next

LEMMA DoEnd ==
  ASSUME NEW t \in Task, Attempted(t) \in {"going", "asked"}, Attempted(t)' = "over",
         Same(Task \ {t}), SameVerdicts,
         \/ SameMachines
         \/ /\ Attempted(t) = "going"
            /\ \E v \in Vmid : /\ MadeFor(v) = Nothing /\ MadeFor(v)' = t
                               /\ \A x \in Vmid \ {v} : MadeFor(x)' = MadeFor(x)
  PROVE  Once!Next
<1>1. CASE SameMachines
  <2>1. Once!End(t)
    BY <1>1 DEF Once!End, Same, SameVerdicts, SameMachines
  <2> QED
    BY <2>1 DEF Once!Next
<1>2. CASE ~SameMachines
  <2>1. Attempted(t) = "going" /\ Once!Create(t)
    BY <1>2 DEF Once!Create
  <2>2. Once!End(t)
    BY <2>1 DEF Once!End, Same, SameVerdicts
  <2> QED
    BY <2>2 DEF Once!Next
<1> QED
  BY <1>1, <1>2

LEMMA DoOmit ==
  ASSUME NEW S \in SUBSET Task, S # {}, \A t \in S : Attempted(t) = "none" /\ Attempted(t)' = "over",
         Same(Task \ S), SameVerdicts, SameMachines
  PROVE  Once!Next
<1>1. Once!Omit(S)
  BY DEF Once!Omit, Same, SameVerdicts, SameMachines
<1> QED
  BY <1>1 DEF Once!Next

LEMMA DoDrop ==
  ASSUME NEW v \in Vmid, MadeFor(v)' = Nothing,
         \A x \in Vmid \ {v} : MadeFor(x)' = MadeFor(x), Same(Task), SameVerdicts
  PROVE  Once!Next
<1>1. Once!Drop(v)
  BY DEF Once!Drop, Same, SameVerdicts
<1> QED
  BY <1>1 DEF Once!Next

(***************************************************************************)
(* How an attempt is read off the threads and the row of its task          *)
(***************************************************************************)
LEMMA ServedAttempt ==
  ASSUME TInv, OneInv, NEW w \in Worker, worker[w].pc \in Serving
  PROVE  Attempted(TaskOf(w)) = IF worker[w].pc \in Asking THEN "going" ELSE "asked"
<1>1. worker[w].job # Nothing
  BY ServingTypes, NumbersAssumption DEF JobOf
<1>2. ServedBy(TaskOf(w)) = {w}
  BY <1>1 DEF ServedBy, TaskOf, OneInv, OneQueue
<1> QED
  BY <1>2 DEF Attempted

LEMMA ServedAttemptNext ==
  ASSUME OneInv', NEW w \in Worker, NEW t \in Task, Serves(w, t)'
  PROVE  Attempted(t)' = IF worker'[w].pc \in Asking THEN "going" ELSE "asked"
<1>1. worker'[w].job # Nothing /\ TaskOf(w)' = t /\ worker'[w].pc \in Serving
  BY TaskParts, NumbersAssumption DEF Serves, TaskOf
<1>2. ServedBy(t)' = {w}
  BY <1>1 DEF ServedBy, TaskOf, OneInv, OneQueue
<1> QED
  BY <1>1, <1>2 DEF Attempted

LEMMA UnservedAttempt ==
  ASSUME NEW t \in Task, \A w \in Worker : ~Serves(w, t)
  PROVE  Attempted(t) = IF task[t].status = "pending" THEN "none" ELSE "over"
<1>1. ServedBy(t) = {}
  BY DEF Serves, ServedBy
<1> QED
  BY <1>1 DEF Attempted

LEMMA UnservedAttemptNext ==
  ASSUME NEW t \in Task, \A w \in Worker : ~Serves(w, t)'
  PROVE  Attempted(t)' = IF task'[t].status = "pending" THEN "none" ELSE "over"
<1>1. ServedBy(t)' = {}
  BY DEF Serves, ServedBy
<1> QED
  BY <1>1 DEF Attempted

LEMMA AttemptFrame ==
  ASSUME NEW t \in Task, task'[t].status = "pending" <=> task[t].status = "pending",
         \A w \in Worker : Serves(w, t)' <=> Serves(w, t),
         \A w \in Worker : Serves(w, t) => (worker'[w].pc \in Asking <=> worker[w].pc \in Asking)
  PROVE  Attempted(t)' = Attempted(t)
<1>1. ServedBy(t) = {w \in Worker : Serves(w, t)} /\ ServedBy(t)' = {w \in Worker : Serves(w, t)'}
  BY DEF ServedBy, Serves
<1>2. ServedBy(t)' = ServedBy(t)
  BY <1>1
<1>3. \A w \in ServedBy(t) : worker'[w].pc \in Asking <=> worker[w].pc \in Asking
  BY <1>1
<1> QED
  BY <1>2, <1>3 DEF Attempted

(***************************************************************************)
(* What a step of a thread does to the attempts                            *)
(***************************************************************************)
\* Those of the tasks it does not serve.
LEMMA OtherAttempts ==
  ASSUME NEW w \in Worker, NEW t \in Task, ~Serves(w, t), ~Serves(w, t)',
         \A u \in Worker \ {w} : worker'[u] = worker[u], task'[t] = task[t]
  PROVE  Attempted(t)' = Attempted(t)
<1>1. \A u \in Worker : Serves(u, t)' <=> Serves(u, t)
  BY DEF Serves, TaskOf
<1>2. \A u \in Worker : Serves(u, t) => worker'[u].pc = worker[u].pc
  BY DEF Serves
<1> QED
  BY <1>1, <1>2, AttemptFrame

LEMMA IdleStep ==
  ASSUME NEW w \in Worker, worker[w].pc \notin Serving, worker'[w].pc \notin Serving,
         \A u \in Worker \ {w} : worker'[u] = worker[u], task' = task
  PROVE  Same(Task)
  BY OtherAttempts DEF Same, Serves

LEMMA ServingStep ==
  ASSUME TInv, OneInv, OneInv', NEW w \in Worker, NEW t \in Task, Serves(w, t),
         worker'[w].pc \in Serving,
         worker'[w].job = worker[w].job, worker'[w].on = worker[w].on,
         \A u \in Worker \ {w} : worker'[u] = worker[u],
         \A x \in Task \ {t} : task'[x] = task[x]
  PROVE  /\ Attempted(t) = IF worker[w].pc \in Asking THEN "going" ELSE "asked"
         /\ Attempted(t)' = IF worker'[w].pc \in Asking THEN "going" ELSE "asked"
         /\ Same(Task \ {t})
<1>1. Serves(w, t)' /\ \A x \in Task \ {t} : ~Serves(w, x) /\ ~Serves(w, x)'
  BY DEF Serves, TaskOf
<1>2. Same(Task \ {t})
  BY <1>1, OtherAttempts DEF Same
<1>3. Attempted(t)' = IF worker'[w].pc \in Asking THEN "going" ELSE "asked"
  BY <1>1, ServedAttemptNext
<1>4. Attempted(t) = IF worker[w].pc \in Asking THEN "going" ELSE "asked"
  BY ServedAttempt DEF Serves
<1> QED
  BY <1>2, <1>3, <1>4

LEMMA LeavingStep ==
  ASSUME TInv, OneInv, NEW w \in Worker, NEW t \in Task, Serves(w, t),
         worker'[w].pc \notin Serving, task' = task, task[t].status # "pending",
         \A u \in Worker \ {w} : worker'[u] = worker[u]
  PROVE  /\ Attempted(t) \in {"going", "asked"} /\ Attempted(t)' = "over"
         /\ Same(Task \ {t})
<1>1. \A x \in Task : ~Serves(w, x)' /\ (x # t => ~Serves(w, x))
  BY DEF Serves
<1>2. Same(Task \ {t})
  BY <1>1, OtherAttempts DEF Same
<1>3. worker[w].job # Nothing
  BY ServingTypes, NumbersAssumption DEF Serves, JobOf
<1>4. \A u \in Worker \ {w} : ~Serves(u, t)
  BY <1>3 DEF Serves, TaskOf, OneInv, OneQueue
<1>5. \A u \in Worker : ~Serves(u, t)'
  BY <1>1, <1>4 DEF Serves, TaskOf
<1>6. Attempted(t)' = "over"
  BY <1>5, UnservedAttemptNext
<1>7. Attempted(t) \in {"going", "asked"}
  BY ServedAttempt DEF Serves
<1> QED
  BY <1>2, <1>6, <1>7

(***************************************************************************)
(* What a step of a thread does to the rows                                *)
(***************************************************************************)
LEMMA ThreadJobs ==
  ASSUME TInv, CInv, NEW w \in Worker, Queue(w) \/ Trouble(w)
  PROVE  SameVerdicts /\ \A i \in Job : Exists(i)' <=> Exists(i)
<1>1. PICK j \in Job : j = worker[w].job /\ j # Nothing
  BY Alone, MemberNumbers DEF TInv, Mind
<1>2. Exists(j) => job[j].status \in {"approved", "running"}
  BY <1>1 DEF CInv, ThreadInv
<1>3. job \in [Job -> [status : JobStatus, done : Nat, failed : Nat]]
  BY DEF TInv, TypeOK
<1>4. CASE job' = job
  BY <1>4 DEF SameVerdicts, Verdict, Exists
<1>5. ASSUME NEW row, SetJob(j, row),
             Exists(j) => row.status \in {"approved", "running", "completed", "failed"}
      PROVE  SameVerdicts /\ \A i \in Job : Exists(i)' <=> Exists(i)
  <2>1. CASE ~Exists(j)
    BY <1>4, <1>5, <2>1 DEF SetJob
  <2>2. CASE Exists(j)
    <3>1. job'[j] = row /\ \A i \in Job \ {j} : job'[i] = job[i]
      BY <1>1, <1>3, <1>5, <2>2 DEF SetJob
    <3>2. Verdict(j) = "approved" /\ Verdict(j)' = "approved" /\ Exists(j)'
      BY <1>2, <1>5, <2>2, <3>1 DEF Verdict, Exists
    <3>3. \A i \in Job \ {j} : Verdict(i)' = Verdict(i) /\ Exists(i)' = Exists(i)
      BY <3>1 DEF Verdict, Exists
    <3> QED
      BY <2>2, <3>2, <3>3 DEF SameVerdicts
  <2> QED
    BY <2>1, <2>2
<1>6. CASE Start(w)
  <2>1. SetJob(j, [job[j] EXCEPT !.status = "running"])
    BY <1>1, <1>6 DEF Start, JobOf
  <2>2. [job[j] EXCEPT !.status = "running"].status = "running"
    BY <1>3
  <2> QED
    BY <1>5, <2>1, <2>2
<1>7. CASE Finish(w)
  <2> DEFINE final == IF job[j].failed > 0 /\ job[j].done = 0 THEN "failed" ELSE "completed"
  <2>1. SetJob(j, [job[j] EXCEPT !.status = final])
    BY <1>1, <1>7 DEF Finish, JobOf
  <2>2. [job[j] EXCEPT !.status = final].status \in {"completed", "failed"}
    BY <1>3
  <2> QED
    BY <1>5, <2>1, <2>2
<1>8. CASE Count(w)
  <2>1. SetJob(j, [job[j] EXCEPT !.done = @ + 1])
    BY <1>1, <1>8 DEF Count, JobOf
  <2>2. [job[j] EXCEPT !.done = @ + 1].status = job[j].status
    BY <1>3
  <2> QED
    BY <1>2, <1>5, <2>1, <2>2
<1>9. CASE FailCount(w)
  <2>1. SetJob(j, [job[j] EXCEPT !.failed = @ + 1])
    BY <1>1, <1>9 DEF FailCount, JobOf
  <2>2. [job[j] EXCEPT !.failed = @ + 1].status = job[j].status
    BY <1>3
  <2> QED
    BY <1>2, <1>5, <2>1, <2>2
<1> QED
  BY <1>4, <1>6, <1>7, <1>8, <1>9 DEF Queue, Trouble, Take, Skip, Plan, PlanFails, Allocate, Create,
     CreateFails, Register, RegisterFails, Release, Destroy, Report, Fail, CreateUnseen, Hang,
     ReleaseFails, DestroyFails, OutcomeFails, Crash, rows

(***************************************************************************)
(* Every step is one of the abstract specification, or a stutter           *)
(***************************************************************************)
LEMMA ThreadSimulates ==
  ASSUME TInv, OneInv, CInv, TInv', OneInv', NEW w \in Worker, Queue(w) \/ Trouble(w)
  PROVE  Once!Next \/ UNCHANGED Once!vars
<1>1. /\ \A u \in Worker \ {w} : worker'[u] = worker[u]
      /\ SameVerdicts
      /\ \A t \in Task : ~Take(w) /\ ~Serves(w, t) => task'[t] = task[t]
  BY Alone, ThreadJobs, ThreadTasks
<1>2. PICK j \in Job : j = worker[w].job /\ j # Nothing
  BY Alone, MemberNumbers DEF TInv, Mind
<1>3. /\ worker \in [Worker -> WorkerType] /\ worker[w] \in WorkerType
      /\ task \in [Task -> [status : TaskStatus, vm : Vmid \cup {Nothing}]]
  BY DEF TInv, TypeOK
<1>4. machine' = machine => SameMachines
  BY DEF SameMachines, MadeFor
<1>5. CASE Start(w) \/ Skip(w) \/ Finish(w)
  <2>1. worker[w].pc \notin Serving /\ worker'[w].pc \notin Serving
    <3>1. worker[w].pc \in {"start", "next"} /\ worker'[w].pc \in {"next", "idle"}
      <4>1. CASE Start(w) \/ Finish(w)
        BY <1>3, <4>1 DEF Start, Finish, At, Rest, WorkerType
      <4>2. CASE Skip(w)
        BY <1>3, <4>2 DEF Skip, At, WorkerType
      <4> QED
        BY <1>5, <4>1, <4>2
    <3> QED
      BY <3>1 DEF Serving
  <2>2. task' = task /\ machine' = machine
    BY <1>5 DEF Start, Skip, Finish, rows, cluster
  <2> QED
    BY <1>1, <1>4, <2>1, <2>2, IdleStep, DoNothing
<1>6. CASE Take(w)
  <2>1. PICK m \in Members[j] :
          /\ m \in worker[w].todo /\ At(w, "next") /\ Here(<<j, m>>)
          /\ SetTask(<<j, m>>, [task[<<j, m>>] EXCEPT !.status = "running"])
          /\ worker' = [worker EXCEPT ![w].pc = "plan", ![w].on = m,
                                      ![w].todo = worker[w].todo \ {m}]
    BY <1>2, <1>6 DEF Take, First, JobOf
  <2>2. PICK t \in Task : t = <<j, m>> /\ t[1] = j /\ t[2] = m
    BY TaskType
  <2>3. machine' = machine
    BY <1>6 DEF Take, cluster
  <2>4. worker[w].pc \notin Serving
    BY <2>1 DEF At, Serving
  <2>5. /\ Exists(j) /\ task[t].status = outcome[t]
        /\ job[j].status \in {"approved", "running"} /\ outcome[t] = "pending"
    BY <1>2, <2>1, <2>2 DEF CInv, ThreadInv, Todo, Agrees
  <2>6. \A u \in Worker, x \in Task : x[1] = j => ~Serves(u, x)
    <3>1. \A u \in Worker \ {w} : worker[u].job # j
      BY <1>2 DEF OneInv, OneQueue
    <3> QED
      BY <2>4, <3>1 DEF Serves, TaskOf
  <2>7. Verdict(j) = "approved"
    BY <2>5 DEF Verdict
  <2>8. Attempted(t) = "none"
    BY <2>2, <2>5, <2>6, UnservedAttempt
  <2>9. \A x \in Task : x[1] = j => Attempted(x) \notin {"going", "asked"}
    BY <2>6, UnservedAttempt
  <2>10. worker'[w].pc = "plan" /\ worker'[w].on = m /\ worker'[w].job = j
    BY <1>2, <1>3, <2>1 DEF WorkerType
  <2>11. Serves(w, t)' /\ \A x \in Task \ {t} : ~Serves(w, x)' /\ ~Serves(w, x)
    BY <2>2, <2>4, <2>10, ServingIsWorking DEF Serves, TaskOf, Working
  <2>12. Attempted(t)' = "going"
    BY <2>10, <2>11, ServedAttemptNext DEF Asking
  <2>13. \A x \in Task \ {t} : task'[x] = task[x]
    BY <1>3, <2>1, <2>2 DEF SetTask
  <2>14. Same(Task \ {t})
    BY <1>1, <2>11, <2>13, OtherAttempts DEF Same
  <2> QED
    BY <1>1, <1>4, <2>2, <2>3, <2>7, <2>8, <2>9, <2>12, <2>14, DoBegin
<1>7. CASE worker[w].pc \notin Serving /\ Crash(w)
  <2>0. machine' = machine
    BY <1>7, CrashCases DEF CrashMakes, Serving, Step
  <2>1. worker'[w].pc \notin Serving /\ task' = task
    BY <1>3, <1>7 DEF Crash, Go, Serving, Step, WorkerType, rows
  <2> QED
    BY <1>1, <1>4, <1>7, <2>0, <2>1, IdleStep, DoNothing
<1>8. CASE worker[w].pc \in Serving
  <2>1. PICK t \in Task : Serves(w, t)
    BY <1>8, ServingTypes DEF Serves
  <2>2. t = <<j, worker[w].on>> /\ t[1] = j
    BY <1>2, <2>1 DEF Serves, TaskOf
  <2>3. \A x \in Task \ {t} : ~Serves(w, x)
    BY <2>1 DEF Serves
  <2>4. ~Take(w) /\ ~Skip(w) /\ ~Start(w) /\ ~Finish(w)
    BY <1>8 DEF Take, Skip, Start, Finish, At, Serving
  <2>5. \A x \in Task \ {t} : task'[x] = task[x]
    BY <1>1, <2>3, <2>4
  <2>6. CASE Count(w) \/ FailCount(w) \/ Crash(w)
    <3>1. worker'[w].pc \notin Serving
      BY <1>3, <2>6 DEF Count, FailCount, Crash, Forward, Rest, Go, Serving, WorkerType
    <3>2. task' = task
      BY <2>6 DEF Count, FailCount, Crash, rows
    <3>3. task[t].status # "pending"
      <4>1. CASE Here(t)
        BY <1>2, <1>8, <2>1, <2>2, <4>1 DEF CInv, Agrees, ThreadInv, Served, Serves
      <4>2. CASE ~Here(t)
        BY <4>2 DEF Here
      <4> QED
        BY <4>1, <4>2
    <3>4. /\ Attempted(t) \in {"going", "asked"} /\ Attempted(t)' = "over"
          /\ Same(Task \ {t})
      BY <1>1, <2>1, <3>1, <3>2, <3>3, LeavingStep
    <3>5. CASE machine' = machine
      BY <1>1, <1>4, <3>4, <3>5, DoEnd
    <3>6. CASE CrashMakes(w)
      <4>1. Attempted(t) = "going"
        BY <1>8, <2>1, <3>6, ServedAttempt DEF CrashMakes, Asking, Serves
      <4>2. PICK v \in Vmid : /\ v = worker[w].vm /\ machine[v] = Nothing
                              /\ machine' = [machine EXCEPT ![v] = Made(w)]
        BY <3>6, <1>8 DEF CrashMakes, TInv, Mind, Planning
      <4>3. machine'[v] = Made(w) /\ \A x \in Vmid \ {v} : machine'[x] = machine[x]
        BY <4>2 DEF TInv, TypeOK
      <4>4. MadeFor(v) = Nothing /\ MadeFor(v)' \in {Nothing, t}
        BY <2>1, <4>2, <4>3 DEF MadeFor, Made, Serves
      <4>5. \A x \in Vmid \ {v} : MadeFor(x)' = MadeFor(x)
        BY <4>3 DEF MadeFor
      <4>6. \/ SameMachines
            \/ /\ MadeFor(v)' = t /\ MadeFor(v) = Nothing
               /\ \A x \in Vmid \ {v} : MadeFor(x)' = MadeFor(x)
        BY <4>4, <4>5 DEF SameMachines
      <4> QED
        BY <1>1, <3>4, <4>1, <4>6, DoEnd
    <3> QED
      BY <2>6, <3>5, <3>6, CrashCases DEF Count, FailCount, cluster
  <2>7. CASE ~(Count(w) \/ FailCount(w) \/ Crash(w))
    <3>1. /\ Attempted(t) = IF worker[w].pc \in Asking THEN "going" ELSE "asked"
          /\ Attempted(t)' = IF worker'[w].pc \in Asking THEN "going" ELSE "asked"
          /\ Same(Task \ {t})
      BY <1>1, <1>8, <2>1, <2>5, <2>7, KeepsTask, ServingStep
    <3>2. Attempted(t)' = Attempted(t) => Same(Task)
      BY <3>1 DEF Same
    <3>3. CASE Plan(w) \/ Allocate(w) \/ Hang(w)
      <4>1. worker[w].pc \in Asking /\ machine' = machine
        BY <3>3 DEF Plan, Allocate, Hang, At, Asking, cluster
      <4>2. worker'[w].pc \in Asking
        <5>1. CASE Hang(w)
          BY <1>3, <5>1 DEF Hang, Go, Asking, WorkerType
        <5>2. CASE Plan(w) \/ Allocate(w)
          <6>1. PICK v, i : \/ worker' = [worker EXCEPT ![w].pc = "allocate", ![w].vm = v]
                            \/ worker' = [worker EXCEPT ![w].pc = "create", ![w].ip = i]
            BY <5>2 DEF Plan, Allocate
          <6> QED
            BY <1>3, <6>1 DEF Asking, WorkerType
        <5> QED
          BY <3>3, <5>1, <5>2
      <4> QED
        BY <1>1, <1>4, <3>1, <3>2, <4>1, <4>2, DoNothing
    <3>4. CASE PlanFails(w) \/ CreateFails(w)
      <4>1. worker[w].pc \in Asking /\ worker'[w].pc \notin Asking /\ machine' = machine
        BY <1>3, <3>4 DEF PlanFails, CreateFails, Go, Leave, At, Asking, cluster, WorkerType
      <4> QED
        BY <1>1, <1>4, <3>1, <4>1, DoAsk
    <3>5. CASE Create(w) \/ CreateUnseen(w)
      <4>1. worker[w].pc \in Asking /\ worker'[w].pc \notin Asking
        BY <1>3, <3>5 DEF Create, CreateUnseen, Go, At, Asking, WorkerType
      <4>2. PICK v \in Vmid : /\ v = worker[w].vm /\ machine[v] = Nothing
                              /\ machine' = [machine EXCEPT ![v] = Made(w)]
        BY <3>5, <1>8 DEF Create, CreateUnseen, At, TInv, Mind, Planning
      <4>3. machine'[v] = Made(w) /\ \A x \in Vmid \ {v} : machine'[x] = machine[x]
        BY <4>2 DEF TInv, TypeOK
      <4>4. MadeFor(v) = Nothing /\ MadeFor(v)' \in {Nothing, t}
        BY <2>1, <4>2, <4>3 DEF MadeFor, Made, Serves
      <4>5. \A x \in Vmid \ {v} : MadeFor(x)' = MadeFor(x)
        BY <4>3 DEF MadeFor
      <4>6. \/ SameMachines
            \/ /\ MadeFor(v)' = t /\ MadeFor(v) = Nothing
               /\ \A x \in Vmid \ {v} : MadeFor(x)' = MadeFor(x)
        BY <4>4, <4>5 DEF SameMachines
      <4> QED
        BY <1>1, <3>1, <4>1, <4>6, DoAsk
    <3>6. CASE \/ Register(w) \/ RegisterFails(w) \/ Release(w) \/ ReleaseFails(w)
               \/ DestroyFails(w) \/ Report(w) \/ Fail(w) \/ OutcomeFails(w)
      <4>1. worker[w].pc \notin Asking
        BY <3>6 DEF Register, RegisterFails, Release, ReleaseFails, DestroyFails, Report, Fail,
           OutcomeFails, At, Asking
      <4>2. worker'[w].pc \notin Asking
        <5>1. CASE Register(w) \/ RegisterFails(w) \/ DestroyFails(w) \/ OutcomeFails(w)
          BY <1>3, <5>1 DEF Register, RegisterFails, DestroyFails, OutcomeFails, Go, Leave,
             Asking, WorkerType
        <5>2. CASE Release(w) \/ ReleaseFails(w) \/ Report(w) \/ Fail(w)
          BY <1>3, <5>2 DEF Release, ReleaseFails, Report, Fail, AfterRelease, Go, Leave,
             Asking, WorkerType
        <5> QED
          BY <3>6, <5>1, <5>2
      <4>3. machine' = machine
        BY <3>6 DEF Register, RegisterFails, Release, ReleaseFails, DestroyFails, Report, Fail,
           OutcomeFails, cluster
      <4> QED
        BY <1>1, <1>4, <3>1, <3>2, <4>1, <4>2, <4>3, DoNothing
    <3>7. CASE Destroy(w)
      <4>1. worker[w].pc \notin Asking /\ worker'[w].pc \notin Asking
        BY <1>3, <3>7 DEF Destroy, Leave, At, Asking, WorkerType
      <4>2. PICK v \in Vmid : v = worker[w].vm /\ machine' = [machine EXCEPT ![v] = Nothing]
        BY <3>7 DEF Destroy, At, TInv, Mind, Planning
      <4>3. machine'[v] = Nothing /\ \A x \in Vmid \ {v} : machine'[x] = machine[x]
        BY <4>2 DEF TInv, TypeOK
      <4>4. MadeFor(v)' = Nothing /\ \A x \in Vmid \ {v} : MadeFor(x)' = MadeFor(x)
        BY <4>3 DEF MadeFor
      <4> QED
        BY <1>1, <3>1, <3>2, <4>1, <4>4, DoDrop
    <3> QED
      BY <2>4, <2>7, <3>3, <3>4, <3>5, <3>6, <3>7 DEF Queue, Trouble
  <2> QED
    BY <2>6, <2>7
<1>9. worker[w].pc \notin Serving => Start(w) \/ Skip(w) \/ Finish(w) \/ Take(w) \/ Crash(w)
  BY ServingIsWorking DEF Queue, Trouble, Plan, PlanFails, Allocate, Create, CreateFails, Register,
     RegisterFails, Release, Destroy, Report, Count, Fail, FailCount, CreateUnseen, Hang,
     ReleaseFails, DestroyFails, OutcomeFails, At, Working
<1> QED
  BY <1>5, <1>6, <1>7, <1>8, <1>9

LEMMA ReviewSimulates ==
  ASSUME TInv, OneInv, NEW j \in Job, Reject(j) \/ \E w \in Worker : Approve(w, j)
  PROVE  Once!Next
<1>1. job[j].status = "pending_review" /\ task' = task /\ machine' = machine
  BY DEF Reject, Approve, Transition, cluster
<1>2. \/ job' = [job EXCEPT ![j].status = "rejected"]
      \/ job' = [job EXCEPT ![j].status = "approved"]
  BY DEF Reject, Approve, Transition
<1>3. job \in [Job -> [status : JobStatus, done : Nat, failed : Nat]]
  BY DEF TInv, TypeOK
<1>4. job'[j].status \in {"rejected", "approved"} /\ \A i \in Job \ {j} : job'[i] = job[i]
  BY <1>2, <1>3
<1>5. Verdict(j) = "open" /\ Verdict(j)' \in {"approved", "rejected"}
  BY <1>1, <1>4 DEF Verdict
<1>6. \A i \in Job \ {j} : Verdict(i)' = Verdict(i)
  BY <1>4 DEF Verdict
<1>7. SameMachines
  BY <1>1 DEF SameMachines, MadeFor
<1>8. Same(Task)
  <2>1. CASE worker' = worker
    BY <1>1, <2>1 DEF Same, Attempted, ServedBy, TaskOf
  <2>2. ASSUME NEW w \in Worker, Approve(w, j) PROVE Same(Task)
    <3>1. /\ worker[w].pc = "idle" /\ worker'[w].pc = "start"
          /\ \A u \in Worker \ {w} : worker'[u] = worker[u]
      BY <2>2 DEF Approve, First, Rest, TInv, TypeOK
    <3> QED
      BY <1>1, <3>1, IdleStep DEF Serving
  <2> QED
    BY <2>1, <2>2 DEF Reject
<1> QED
  BY <1>5, <1>6, <1>7, <1>8, DoJudge

LEMMA GroupSimulates ==
  ASSUME TInv, OneInv, NEW j \in Job, DeleteGroup(j)
  PROVE  Once!Next
<1>1. /\ job' = [job EXCEPT ![j] = [status |-> "gone", done |-> 0, failed |-> 0]]
      /\ task' = [t \in Task |->
                    IF t[1] = j THEN [status |-> "gone", vm |-> Nothing] ELSE task[t]]
      /\ worker' = worker /\ machine' = machine
  BY DEF DeleteGroup, cluster
<1>2. job'[j].status = "gone" /\ \A i \in Job \ {j} : job'[i] = job[i]
  BY <1>1 DEF TInv, TypeOK
<1>3. Verdict(j)' = "gone" /\ \A i \in Job \ {j} : Verdict(i)' = Verdict(i)
  BY <1>2 DEF Verdict
<1>4. SameMachines
  BY <1>1 DEF SameMachines, MadeFor
<1>5. ASSUME NEW t \in Task
      PROVE  Attempted(t)' = IF t[1] = j /\ Attempted(t) = "none" THEN "over" ELSE Attempted(t)
  <2>1. \A w \in Worker : Serves(w, t)' <=> Serves(w, t)
    BY <1>1 DEF Serves, TaskOf
  <2>2. CASE t[1] # j
    BY <1>1, <2>1, <2>2, AttemptFrame
  <2>3. CASE t[1] = j /\ \A w \in Worker : ~Serves(w, t)
    <3>1. task'[t].status = "gone"
      BY <1>1, <2>3
    <3>2. Attempted(t)' = "over" /\ Attempted(t) \in {"none", "over"}
      BY <2>1, <2>3, <3>1, UnservedAttempt, UnservedAttemptNext
    <3> QED
      BY <2>3, <3>2
  <2>4. CASE \E w \in Worker : Serves(w, t)
    <3>1. ServedBy(t) # {} /\ ServedBy(t)' = ServedBy(t)
      BY <1>1, <2>4 DEF ServedBy, Serves, TaskOf
    <3>2. Attempted(t)' = Attempted(t) /\ Attempted(t) # "none"
      BY <1>1, <3>1 DEF Attempted
    <3> QED
      BY <3>2
  <2> QED
    BY <2>2, <2>3, <2>4
<1> QED
  BY <1>3, <1>4, <1>5, DoRemove

LEMMA DeletionSimulates ==
  ASSUME TInv, OneInv, NEW v \in Vmid, Delete(v) \/ Unlink(v)
  PROVE  Once!Next \/ UNCHANGED Once!vars
<1>1. job' = job /\ worker' = worker /\ \A t \in Task : task'[t].status = task[t].status
  BY DEF Delete, Unlink, rows, TInv, TypeOK
<1>2. SameVerdicts
  BY <1>1 DEF SameVerdicts, Verdict
<1>3. Same(Task)
  BY <1>1 DEF Same, Attempted, ServedBy, TaskOf
<1>4. CASE Delete(v)
  <2>1. machine'[v] = Nothing /\ \A x \in Vmid \ {v} : machine'[x] = machine[x]
    BY <1>4 DEF Delete, TInv, TypeOK
  <2>2. MadeFor(v)' = Nothing /\ \A x \in Vmid \ {v} : MadeFor(x)' = MadeFor(x)
    BY <2>1 DEF MadeFor
  <2> QED
    BY <1>2, <1>3, <2>2, DoDrop
<1>5. CASE Unlink(v)
  <2>1. SameMachines
    BY <1>5 DEF Unlink, SameMachines, MadeFor
  <2> QED
    BY <1>2, <1>3, <2>1, DoNothing
<1> QED
  BY <1>4, <1>5

LEMMA UserSimulates ==
  ASSUME NEW u \in User, DeleteUser(u)
  PROVE  Once!Next \/ UNCHANGED Once!vars
<1>1. /\ job' = job /\ worker' = worker /\ machine' = machine
      /\ task' = [t \in Task |->
                    IF Owner[t] = u THEN [status |-> "gone", vm |-> Nothing] ELSE task[t]]
  BY DEF DeleteUser
<1>2. SameVerdicts /\ SameMachines
  BY <1>1 DEF SameVerdicts, SameMachines, Verdict, MadeFor
<1> DEFINE S == {t \in Task : Owner[t] = u /\ Attempted(t) = "none"}
<1>3. \A t \in Task : \A w \in Worker : Serves(w, t)' <=> Serves(w, t)
  BY <1>1 DEF Serves, TaskOf
<1>4. ASSUME NEW t \in S PROVE Attempted(t)' = "over"
  <2>1. ServedBy(t) = {}
    BY <1>4 DEF Attempted
  <2>2. \A w \in Worker : ~Serves(w, t)'
    BY <1>3, <2>1 DEF Serves, ServedBy
  <2>3. task'[t].status = "gone"
    BY <1>1
  <2> QED
    BY <2>2, <2>3, UnservedAttemptNext
<1>5. ASSUME NEW t \in Task \ S PROVE Attempted(t)' = Attempted(t)
  <2>1. CASE Owner[t] # u
    BY <1>1, <1>3, <2>1, AttemptFrame
  <2>2. CASE Owner[t] = u
    <3>1. Attempted(t) # "none"
      BY <1>5, <2>2
    <3>2. ServedBy(t)' = ServedBy(t)
      BY <1>1 DEF ServedBy, TaskOf
    <3>3. task'[t].status = "gone"
      BY <1>1, <2>2
    <3> QED
      BY <1>1, <3>1, <3>2, <3>3 DEF Attempted
  <2> QED
    BY <2>1, <2>2
<1>6. CASE S = {}
  BY <1>2, <1>5, <1>6, DoNothing DEF Same
<1>7. CASE S # {}
  <2>1. Same(Task \ S)
    BY <1>5 DEF Same
  <2>2. \A t \in S : Attempted(t) = "none" /\ Attempted(t)' = "over"
    BY <1>4
  <2>3. S \in SUBSET Task
    OBVIOUS
  <2> HIDE DEF S
  <2> QED
    BY <1>2, <1>7, <2>1, <2>2, <2>3, DoOmit
<1> QED
  BY <1>6, <1>7

LEMMA InitOnce == Init => Once!Init
<1> SUFFICES ASSUME Init PROVE Once!Init
  OBVIOUS
<1>1. \A j \in Job : Verdict(j) = "open"
  BY DEF Init, Verdict
<1>2. \A v \in Vmid : MadeFor(v) = Nothing
  BY DEF Init, MadeFor
<1>3. \A t \in Task : Attempted(t) = "none"
  <2>1. \A w \in Worker : worker[w].pc \notin Serving
    BY DEF Init, Rest, Serving
  <2>2. \A t \in Task : task[t].status = "pending"
    BY DEF Init
  <2> QED
    BY <2>1, <2>2, UnservedAttempt DEF Serves
<1> QED
  BY <1>1, <1>2, <1>3 DEF Once!Init

SimInv == TInv /\ OneInv /\ CInv

LEMMA StepOnce == SimInv /\ SimInv' /\ [Next]_vars => [Once!Next]_(Once!vars)
<1> SUFFICES ASSUME SimInv, SimInv', [Next]_vars PROVE Once!Next \/ UNCHANGED Once!vars
  OBVIOUS
<1>1. TInv /\ OneInv /\ CInv /\ TInv' /\ OneInv'
  BY DEF SimInv
<1>2. CASE UNCHANGED vars
  <2>1. UNCHANGED <<job, task, worker, machine>>
    BY <1>2 DEF vars, rows, cluster
  <2>2. SameVerdicts /\ SameMachines /\ Same(Task)
    BY <2>1 DEF SameVerdicts, SameMachines, Same, Verdict, MadeFor, Attempted, ServedBy, TaskOf
  <2> QED
    BY <2>2, DoNothing
<1>3. ASSUME NEW j \in Job, DeleteGroup(j) PROVE Once!Next
  BY <1>1, <1>3, GroupSimulates
<1>4. ASSUME NEW j \in Job, Reject(j) \/ \E w \in Worker : Approve(w, j) PROVE Once!Next
  BY <1>1, <1>4, ReviewSimulates
<1>5. ASSUME NEW w \in Worker, Queue(w) \/ Trouble(w) PROVE Once!Next \/ UNCHANGED Once!vars
  BY <1>1, <1>5, ThreadSimulates
<1>6. ASSUME NEW v \in Vmid, Delete(v) \/ Unlink(v) PROVE Once!Next \/ UNCHANGED Once!vars
  BY <1>1, <1>6, DeletionSimulates
<1>7. ASSUME NEW u \in User, DeleteUser(u) PROVE Once!Next \/ UNCHANGED Once!vars
  BY <1>7, UserSimulates
<1> QED
  BY <1>2, <1>3, <1>4, <1>5, <1>6, <1>7 DEF Next

\* Nothing is made for a job before it is approved, its members are served in turn,
\* each is served once and gets one machine at most: whatever fails, whoever deletes
\* groups, users and machines meanwhile, and however many threads there are.
THEOREM BatchImplementsOnce == Spec => ServedOnce
<1>1. Init => SimInv
  BY InitTyped, InitOne, InitCounts DEF SimInv
<1>2. SimInv /\ [Next]_vars => SimInv'
  BY StepTyped, StepOne, StepCounts DEF SimInv
<1> QED
  BY <1>1, <1>2, InitOnce, StepOnce, PTL DEF Spec, ServedOnce, Once!Spec
=============================================================================
