-------------------------- MODULE TaskRunnerProofs --------------------------
(* Theorems about TaskRunner, for every value of its constants. *)
EXTENDS TaskRunner, FiniteSetTheorems, TLAPS

(***************************************************************************)
(* Type correctness                                                        *)
(***************************************************************************)
\* A task has an id as soon as it exists.
TInv == TypeOK /\ \A t \in Task : st[t] # "free" => id[t] \in Id

LEMMA TaskSetFinite == IsFiniteSet(Task) /\ Task \subseteq Nat
  BY FS_Interval, LimitsAssumption DEF Task

LEMMA TurnTyped == 1 + Cardinality({u \in Task : turn[u] # 0}) \in Nat
<1>1. IsFiniteSet({u \in Task : turn[u] # 0})
  BY TaskSetFinite, FS_Subset
<1> QED
  BY <1>1, FS_CardinalityType

LEMMA InitTyped == Init => TInv
  BY SubmittersAssumption DEF Init, TInv, TypeOK, Progress, Attempt, Phase

LEMMA EnterTyped ==
  ASSUME TInv, NEW t \in Task, NEW i \in Id, Enter(t, i)
  PROVE  /\ tasks' \in [Id -> Task \cup {NoTask}] /\ turn' \in [Task -> Nat]
         /\ late' \subseteq Task /\ st' \in [Task -> Progress]
         /\ \A u \in Task : st'[u] = IF u = t THEN "waiting" ELSE st[u]
  BY TurnTyped DEF Enter, Move, TInv, TypeOK, Progress

LEMMA StepTyped == TInv /\ [Next]_vars => TInv'
<1> SUFFICES ASSUME TInv, [Next]_vars PROVE TInv'
  OBVIOUS
<1> USE DEF TInv, TypeOK
<1>1. ASSUME NEW h \in Handler, NEW i \in Id, Submit(h, i) PROVE TInv'
  BY <1>1 DEF Submit, Race, progress, dictionary, shutdown
<1>2. ASSUME NEW h \in Handler, NEW i \in Id, SubmitInLoop(h, i) PROVE TInv'
  <2>1. PICK t \in Task : /\ id' = [id EXCEPT ![t] = i]
                          /\ Enter(t, i)
    BY <1>2 DEF SubmitInLoop
  <2>2. UNCHANGED <<call, tries, stop, thread, phase, awaited>> /\ raced' \subseteq Id
    BY <1>2 DEF SubmitInLoop, Race
  <2> QED
    BY <2>1, <2>2, EnterTyped
<1>3. ASSUME NEW h \in Handler, Post(h) PROVE TInv'
  BY <1>3 DEF Post, Move, Progress, dictionary, shutdown
<1>4. ASSUME NEW t \in Task, Register(t) PROVE TInv'
  <2>1. st[t] = "posted" /\ Enter(t, id[t])
    BY <1>4 DEF Register, First, Posted
  <2>2. UNCHANGED <<call, id, tries, stop, thread, phase, awaited, raced>>
    BY <1>4 DEF Register
  <2> QED
    BY <2>1, <2>2, EnterTyped
<1>5. ASSUME NEW t \in Task, Acquire(t) \/ Retry(t) PROVE TInv'
  <2>1. Begin(t) /\ st[t] # "free"
    BY <1>5 DEF Acquire, Retry, InLine
  <2>2. UNCHANGED <<call, id, stop, dictionary, shutdown, raced>>
    BY <1>5 DEF Acquire, Retry
  <2> QED
    BY <2>1, <2>2 DEF Begin, Move, Progress, Attempt, dictionary, shutdown
<1>6. ASSUME NEW t \in Task, ThreadStart(t) \/ ThreadEnds(t) \/ ThreadHangs(t) PROVE TInv'
  BY <1>6 DEF ThreadStart, ThreadEnds, ThreadHangs, Attempt, dictionary, shutdown
<1>7. ASSUME NEW t \in Task, Resume(t) PROVE TInv'
  BY <1>7 DEF Resume, Move, Progress, Attempt, dictionary, shutdown
<1>8. ASSUME NEW t \in Task, TakeCancel(t) PROVE TInv'
  BY <1>8 DEF TakeCancel, Live, Move, Progress, Attempt, dictionary, shutdown
<1>9. ASSUME NEW t \in Task, Cleanup(t) PROVE TInv'
  BY <1>9 DEF Cleanup, Move, Progress, dictionary, shutdown
<1>10. ASSUME NEW i \in Id, Cancel(i) PROVE TInv'
  BY <1>10 DEF Cancel, dictionary, shutdown
<1>11. ASSUME Shutdown \/ Drained \/ Timeout PROVE TInv'
  <2>1. InFlight \subseteq Task
    BY DEF InFlight
  <2>2. CASE Shutdown
    BY <2>1, <2>2 DEF Shutdown, Phase, progress, dictionary
  <2>3. CASE Drained \/ Timeout
    <3>1. UNCHANGED <<call, id, st, tries, thread, tasks, turn, awaited, late, raced>>
      BY <2>3 DEF Drained, Timeout, dictionary
    <3>2. stop' \in [Task -> BOOLEAN] /\ phase' \in Phase
      BY <2>3 DEF Drained, Timeout, Phase, Live
    <3> QED
      BY <3>1, <3>2
  <2> QED
    BY <1>11, <2>2, <2>3
<1>12. CASE UNCHANGED vars
  BY <1>12 DEF vars, progress, dictionary, shutdown
<1> QED
  BY <1>1, <1>2, <1>3, <1>4, <1>5, <1>6, <1>7, <1>8, <1>9, <1>10, <1>11, <1>12
  DEF Next, LoopStep

\* Every variable keeps its type: a place, an id or a thread that is given back
\* leaves the runner in one of the states it names.
THEOREM RunnerTypeCorrect == Spec => []TypeOK
<1>1. TInv => TypeOK
  BY DEF TInv
<1> QED
  BY InitTyped, StepTyped, <1>1, PTL DEF Spec

(***************************************************************************)
(* Registration                                                            *)
(***************************************************************************)
\* Its done callback has not run yet.
Registered(t) == Live(t) \/ st[t] = "done"

\* The dictionary names a registered task of the id.
Named == \A i \in Id : tasks[i] # NoTask => Registered(tasks[i]) /\ id[tasks[i]] = i

\* Until an id is submitted twice at a time, its task is in the dictionary ...
Known == \A t \in Task : Registered(t) /\ id[t] \notin raced => tasks[id[t]] = t

\* ... its dictionary entry is empty while a submission is on its way ...
Vacant == \A i \in Id : i \notin raced /\ OnItsWay(i) => tasks[i] = NoTask

\* ... and there is one such submission.
Alone ==
    \A i \in Id : i \notin raced =>
        /\ \A g, h \in Handler : call[g] = i /\ call[h] = i => g = h
        /\ \A t, u \in Posted : id[t] = i /\ id[u] = i => t = u
        /\ \A h \in Handler, t \in Posted : ~(call[h] = i /\ id[t] = i)

RegInv == Named /\ Known /\ Vacant /\ Alone

LEMMA InitRegistered == Init => RegInv
  BY SubmittersAssumption
  DEF Init, RegInv, Named, Known, Vacant, Alone, Posted, OnItsWay, Registered, Live

\* What the registration does to the dictionary, in the loop or from a handler.
LEMMA EnterRegistered ==
  ASSUME TInv, RegInv, NEW t \in Task, NEW i \in Id, Enter(t, i),
         st[t] \in {"free", "posted"}, id'[t] = i,
         \A u \in Task \ {t} : id'[u] = id[u],
         raced \subseteq raced',
         i \notin raced' => tasks[i] = NoTask
  PROVE  Named' /\ Known'
<1>1. tasks' = [tasks EXCEPT ![i] = t]
      /\ \A u \in Task : st'[u] = IF u = t THEN "waiting" ELSE st[u]
  BY EnterTyped DEF Enter
<1>2. \A u \in Task : Registered(u)' <=> (u = t \/ Registered(u))
  BY <1>1 DEF Registered, Live
<1>3. ~Registered(t)
  BY DEF Registered, Live
<1>4. ASSUME NEW j \in Id, tasks'[j] # NoTask
      PROVE  Registered(tasks[j])' /\ id'[tasks'[j]] = j
  <2>1. CASE j = i
    BY <1>1, <1>2, <2>1 DEF TInv, TypeOK
  <2>2. CASE j # i
    <3>1. tasks'[j] = tasks[j] /\ tasks[j] \in Task
      BY <1>1, <1>4, <2>2 DEF TInv, TypeOK
    <3>2. Registered(tasks[j]) /\ id[tasks[j]] = j
      BY <1>4, <3>1 DEF RegInv, Named
    <3>3. tasks[j] # t
      BY <1>3, <3>2
    <3> QED
      BY <1>2, <3>1, <3>2, <3>3
  <2> QED
    BY <2>1, <2>2
<1>5. ASSUME NEW u \in Task, Registered(u)', id'[u] \notin raced'
      PROVE  tasks'[id'[u]] = u
  <2>1. CASE u = t
    BY <1>1, <2>1 DEF TInv, TypeOK
  <2>2. CASE u # t
    <3>1. Registered(u) /\ id'[u] = id[u] /\ id[u] \notin raced
      BY <1>2, <1>5, <2>2
    <3>2. tasks[id[u]] = u /\ id[u] \in Id
      BY <3>1 DEF RegInv, Known, TInv, Registered, Live
    <3>3. id[u] # i
      BY LimitsAssumption, <1>5, <3>1, <3>2
    <3> QED
      BY <1>1, <3>1, <3>2, <3>3 DEF TInv, TypeOK
  <2> QED
    BY <2>1, <2>2
<1> QED
  BY <1>4, <1>5 DEF Named, Known

\* A step that neither submits nor registers nor cleans up.
LEMMA OtherRegistered ==
  ASSUME TInv, RegInv, UNCHANGED <<call, id, tasks, raced>>,
         \A t \in Task : Registered(t)' = Registered(t),
         Posted' = Posted
  PROVE  RegInv'
<1>1. \A i \in Id : OnItsWay(i)' => OnItsWay(i)
  BY DEF OnItsWay, Posted
<1>2. Known' /\ Vacant' /\ Alone'
  BY <1>1 DEF RegInv, Known, Vacant, Alone
<1>3. Named'
  <2> SUFFICES ASSUME NEW i \in Id, tasks'[i] # NoTask
               PROVE  Registered(tasks[i])' /\ id'[tasks'[i]] = i
    BY DEF Named
  <2>1. Registered(tasks[i]) /\ id[tasks[i]] = i /\ tasks[i] \in Task
    BY DEF RegInv, Named, TInv, TypeOK
  <2>2. Registered(tasks[i])' = (st'[tasks[i]] \in {"waiting", "running", "backoff", "done"})
    BY DEF Registered, Live
  <2>3. Registered(tasks[i]) = (st[tasks[i]] \in {"waiting", "running", "backoff", "done"})
    BY DEF Registered, Live
  <2>4. \A t \in Task : (st'[t] \in {"waiting", "running", "backoff", "done"})
                          = (st[t] \in {"waiting", "running", "backoff", "done"})
    BY DEF Registered, Live
  <2> QED
    BY <2>1, <2>2, <2>3, <2>4
<1> QED
  BY <1>2, <1>3 DEF RegInv

LEMMA StepRegistered == TInv /\ RegInv /\ [Next]_vars => RegInv'
<1> SUFFICES ASSUME TInv, RegInv, [Next]_vars PROVE RegInv'
  OBVIOUS
<1> USE DEF dictionary, progress, shutdown
<1>1. ASSUME NEW h \in Handler, NEW i \in Id, Submit(h, i) PROVE RegInv'
  <2>1. /\ tasks[i] = NoTask /\ call[h] = NoId /\ call' = [call EXCEPT ![h] = i]
        /\ raced' = (IF OnItsWay(i) THEN raced \cup {i} ELSE raced)
        /\ UNCHANGED <<id, st, tasks>>
    BY <1>1 DEF Submit, Accepted, Race
  <2>2. Posted' = Posted
    BY <2>1 DEF Posted
  <2>3. Named' /\ Known'
    BY <2>1 DEF RegInv, Named, Known, Registered, Live
  <2>4. ASSUME NEW j \in Id, j \notin raced', OnItsWay(j)' PROVE tasks'[j] = NoTask
    <3>1. j = i \/ OnItsWay(j)
      BY <2>1, <2>4 DEF OnItsWay, TInv, TypeOK
    <3> QED
      BY <2>1, <2>4, <3>1 DEF RegInv, Vacant
  <2>5. Vacant'
    BY <2>4 DEF Vacant
  <2>6. Alone'
    <3>1. ~OnItsWay(i) \/ i \in raced'
      BY <2>1
    <3>2. ~OnItsWay(i) => (\A g \in Handler : call[g] # i) /\ (\A t \in Posted : id[t] # i)
      BY DEF OnItsWay, Posted
    <3>3. \A g \in Handler : call'[g] = IF g = h THEN i ELSE call[g]
      BY <2>1 DEF TInv, TypeOK
    <3> QED
      BY <2>1, <2>2, <3>1, <3>2, <3>3 DEF RegInv, Alone
  <2> QED
    BY <2>3, <2>5, <2>6 DEF RegInv
<1>2. ASSUME NEW h \in Handler, NEW i \in Id, SubmitInLoop(h, i) PROVE RegInv'
  <2>1. PICK t \in Task : First(t, Unused) /\ id' = [id EXCEPT ![t] = i] /\ Enter(t, i)
    BY <1>2 DEF SubmitInLoop
  <2>2. /\ tasks[i] = NoTask /\ call' = call
        /\ raced' = (IF OnItsWay(i) THEN raced \cup {i} ELSE raced)
    BY <1>2 DEF SubmitInLoop, Accepted, Race
  <2>3. st[t] = "free" /\ t \notin Posted
    BY <2>1 DEF First, Unused, Posted
  <2>4. tasks' = [tasks EXCEPT ![i] = t]
        /\ \A u \in Task : st'[u] = IF u = t THEN "waiting" ELSE st[u]
    BY <2>1, EnterTyped DEF Enter
  <2>5. \A u \in Task : id'[u] = IF u = t THEN i ELSE id[u]
    BY <2>1 DEF TInv, TypeOK
  <2>6. Named' /\ Known'
    BY <2>1, <2>2, <2>3, <2>5, EnterRegistered
  <2>7. Posted' = Posted
    BY <2>3, <2>4 DEF Posted
  <2>8. \A j \in Id : OnItsWay(j)' => OnItsWay(j)
    BY <2>2, <2>3, <2>4, <2>5 DEF OnItsWay
  <2>9. Vacant'
    <3>1. ASSUME NEW j \in Id, j \notin raced', OnItsWay(j)' PROVE tasks'[j] = NoTask
      BY <2>2, <2>4, <2>8, <3>1 DEF RegInv, Vacant, TInv, TypeOK
    <3> QED
      BY <3>1 DEF Vacant
  <2>10. Alone'
    <3>1. \A u \in Posted : id'[u] = id[u]
      BY <2>3, <2>5 DEF Posted
    <3> QED
      BY <2>2, <2>7, <3>1 DEF RegInv, Alone
  <2> QED
    BY <2>6, <2>9, <2>10 DEF RegInv
<1>3. ASSUME NEW h \in Handler, Post(h) PROVE RegInv'
  <2>1. PICK t \in Task : /\ First(t, Unused) /\ id' = [id EXCEPT ![t] = call[h]]
                          /\ Move(t, "posted")
    BY <1>3 DEF Post
  <2>2. /\ call[h] # NoId /\ call' = [call EXCEPT ![h] = NoId]
        /\ UNCHANGED <<tasks, raced>>
    BY <1>3 DEF Post
  <2> DEFINE i == call[h]
  <2>3. i \in Id /\ st[t] = "free" /\ t \notin Posted
    BY <2>1, <2>2 DEF First, Unused, Posted, TInv, TypeOK
  <2>4. /\ \A u \in Task : st'[u] = IF u = t THEN "posted" ELSE st[u]
        /\ \A u \in Task : id'[u] = IF u = t THEN i ELSE id[u]
        /\ \A g \in Handler : call'[g] = IF g = h THEN NoId ELSE call[g]
    BY <2>1, <2>2 DEF Move, TInv, TypeOK
  <2>5. Posted' = Posted \cup {t}
    BY <2>4 DEF Posted
  <2>6. \A j \in Id : OnItsWay(j)' => OnItsWay(j)
    BY <2>2, <2>3, <2>4, SubmittersAssumption DEF OnItsWay
  <2>7. Vacant'
    BY <2>2, <2>6 DEF RegInv, Vacant
  <2>8. Named'
    <3>1. ASSUME NEW j \in Id, tasks[j] # NoTask
          PROVE  Registered(tasks[j])' /\ id'[tasks[j]] = j
      <4>1. Registered(tasks[j]) /\ id[tasks[j]] = j /\ tasks[j] \in Task
        BY <3>1 DEF RegInv, Named, TInv, TypeOK
      <4>2. tasks[j] # t
        BY <2>3, <4>1 DEF Registered, Live
      <4> QED
        BY <2>2, <2>4, <4>1, <4>2 DEF Registered, Live
    <3> QED
      BY <2>2, <3>1 DEF Named
  <2>9. Known'
    <3>1. ASSUME NEW u \in Task, Registered(u)', id'[u] \notin raced' PROVE tasks'[id'[u]] = u
      <4>1. u # t /\ Registered(u)
        BY <2>4, <3>1 DEF Registered, Live
      <4> QED
        BY <2>2, <2>4, <3>1, <4>1 DEF RegInv, Known
    <3> QED
      BY <3>1 DEF Known
  <2>10. Alone'
    <3> SUFFICES ASSUME NEW j \in Id, j \notin raced
                 PROVE  /\ \A g, k \in Handler : call'[g] = j /\ call'[k] = j => g = k
                        /\ \A u, v \in Posted' : id'[u] = j /\ id'[v] = j => u = v
                        /\ \A g \in Handler, u \in Posted' : ~(call'[g] = j /\ id'[u] = j)
      BY <2>2 DEF Alone
    <3>1. /\ \A g, k \in Handler : call[g] = j /\ call[k] = j => g = k
          /\ \A u, v \in Posted : id[u] = j /\ id[v] = j => u = v
          /\ \A g \in Handler, u \in Posted : ~(call[g] = j /\ id[u] = j)
      BY DEF RegInv, Alone
    <3>2. \A u \in Posted : u \in Task /\ u # t /\ id'[u] = id[u]
      BY <2>3, <2>4 DEF Posted
    <3>3. id'[t] = call[h]
      BY <2>4
    <3>4. \A g \in Handler : call'[g] = j => g # h /\ call[g] = j
      BY <2>4, SubmittersAssumption
    <3> QED
      BY <2>5, <3>1, <3>2, <3>3, <3>4
  <2> QED
    BY <2>7, <2>8, <2>9, <2>10 DEF RegInv
<1>4. ASSUME NEW t \in Task, Register(t) PROVE RegInv'
  <2>1. t \in Posted /\ Enter(t, id[t]) /\ UNCHANGED <<call, id, raced>>
    BY <1>4 DEF Register, First
  <2>2. st[t] = "posted" /\ id[t] \in Id /\ OnItsWay(id[t])
    BY <2>1 DEF Posted, OnItsWay, TInv
  <2>3. tasks' = [tasks EXCEPT ![id[t]] = t]
        /\ \A u \in Task : st'[u] = IF u = t THEN "waiting" ELSE st[u]
    BY <2>1, <2>2, EnterTyped DEF Enter
  <2>4. Named' /\ Known'
    <3>1. id[t] \notin raced' => tasks[id[t]] = NoTask
      BY <2>1, <2>2 DEF RegInv, Vacant
    <3> QED
      BY <2>1, <2>2, <3>1, EnterRegistered
  <2>5. Posted' = Posted \ {t}
    BY <2>3 DEF Posted
  <2>6. Alone'
    BY <2>1, <2>5 DEF RegInv, Alone
  <2>7. Vacant'
    <3>1. ASSUME NEW j \in Id, j \notin raced, OnItsWay(j)' PROVE tasks'[j] = NoTask
      <4>1. OnItsWay(j)
        BY <2>1, <2>3, <3>1 DEF OnItsWay
      <4>2. j # id[t]
        BY <2>1, <2>2, <2>3, <2>5, <3>1 DEF RegInv, Alone, OnItsWay, Posted
      <4> QED
        BY <2>2, <2>3, <3>1, <4>1, <4>2 DEF RegInv, Vacant, TInv, TypeOK
    <3> QED
      BY <2>1, <3>1 DEF Vacant
  <2> QED
    BY <2>4, <2>6, <2>7 DEF RegInv
<1>5. ASSUME NEW t \in Task,
             Acquire(t) \/ Retry(t) \/ Resume(t) \/ TakeCancel(t)
             \/ ThreadStart(t) \/ ThreadEnds(t) \/ ThreadHangs(t)
      PROVE  RegInv'
  <2>1. UNCHANGED <<call, id, tasks, raced>>
    BY <1>5 DEF Acquire, Retry, Resume, TakeCancel, ThreadStart, ThreadEnds, ThreadHangs
  <2>2. \/ st' = st
        \/ \E s \in {"running", "backoff", "done"} : Live(t) /\ Move(t, s)
    BY <1>5 DEF Acquire, Retry, Resume, TakeCancel, ThreadStart, ThreadEnds, ThreadHangs,
                InLine, Begin, Live
  <2>3. (\A u \in Task : Registered(u)' = Registered(u)) /\ Posted' = Posted
    BY <2>2 DEF Registered, Live, Posted, Move, TInv, TypeOK
  <2> QED
    BY <2>1, <2>3, OtherRegistered
<1>6. ASSUME NEW t \in Task, Cleanup(t) PROVE RegInv'
  <2>1. /\ st[t] = "done" /\ id[t] \in Id /\ UNCHANGED <<call, id, raced>>
        /\ \A u \in Task : st'[u] = IF u = t THEN "gone" ELSE st[u]
        /\ \A j \in Id : tasks'[j] = IF j = id[t] THEN NoTask ELSE tasks[j]
    BY <1>6 DEF Cleanup, Move, TInv, TypeOK
  <2>2. Posted' = Posted /\ \A j \in Id : OnItsWay(j)' = OnItsWay(j)
    BY <2>1 DEF Posted, OnItsWay
  <2>3. Vacant' /\ Alone'
    BY <2>1, <2>2 DEF RegInv, Vacant, Alone
  <2>4. Known'
    <3>1. ASSUME NEW u \in Task, Registered(u)', id'[u] \notin raced' PROVE tasks'[id'[u]] = u
      <4>1. u # t /\ Registered(u) /\ id[u] \in Id
        BY <2>1, <3>1 DEF Registered, Live, TInv
      <4>2. tasks[id[u]] = u
        BY <2>1, <3>1, <4>1 DEF RegInv, Known
      <4>3. id[t] = id[u] => tasks[id[t]] = t
        BY <2>1, <3>1 DEF RegInv, Known, Registered
      <4> QED
        BY <2>1, <4>1, <4>2, <4>3
    <3> QED
      BY <3>1 DEF Known
  <2>5. Named'
    <3>1. ASSUME NEW j \in Id, tasks'[j] # NoTask
          PROVE  Registered(tasks[j])' /\ id'[tasks'[j]] = j
      <4>1. j # id[t] /\ tasks'[j] = tasks[j] /\ tasks[j] \in Task
        BY <2>1, <3>1 DEF TInv, TypeOK
      <4>2. Registered(tasks[j]) /\ id[tasks[j]] = j
        BY <3>1, <4>1 DEF RegInv, Named
      <4>3. tasks[j] # t
        BY <4>1, <4>2
      <4> QED
        BY <2>1, <4>1, <4>2, <4>3 DEF Registered, Live
    <3> QED
      BY <3>1 DEF Named
  <2> QED
    BY <2>3, <2>4, <2>5 DEF RegInv
<1>7. ASSUME (\E i \in Id : Cancel(i)) \/ Shutdown \/ Drained \/ Timeout \/ UNCHANGED vars
      PROVE  RegInv'
  <2>1. UNCHANGED <<call, id, st, tasks, raced>>
    BY <1>7 DEF Cancel, Shutdown, Drained, Timeout, vars
  <2>2. (\A u \in Task : Registered(u)' = Registered(u)) /\ Posted' = Posted
    BY <2>1 DEF Registered, Live, Posted
  <2> QED
    BY <2>1, <2>2, OtherRegistered
<1> QED
  BY <1>1, <1>2, <1>3, <1>4, <1>5, <1>6, <1>7 DEF Next, LoopStep

\* An id that is not submitted twice before its registration has its task in the
\* dictionary for as long as the task lives.
THEOREM TasksAreTracked == Spec => []Tracked
<1>1. TInv /\ RegInv => Tracked
  BY DEF RegInv, Known, Tracked, Registered
<1> QED
  BY InitTyped, StepTyped, InitRegistered, StepRegistered, <1>1, PTL DEF Spec

(***************************************************************************)
(* The semaphore                                                           *)
(***************************************************************************)
\* A task that has no place has no function in the executor unless it is over.
Idle == \A t \in Task : st[t] \in {"free", "posted", "waiting"} => thread[t] = "none"

ConcInv == Cardinality(Holding) <= MaxConcurrency /\ Idle

LEMMA HoldingFinite == IsFiniteSet(Holding) /\ Cardinality(Holding) \in Nat
<1>1. IsFiniteSet(Holding)
  BY TaskSetFinite, FS_Subset DEF Holding
<1> QED
  BY <1>1, FS_CardinalityType

LEMMA InitBounded == Init => ConcInv
<1> SUFFICES ASSUME Init PROVE ConcInv
  OBVIOUS
<1>1. Holding = {}
  BY DEF Init, Holding
<1>2. Cardinality(Holding) = 0
  BY <1>1, FS_EmptySet
<1> QED
  BY <1>2, LimitsAssumption DEF Init, ConcInv, Idle

\* Nobody takes a place.
LEMMA FewerHolding ==
  ASSUME ConcInv, Holding' \subseteq Holding
  PROVE  Cardinality(Holding)' <= MaxConcurrency
<1>1. Cardinality(Holding') \in Nat /\ Cardinality(Holding') <= Cardinality(Holding)
  BY HoldingFinite, FS_Subset, FS_CardinalityType
<1> QED
  BY <1>1, HoldingFinite, LimitsAssumption DEF ConcInv

LEMMA StepBounded == TInv /\ ConcInv /\ [Next]_vars => ConcInv'
<1> SUFFICES ASSUME TInv, ConcInv, [Next]_vars PROVE ConcInv'
  OBVIOUS
<1> USE DEF progress
<1>1. ASSUME NEW t \in Task, Acquire(t) PROVE ConcInv'
  <2>1. /\ st[t] = "waiting" /\ Cardinality(Holding) < MaxConcurrency
        /\ \A u \in Task : st'[u] = IF u = t THEN "running" ELSE st[u]
        /\ \A u \in Task : thread'[u] = IF u = t THEN "queued" ELSE thread[u]
    BY <1>1 DEF Acquire, InLine, Begin, Move, TInv, TypeOK
  <2>2. Holding' = Holding \cup {t} /\ t \notin Holding
    BY <2>1 DEF Holding
  <2>3. Cardinality(Holding') = Cardinality(Holding) + 1
    BY <2>2, HoldingFinite, FS_AddElement
  <2>4. Cardinality(Holding)' <= MaxConcurrency
    BY <2>1, <2>3, HoldingFinite, LimitsAssumption
  <2>5. Idle'
    BY <2>1 DEF ConcInv, Idle
  <2> QED
    BY <2>4, <2>5 DEF ConcInv
<1>2. ASSUME NEW t \in Task, Retry(t) \/ Resume(t) \/ TakeCancel(t) \/ Cleanup(t) PROVE ConcInv'
  <2>1. /\ st[t] \in {"waiting", "running", "backoff", "done"}
        /\ st'[t] \in {"running", "backoff", "done", "gone"}
        /\ st[t] = "waiting" \/ st[t] = "done" => st'[t] \in {"done", "gone"}
        /\ \A u \in Task \ {t} : st'[u] = st[u] /\ thread'[u] = thread[u]
    BY <1>2 DEF Retry, Resume, TakeCancel, Cleanup, Live, Begin, Move, TInv, TypeOK
  <2>2. Holding' \subseteq Holding /\ Idle'
    BY <2>1 DEF Holding, ConcInv, Idle
  <2> QED
    BY <2>2, FewerHolding DEF ConcInv
<1>3. ASSUME NEW t \in Task, ThreadStart(t) \/ ThreadEnds(t) \/ ThreadHangs(t) PROVE ConcInv'
  <2>1. st' = st /\ thread[t] # "none" /\ \A u \in Task \ {t} : thread'[u] = thread[u]
    BY <1>3 DEF ThreadStart, ThreadEnds, ThreadHangs, TInv, TypeOK
  <2>2. Holding' = Holding /\ Idle'
    BY <2>1 DEF Holding, ConcInv, Idle
  <2> QED
    BY <2>2, FewerHolding DEF ConcInv
<1>4. ASSUME (\E h \in Handler, i \in Id : Submit(h, i) \/ SubmitInLoop(h, i))
             \/ (\E h \in Handler : Post(h)) \/ (\E t \in Task : Register(t))
      PROVE  ConcInv'
  <2>1. CASE \E h \in Handler, i \in Id : Submit(h, i)
    <3>1. UNCHANGED <<st, thread>>
      BY <2>1 DEF Submit
    <3> QED
      BY <3>1, FewerHolding DEF ConcInv, Holding, Idle
  <2>2. CASE ~\E h \in Handler, i \in Id : Submit(h, i)
    <3>1. \E t \in Task : /\ st[t] \in {"free", "posted"}
                          /\ Move(t, "posted") \/ Move(t, "waiting")
      BY <1>4, <2>2 DEF SubmitInLoop, Post, Register, Enter, First, Unused, Posted
    <3>2. thread' = thread
      BY <1>4, <2>2 DEF SubmitInLoop, Post, Register
    <3>3. Holding' \subseteq Holding /\ Idle'
      BY <3>1, <3>2 DEF Move, Holding, ConcInv, Idle, TInv, TypeOK
    <3> QED
      BY <3>3, FewerHolding DEF ConcInv
  <2> QED
    BY <2>1, <2>2
<1>5. ASSUME (\E i \in Id : Cancel(i)) \/ Shutdown \/ Drained \/ Timeout \/ UNCHANGED vars
      PROVE  ConcInv'
  <2>1. UNCHANGED <<st, thread>>
    BY <1>5 DEF Cancel, Shutdown, Drained, Timeout, vars
  <2> QED
    BY <2>1, FewerHolding DEF ConcInv, Holding, Idle
<1> QED
  BY <1>1, <1>2, <1>3, <1>4, <1>5 DEF Next, LoopStep

\* However many tasks are accepted, no more than the semaphore allows run at a time.
THEOREM ConcurrencyIsBounded == Spec => []ConcurrencyBounded
<1>1. TInv /\ ConcInv => ConcurrencyBounded
  <2> SUFFICES ASSUME TInv, ConcInv PROVE ConcurrencyBounded
    OBVIOUS
  <2> DEFINE active == {t \in Task : Live(t) /\ thread[t] \in {"queued"} \cup Busy}
  <2>1. active \subseteq Holding
    BY DEF ConcInv, Idle, Live, Busy, Holding
  <2>2. Cardinality(active) \in Nat /\ Cardinality(active) <= Cardinality(Holding)
    BY <2>1, HoldingFinite, FS_Subset, FS_CardinalityType
  <2> QED
    BY <2>2, HoldingFinite, LimitsAssumption DEF ConcInv, ConcurrencyBounded
<1> QED
  BY InitTyped, StepTyped, InitBounded, StepBounded, <1>1, PTL DEF Spec

(***************************************************************************)
(* Shutdown                                                                *)
(***************************************************************************)
\* While shutdown waits, it waits for every task that was registered before.
Waited ==
    phase \in {"draining", "cancelling"} =>
        \A t \in Task : Live(t) /\ t \notin late /\ id[t] \notin raced => t \in awaited

ShutInv == Waited /\ NothingLeftBehind

LEMMA StepWaited == TInv /\ RegInv /\ ShutInv /\ [Next]_vars => ShutInv'
<1> SUFFICES ASSUME TInv, RegInv, ShutInv, [Next]_vars PROVE ShutInv'
  OBVIOUS
<1> USE DEF progress, dictionary, shutdown
\* A step that registers nobody, or somebody late, and is not one of shutdown's own.
<1>1. ASSUME UNCHANGED <<phase, awaited>>, late \subseteq late', raced \subseteq raced',
             \A t \in Task : Live(t)' => \/ Live(t) /\ id'[t] = id[t]
                                        \/ phase = "up" \/ t \in late'
      PROVE  ShutInv'
  <2>1. ASSUME NEW t \in Task, phase # "up", Live(t)', t \notin late', id'[t] \notin raced'
        PROVE  Live(t) /\ t \notin late /\ id[t] \notin raced
    BY <1>1, <2>1
  <2>2. Waited'
    <3> SUFFICES ASSUME phase \in {"draining", "cancelling"}, NEW t \in Task,
                        Live(t)', t \notin late', id'[t] \notin raced'
                 PROVE  t \in awaited
      BY <1>1 DEF Waited
    <3> QED
      BY <2>1 DEF ShutInv, Waited
  <2>3. NothingLeftBehind'
    <3> SUFFICES ASSUME phase = "down", NEW t \in Task,
                        Live(t)', t \notin late', id'[t] \notin raced'
                 PROVE  FALSE
      BY <1>1 DEF NothingLeftBehind
    <3> QED
      BY <2>1 DEF ShutInv, NothingLeftBehind
  <2> QED
    BY <2>2, <2>3 DEF ShutInv
<1>2. ASSUME NEW h \in Handler, NEW i \in Id, Submit(h, i) PROVE ShutInv'
  BY <1>1, <1>2 DEF Submit, Race, Live
<1>3. ASSUME NEW h \in Handler, NEW i \in Id, SubmitInLoop(h, i) PROVE ShutInv'
  BY <1>3 DEF SubmitInLoop, Accepted, ShutInv, Waited, NothingLeftBehind
<1>4. ASSUME NEW h \in Handler, Post(h) PROVE ShutInv'
  BY <1>1, <1>4 DEF Post, Move, First, Unused, Live, TInv, TypeOK
<1>5. ASSUME NEW t \in Task, Register(t) PROVE ShutInv'
  <2>1. UNCHANGED <<id, phase, awaited, raced>>
        /\ late' = (IF phase = "up" THEN late ELSE late \cup {t})
        /\ \A u \in Task \ {t} : st'[u] = st[u]
    BY <1>5 DEF Register, Enter, Move, TInv, TypeOK
  <2>2. \A u \in Task : Live(u)' => Live(u) \/ phase = "up" \/ u \in late'
    BY <2>1 DEF Live
  <2> QED
    BY <1>1, <2>1, <2>2
<1>6. ASSUME NEW t \in Task,
             Acquire(t) \/ Retry(t) \/ Resume(t) \/ TakeCancel(t) \/ Cleanup(t)
             \/ ThreadStart(t) \/ ThreadEnds(t) \/ ThreadHangs(t)
      PROVE  ShutInv'
  <2>1. UNCHANGED <<id, phase, awaited, late, raced>>
    BY <1>6 DEF Acquire, Retry, Resume, TakeCancel, Cleanup, ThreadStart, ThreadEnds, ThreadHangs
  <2>2. \A u \in Task : Live(u)' => Live(u)
    BY <1>6 DEF Acquire, Retry, Resume, TakeCancel, Cleanup, ThreadStart, ThreadEnds,
                ThreadHangs, Begin, Move, InLine, Live, TInv, TypeOK
  <2> QED
    BY <1>1, <2>1, <2>2
<1>7. ASSUME (\E i \in Id : Cancel(i)) \/ UNCHANGED vars PROVE ShutInv'
  BY <1>1, <1>7 DEF Cancel, vars, Live
<1>8. ASSUME Shutdown PROVE ShutInv'
  <2>1. UNCHANGED <<id, st, late, raced>> /\ awaited' = InFlight
        /\ phase' = (IF InFlight = {} THEN "down" ELSE "draining")
    BY <1>8 DEF Shutdown
  <2>2. ASSUME NEW t \in Task, Live(t), id[t] \notin raced PROVE t \in InFlight
    <3>1. tasks[id[t]] = t /\ id[t] \in Id
      BY <2>2 DEF RegInv, Known, Registered, Live, TInv
    <3> QED
      BY <3>1, LimitsAssumption DEF InFlight
  <2>3. \A t \in Task : Live(t)' = Live(t)
    BY <2>1 DEF Live
  <2>4. Waited'
    BY <2>1, <2>2, <2>3 DEF Waited
  <2>5. NothingLeftBehind'
    BY <2>1, <2>2, <2>3 DEF NothingLeftBehind
  <2> QED
    BY <2>4, <2>5 DEF ShutInv
<1>9. ASSUME Drained PROVE ShutInv'
  BY <1>9 DEF Drained, ShutInv, Waited, NothingLeftBehind, Live
<1>10. ASSUME Timeout PROVE ShutInv'
  BY <1>10 DEF Timeout, ShutInv, Waited, NothingLeftBehind, Live
<1> QED
  BY <1>2, <1>3, <1>4, <1>5, <1>6, <1>7, <1>8, <1>9, <1>10 DEF Next, LoopStep

\* Shutdown returns after every task that was registered before it.
THEOREM ShutdownLeavesNothing == Spec => []NothingLeftBehind
<1>1. Init => ShutInv
  BY DEF Init, ShutInv, Waited, NothingLeftBehind
<1>2. ShutInv => NothingLeftBehind
  BY DEF ShutInv
<1> QED
  BY InitTyped, StepTyped, InitRegistered, StepRegistered, StepWaited, <1>1, <1>2, PTL DEF Spec
=============================================================================
