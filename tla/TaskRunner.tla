----------------------------- MODULE TaskRunner -----------------------------
(***************************************************************************)
(* BackgroundTaskRunner of Campus-Cloud: handlers submit a function under  *)
(* a task id and answer their request, the event loop runs the task behind *)
(* a semaphore, every attempt in a thread of the default executor, and the *)
(* end of the application's lifespan waits for what is registered.         *)
(*                                                                         *)
(* Handlers are threads: they look the id up in the dictionary of tasks,   *)
(* and the loop registers the task in a callback later.  A task that is    *)
(* cancelled gives back its place and its id at once, its thread goes on.  *)
(***************************************************************************)
EXTENDS Naturals, FiniteSets

CONSTANTS
    Id,              \* task ids: vm_request:<id>, ids of deletion requests
    Handler,         \* threads and coroutines that submit tasks
    InLoop,          \* those that run in the event loop itself
    MaxTask,         \* bound on the tasks that are ever created
    MaxConcurrency,  \* places of the semaphore
    PoolSize,        \* threads of the default executor
    Retries,         \* max_retries of the submissions of each id
    NoId, NoTask

Task == 1 .. MaxTask

ASSUME SubmittersAssumption == InLoop \subseteq Handler /\ NoId \notin Id

ASSUME LimitsAssumption ==
    /\ MaxTask \in Nat /\ MaxConcurrency \in Nat \ {0} /\ PoolSize \in Nat \ {0}
    /\ Retries \in [Id -> Nat] /\ NoTask \notin Task

VARIABLES
    call,      \* id each handler has looked up and not handed over yet
    id, st,    \* id and progress of each task, numbered as they are created
    tries,     \* attempts it has begun
    stop,      \* its cancellation was requested
    thread,    \* what its latest attempt is doing in the executor
    turn,      \* the order in which the tasks have been registered
    tasks,     \* the dictionary: registered task of each id
    phase,     \* of the lifespan
    awaited,   \* tasks that shutdown gathers
    late,      \* tasks registered after shutdown has begun (history)
    raced      \* ids submitted again before their registration (history)

dictionary == <<tasks, turn>>
progress   == <<id, st, tries, stop, thread>>
shutdown   == <<phase, awaited, late>>
vars == <<call, progress, dictionary, shutdown, raced>>

Progress == {"free", "posted", "waiting", "running", "backoff", "done", "gone"}
Attempt  == {"none", "queued", "running", "stuck", "over"}
Busy     == {"running", "stuck"}
Phase    == {"up", "draining", "cancelling", "down"}

TypeOK ==
    /\ call \in [Handler -> Id \cup {NoId}]
    /\ id \in [Task -> Id \cup {NoId}] /\ st \in [Task -> Progress]
    /\ tries \in [Task -> Nat] /\ stop \in [Task -> BOOLEAN]
    /\ thread \in [Task -> Attempt] /\ turn \in [Task -> Nat]
    /\ tasks \in [Id -> Task \cup {NoTask}]
    /\ phase \in Phase /\ awaited \subseteq Task /\ late \subseteq Task
    /\ raced \subseteq Id

Init ==
    /\ call = [h \in Handler |-> NoId]
    /\ id = [t \in Task |-> NoId] /\ st = [t \in Task |-> "free"]
    /\ tries = [t \in Task |-> 0] /\ stop = [t \in Task |-> FALSE]
    /\ thread = [t \in Task |-> "none"] /\ turn = [t \in Task |-> 0]
    /\ tasks = [i \in Id |-> NoTask]
    /\ phase = "up" /\ awaited = {} /\ late = {} /\ raced = {}

Live(t) == st[t] \in {"waiting", "running", "backoff"}

Move(t, to) == st' = [st EXCEPT ![t] = to]

(***************************************************************************)
(* Submission.  A submission that is refused, because of shutdown or of    *)
(* the id, changes nothing.                                                *)
(***************************************************************************)
\* Mutant: the dictionary is not looked at.
AcceptedBlind(i) == phase = "up"

Accepted(i) == phase = "up" /\ tasks[i] = NoTask

\* The id is on its way to the dictionary already.
OnItsWay(i) == \/ \E h \in Handler : call[h] = i
               \/ \E t \in Task : st[t] = "posted" /\ id[t] = i

Race(i) == raced' = IF OnItsWay(i) THEN raced \cup {i} ELSE raced

First(t, S) == t \in S /\ \A u \in S : t <= u

Unused == {t \in Task : st[t] = "free"}

Posted == {t \in Task : st[t] = "posted"}

\* submit_factory in a handler thread, up to _spawn.
Submit(h, i) ==
    /\ h \notin InLoop /\ call[h] = NoId
    /\ Accepted(i)
    /\ call' = [call EXCEPT ![h] = i]
    /\ Race(i)
    /\ UNCHANGED <<progress, dictionary, shutdown>>

\* call_soon_threadsafe.
Post(h) ==
    /\ call[h] # NoId
    /\ call' = [call EXCEPT ![h] = NoId]
    /\ \E t \in Task :
         /\ First(t, Unused)
         /\ id' = [id EXCEPT ![t] = call[h]]
         /\ Move(t, "posted")
    /\ UNCHANGED <<tries, stop, thread, dictionary, shutdown, raced>>

\* Mutant: the dictionary is given the id instead of the task.
EnterId(t, i) ==
    /\ tasks' = [tasks EXCEPT ![i] = i]
    /\ turn' = [turn EXCEPT ![t] = 1 + Cardinality({u \in Task : turn[u] # 0})]
    /\ late' = IF phase = "up" THEN late ELSE late \cup {t}
    /\ Move(t, "waiting")

Enter(t, i) ==
    /\ tasks' = [tasks EXCEPT ![i] = t]
    /\ turn' = [turn EXCEPT ![t] = 1 + Cardinality({u \in Task : turn[u] # 0})]
    /\ late' = IF phase = "up" THEN late ELSE late \cup {t}
    /\ Move(t, "waiting")

\* _create_and_register in the loop does not look at the dictionary again.
Register(t) ==
    /\ First(t, Posted)
    /\ Enter(t, id[t])
    /\ UNCHANGED <<call, id, tries, stop, thread, phase, awaited, raced>>

\* A coroutine of the loop looks and registers in one go.
SubmitInLoop(h, i) ==
    /\ h \in InLoop /\ Accepted(i)
    /\ \E t \in Task :
         /\ First(t, Unused)
         /\ id' = [id EXCEPT ![t] = i]
         /\ Enter(t, i)
    /\ Race(i)
    /\ UNCHANGED <<call, tries, stop, thread, phase, awaited>>

(***************************************************************************)
(* A task                                                                  *)
(***************************************************************************)
\* Mutant: a task cancelled in the line keeps its turn.
InLineStopped == {t \in Task : st[t] = "waiting" \/ (stop[t] /\ turn[t] # 0 /\ tries[t] = 0)}

\* The semaphore serves first who has come first.
InLine == {t \in Task : st[t] = "waiting"}

Holding == {t \in Task : st[t] \in {"running", "backoff"}}

\* An attempt: asyncio.to_thread queues the function in the executor.
Begin(t) ==
    /\ Move(t, "running")
    /\ tries' = [tries EXCEPT ![t] = @ + 1]
    /\ thread' = [thread EXCEPT ![t] = "queued"]

\* Mutant: a task that waits for its next attempt gives its place back.
AcquireOver(t) ==
    /\ t \in InLine /\ (\A u \in InLine : turn[t] <= turn[u]) /\ ~stop[t]
    /\ Cardinality({u \in Task : st[u] = "running"}) < MaxConcurrency
    /\ Begin(t)
    /\ UNCHANGED <<call, id, stop, dictionary, shutdown, raced>>

Acquire(t) ==
    /\ t \in InLine /\ (\A u \in InLine : turn[t] <= turn[u]) /\ ~stop[t]
    /\ Cardinality(Holding) < MaxConcurrency
    /\ Begin(t)
    /\ UNCHANGED <<call, id, stop, dictionary, shutdown, raced>>

ThreadStart(t) ==
    /\ thread[t] = "queued"
    /\ Cardinality({u \in Task : thread[u] \in Busy}) < PoolSize
    /\ thread' = [thread EXCEPT ![t] = "running"]
    /\ UNCHANGED <<call, id, st, tries, stop, dictionary, shutdown, raced>>

\* Nobody waits for the result of a thread whose task was cancelled.
ThreadEnds(t) ==
    /\ thread[t] = "running"
    /\ thread' = [thread EXCEPT ![t] = IF Live(t) THEN "over" ELSE "none"]
    /\ UNCHANGED <<call, id, st, tries, stop, dictionary, shutdown, raced>>

\* A call without a deadline never comes back.
ThreadHangs(t) ==
    /\ thread[t] = "running"
    /\ thread' = [thread EXCEPT ![t] = "stuck"]
    /\ UNCHANGED <<call, id, st, tries, stop, dictionary, shutdown, raced>>

Exhausted(t) == tries[t] > Retries[id[t]]

\* The function has returned or raised.
Resume(t) ==
    /\ st[t] = "running" /\ ~stop[t] /\ thread[t] = "over"
    /\ \E raised \in BOOLEAN :
         Move(t, IF raised /\ ~Exhausted(t) THEN "backoff" ELSE "done")
    /\ thread' = [thread EXCEPT ![t] = "none"]
    /\ UNCHANGED <<call, id, tries, stop, dictionary, shutdown, raced>>

Retry(t) ==
    /\ st[t] = "backoff" /\ ~stop[t]
    /\ Begin(t)
    /\ UNCHANGED <<call, id, stop, dictionary, shutdown, raced>>

\* CancelledError arrives at the point where the task waits.  An attempt that
\* waits for a thread is taken back, one that runs goes on by itself.
TakeCancel(t) ==
    /\ stop[t] /\ Live(t)
    /\ Move(t, "done")
    /\ thread' = [thread EXCEPT ![t] = IF @ \in Busy THEN @ ELSE "none"]
    /\ UNCHANGED <<call, id, tries, stop, dictionary, shutdown, raced>>

\* Mutant: the id is not given back.
CleanupKeeps(t) ==
    /\ st[t] = "done"
    /\ Move(t, "gone")
    /\ UNCHANGED <<call, id, tries, stop, thread, dictionary, shutdown, raced>>

\* The done callback removes whatever is registered under the id.
Cleanup(t) ==
    /\ st[t] = "done"
    /\ Move(t, "gone")
    /\ tasks' = [tasks EXCEPT ![id[t]] = NoTask]
    /\ UNCHANGED <<call, id, tries, stop, thread, turn, shutdown, raced>>

(***************************************************************************)
(* Cancellation and shutdown                                               *)
(***************************************************************************)
\* The handlers that cancel a request or a deletion: only a registered task
\* is found.
Cancel(i) ==
    /\ phase # "down" /\ tasks[i] # NoTask
    /\ Live(tasks[i])
    /\ stop' = [stop EXCEPT ![tasks[i]] = TRUE]
    /\ UNCHANGED <<call, id, st, tries, thread, dictionary, shutdown, raced>>

\* Mutant: tasks that have not got a place yet are forgotten.
InFlightStarted == {tasks[i] : i \in {j \in Id : tasks[j] # NoTask}} \cap Holding

InFlight == {tasks[i] : i \in {j \in Id : tasks[j] # NoTask}}

Shutdown ==
    /\ phase = "up"
    /\ awaited' = InFlight
    /\ phase' = IF InFlight = {} THEN "down" ELSE "draining"
    /\ UNCHANGED <<call, progress, dictionary, late, raced>>

\* The gathered tasks are done, in time or cancelled; in the second case those
\* registered since then are cancelled too, and nobody waits for them.
Drained ==
    /\ phase \in {"draining", "cancelling"}
    /\ \A t \in awaited : ~Live(t)
    /\ stop' = [t \in Task |-> stop[t] \/ (phase = "cancelling" /\ t \in InFlight /\ Live(t))]
    /\ phase' = "down"
    /\ UNCHANGED <<call, id, st, tries, thread, dictionary, awaited, late, raced>>

\* Mutant: the timeout is only logged.
TimeoutLogged ==
    /\ phase = "draining"
    /\ phase' = "cancelling"
    /\ UNCHANGED <<call, progress, dictionary, awaited, late, raced>>

\* The timeout cancels the gathering, and that every task in it.
Timeout ==
    /\ phase = "draining"
    /\ stop' = [t \in Task |-> stop[t] \/ (t \in awaited /\ Live(t))]
    /\ phase' = "cancelling"
    /\ UNCHANGED <<call, id, st, tries, thread, dictionary, awaited, late, raced>>

LoopStep(t) ==
    Register(t) \/ Acquire(t) \/ Resume(t) \/ Retry(t) \/ TakeCancel(t) \/ Cleanup(t)

Next ==
    \/ \E h \in Handler, i \in Id : Submit(h, i) \/ SubmitInLoop(h, i)
    \/ \E h \in Handler : Post(h)
    \/ \E t \in Task : LoopStep(t) \/ ThreadStart(t) \/ ThreadEnds(t) \/ ThreadHangs(t)
    \/ \E i \in Id : Cancel(i)
    \/ Shutdown \/ Drained \/ Timeout

\* The loop runs every callback that is ready, a function that is not stuck returns
\* and the timeout passes.  Nobody has to submit, to cancel, or to stop the application.
Fairness ==
    /\ \A h \in Handler : WF_vars(Post(h))
    /\ \A t \in Task :
          WF_vars(LoopStep(t)) /\ WF_vars(ThreadStart(t)) /\ WF_vars(ThreadEnds(t))
    /\ WF_vars(Drained) /\ WF_vars(Timeout)

Spec == Init /\ [][Next]_vars /\ Fairness

(***************************************************************************)
(* Properties                                                              *)
(***************************************************************************)
\* The dictionary knows every task: cancel and shutdown reach it, and a second
\* submission of its id is skipped.  That ends for an id which two handlers have
\* submitted at a time, each before the registration of the other.
Tracked ==
    \A t \in Task : Live(t) /\ id[t] \notin raced => tasks[id[t]] = t

\* The semaphore bounds the functions that run or are about to, up to the
\* threads that a cancellation has left behind, also while tasks wait for their
\* next attempt.
ConcurrencyBounded ==
    Cardinality({t \in Task : Live(t) /\ thread[t] \in {"queued"} \cup Busy}) <= MaxConcurrency

\* When shutdown has returned, no task that was registered before is left.
NothingLeftBehind ==
    phase = "down" =>
        \A t \in Task : Live(t) => t \in late \/ id[t] \in raced

Stuck == \E t \in Task : thread[t] = "stuck"

\* What was accepted is executed, unless it is cancelled, the application ends or
\* a function never returns.
AcceptedRuns ==
    \A t \in Task : st[t] = "posted" ~> thread[t] = "running" \/ stop[t] \/ phase # "up" \/ Stuck

\* An id is free again at some time, so that the next submission is not skipped.
IdIsGivenBack ==
    \A t \in Task, i \in Id : tasks[i] = t ~> tasks[i] # t \/ Stuck

\* Shutdown returns even if a function never does.
ShutdownReturns == phase = "draining" ~> phase = "down"
=============================================================================
