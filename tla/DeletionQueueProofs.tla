------------------------ MODULE DeletionQueueProofs ------------------------
(* Theorems about DeletionQueue, for every value of its constants. *)
EXTENDS DeletionQueue, TLAPS

\* A thread at work knows its row, an API thread stays in its handlers and an
\* executor in _execute_deletion and its callers.
RoleInv ==
    /\ \A t \in Thread : pc[t] # "idle" => row[t] \in Row
    /\ \A a \in Api : pc[a] \in {"idle"} \cup ApiPoint
    /\ \A t \in Executor : pc[t] \in {"idle"} \cup ExecPoint
    /\ \A w \in Worker : pc[w] # "idle" => attempt[w] >= 1

TInv == TypeOK /\ RoleInv

LEMMA InitTyped == Init => TInv
  BY RowsAssumption, ActorsAssumption, BoundsAssumption
  DEF Init, TInv, TypeOK, RoleInv, Thread, Executor, Status, Open, Terminal

LEMMA LeaveTyped ==
  ASSUME TInv, NEW t \in Thread, Leave(t)
  PROVE  /\ pc' \in [Thread -> {"idle"} \cup ApiPoint \cup ExecPoint]
         /\ row' \in [Thread -> Row \cup {Nothing}]
         /\ copy' \in [Thread -> Status]
         /\ attempt' \in [Thread -> 0 .. MaxRetries + 1]
         /\ RoleInv'
  BY BoundsAssumption
  DEF Leave, Goto, TInv, TypeOK, RoleInv, Thread, Executor, Status, ApiPoint, ExecPoint, Attempt

LEMMA ApiTyped ==
  ASSUME TInv, NEW a \in Api, ApiStep(a)
  PROVE  TInv'
<1> a \in Thread /\ a \notin Executor
  BY ActorsAssumption DEF Thread
<1> USE DEF places, Goto, Read, Write
<1>1. CASE \E v \in Vmid : AskAgain(a, v)
  BY <1>1 DEF AskAgain, OpenRows, TInv, TypeOK, RoleInv
<1>2. CASE \E r \in Row : Ask(a, r) \/ Cancel(a, r) \/ Retry(a, r)
  <2>1. PICK r \in Row : Ask(a, r) \/ Cancel(a, r) \/ Retry(a, r)
    BY <1>2
  <2>2. CASE Ask(a, r)
    BY <2>2 DEF Ask, TInv, TypeOK, RoleInv, ApiPoint, Executor
  <2>3. CASE Cancel(a, r)
    <3>1. submitted' \subseteq Row
      BY <2>3 DEF Cancel, TInv, TypeOK
    <3> QED
      BY <2>3, <3>1 DEF Cancel, TInv, TypeOK, RoleInv, ApiPoint, Executor
  <2>4. CASE Retry(a, r)
    BY <2>4 DEF Retry, TInv, TypeOK, RoleInv, ApiPoint, Executor
  <2> QED
    BY <2>1, <2>2, <2>3, <2>4
<1>3. CASE Insert(a)
  BY <1>3, ActorsAssumption
  DEF Insert, TInv, TypeOK, RoleInv, ApiPoint, Executor, Status, Open
<1>4. CASE Refresh(a)
  <2>1. CASE Leave(a)
    BY <1>4, <2>1, LeaveTyped DEF Refresh, TInv, TypeOK
  <2>2. CASE Goto(a, "submitting") /\ UNCHANGED <<row, copy, attempt>>
    BY <1>4, <2>2, ActorsAssumption
    DEF Refresh, TInv, TypeOK, RoleInv, ApiPoint, Executor
  <2> QED
    BY <1>4, <2>1, <2>2 DEF Refresh
<1>5. CASE Submit(a)
  <2>1. submitted' \subseteq Row
    BY <1>5 DEF Submit, TInv, TypeOK, RoleInv
  <2> QED
    BY <1>5, <2>1, LeaveTyped DEF Submit, TInv, TypeOK
<1>6. CASE CancelWrite(a)
  <2>1. status' \in [Row -> Status]
    BY <1>6 DEF CancelWrite, TInv, TypeOK, Status, Terminal
  <2> QED
    BY <1>6, <2>1, LeaveTyped DEF CancelWrite, TInv, TypeOK
<1>7. CASE RetryWrite(a)
  BY <1>7, ActorsAssumption
  DEF RetryWrite, TInv, TypeOK, RoleInv, ApiPoint, Executor, Status, Open
<1> QED
  BY <1>1, <1>2, <1>3, <1>4, <1>5, <1>6, <1>7 DEF ApiStep

LEMMA WorkerTyped ==
  ASSUME TInv, NEW w \in Worker, WorkerStep(w)
  PROVE  TInv'
<1> w \in Thread /\ w \notin Api
  BY ActorsAssumption DEF Thread, Executor
<1> USE DEF places, Goto, Read, Write
<1>1. CASE Take(w)
  BY <1>1, BoundsAssumption DEF Take, TInv, TypeOK, RoleInv, ExecPoint, Attempt
<1>2. CASE Load(w)
  <2>1. CASE Leave(w)
    BY <1>2, <2>1, LeaveTyped DEF Load, TInv, TypeOK
  <2>2. CASE Read(w, row[w]) /\ Goto(w, "claiming") /\ UNCHANGED attempt
    BY <1>2, <2>2 DEF Load, TInv, TypeOK, RoleInv, ExecPoint, Attempt
  <2> QED
    BY <1>2, <2>1, <2>2 DEF Load
<1>3. CASE Exhausted(w)
  <2>1. CASE Leave(w)
    BY <1>3, <2>1, LeaveTyped DEF Exhausted, TInv, TypeOK
  <2>2. CASE Goto(w, "failing") /\ UNCHANGED <<row, copy, attempt>>
    BY <1>3, <2>2 DEF Exhausted, TInv, TypeOK, RoleInv, ExecPoint, Attempt
  <2> QED
    BY <1>3, <2>1, <2>2 DEF Exhausted
<1>4. CASE MarkFailed(w)
  <2>1. status' \in [Row -> Status]
    BY <1>4 DEF MarkFailed, TInv, TypeOK, Status, Terminal
  <2> QED
    BY <1>4, <2>1, LeaveTyped DEF MarkFailed, TInv, TypeOK
<1> QED
  BY <1>1, <1>2, <1>3, <1>4 DEF WorkerStep

LEMMA LoopTyped ==
  ASSUME TInv, NEW l \in Loop, LoopStep(l)
  PROVE  TInv'
<1> l \in Thread /\ l \notin Api /\ l \notin Worker
  BY ActorsAssumption DEF Thread, Executor
<1> USE DEF places, Goto, Read
<1>1. CASE Scan(l)
  BY <1>1 DEF Scan, TInv, TypeOK, RoleInv, ExecPoint, Attempt
<1>2. CASE Visit(l)
  <2>1. PICK r \in batch[l] :
          /\ batch' = [batch EXCEPT ![l] = @ \ {r}]
          /\ IF status[r] \in Terminal
               THEN UNCHANGED <<pc, row, copy>>
               ELSE Read(l, r) /\ Goto(l, "claiming")
    BY <1>2 DEF Visit
  <2>2. r \in Row
    BY DEF TInv, TypeOK
  <2>3. batch' \in [Thread -> SUBSET Row]
    BY <2>1, <2>2 DEF TInv, TypeOK
  <2>4. CASE UNCHANGED <<pc, row, copy>>
    BY <1>2, <2>3, <2>4 DEF Visit, TInv, TypeOK, RoleInv
  <2>5. CASE Read(l, r) /\ Goto(l, "claiming")
    BY <1>2, <2>2, <2>3, <2>5 DEF Visit, TInv, TypeOK, RoleInv, ExecPoint, Attempt
  <2> QED
    BY <2>1, <2>4, <2>5
<1> QED
  BY <1>1, <1>2 DEF LoopStep

LEMMA FailTyped ==
  ASSUME TInv, NEW t \in Executor, pc[t] \in ExecPoint, Fail(t)
  PROVE  /\ pc' \in [Thread -> {"idle"} \cup ApiPoint \cup ExecPoint]
         /\ row' \in [Thread -> Row \cup {Nothing}]
         /\ copy' \in [Thread -> Status]
         /\ attempt' \in [Thread -> 0 .. MaxRetries + 1]
         /\ RoleInv'
<1> t \in Thread /\ t \notin Api
  BY ActorsAssumption DEF Thread
<1>1. CASE t \in Loop
  BY <1>1, LeaveTyped DEF Fail
<1>2. CASE t \notin Loop
  <2>1. t \in Worker /\ attempt[t] \in 0 .. MaxRetries + 1 /\ MaxRetries \in Nat
    BY <1>2, BoundsAssumption DEF Executor, TInv, TypeOK
  <2>2. CASE Goto(t, "exhausted") /\ UNCHANGED <<attempt, row, copy>>
    BY <2>2 DEF Goto, TInv, TypeOK, RoleInv, ExecPoint, Attempt
  <2>3. CASE /\ attempt[t] <= MaxRetries
             /\ Goto(t, "loading")
             /\ attempt' = [attempt EXCEPT ![t] = @ + 1]
             /\ UNCHANGED <<row, copy>>
    <3>1. attempt[t] + 1 \in 0 .. MaxRetries + 1 /\ attempt[t] + 1 >= 1
      BY <2>1, <2>3
    <3>2. attempt' \in [Thread -> 0 .. MaxRetries + 1]
      BY <2>3, <3>1 DEF TInv, TypeOK
    <3>3. \A w \in Worker : pc'[w] # "idle" => attempt'[w] >= 1
      BY <2>1, <2>3, <3>1 DEF Goto, TInv, TypeOK, RoleInv, Thread, Executor
    <3> QED
      BY <2>3, <3>2, <3>3 DEF Goto, TInv, TypeOK, RoleInv, ExecPoint, Attempt
  <2> QED
    BY <1>2, <2>1, <2>2, <2>3 DEF Fail
<1> QED
  BY <1>1, <1>2

LEMMA ExecuteTyped ==
  ASSUME TInv, NEW t \in Executor, ExecuteStep(t)
  PROVE  TInv'
<1> t \in Thread /\ t \notin Api
  BY ActorsAssumption DEF Thread
<1> USE DEF places, Goto, Write
<1>1. CASE Claim(t)
  BY <1>1 DEF Claim, TInv, TypeOK, RoleInv, Executor, ExecPoint, Attempt, Status, Open
<1>2. CASE Find(t)
  BY <1>2 DEF Find, TInv, TypeOK, RoleInv, Executor, ExecPoint, Attempt
<1>3. CASE FindNothing(t) \/ Complete(t)
  <2>1. status' \in [Row -> Status]
    BY <1>3 DEF FindNothing, Complete, TInv, TypeOK, Status, Terminal
  <2> QED
    BY <1>3, <2>1, LeaveTyped DEF FindNothing, Complete, TInv, TypeOK
<1>4. CASE Destroy(t) \/ Unlink(t)
  <2>1. CASE Destroy(t)
    BY <2>1 DEF Destroy, TInv, TypeOK, RoleInv, Executor, ExecPoint, Attempt
  <2>2. CASE Unlink(t)
    BY <2>2 DEF Unlink, TInv, TypeOK, RoleInv, Executor, ExecPoint, Attempt
  <2> QED
    BY <1>4, <2>1, <2>2
<1>5. CASE Refused(t) \/ AttemptFails(t)
  <2>1. faults' \in 0 .. MaxFault
    BY <1>5, BoundsAssumption DEF Refused, AttemptFails, MayFault, TInv, TypeOK
  <2>2. batch' \in [Thread -> SUBSET Row]
    BY <1>5 DEF Refused, AttemptFails, TInv, TypeOK
  <2>3. Fail(t) /\ pc[t] \in ExecPoint /\ UNCHANGED <<status, machine, resource, submitted>>
    BY <1>5 DEF Refused, AttemptFails, ExecPoint, Attempt
  <2> QED
    BY <2>1, <2>2, <2>3, FailTyped DEF TInv, TypeOK
<1>6. CASE Finish(t)
  <2>1. CASE Leave(t)
    BY <1>6, <2>1, LeaveTyped DEF Finish, TInv, TypeOK
  <2>2. CASE Goto(t, "completing") /\ UNCHANGED <<row, copy, attempt>>
    BY <1>6, <2>2 DEF Finish, TInv, TypeOK, RoleInv, Executor, ExecPoint, Attempt
  <2> QED
    BY <1>6, <2>1, <2>2 DEF Finish
<1> QED
  BY <1>1, <1>2, <1>3, <1>4, <1>5, <1>6 DEF ExecuteStep

LEMMA CrashTyped ==
  ASSUME TInv, NEW t \in Thread, Crash(t)
  PROVE  TInv'
<1>1. faults' \in 0 .. MaxFault
  BY BoundsAssumption DEF Crash, MayFault, TInv, TypeOK
<1>2. submitted' \subseteq Row /\ batch' \in [Thread -> SUBSET Row]
  BY DEF Crash, TInv, TypeOK
<1> QED
  BY <1>1, <1>2, LeaveTyped DEF Crash, places, TInv, TypeOK

LEMMA ReloadTyped ==
  ASSUME TInv, NEW t \in Thread, ReloadFails(t)
  PROVE  TInv'
<1>1. faults' \in 0 .. MaxFault
  BY BoundsAssumption DEF ReloadFails, MayFault, TInv, TypeOK
<1> QED
  BY <1>1, LeaveTyped DEF ReloadFails, places, TInv, TypeOK

LEMMA NextTyped == TInv /\ [Next]_vars => TInv'
<1> SUFFICES ASSUME TInv, [Next]_vars PROVE TInv'
  OBVIOUS
<1>1. CASE UNCHANGED vars
  BY <1>1 DEF vars, TInv, TypeOK, RoleInv
<1>2. CASE Next
  BY <1>2, ApiTyped, WorkerTyped, LoopTyped, ExecuteTyped, CrashTyped, ReloadTyped DEF Next
<1> QED
  BY <1>1, <1>2

\* TypeOK needs RoleInv: the row of a thread must be known to type its writes.
THEOREM Typed == Spec => []TInv
  BY InitTyped, NextTyped, PTL DEF Spec

\* Every variable keeps its type in every behaviour: no attempt is counted past
\* max_retries + 1 and no thread works on an unknown row.
THEOREM QueueTypeCorrect == Spec => []TypeOK
<1>1. TInv => TypeOK
  BY DEF TInv
<1> QED
  BY <1>1, Typed, PTL

(***************************************************************************)
(* A completed request has neither machine nor resources row.              *)
(***************************************************************************)
\* What a thread has done to the machine of its row by the time it stands at a
\* point, and that nobody brings back: why no lock is needed for CompletedIsGone.
ProgressInv ==
    /\ \A t \in Thread : pc[t] = "unlinking" => VmOf[row[t]] \notin machine
    /\ \A t \in Thread :
          pc[t] \in {"finishing", "completing"} => VmOf[row[t]] \notin machine \cup resource

GoneInv == CompletedIsGone /\ ProgressInv

LEMMA InitGone == Init => GoneInv
  BY DEF Init, GoneInv, CompletedIsGone, ProgressInv

\* Machines and resources rows are only ever removed.
LEMMA OnlyRemoved ==
  ASSUME Next
  PROVE  machine' \subseteq machine /\ resource' \subseteq resource
<1> USE DEF places
<1>1. CASE \E a \in Api : ApiStep(a)
  BY <1>1 DEF ApiStep, AskAgain, Ask, Insert, Refresh, Submit, Cancel, CancelWrite, Retry,
              RetryWrite
<1>2. CASE \E w \in Worker : WorkerStep(w)
  BY <1>2 DEF WorkerStep, Take, Load, Exhausted, MarkFailed
<1>3. CASE \E l \in Loop : LoopStep(l)
  BY <1>3 DEF LoopStep, Scan, Visit
<1>4. CASE \E t \in Executor : ExecuteStep(t)
  BY <1>4 DEF ExecuteStep, Claim, Find, FindNothing, Destroy, Refused, Unlink, AttemptFails,
              Finish, Complete
<1>5. CASE \E t \in Thread : ReloadFails(t) \/ Crash(t)
  BY <1>5 DEF ReloadFails, Crash
<1> QED
  BY <1>1, <1>2, <1>3, <1>4, <1>5 DEF Next

\* What a step of thread t leaves to the others.
Quiet(t) ==
    /\ \A r \in Row : status'[r] = "completed" => status[r] = "completed"
    /\ \A u \in Thread \ {t} : pc'[u] = pc[u] /\ row'[u] = row[u]
    /\ pc'[t] \notin {"unlinking", "finishing", "completing"}

LEMMA QuietGone ==
  ASSUME GoneInv, NEW t \in Thread, Quiet(t),
         machine' \subseteq machine, resource' \subseteq resource
  PROVE  GoneInv'
BY DEF GoneInv, CompletedIsGone, ProgressInv, Quiet

LEMMA LeaveQuiet ==
  ASSUME TInv, NEW t \in Thread, Leave(t)
  PROVE  /\ \A u \in Thread \ {t} : pc'[u] = pc[u] /\ row'[u] = row[u]
         /\ pc'[t] = "idle"
BY DEF Leave, Goto, TInv, TypeOK

LEMMA FailQuiet ==
  ASSUME TInv, NEW t \in Executor, Fail(t)
  PROVE  /\ \A u \in Thread \ {t} : pc'[u] = pc[u] /\ row'[u] = row[u]
         /\ pc'[t] \in {"idle", "exhausted", "loading"}
BY LeaveQuiet DEF Fail, Goto, TInv, TypeOK, Thread

LEMMA ApiQuiet ==
  ASSUME TInv, NEW a \in Api, ApiStep(a)
  PROVE  Quiet(a)
<1> a \in Thread
  BY DEF Thread
<1> USE DEF Quiet, places, Goto, Read, Write, TInv, TypeOK
<1>1. CASE \E v \in Vmid : AskAgain(a, v)
  BY <1>1 DEF AskAgain
<1>2. CASE \E r \in Row : Ask(a, r) \/ Cancel(a, r) \/ Retry(a, r)
  BY <1>2 DEF Ask, Cancel, Retry
<1>3. CASE Insert(a)
  BY <1>3 DEF Insert
<1>4. CASE Refresh(a)
  BY <1>4, LeaveQuiet DEF Refresh
<1>5. CASE Submit(a)
  BY <1>5, LeaveQuiet DEF Submit
<1>6. CASE CancelWrite(a)
  BY <1>6, LeaveQuiet DEF CancelWrite
<1>7. CASE RetryWrite(a)
  BY <1>7 DEF RetryWrite
<1> QED
  BY <1>1, <1>2, <1>3, <1>4, <1>5, <1>6, <1>7 DEF ApiStep

LEMMA ExecutorQuiet ==
  ASSUME TInv, NEW t \in Executor,
         \/ t \in Worker /\ WorkerStep(t)
         \/ t \in Loop /\ LoopStep(t)
         \/ Claim(t) \/ Find(t) \/ FindNothing(t) \/ Refused(t) \/ AttemptFails(t)
  PROVE  Quiet(t)
<1> t \in Thread
  BY DEF Thread
<1> USE DEF Quiet, places, Goto, Read, Write, TInv, TypeOK
<1>1. CASE Take(t) \/ Load(t)
  BY <1>1, LeaveQuiet DEF Take, Load
<1>2. CASE Exhausted(t) \/ MarkFailed(t)
  BY <1>2, LeaveQuiet DEF Exhausted, MarkFailed
<1>3. CASE Scan(t)
  BY <1>3 DEF Scan
<1>4. CASE Visit(t)
  <2>1. UNCHANGED status /\ pc[t] = "idle"
    BY <1>4 DEF Visit
  <2>2. \/ UNCHANGED <<pc, row>>
        \/ \E r \in batch[t] : Read(t, r) /\ Goto(t, "claiming")
    BY <1>4 DEF Visit
  <2> QED
    BY <2>1, <2>2
<1>5. CASE Claim(t) \/ Find(t)
  BY <1>5 DEF Claim, Find
<1>6. CASE FindNothing(t)
  BY <1>6, LeaveQuiet DEF FindNothing
<1>7. CASE Refused(t) \/ AttemptFails(t)
  <2>1. UNCHANGED status /\ Fail(t)
    BY <1>7 DEF Refused, AttemptFails
  <2> QED
    BY <2>1, FailQuiet
<1> QED
  BY <1>1, <1>2, <1>3, <1>4, <1>5, <1>6, <1>7 DEF WorkerStep, LoopStep

LEMMA NextGone == TInv /\ GoneInv /\ [Next]_vars => GoneInv'
<1> SUFFICES ASSUME TInv, GoneInv, [Next]_vars PROVE GoneInv'
  OBVIOUS
<1>1. CASE UNCHANGED vars
  BY <1>1 DEF vars, GoneInv, CompletedIsGone, ProgressInv
<1> SUFFICES ASSUME Next PROVE GoneInv'
  BY <1>1
<1>2. machine' \subseteq machine /\ resource' \subseteq resource
  BY OnlyRemoved
<1>3. CASE \E a \in Api : ApiStep(a)
  BY <1>2, <1>3, ApiQuiet, QuietGone DEF Thread
<1>4. CASE \E w \in Worker : WorkerStep(w)
  BY <1>2, <1>4, ExecutorQuiet, QuietGone DEF Thread, Executor
<1>5. CASE \E l \in Loop : LoopStep(l)
  BY <1>2, <1>5, ExecutorQuiet, QuietGone DEF Thread, Executor
<1>6. ASSUME NEW t \in Executor, ExecuteStep(t) PROVE GoneInv'
  <2> t \in Thread
    BY DEF Thread
  <2> USE DEF GoneInv, CompletedIsGone, ProgressInv, Goto, Write, places
  <2>1. CASE Claim(t) \/ Find(t) \/ FindNothing(t) \/ Refused(t) \/ AttemptFails(t)
    <3>1. Quiet(t)
      BY <2>1, ExecutorQuiet
    <3> QED
      BY <1>2, <3>1, QuietGone
  <2>2. CASE Destroy(t)
    BY <1>2, <2>2 DEF Destroy, TInv, TypeOK
  <2>3. CASE Unlink(t)
    BY <1>2, <2>3 DEF Unlink, TInv, TypeOK
  <2>4. CASE Finish(t)
    <3>1. CASE Leave(t)
      BY <1>2, <2>4, <3>1, LeaveQuiet DEF Finish
    <3>2. CASE Goto(t, "completing") /\ UNCHANGED <<row, copy, attempt>>
      BY <1>2, <2>4, <3>2 DEF Finish, TInv, TypeOK
    <3> QED
      BY <2>4, <3>1, <3>2 DEF Finish
  <2>5. CASE Complete(t)
    <3>1. VmOf[row[t]] \notin machine' \cup resource'
      BY <1>2, <2>5 DEF Complete
    <3> QED
      BY <1>2, <2>5, <3>1, LeaveQuiet DEF Complete, TInv, TypeOK
  <2> QED
    BY <1>6, <2>1, <2>2, <2>3, <2>4, <2>5 DEF ExecuteStep
<1>7. CASE \E t \in Thread : ReloadFails(t) \/ Crash(t)
  <2>1. PICK t \in Thread : ReloadFails(t) \/ Crash(t)
    BY <1>7
  <2>2. Quiet(t)
    BY <2>1, LeaveQuiet DEF ReloadFails, Crash, Quiet, places
  <2> QED
    BY <1>2, <2>2, QuietGone
<1> QED
  BY <1>3, <1>4, <1>5, <1>6, <1>7 DEF Next

\* Whatever number of threads execute a request or several requests of one
\* machine, in any order and with any failures, _execute_deletion writes
\* completed only after the machine and its resources row are gone.
THEOREM CompletedMeansGone == Spec => []CompletedIsGone
<1>1. GoneInv => CompletedIsGone
  BY DEF GoneInv
<1> QED
  BY <1>1, Typed, InitGone, NextGone, PTL DEF Spec

(***************************************************************************)
(* Background tasks alone strand no request.                               *)
(***************************************************************************)
\* Thread t may leave a row only when its status is not running any more.
Faithful(t) ==
    /\ \A u \in Thread \ {t} : pc'[u] = pc[u] /\ row'[u] = row[u]
    /\ \A r \in Row :
          status'[r] = "running" =>
             \/ status[r] = "running"
                /\ (row[t] = r /\ pc[t] \in ExecPoint => row'[t] = r /\ pc'[t] \in ExecPoint)
             \/ t \in Executor /\ row'[t] = r /\ pc'[t] \in ExecPoint

LEMMA FaithfulOwned ==
  ASSUME RunningIsOwned, NEW t \in Thread, Faithful(t)
  PROVE  RunningIsOwned'
<1> SUFFICES ASSUME NEW r \in Row, status'[r] = "running"
             PROVE  \E u \in Executor : row'[u] = r /\ pc'[u] \in ExecPoint
  BY DEF RunningIsOwned
<1>1. CASE t \in Executor /\ row'[t] = r /\ pc'[t] \in ExecPoint
  BY <1>1
<1>2. CASE /\ status[r] = "running"
           /\ row[t] = r /\ pc[t] \in ExecPoint => row'[t] = r /\ pc'[t] \in ExecPoint
  <2>1. PICK u \in Executor : row[u] = r /\ pc[u] \in ExecPoint
    BY <1>2 DEF RunningIsOwned
  <2> QED
    BY <1>2, <2>1 DEF Faithful, Thread
<1> QED
  BY <1>1, <1>2 DEF Faithful

LEMMA ApiFaithful ==
  ASSUME TInv, NEW a \in Api, ApiStep(a)
  PROVE  Faithful(a)
<1>1. a \in Thread /\ pc[a] \notin ExecPoint
  BY DEF Thread, TInv, RoleInv, ApiPoint, ExecPoint, Attempt
<1>2. \A u \in Thread \ {a} : pc'[u] = pc[u] /\ row'[u] = row[u]
  BY ApiQuiet DEF Quiet
<1>3. \A r \in Row : status'[r] = "running" => status[r] = "running"
  <2> USE DEF places, Write, TInv, TypeOK
  <2>1. CASE \E v \in Vmid : AskAgain(a, v)
    BY <2>1 DEF AskAgain
  <2>2. CASE \E r \in Row : Ask(a, r) \/ Cancel(a, r) \/ Retry(a, r)
    BY <2>2 DEF Ask, Cancel, Retry
  <2>3. CASE Insert(a) \/ CancelWrite(a) \/ RetryWrite(a)
    BY <2>3 DEF Insert, CancelWrite, RetryWrite
  <2>4. CASE Refresh(a) \/ Submit(a)
    BY <2>4 DEF Refresh, Submit
  <2> QED
    BY <2>1, <2>2, <2>3, <2>4 DEF ApiStep
<1> QED
  BY <1>1, <1>2, <1>3 DEF Faithful

LEMMA WorkerFaithful ==
  ASSUME TInv, NEW w \in Worker, WorkerStep(w)
  PROVE  Faithful(w)
<1> w \in Thread /\ w \in Executor
  BY DEF Thread, Executor
<1>1. \A u \in Thread \ {w} : pc'[u] = pc[u] /\ row'[u] = row[u]
  BY ExecutorQuiet DEF Quiet
<1> USE DEF places, Goto, Read, Write, TInv, TypeOK, Faithful
<1>2. CASE Take(w)
  BY <1>1, <1>2 DEF Take, ExecPoint, Attempt
<1>3. CASE Load(w)
  BY <1>1, <1>3 DEF Load, Terminal, ExecPoint, Attempt
<1>4. CASE Exhausted(w)
  BY <1>1, <1>4 DEF Exhausted, Terminal, ExecPoint, Attempt
<1>5. CASE MarkFailed(w)
  BY <1>1, <1>5 DEF MarkFailed
<1> QED
  BY <1>2, <1>3, <1>4, <1>5 DEF WorkerStep

LEMMA ExecuteFaithful ==
  ASSUME TInv, NEW w \in Worker, w \notin Loop, ExecuteStep(w)
  PROVE  Faithful(w)
<1> w \in Thread /\ w \in Executor
  BY DEF Thread, Executor
<1> USE DEF places, Goto, Write, TInv, TypeOK, Faithful
<1>1. CASE Claim(w)
  BY <1>1 DEF Claim, ExecPoint, Attempt
<1>2. CASE Find(w) \/ Destroy(w) \/ Unlink(w)
  BY <1>2 DEF Find, Destroy, Unlink, ExecPoint, Attempt
<1>3. CASE FindNothing(w) \/ Complete(w)
  BY <1>3, LeaveQuiet DEF FindNothing, Complete
<1>4. CASE Refused(w) \/ AttemptFails(w)
  <2>1. UNCHANGED status /\ Fail(w)
    BY <1>4 DEF Refused, AttemptFails
  <2> QED
    BY <2>1 DEF Fail, ExecPoint, Attempt
<1>5. CASE Finish(w)
  <2>1. CASE Leave(w)
    BY <1>5, <2>1, LeaveQuiet DEF Finish
  <2>2. CASE Goto(w, "completing") /\ UNCHANGED <<row, copy, attempt>>
    BY <1>5, <2>2 DEF Finish, ExecPoint, Attempt
  <2> QED
    BY <1>5, <2>1, <2>2 DEF Finish
<1> QED
  BY <1>1, <1>2, <1>3, <1>4, <1>5 DEF ExecuteStep

LEMMA NextOwned ==
  Loop = {} /\ {"reload", "crash"} \cap Fault = {} =>
     (TInv /\ RunningIsOwned /\ [Next]_vars => RunningIsOwned')
<1> SUFFICES ASSUME Loop = {}, {"reload", "crash"} \cap Fault = {}, TInv, RunningIsOwned, [Next]_vars
             PROVE  RunningIsOwned'
  OBVIOUS
<1>1. CASE UNCHANGED vars
  BY <1>1 DEF vars, RunningIsOwned
<1>2. CASE \E a \in Api : ApiStep(a)
  BY <1>2, ApiFaithful, FaithfulOwned DEF Thread
<1>3. CASE \E w \in Worker : WorkerStep(w)
  BY <1>3, WorkerFaithful, FaithfulOwned DEF Thread, Executor
<1>4. CASE \E l \in Loop : LoopStep(l)
  BY <1>4
<1>5. CASE \E t \in Executor : ExecuteStep(t)
  BY <1>5, ExecuteFaithful, FaithfulOwned DEF Thread, Executor
<1>6. CASE \E t \in Thread : ReloadFails(t) \/ Crash(t)
  BY <1>6 DEF ReloadFails, Crash, MayFault
<1> QED
  BY <1>1, <1>2, <1>3, <1>4, <1>5, <1>6 DEF Next

\* What the retries of process_one_request are good for.  Where only background
\* tasks execute requests, a refusal of the cluster or a failure of the database
\* in an attempt strands no request: whoever has set it to running finishes or
\* fails it.  Each hypothesis is one way to strand it: a pass of the loop (the
\* run stuck), a failure of the database where the row is loaded again for the
\* next attempt or for the final verdict, outside of every try, and the death of
\* the process.
THEOREM TasksStrandNothing ==
  ASSUME Loop = {}, {"reload", "crash"} \cap Fault = {}
  PROVE  Spec => []RunningIsOwned
<1>1. Init => RunningIsOwned
  BY DEF Init, RunningIsOwned
<1>2. TInv /\ RunningIsOwned /\ [Next]_vars => RunningIsOwned'
  BY NextOwned
<1> QED
  BY <1>1, <1>2, Typed, PTL DEF Spec
=============================================================================
