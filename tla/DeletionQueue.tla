--------------------------- MODULE DeletionQueue ---------------------------
(***************************************************************************)
(* The queue of deletion requests of Campus-Cloud: the API handlers that   *)
(* create, cancel and retry a request, the background tasks that execute   *)
(* it (process_one_request) and the scheduler pass that is to pick up what *)
(* the tasks dropped (process_pending_deletions).                          *)
(*                                                                         *)
(* None of them locks the row of a request: each reads its status in one   *)
(* statement and writes it in a later one, so a handler or a thread acts   *)
(* on the copy it read.  A vmid is not given to a new machine here; what a *)
(* deletion does to the VM request and to a reused vmid is in VMRequest.   *)
(***************************************************************************)
EXTENDS Naturals, FiniteSets

CONSTANTS
    Row,          \* rows of deletion_requests
    Vmid,
    VmOf,         \* the vmid each row is created for
    Api,          \* handler threads of the API
    Worker,       \* threads executing background tasks
    Loop,         \* scheduler loops, one per process
    MaxRetries,   \* process_one_request(max_retries): 2 in the code
    Fault,        \* which failures may happen, see Faults
    MaxFault,     \* bound on the failures of one behaviour
    Nothing

Executor == Worker \cup Loop
Thread   == Api \cup Executor

\* The database fails inside an attempt, which is caught and retried ("database"),
\* or outside of one, where nothing catches it ("reload").
Faults == {"refuse", "database", "reload", "crash"}

ASSUME RowsAssumption == VmOf \in [Row -> Vmid] /\ Nothing \notin Row

ASSUME ActorsAssumption ==
    Api \cap Executor = {} /\ Worker \cap Loop = {}

ASSUME BoundsAssumption ==
    MaxRetries \in Nat /\ MaxFault \in Nat /\ Fault \subseteq Faults

VARIABLES
    status,      \* deletion_requests.status
    machine,     \* vmids that exist on the cluster
    resource,    \* primary keys of table resources
    submitted,   \* rows whose background task waits in some runner
    pc,          \* where each thread stands
    row,         \* the row it works on
    copy,        \* the status it has read
    attempt,     \* of process_one_request
    batch,       \* rows that a loop has still to visit in its pass
    faults

places == <<status, machine, resource>>
vars   == <<status, machine, resource, submitted, pc, row, copy, attempt, batch, faults>>

Open     == {"pending", "running"}
Terminal == {"completed", "failed", "cancelled"}
Status   == {"none"} \cup Open \cup Terminal

ApiPoint  == {"inserting", "created", "submitting", "cancelling", "requeueing"}
Attempt   == {"claiming", "finding", "deleting", "unlinking", "finishing", "completing"}
ExecPoint == Attempt \cup {"loading", "exhausted", "failing"}

TypeOK ==
    /\ status \in [Row -> Status]
    /\ machine \subseteq Vmid
    /\ resource \subseteq Vmid
    /\ submitted \subseteq Row
    /\ pc \in [Thread -> {"idle"} \cup ApiPoint \cup ExecPoint]
    /\ row \in [Thread -> Row \cup {Nothing}]
    /\ copy \in [Thread -> Status]
    /\ attempt \in [Thread -> 0 .. MaxRetries + 1]
    /\ batch \in [Thread -> SUBSET Row]
    /\ faults \in 0 .. MaxFault

Init ==
    /\ status = [r \in Row |-> "none"]
    /\ machine = Vmid
    /\ resource = Vmid
    /\ submitted = {}
    /\ pc = [t \in Thread |-> "idle"]
    /\ row = [t \in Thread |-> Nothing]
    /\ copy = [t \in Thread |-> "none"]
    /\ attempt = [t \in Thread |-> 0]
    /\ batch = [t \in Thread |-> {}]
    /\ faults = 0

MayFault(f) == f \in Fault /\ faults < MaxFault /\ faults' = faults + 1

\* Every write is an UPDATE by primary key: the last one wins.
Write(r, s) == status' = [status EXCEPT ![r] = s]

Goto(t, point) == pc' = [pc EXCEPT ![t] = point]

Read(t, r) == row' = [row EXCEPT ![t] = r] /\ copy' = [copy EXCEPT ![t] = status[r]]

Leave(t) ==
    /\ Goto(t, "idle")
    /\ row' = [row EXCEPT ![t] = Nothing]
    /\ copy' = [copy EXCEPT ![t] = "none"]
    /\ attempt' = [attempt EXCEPT ![t] = 0]

(***************************************************************************)
(* API handlers                                                            *)
(***************************************************************************)
OpenRows(v) == {r \in Row : VmOf[r] = v /\ status[r] \in Open}

\* DELETE /resources/{vmid} of an existing machine with an open request: that
\* request is returned, and submitted again if it is still pending.
AskAgain(a, v) ==
    /\ pc[a] = "idle"
    /\ v \in machine
    /\ \E r \in OpenRows(v) :
          submitted' = IF status[r] = "pending" THEN submitted \cup {r} ELSE submitted
    /\ UNCHANGED <<places, pc, row, copy, attempt, batch, faults>>

\* No open request was found: one is going to be inserted.
Ask(a, r) ==
    /\ pc[a] = "idle"
    /\ status[r] = "none" /\ \A t \in Thread : row[t] # r
    /\ VmOf[r] \in machine
    /\ OpenRows(VmOf[r]) = {}
    /\ row' = [row EXCEPT ![a] = r]
    /\ Goto(a, "inserting")
    /\ UNCHANGED <<places, submitted, copy, attempt, batch, faults>>

Insert(a) ==
    /\ pc[a] = "inserting"
    /\ Write(row[a], "pending")
    /\ Goto(a, "created")
    /\ UNCHANGED <<machine, resource, submitted, row, copy, attempt, batch, faults>>

\* session.refresh, and the route's look at the status.
Refresh(a) ==
    /\ pc[a] = "created"
    /\ IF status[row[a]] = "pending"
         THEN Goto(a, "submitting") /\ UNCHANGED <<row, copy, attempt>>
         ELSE Leave(a)
    /\ UNCHANGED <<places, submitted, batch, faults>>

Submit(a) ==
    /\ pc[a] = "submitting"
    /\ submitted' = submitted \cup {row[a]}
    /\ Leave(a)
    /\ UNCHANGED <<places, batch, faults>>

\* POST .../cancel: reads the row and asks the runner of this process to drop
\* the task, which works for one that has not begun.
Cancel(a, r) ==
    /\ pc[a] = "idle"
    /\ status[r] \in Open
    /\ Read(a, r)
    /\ \/ UNCHANGED submitted
       \/ status[r] = "running" /\ r \in submitted /\ submitted' = submitted \ {r}
    /\ Goto(a, "cancelling")
    /\ UNCHANGED <<places, attempt, batch, faults>>

CancelWrite(a) ==
    /\ pc[a] = "cancelling"
    /\ Write(row[a], "cancelled")
    /\ Leave(a)
    /\ UNCHANGED <<machine, resource, submitted, batch, faults>>

\* POST .../retry of a failed request, then a new background task.
Retry(a, r) ==
    /\ pc[a] = "idle"
    /\ status[r] = "failed"
    /\ Read(a, r)
    /\ Goto(a, "requeueing")
    /\ UNCHANGED <<places, submitted, attempt, batch, faults>>

RetryWrite(a) ==
    /\ pc[a] = "requeueing"
    /\ Write(row[a], "pending")
    /\ Goto(a, "submitting")
    /\ UNCHANGED <<machine, resource, submitted, row, copy, attempt, batch, faults>>

(***************************************************************************)
(* process_one_request: the attempts of a background task                  *)
(***************************************************************************)
Take(w) ==
    /\ pc[w] = "idle"
    /\ \E r \in submitted :
          /\ row' = [row EXCEPT ![w] = r]
          /\ submitted' = submitted \ {r}
    /\ attempt' = [attempt EXCEPT ![w] = 1]
    /\ Goto(w, "loading")
    /\ UNCHANGED <<places, copy, batch, faults>>

\* Each attempt opens a session of its own and reads the row again.
Load(w) ==
    /\ pc[w] = "loading"
    /\ IF status[row[w]] \in Terminal
         THEN Leave(w)
         ELSE /\ Read(w, row[w])
              /\ Goto(w, "claiming")
              /\ UNCHANGED attempt
    /\ UNCHANGED <<places, submitted, batch, faults>>

\* All attempts failed: one more read of the row,
Exhausted(w) ==
    /\ pc[w] = "exhausted"
    /\ IF status[row[w]] \in Terminal
         THEN Leave(w)
         ELSE Goto(w, "failing") /\ UNCHANGED <<row, copy, attempt>>
    /\ UNCHANGED <<places, submitted, batch, faults>>

\* and the request is failed.
MarkFailed(w) ==
    /\ pc[w] = "failing"
    /\ Write(row[w], "failed")
    /\ Leave(w)
    /\ UNCHANGED <<machine, resource, submitted, batch, faults>>

(***************************************************************************)
(* process_pending_deletions: the pass of a scheduler loop                 *)
(***************************************************************************)
\* Mutant of Scan: only requests whose task is still in a runner are found.
ScanSubmitted(l) ==
    LET pending == {r \in submitted : status[r] = "pending"} IN
    /\ pc[l] = "idle" /\ batch[l] = {}
    /\ \E r \in pending :
          /\ Read(l, r)
          /\ batch' = [batch EXCEPT ![l] = pending \ {r}]
    /\ Goto(l, "claiming")
    /\ UNCHANGED <<places, submitted, attempt, faults>>

\* The pending requests (five at most) are listed; the one executed first is
\* seen as listed.
Scan(l) ==
    LET pending == {r \in Row : status[r] = "pending"} IN
    /\ pc[l] = "idle" /\ batch[l] = {}
    /\ \E r \in pending :
          /\ Read(l, r)
          /\ batch' = [batch EXCEPT ![l] = pending \ {r}]
    /\ Goto(l, "claiming")
    /\ UNCHANGED <<places, submitted, attempt, faults>>

\* The others are reloaded when their turn comes: one that a task has begun
\* meanwhile is taken for a retry and executed all the same.
Visit(l) ==
    /\ pc[l] = "idle"
    /\ \E r \in batch[l] :
          /\ batch' = [batch EXCEPT ![l] = @ \ {r}]
          /\ IF status[r] \in Terminal
               THEN UNCHANGED <<pc, row, copy>>
               ELSE Read(l, r) /\ Goto(l, "claiming")
    /\ UNCHANGED <<places, submitted, attempt, faults>>

(***************************************************************************)
(* _execute_deletion                                                       *)
(***************************************************************************)
\* Mutant of Fail: the attempts are not counted against max_retries.
FailForever(t) ==
    IF t \in Loop
      THEN Leave(t)
      ELSE /\ Goto(t, "loading")
           /\ attempt' = [attempt EXCEPT ![t] = @ + 1]
           /\ UNCHANGED <<row, copy>>

\* An attempt failed: the task tries again or gives up, the loop goes on with
\* its next request.
Fail(t) ==
    IF t \in Loop
      THEN Leave(t)
      ELSE /\ IF attempt[t] > MaxRetries
                THEN Goto(t, "exhausted") /\ UNCHANGED attempt
                ELSE Goto(t, "loading") /\ attempt' = [attempt EXCEPT ![t] = @ + 1]
           /\ UNCHANGED <<row, copy>>

Claim(t) ==
    /\ pc[t] = "claiming"
    /\ IF copy[t] = "pending" THEN Write(row[t], "running") ELSE UNCHANGED status
    /\ copy' = [copy EXCEPT ![t] = "running"]
    /\ Goto(t, "finding")
    /\ UNCHANGED <<machine, resource, submitted, row, attempt, batch, faults>>

Find(t) ==
    /\ pc[t] = "finding"
    /\ VmOf[row[t]] \in resource
    /\ Goto(t, "deleting")
    /\ UNCHANGED <<places, submitted, row, copy, attempt, batch, faults>>

\* The resources row is gone: the request is failed at once.
FindNothing(t) ==
    /\ pc[t] = "finding"
    /\ VmOf[row[t]] \notin resource
    /\ Write(row[t], "failed")
    /\ Leave(t)
    /\ UNCHANGED <<machine, resource, submitted, batch, faults>>

Destroy(t) ==
    /\ pc[t] = "deleting"
    /\ VmOf[row[t]] \in machine
    /\ machine' = machine \ {VmOf[row[t]]}
    /\ Goto(t, "unlinking")
    /\ UNCHANGED <<status, resource, submitted, row, copy, attempt, batch, faults>>

\* The machine runs and force was not asked for, the cluster refuses, or the
\* machine does not exist any more.
Refused(t) ==
    /\ pc[t] = "deleting"
    /\ \/ VmOf[row[t]] \notin machine /\ UNCHANGED faults
       \/ MayFault("refuse")
    /\ Fail(t)
    /\ UNCHANGED <<places, submitted, batch>>

\* Mutant of Unlink: the transaction with the resources row is not committed.
UnlinkNothing(t) ==
    /\ pc[t] = "unlinking"
    /\ Goto(t, "finishing")
    /\ UNCHANGED <<places, submitted, row, copy, attempt, batch, faults>>

Unlink(t) ==
    /\ pc[t] = "unlinking"
    /\ resource' = resource \ {VmOf[row[t]]}
    /\ Goto(t, "finishing")
    /\ UNCHANGED <<status, machine, submitted, row, copy, attempt, batch, faults>>

\* The database fails in an attempt, before or after one of its commits.  After
\* a failed commit the loop may be unable to read the rest of its list.
AttemptFails(t) ==
    /\ pc[t] \in Attempt
    /\ MayFault("database")
    /\ Fail(t)
    /\ \/ UNCHANGED batch
       \/ t \in Loop /\ batch' = [batch EXCEPT ![t] = {}]
    /\ UNCHANGED <<places, submitted>>

\* Has the user cancelled meanwhile?
Finish(t) ==
    /\ pc[t] = "finishing"
    /\ IF status[row[t]] = "cancelled"
         THEN Leave(t)
         ELSE Goto(t, "completing") /\ UNCHANGED <<row, copy, attempt>>
    /\ UNCHANGED <<places, submitted, batch, faults>>

Complete(t) ==
    /\ pc[t] = "completing"
    /\ Write(row[t], "completed")
    /\ Leave(t)
    /\ UNCHANGED <<machine, resource, submitted, batch, faults>>

(***************************************************************************)
(* The database fails in a handler, or in process_one_request outside of   *)
(* its try: as a later attempt loads the row, or as the request is to be   *)
(* failed for good.  The task is not retried and the row stays as it is.   *)
(***************************************************************************)
ReloadFails(t) ==
    /\ pc[t] \in ApiPoint \cup (ExecPoint \ Attempt)
    /\ MayFault("reload")
    /\ Leave(t)
    /\ UNCHANGED <<places, submitted, batch>>

(***************************************************************************)
(* The process of a thread dies, with tasks waiting in its runner.         *)
(***************************************************************************)
Crash(t) ==
    /\ pc[t] # "idle" \/ submitted # {}
    /\ MayFault("crash")
    /\ Leave(t)
    /\ batch' = [batch EXCEPT ![t] = {}]
    /\ \E lost \in SUBSET submitted : submitted' = submitted \ lost
    /\ UNCHANGED places

ApiStep(a) ==
    \/ \E v \in Vmid : AskAgain(a, v)
    \/ \E r \in Row : Ask(a, r) \/ Cancel(a, r) \/ Retry(a, r)
    \/ Insert(a) \/ Refresh(a) \/ Submit(a) \/ CancelWrite(a) \/ RetryWrite(a)

WorkerStep(w) == Take(w) \/ Load(w) \/ Exhausted(w) \/ MarkFailed(w)

LoopStep(l) == Scan(l) \/ Visit(l)

ExecuteStep(t) ==
    \/ Claim(t) \/ Find(t) \/ FindNothing(t) \/ Destroy(t) \/ Refused(t)
    \/ Unlink(t) \/ AttemptFails(t) \/ Finish(t) \/ Complete(t)

Next ==
    \/ \E a \in Api : ApiStep(a)
    \/ \E w \in Worker : WorkerStep(w)
    \/ \E l \in Loop : LoopStep(l)
    \/ \E t \in Executor : ExecuteStep(t)
    \/ \E t \in Thread : ReloadFails(t) \/ Crash(t)

Spec == Init /\ [][Next]_vars

(***************************************************************************)
(* Loops tick for ever and threads that have begun go on; users and        *)
(* failures owe nothing.                                                   *)
(***************************************************************************)
Fairness ==
    /\ \A l \in Loop : WF_vars(LoopStep(l))
    /\ \A w \in Worker : WF_vars(WorkerStep(w))
    /\ \A t \in Executor : WF_vars(ExecuteStep(t))

FairSpec == Spec /\ Fairness

(***************************************************************************)
(* Properties                                                              *)
(***************************************************************************)
\* A completed request means what the user reads in it: the machine and its
\* resources row are gone, although several threads may execute one request
\* or two requests of one machine at a time and each of them may fail half way.
CompletedIsGone ==
    \A r \in Row : status[r] = "completed" => VmOf[r] \notin machine \cup resource

\* What the docstring of _execute_deletion asks of its callers: a request in
\* status running has a thread that will finish or fail it.
RunningIsOwned ==
    \A r \in Row :
        status[r] = "running" =>
            \E t \in Executor : row[t] = r /\ pc[t] \in ExecPoint

\* The safety net: a pending request is taken up although its task was lost
\* with a process, or never submitted.
PendingIsTaken ==
    \A r \in Row : status[r] = "pending" ~> status[r] # "pending"
=============================================================================
