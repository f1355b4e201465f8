------------------------ MODULE MigrationQueueProofs ------------------------
(* Theorems about MigrationQueue, for every value of its constants. *)
EXTENDS MigrationQueue, TLAPS

(***************************************************************************)
(* Types of what the operators return                                      *)
(***************************************************************************)
Status == {"free"} \cup Open \cup Closed

LEMMA SettleTyped ==
  ASSUME NEW job \in JobRow, NEW s \in Status
  PROVE  Settle(job, s) \in JobRow
  BY DEF Settle, JobRow, Status, Claim

LEMMA RoutedTyped ==
  ASSUME NEW job \in JobRow, NEW from \in Place, NEW to \in Place
  PROVE  Routed(job, from, to) \in JobRow
  BY DEF Routed, JobRow

LEMMA TriedTyped ==
  ASSUME NEW job \in JobRow
  PROVE  Tried(job) \in JobRow
  BY BoundsAssumption DEF Tried, JobRow

LEMMA MergeJobTyped ==
  ASSUME NEW now \in JobRow, NEW loaded \in JobRow, NEW new \in JobRow
  PROVE  MergeJob(now, loaded, new) \in JobRow
  BY DEF MergeJob, Column, JobRow

LEMMA MergeRowTyped ==
  ASSUME NEW now \in Row, NEW loaded \in Row, NEW new \in Row
  PROVE  MergeRow(now, loaded, new) \in Row
  BY DEF MergeRow, Column, Row

LEMMA DecidedTyped ==
  ASSUME NEW r \in Row, NEW want \in Place, NEW epoch \in Nat, NEW mig \in Mig
  PROVE  [r EXCEPT !.want = want, !.epoch = epoch, !.mig = mig] \in Row
  BY DEF Row

LEMMA UnusedTyped == Unused \in JobRow
  BY BoundsAssumption DEF Unused, JobRow, Claim, Place

LEMMA EnqueuedTyped ==
  ASSUME NEW r \in Row, NEW src \in Place
  PROVE  Enqueued(r, src) \in JobRow
<1>1. r.epoch \in Nat /\ r.want \in Place /\ 0 \in 0 .. MaxTries
  BY BoundsAssumption DEF Row
<1> QED
  BY <1>1 DEF Enqueued, JobRow, Claim, Open

LEMMA ClaimedTyped ==
  ASSUME NEW job \in JobRow
  PROVE  Claimed(job) \in JobRow
  BY DEF Claimed, JobRow, Claim, Open

LEMMA BlankTyped == Blank \in [Request -> Row]
  BY NodesAssumption DEF Blank, Row, Place, Mig

LEMMA SyncTyped ==
  ASSUME NEW js \in [Slot -> JobRow], NEW r \in Row, NEW src \in Place
  PROVE  Sync(js, r, src) \in [Slot -> JobRow]
<1>1. Enqueued(r, src) \in JobRow
  BY EnqueuedTyped
<1>2. \A k \in Slot : [Enqueued(r, src) EXCEPT !.tries = js[k].tries] \in JobRow
  BY <1>1 DEF JobRow
<1>3. \A k \in Slot : Settle(js[k], "cancelled") \in JobRow
  BY SettleTyped DEF Status, Closed
<1> QED
  BY <1>1, <1>2, <1>3 DEF Sync

\* At most one job is the latest.
LEMMA LatestUnique ==
  ASSUME NEW js, NEW k \in Slot, NEW l \in Slot, Latest(js, k), Latest(js, l)
  PROVE  k = l
  BY BoundsAssumption DEF Latest, Slot

LEMMA EffectiveTyped ==
  ASSUME NEW js \in [Slot -> JobRow], NEW r \in Row
  PROVE  Effective(js, r) \in Mig
<1>1. CASE \E k \in Slot : /\ Latest(js, k) /\ js[k].to = r.want /\ js[k].epoch = r.epoch
                           /\ js[k].st # "cancelled"
  <2>1. PICK k \in Slot : /\ Latest(js, k) /\ js[k].to = r.want /\ js[k].epoch = r.epoch
                          /\ js[k].st # "cancelled"
    BY <1>1
  <2>2. (CHOOSE l \in Slot : Latest(js, l)) = k
    BY <2>1, LatestUnique
  <2>3. Effective(js, r) = js[k].st
    BY <2>1, <2>2 DEF Effective
  <2> QED
    BY <2>1, <2>3 DEF Latest, JobRow, Open, Closed, Mig
<1>2. CASE ~ \E k \in Slot : /\ Latest(js, k) /\ js[k].to = r.want /\ js[k].epoch = r.epoch
                             /\ js[k].st # "cancelled"
  BY <1>2 DEF Effective, Row
<1> QED
  BY <1>1, <1>2

LEMMA JobWritten ==
  ASSUME jobs \in [Request -> [Slot -> JobRow]], NEW j \in Job, NEW new \in JobRow, Put(j, new)
  PROVE  jobs' \in [Request -> [Slot -> JobRow]]
  BY DEF Job, Put

(***************************************************************************)
(* Type correctness                                                        *)
(***************************************************************************)
\* A worker away from idle has a job, and the row loaded when it writes from that
\* copy; a crash is one of the failures.
Viewing == {"moved", "rolled", "reloaded"}

TInv == /\ TypeOK
        /\ \A w \in Worker : pc[w] = "idle" <=> task[w] = NoJob
        /\ \A w \in Worker : pc[w] \in Viewing => view[w] \in Row
        /\ crashes <= faults

LEMMA InitTyped == Init => TInv
<1> SUFFICES ASSUME Init PROVE TInv
  OBVIOUS
<1>1. jobs \in [Request -> [Slot -> JobRow]] /\ copy \in [Worker -> JobRow]
  BY UnusedTyped DEF Init
<1>2. row \in [Request -> Row] /\ seen \in [Loop -> [Request -> Row]]
  BY BlankTyped DEF Init
<1>3. route \in [Worker -> Route]
  BY DEF Init, Nowhere, Route, Place
<1> QED
  BY <1>1, <1>2, <1>3, NodesAssumption, PoolsAssumption, BoundsAssumption
  DEF Init, TInv, TypeOK, Place, Stage, Point, Viewing

LEMMA TaskTyped ==
  ASSUME TInv, NEW w \in Worker, pc[w] # "idle"
  PROVE  /\ task[w] \in Job /\ ReqOf(w) \in Request /\ task[w][2] \in Slot
         /\ JobOf(w) \in JobRow /\ copy[w] \in JobRow /\ row[ReqOf(w)] \in Row
         /\ route[w].from \in Place /\ route[w].to \in Place /\ route[w].found \in Place
  BY DEF TInv, TypeOK, Job, ReqOf, JobOf, JobAt, Route

LEMMA LeaveTyped ==
  ASSUME TInv, NEW w \in Worker, Leave(w)
  PROVE  /\ pc' \in [Worker -> Point] /\ task' \in [Worker -> Job \cup {NoJob}]
         /\ over' \in [Worker -> BOOLEAN] /\ copy' \in [Worker -> JobRow]
         /\ route' \in [Worker -> Route] /\ view' \in [Worker -> Row \cup {NoRow}]
         /\ \A v \in Worker : pc'[v] = "idle" <=> task'[v] = NoJob
         /\ \A v \in Worker : pc'[v] \in Viewing => view'[v] \in Row
<1>1. Nowhere \in Route
  BY DEF Nowhere, Route, Place
<1> QED
  BY <1>1, UnusedTyped DEF Leave, Goto, TInv, TypeOK, Point, Viewing

LEMMA WriteTyped ==
  ASSUME TInv, NEW w \in Worker, pc[w] # "idle"
  PROVE  /\ \A new \in JobRow : WriteJob(w, new) => jobs' \in [Request -> [Slot -> JobRow]]
         /\ \A new \in Row : WriteRow(w, new) => row' \in [Request -> Row]
         /\ Unlock(w) => lock' \in [Request -> Worker \cup Loop \cup {Nobody}]
<1>1. task[w] \in Job /\ ReqOf(w) \in Request
  BY TaskTyped
<1>2. ASSUME NEW new \in JobRow, WriteJob(w, new)
      PROVE  jobs' \in [Request -> [Slot -> JobRow]]
  BY <1>1, <1>2, JobWritten DEF WriteJob, TInv, TypeOK
<1>3. ASSUME NEW new \in Row, WriteRow(w, new)
      PROVE  row' \in [Request -> Row]
  BY <1>1, <1>3 DEF WriteRow, TInv, TypeOK
<1>4. ASSUME Unlock(w)
      PROVE  lock' \in [Request -> Worker \cup Loop \cup {Nobody}]
  BY <1>1, <1>4 DEF Unlock, TInv, TypeOK
<1> QED
  BY <1>2, <1>3, <1>4

LEMMA RebalanceSyncs ==
  ASSUME TInv, NEW p \in Loop, Rebalance(p)
  PROVE  /\ row' \in [Request -> Row]
         /\ \A r \in Request : \/ jobs'[r] = jobs[r]
                               \/ \E req \in Row, src \in Place : jobs'[r] = Sync(jobs[r], req, src)
         /\ jobs' = [r \in Request |-> jobs'[r]]
<1>1. PICK node \in [todo[p] -> Node], epoch \in 1 .. MaxEpoch :
         /\ row' = [r \in Request |-> IF r \in todo[p] THEN DecidedRow(p, r, node[r], epoch)
                                                        ELSE row[r]]
         /\ jobs' = [r \in Request |->
                       IF r \in todo[p]
                         THEN Sync(jobs[r], DecidedRow(p, r, node[r], epoch), seen[p][r].actual)
                         ELSE jobs[r]]
  BY DEF Rebalance
<1>2. ASSUME NEW r \in todo[p]
      PROVE  DecidedRow(p, r, node[r], epoch) \in Row /\ seen[p][r].actual \in Place
  <2> DEFINE mig == IF seen[p][r].vm /\ seen[p][r].actual # node[r] THEN "pending" ELSE "idle"
             new == [seen[p][r] EXCEPT !.want = node[r], !.epoch = epoch, !.mig = mig]
  <2>1. mig \in Mig /\ node[r] \in Place /\ epoch \in Nat
    BY BoundsAssumption DEF Mig, Place
  <2>2. row[r] \in Row /\ seen[p][r] \in Row
    BY DEF TInv, TypeOK
  <2>3. DecidedRow(p, r, node[r], epoch) = MergeRow(row[r], seen[p][r], new)
    BY DEF DecidedRow
  <2> HIDE DEF mig
  <2>4. new \in Row
    BY <2>1, <2>2, DecidedTyped
  <2> HIDE DEF new
  <2>5. DecidedRow(p, r, node[r], epoch) \in Row
    BY <2>2, <2>3, <2>4, MergeRowTyped
  <2> QED
    BY <2>2, <2>5 DEF Row
<1>3. row' \in [Request -> Row]
  BY <1>1, <1>2 DEF TInv, TypeOK
<1> QED
  BY <1>1, <1>2, <1>3

LEMMA LoopTyped ==
  ASSUME TInv, NEW p \in Loop, LoopStep(p)
  PROVE  TInv'
<1> USE DEF cluster, loops, workers, history, Stand, EndTransaction
<1>1. CASE Survey(p)
  BY <1>1 DEF Survey, TInv, TypeOK, Stage
<1>2. CASE Rebalance(p)
  <2>1. row' \in [Request -> Row]
    BY <1>2, RebalanceSyncs
  <2>2. ASSUME NEW r \in Request PROVE jobs'[r] \in [Slot -> JobRow]
    <3>1. jobs[r] \in [Slot -> JobRow]
      BY DEF TInv, TypeOK
    <3>2. CASE jobs'[r] = jobs[r]
      BY <3>1, <3>2
    <3>3. CASE \E req \in Row, src \in Place : jobs'[r] = Sync(jobs[r], req, src)
      BY <3>1, <3>3, SyncTyped
    <3> QED
      BY <1>2, <3>2, <3>3, RebalanceSyncs
  <2>3. jobs' = [r \in Request |-> jobs'[r]]
    BY <1>2, RebalanceSyncs
  <2>4. jobs' \in [Request -> [Slot -> JobRow]]
    BY <2>2, <2>3
  <2>5. touched' \subseteq Job
    BY <1>2 DEF Rebalance, Disturb, TInv, TypeOK
  <2> QED
    BY <1>2, <2>1, <2>4, <2>5, BlankTyped DEF Rebalance, TInv, TypeOK, Stage
<1>3. CASE NoRebalance(p)
  BY <1>3, BlankTyped DEF NoRebalance, TInv, TypeOK, Stage
<1>4. CASE ClaimJobs(p)
  <2>1. PICK give \in [PoolOfLoop(p) -> Claimable(jobs) \cup {NoJob}] :
         LET busy  == {w \in PoolOfLoop(p) : give[w] # NoJob}
             given == {give[w] : w \in busy}
         IN  /\ \A v, w \in busy : give[v] = give[w] => v = w
             /\ busy = PoolOfLoop(p) \/ given = Claimable(jobs)
             /\ jobs' = [r \in Request |-> [k \in Slot |->
                            IF <<r, k>> \in given THEN Claimed(jobs[r][k]) ELSE jobs[r][k]]]
             /\ task' = [w \in Worker |-> IF w \in busy THEN give[w] ELSE task[w]]
             /\ pc' = [w \in Worker |-> IF w \in busy THEN "queued" ELSE pc[w]]
             /\ \E first \in SUBSET busy :
                  /\ Cardinality(first) <= Budget
                  /\ first = busy \/ Cardinality(first) = Budget
                  /\ over' = [w \in Worker |-> IF w \in busy THEN w \notin first ELSE over[w]]
             /\ Stand(p, IF active = {} THEN "idle" ELSE IF busy = {} THEN "syncing"
                         ELSE IF \E w \in busy : busy = {w} THEN "serial" ELSE "pool")
    BY <1>4 DEF ClaimJobs
  <2>2. jobs' \in [Request -> [Slot -> JobRow]]
    BY <2>1, ClaimedTyped DEF TInv, TypeOK
  <2>3. \A w \in PoolOfLoop(p) : give[w] \in Job \cup {NoJob}
    BY <2>1 DEF Claimable
  <2>4. task' \in [Worker -> Job \cup {NoJob}] /\ pc' \in [Worker -> Point]
    BY <2>1, <2>3 DEF TInv, TypeOK, Point, BeforeBegin
  <2>5. \A w \in Worker : pc'[w] = "idle" <=> task'[w] = NoJob
    BY <2>1 DEF TInv, TypeOK
  <2>6. over' \in [Worker -> BOOLEAN]
    BY <2>1 DEF TInv, TypeOK
  <2>7. stage' \in [Loop -> Stage]
    BY <2>1 DEF TInv, TypeOK, Stage
  <2>8. \A w \in Worker : pc'[w] \in Viewing => view'[w] \in Row
    BY <1>4, <2>1 DEF ClaimJobs, TInv, TypeOK, Viewing
  <2> QED
    BY <1>4, <2>2, <2>4, <2>5, <2>6, <2>7, <2>8 DEF ClaimJobs, TInv, TypeOK
<1>5. CASE PoolDone(p)
  BY <1>5 DEF PoolDone, TInv, TypeOK, Stage
<1>6. CASE \E r \in Request : Ensure(p, r) \/ EnsureGone(p, r) \/ EnsureNew(p, r) \/ EnsureFails(p, r)
  <2>1. PICK r \in Request : Ensure(p, r) \/ EnsureGone(p, r) \/ EnsureNew(p, r) \/ EnsureFails(p, r)
    BY <1>6
  <2>0. Visited(p, r)
    BY <2>1 DEF Ensure, EnsureGone, EnsureNew, EnsureFails
  <2>2. todo' \in [Loop -> SUBSET Request] /\ stage' \in [Loop -> Stage]
    BY <2>0 DEF Visited, TInv, TypeOK, Stage
  <2>3. row[r] \in Row /\ at[r] \in Place /\ jobs[r] \in [Slot -> JobRow]
    BY DEF TInv, TypeOK
  <2>4. CASE Ensure(p, r)
    <3> DEFINE found == [row[r] EXCEPT !.actual = at[r],
                           !.mig = IF row[r].want # at[r] THEN "pending" ELSE row[r].mig]
               synced == Sync(jobs[r], found, at[r])
               told == [found EXCEPT !.mig = IF found.want = at[r] THEN "completed"
                                             ELSE Effective(synced, found)]
    <3>1. found \in Row
      BY <2>3 DEF Row, Mig
    <3>2. synced \in [Slot -> JobRow]
      BY <2>3, <3>1, SyncTyped
    <3>3. Effective(synced, found) \in Mig
      BY <3>1, <3>2, EffectiveTyped
    <3>4. told \in Row
      BY <3>1, <3>3 DEF Row, Mig
    <3>5. jobs' = [jobs EXCEPT ![r] = synced] /\ row' = [row EXCEPT ![r] = told]
      BY <2>4 DEF Ensure
    <3>6. jobs' \in [Request -> [Slot -> JobRow]] /\ row' \in [Request -> Row]
      BY <3>2, <3>4, <3>5 DEF TInv, TypeOK
    <3>7. touched' \subseteq Job
      BY <2>4 DEF Ensure, Disturb, TInv, TypeOK
    <3> QED
      BY <2>2, <2>4, <3>6, <3>7 DEF Ensure, TInv, TypeOK
  <2>5. CASE EnsureGone(p, r)
    <3>1. [row[r] EXCEPT !.want = NoNode, !.actual = NoNode, !.mig = "idle", !.vm = FALSE] \in Row
      BY <2>3 DEF Row, Place, Mig
    <3> QED
      BY <2>2, <2>5, <3>1 DEF EnsureGone, TInv, TypeOK
  <2>6. CASE EnsureNew(p, r)
    BY <2>2, <2>6 DEF EnsureNew, TInv, TypeOK
  <2>7. CASE EnsureFails(p, r)
    <3>1. [row[r] EXCEPT !.mig = "failed"] \in Row
      BY <2>3 DEF Row, Mig
    <3> QED
      BY <2>2, <2>7, <3>1, BoundsAssumption DEF EnsureFails, MayFault, TInv, TypeOK
  <2> QED
    BY <2>1, <2>4, <2>5, <2>6, <2>7
<1>7. CASE ClaimFails(p)
  BY <1>7, BoundsAssumption DEF ClaimFails, MayFault, TInv, TypeOK, Stage
<1> QED
  BY <1>1, <1>2, <1>3, <1>4, <1>5, <1>6, <1>7 DEF LoopStep

LEMMA MovedTyped ==
  ASSUME TInv, NEW w \in Worker, NEW point \in Point, Goto(w, point),
         pc[w] # "idle", point # "idle"
  PROVE  /\ pc' \in [Worker -> Point]
         /\ \A v \in Worker : pc'[v] = "idle" <=> pc[v] = "idle"
         /\ UNCHANGED view /\ (point \in Viewing => view[w] \in Row) =>
               \A v \in Worker : pc'[v] \in Viewing => view'[v] \in Row
  BY DEF Goto, TInv, TypeOK

LEMMA WorkerTyped ==
  ASSUME TInv, NEW w \in Worker, WorkerStep(w)
  PROVE  TInv'
<1> USE DEF cluster, loops, workers, history
<1>0. pc[w] # "idle"
  BY DEF WorkerStep, Load, LockRow, Locate, RefreshFails, Stale, AlreadyThere, Gate, GateFails,
         Begin, Start, Heartbeat, WatchFails, Arrive, Record, RecordFails, Deadlock, Rollback, Reload,
         Fail
<1>t. /\ task[w] \in Job /\ ReqOf(w) \in Request /\ task[w][2] \in Slot
      /\ JobOf(w) \in JobRow /\ copy[w] \in JobRow /\ row[ReqOf(w)] \in Row
      /\ route[w].from \in Place /\ route[w].to \in Place /\ route[w].found \in Place
      /\ at[ReqOf(w)] \in Place
  BY <1>0, TaskTyped DEF TInv, TypeOK
<1>w. /\ \A new \in JobRow : WriteJob(w, new) => jobs' \in [Request -> [Slot -> JobRow]]
      /\ \A new \in Row : WriteRow(w, new) => row' \in [Request -> Row]
      /\ Unlock(w) => lock' \in [Request -> Worker \cup Loop \cup {Nobody}]
  BY <1>0, WriteTyped
<1>p. \A point \in Point \ {"idle"} : Goto(w, point) =>
         /\ pc' \in [Worker -> Point]
         /\ \A v \in Worker : pc'[v] = "idle" <=> pc[v] = "idle"
         /\ UNCHANGED view /\ (point \in Viewing => view[w] \in Row) =>
               \A v \in Worker : pc'[v] \in Viewing => view'[v] \in Row
  BY <1>0, MovedTyped
<1>v. /\ \A new \in Row : view' = [view EXCEPT ![w] = new] =>
            /\ view' \in [Worker -> Row \cup {NoRow}]
            /\ view'[w] \in Row /\ \A v \in Worker \ {w} : view'[v] = view[v]
      /\ \A point : Goto(w, point) => pc'[w] = point /\ \A v \in Worker \ {w} : pc'[v] = pc[v]
  BY DEF Goto, TInv, TypeOK
<1>s. \A st \in {"pending", "completed", "failed", "blocked"} :
         /\ Settle(copy[w], st) \in JobRow /\ Settle(JobOf(w), st) \in JobRow
         /\ st \in Mig
  BY <1>t, SettleTyped DEF Status, Open, Closed, Mig
<1>1. CASE Load(w)
  BY <1>1, <1>t, <1>p DEF Load, TInv, TypeOK, Viewing, Point, BeforeBegin
<1>2. CASE LockRow(w)
  BY <1>2, <1>t, <1>p DEF LockRow, TInv, TypeOK, Viewing, Point, BeforeBegin
<1>3. CASE Locate(w)
  <2>1. route' \in [Worker -> Route]
    BY <1>3, <1>t DEF Locate, TInv, TypeOK, Route, Place, Row, ReqOf
  <2>2. Goto(w, "located")
    BY <1>3 DEF Locate
  <2> QED
    BY <1>3, <2>1, <2>2, <1>p DEF Locate, TInv, TypeOK, Viewing, Point, BeforeBegin
<1>4. CASE RefreshFails(w)
  <2>1. stage' \in [Loop -> Stage] /\ todo' \in [Loop -> SUBSET Request]
    BY <1>4, PoolsAssumption DEF RefreshFails, Stand, TInv, TypeOK, Stage
  <2>2. faults' \in 0 .. MaxFault /\ crashes' \in 0 .. MaxFault /\ crashes' <= faults'
    BY <1>4, BoundsAssumption DEF RefreshFails, MayFault, TInv, TypeOK
  <2>3. Leave(w) /\ Unlock(w)
    BY <1>4 DEF RefreshFails
  <2> QED
    BY <1>4, <1>w, <2>1, <2>2, <2>3, LeaveTyped DEF RefreshFails, TInv, TypeOK
<1>5. CASE Stale(w)
  <2>1. MergeJob(JobOf(w), copy[w], Tried(Settle(copy[w], "failed"))) \in JobRow
    BY <1>t, <1>s, TriedTyped, MergeJobTyped
  <2>2. [row[ReqOf(w)] EXCEPT !.want = NoNode, !.actual = NoNode, !.mig = "idle", !.vm = FALSE] \in Row
    BY <1>t DEF Row, Place, Mig
  <2>3. jobs' \in [Request -> [Slot -> JobRow]] /\ row' \in [Request -> Row]
    BY <1>5, <1>w, <2>1, <2>2 DEF Stale
  <2>4. Leave(w) /\ Unlock(w)
    BY <1>5 DEF Stale
  <2> QED
    BY <1>5, <1>w, <2>3, <2>4, LeaveTyped DEF Stale, TInv, TypeOK
<1>6. CASE AlreadyThere(w)
  <2> DEFINE r == ReqOf(w)
  <2>1. MergeJob(JobOf(w), copy[w], Routed(Settle(copy[w], "completed"), at[r], at[r])) \in JobRow
    BY <1>t, <1>s, RoutedTyped, MergeJobTyped
  <2>2. [row[r] EXCEPT !.actual = at[r], !.mig = "completed"] \in Row
    BY <1>t DEF Row, Mig
  <2>3. jobs' \in [Request -> [Slot -> JobRow]] /\ row' \in [Request -> Row]
    BY <1>6, <1>w, <2>1, <2>2 DEF AlreadyThere
  <2>4. Leave(w) /\ Unlock(w)
    BY <1>6 DEF AlreadyThere
  <2> QED
    BY <1>6, <1>w, <2>3, <2>4, LeaveTyped DEF AlreadyThere, TInv, TypeOK
<1>7. CASE Gate(w)
  <2> DEFINE routed == Routed(Settle(copy[w], Verdict(w)), route[w].from, route[w].to)
             new == IF Deferred(w) THEN [routed EXCEPT !.due = FALSE] ELSE routed
  <2>1. Verdict(w) \in {"pending", "blocked"}
    BY DEF Verdict
  <2>2. routed \in JobRow
    BY <1>t, <1>s, <2>1, RoutedTyped
  <2>3. new \in JobRow
    BY <2>2 DEF JobRow
  <2>4. MergeJob(JobOf(w), copy[w], new) \in JobRow
    BY <1>t, <2>3, MergeJobTyped
  <2>5. [row[ReqOf(w)] EXCEPT !.actual = route[w].from, !.mig = Verdict(w)] \in Row
    BY <1>t, <2>1 DEF Row, Mig
  <2>6. jobs' \in [Request -> [Slot -> JobRow]] /\ row' \in [Request -> Row]
    BY <1>7, <1>w, <2>4, <2>5 DEF Gate
  <2>7. Leave(w) /\ Unlock(w)
    BY <1>7 DEF Gate
  <2> QED
    BY <1>7, <1>w, <2>6, <2>7, LeaveTyped DEF Gate, TInv, TypeOK
<1>8. CASE GateFails(w)
  <2>1. faults' \in 0 .. MaxFault /\ crashes' \in 0 .. MaxFault /\ crashes' <= faults'
    BY <1>8, BoundsAssumption DEF GateFails, MayFault, TInv, TypeOK
  <2> QED
    BY <1>8, <1>w, <1>p, <2>1 DEF GateFails, TInv, TypeOK, Viewing, Point, Failing
<1>9. CASE Begin(w)
  <2>1. Routed([Tried(copy[w]) EXCEPT !.st = "running"], route[w].from, route[w].to) \in JobRow
    <3>1. Tried(copy[w]) \in JobRow
      BY <1>t, TriedTyped
    <3>2. [Tried(copy[w]) EXCEPT !.st = "running"] \in JobRow
      BY <3>1 DEF JobRow, Open
    <3> QED
      BY <1>t, <3>2, RoutedTyped
  <2>2. MergeJob(JobOf(w), copy[w],
           Routed([Tried(copy[w]) EXCEPT !.st = "running"], route[w].from, route[w].to)) \in JobRow
    BY <1>t, <2>1, MergeJobTyped
  <2>3. [row[ReqOf(w)] EXCEPT !.actual = route[w].from, !.mig = "running"] \in Row
    BY <1>t DEF Row, Mig
  <2>4. jobs' \in [Request -> [Slot -> JobRow]] /\ row' \in [Request -> Row]
    BY <1>9, <1>w, <2>2, <2>3 DEF Begin
  <2>5. copy' \in [Worker -> JobRow]
    BY <1>9, UnusedTyped DEF Begin, TInv, TypeOK
  <2>6. /\ pc' \in [Worker -> Point]
        /\ \A v \in Worker : pc'[v] = "idle" <=> pc[v] = "idle"
        /\ \A v \in Worker : pc'[v] \in Viewing => view'[v] \in Row
    BY <1>9, <1>p DEF Begin, Viewing, Point, AfterBegin
  <2>7. lock' \in [Request -> Worker \cup Loop \cup {Nobody}]
    BY <1>9, <1>w DEF Begin
  <2> QED
    BY <1>9, <2>4, <2>5, <2>6, <2>7 DEF Begin, TInv, TypeOK
<1>10. CASE Start(w)
  <2>1. moving' \in [Request -> Place]
    BY <1>10, <1>t DEF Start, TInv, TypeOK
  <2>2. Goto(w, "moving") \/ Goto(w, "failed")
    BY <1>10 DEF Start
  <2>3. view' = [view EXCEPT ![w] = row[ReqOf(w)]]
    BY <1>10 DEF Start
  <2> QED
    BY <1>10, <1>t, <1>p, <1>v, <2>1, <2>2, <2>3
    DEF Start, TInv, TypeOK, Viewing, Point, AfterBegin, Failing
<1>11. CASE Heartbeat(w)
  <2>1. [JobOf(w) EXCEPT !.claim = "live"] \in JobRow
    BY <1>t DEF JobRow, Claim
  <2>2. jobs' \in [Request -> [Slot -> JobRow]] /\ copy' \in [Worker -> JobRow]
    BY <1>11, <1>w, <2>1 DEF Heartbeat, TInv, TypeOK
  <2>3. view' \in [Worker -> Row \cup {NoRow}]
    BY <1>11 DEF Heartbeat, TInv, TypeOK
  <2>4. \A v \in Worker : pc[v] \in Viewing => view'[v] \in Row
    BY <1>11 DEF Heartbeat, TInv, TypeOK, Viewing
  <2> QED
    BY <1>11, <2>2, <2>3, <2>4 DEF Heartbeat, TInv, TypeOK
<1>12. CASE WatchFails(w)
  <2>1. faults' \in 0 .. MaxFault /\ crashes' \in 0 .. MaxFault /\ crashes' <= faults'
    BY <1>12, BoundsAssumption DEF WatchFails, MayFault, TInv, TypeOK
  <2> QED
    BY <1>12, <1>p, <2>1 DEF WatchFails, TInv, TypeOK, Viewing, Point, Failing
<1>13. CASE Arrive(w)
  <2>0. [route[w] EXCEPT !.found = at[ReqOf(w)]] \in Route
    BY <1>t DEF TInv, TypeOK, Route
  <2>3. \/ UNCHANGED route
        \/ route' = [route EXCEPT ![w] = [route[w] EXCEPT !.found = at[ReqOf(w)]]]
    BY <1>13 DEF Arrive, TInv, TypeOK
  <2>1. route' \in [Worker -> Route]
    BY <2>0, <2>3 DEF TInv, TypeOK
  <2>2. Goto(w, "moved") \/ Goto(w, "failed")
    BY <1>13 DEF Arrive
  <2>4. PICK new \in Row : view' = [view EXCEPT ![w] = new]
    <3>1. view' = [view EXCEPT ![w] = IF view[w] = NoRow THEN row[ReqOf(w)] ELSE view[w]]
      BY <1>13 DEF Arrive, TInv, TypeOK
    <3> QED
      BY <1>t, <3>1 DEF TInv, TypeOK
  <2> QED
    BY <1>13, <1>p, <1>v, <2>1, <2>2, <2>4 DEF Arrive, TInv, TypeOK, Viewing, Point, AfterBegin, Failing
<1>14. CASE Record(w)
  <2> DEFINE result == IF route[w].found = route[w].to THEN "completed" ELSE "blocked"
             new == Routed(Settle(Known(w), result), route[w].from, route[w].to)
             seenRow == [view[w] EXCEPT !.want = route[w].to, !.actual = route[w].found, !.mig = result]
  <2>0. Known(w) \in JobRow /\ view[w] \in Row /\ result \in {"completed", "blocked"}
    BY <1>14, <1>t DEF Known, Record, TInv, Viewing
  <2>r. /\ WriteJob(w, MergeJob(JobOf(w), Known(w), new))
        /\ WriteRow(w, MergeRow(row[ReqOf(w)], view[w], seenRow))
    BY <1>14 DEF Record
  <2> HIDE DEF result
  <2>1. new \in JobRow
    BY <1>t, <2>0, SettleTyped, RoutedTyped DEF Status, Open, Closed
  <2>2. seenRow \in Row
    BY <1>t, <2>0 DEF Row, Mig
  <2> HIDE DEF new, seenRow
  <2>3. jobs' \in [Request -> [Slot -> JobRow]] /\ row' \in [Request -> Row]
    BY <1>w, <1>t, <2>0, <2>1, <2>2, <2>r, MergeJobTyped, MergeRowTyped
  <2>4. Leave(w) /\ recent' \subseteq Request
    BY <1>14, <1>t DEF Record, TInv, TypeOK
  <2> QED
    BY <1>14, <2>3, <2>4, LeaveTyped DEF Record, TInv, TypeOK
<1>15. CASE RecordFails(w)
  <2>1. faults' \in 0 .. MaxFault /\ crashes' \in 0 .. MaxFault /\ crashes' <= faults'
    BY <1>15, BoundsAssumption DEF RecordFails, MayFault, TInv, TypeOK
  <2> QED
    BY <1>15, <1>p, <2>1 DEF RecordFails, TInv, TypeOK, Viewing, Point, Failing
<1>16. CASE Deadlock(w)
  <2> DEFINE u == lock[ReqOf(w)]
  <2>1. CASE Goto(w, "failed") /\ UNCHANGED lock
    BY <1>16, <2>1, <1>p DEF Deadlock, TInv, TypeOK, Viewing, Point, Failing
  <2>2. CASE u \in Worker /\ pc[u] = "located" /\ Goto(u, "failed") /\ Unlock(u)
    <3>0. UNCHANGED view
      BY <1>16 DEF Deadlock
    <3>1. /\ pc' \in [Worker -> Point]
          /\ \A v \in Worker : pc'[v] = "idle" <=> pc[v] = "idle"
          /\ \A v \in Worker : pc'[v] \in Viewing => view'[v] \in Row
      BY <2>2, <3>0, MovedTyped DEF Point, Failing, Viewing
    <3>2. lock' \in [Request -> Worker \cup Loop \cup {Nobody}]
      BY <2>2, WriteTyped
    <3> QED
      BY <1>16, <3>1, <3>2 DEF Deadlock, TInv, TypeOK
  <2> QED
    BY <1>16, <2>1, <2>2 DEF Deadlock
<1>17. CASE Rollback(w) \/ Reload(w)
  <2>1. CASE Rollback(w)
    BY <1>t, <1>p, <1>v, <2>1 DEF Rollback, TInv, TypeOK, Viewing, Point, Failing
  <2>2. CASE Reload(w)
    BY <1>t, <1>p, <2>2 DEF Reload, TInv, TypeOK, Viewing, Point, Failing
  <2> QED
    BY <1>17, <2>1, <2>2
<1>18. CASE Fail(w)
  <2> DEFINE result == IF Exhausted(copy[w]) THEN "failed" ELSE "pending"
             routed == Routed(Settle(copy[w], result), route[w].from, route[w].to)
             new == IF result = "pending" THEN [routed EXCEPT !.due = FALSE] ELSE routed
  <2>1. result \in {"failed", "pending"}
    OBVIOUS
  <2> HIDE DEF result
  <2>2. routed \in JobRow
    BY <1>t, <1>s, <2>1, RoutedTyped
  <2>3. new \in JobRow
    BY <2>2 DEF JobRow
  <2>4. MergeJob(JobOf(w), copy[w], new) \in JobRow
    BY <1>t, <2>3, MergeJobTyped
  <2> DEFINE seenRow == [view[w] EXCEPT !.want = route[w].to, !.actual = route[w].from, !.mig = result]
  <2>0. view[w] \in Row
    BY <1>18 DEF Fail, TInv, Viewing
  <2>5. seenRow \in Row
    BY <1>t, <2>0, <2>1 DEF Row, Mig
  <2>6. /\ WriteJob(w, MergeJob(JobOf(w), copy[w], new))
        /\ WriteRow(w, MergeRow(row[ReqOf(w)], view[w], seenRow))
        /\ Leave(w)
    BY <1>18 DEF Fail, result
  <2> HIDE DEF new, seenRow
  <2>8. MergeRow(row[ReqOf(w)], view[w], seenRow) \in Row
    BY <1>t, <2>0, <2>5, MergeRowTyped
  <2>7. jobs' \in [Request -> [Slot -> JobRow]] /\ row' \in [Request -> Row]
    BY <1>w, <2>4, <2>6, <2>8
  <2> QED
    BY <1>18, <2>6, <2>7, LeaveTyped DEF Fail, TInv, TypeOK
<1> QED
  BY <1>1, <1>2, <1>3, <1>4, <1>5, <1>6, <1>7, <1>8, <1>9, <1>10, <1>11, <1>12, <1>13, <1>14,
     <1>15, <1>16, <1>17, <1>18
  DEF WorkerStep

LEMMA WorldTyped ==
  ASSUME TInv,
         \/ \E p \in Loop : Crash(p)
         \/ \E j \in Job : Expire(j) \/ Overrun(j) \/ BecomeDue(j)
         \/ \E j \in Job, kind \in {"cancel", "retry"} : Ask(j, kind)
         \/ Answer
         \/ \E r \in Request : Cool(r) \/ End(r) \/ MoveEnds(r) \/ Lose(r)
  PROVE  TInv'
<1> USE DEF cluster, loops, workers, history
<1>j. \A j \in Job : JobAt(j) \in JobRow
  BY DEF TInv, TypeOK, Job, JobAt
<1>f. \A f : MayFault(f) => /\ faults' \in 0 .. MaxFault /\ faults' = faults + 1
                            /\ crashes + 1 \in 0 .. MaxFault /\ crashes + 1 <= faults'
                            /\ crashes <= faults'
  BY BoundsAssumption DEF MayFault, TInv, TypeOK
<1>1. CASE \E p \in Loop : Crash(p)
  <2>1. PICK p \in Loop : Crash(p)
    BY <1>1
  <2>2. seen' \in [Loop -> [Request -> Row]] /\ stage' \in [Loop -> Stage]
        /\ todo' \in [Loop -> SUBSET Request]
    BY <2>1, BlankTyped DEF Crash, Stand, TInv, TypeOK, Stage
  <2>3. lock' \in [Request -> Worker \cup Loop \cup {Nobody}]
    BY <2>1 DEF Crash, TInv, TypeOK
  <2>4. /\ pc' \in [Worker -> Point] /\ task' \in [Worker -> Job \cup {NoJob}]
        /\ \A w \in Worker : pc'[w] = "idle" <=> task'[w] = NoJob
    BY <2>1 DEF Crash, TInv, TypeOK, Point
  <2>5. copy' \in [Worker -> JobRow]
    BY <2>1, UnusedTyped DEF Crash, TInv, TypeOK
  <2>6. Nowhere \in Route
    BY DEF Nowhere, Route, Place
  <2>7. route' \in [Worker -> Route] /\ over' \in [Worker -> BOOLEAN]
    BY <2>1, <2>6 DEF Crash, TInv, TypeOK
  <2>8. /\ view' \in [Worker -> Row \cup {NoRow}]
        /\ \A w \in Worker : pc'[w] \in Viewing => view'[w] \in Row
    BY <2>1 DEF Crash, TInv, TypeOK, Viewing
  <2> QED
    BY <2>1, <2>2, <2>3, <2>4, <2>5, <2>7, <2>8, <1>f DEF Crash, TInv, TypeOK
<1>2. CASE \E j \in Job : Expire(j) \/ Overrun(j)
  <2>1. PICK j \in Job : Expire(j) \/ Overrun(j)
    BY <1>2
  <2>2. [JobAt(j) EXCEPT !.claim = "expired"] \in JobRow
    BY <1>j DEF JobRow, Claim
  <2>3. Put(j, [JobAt(j) EXCEPT !.claim = "expired"])
    BY <2>1 DEF Expire, Overrun
  <2>4. jobs' \in [Request -> [Slot -> JobRow]]
    BY <2>2, <2>3, JobWritten DEF TInv, TypeOK
  <2>5. CASE Expire(j)
    BY <2>4, <2>5 DEF Expire, TInv, TypeOK
  <2>6. CASE Overrun(j)
    <3>1. touched' \subseteq Job
      BY <2>6 DEF Overrun, Disturb, TInv, TypeOK
    <3> QED
      BY <2>4, <2>6, <3>1, <1>f DEF Overrun, TInv, TypeOK
  <2> QED
    BY <2>1, <2>5, <2>6
<1>3. CASE \E j \in Job : BecomeDue(j)
  <2>1. PICK j \in Job : BecomeDue(j)
    BY <1>3
  <2>2. [JobAt(j) EXCEPT !.due = TRUE] \in JobRow
    BY <1>j DEF JobRow
  <2>3. Put(j, [JobAt(j) EXCEPT !.due = TRUE])
    BY <2>1 DEF BecomeDue
  <2>4. jobs' \in [Request -> [Slot -> JobRow]]
    BY <2>2, <2>3, JobWritten DEF TInv, TypeOK
  <2> QED
    BY <2>1, <2>4 DEF BecomeDue, TInv, TypeOK
<1>4. CASE \E j \in Job, kind \in {"cancel", "retry"} : Ask(j, kind)
  BY <1>4, <1>j, <1>f DEF Ask, TInv, TypeOK
<1>5. CASE Answer
  <2> DEFINE j    == admin[1]
             read == admin[3]
             new  == IF admin[2] = "cancel" THEN Settle(read, "cancelled")
                     ELSE [Settle(read, "pending") EXCEPT !.due = TRUE]
  <2>1. j \in Job /\ read \in JobRow
    BY <1>5 DEF Answer, TInv, TypeOK
  <2>2. new \in JobRow
    <3>1. Settle(read, "cancelled") \in JobRow /\ Settle(read, "pending") \in JobRow
      BY <2>1, SettleTyped DEF Status, Open, Closed
    <3> QED
      BY <3>1 DEF JobRow
  <2> HIDE DEF new
  <2>3. MergeJob(JobAt(j), read, new) \in JobRow
    BY <2>1, <2>2, <1>j, MergeJobTyped
  <2>4. Put(j, MergeJob(JobAt(j), read, new))
    BY <1>5 DEF Answer, new
  <2>5. jobs' \in [Request -> [Slot -> JobRow]]
    BY <2>1, <2>3, <2>4, JobWritten DEF TInv, TypeOK
  <2> QED
    BY <1>5, <2>5 DEF Answer, TInv, TypeOK
<1>6. CASE \E r \in Request : Cool(r) \/ End(r) \/ Lose(r)
  BY <1>6, <1>f DEF Cool, End, Lose, TInv, TypeOK, Place
<1>7. CASE \E r \in Request : MoveEnds(r)
  <2>1. PICK r \in Request : MoveEnds(r)
    BY <1>7
  <2>2. PICK ok \in BOOLEAN :
         /\ IF ok THEN at[r] # NoNode /\ UNCHANGED faults
                  ELSE (at[r] = NoNode /\ UNCHANGED faults) \/ MayFault("move")
         /\ at' = IF ok THEN [at EXCEPT ![r] = moving[r]] ELSE at
         /\ pc' = [w \in Worker |-> IF pc[w] = "moving" /\ task[w][1] = r
                                     THEN IF ok THEN "arriving" ELSE "failed"
                                     ELSE pc[w]]
    BY <2>1 DEF MoveEnds
  <2>3. at' \in [Request -> Place] /\ moving' \in [Request -> Place]
    BY <2>1, <2>2 DEF MoveEnds, TInv, TypeOK, Place
  <2>4. /\ pc' \in [Worker -> Point]
        /\ \A w \in Worker : pc'[w] = "idle" <=> pc[w] = "idle"
        /\ \A w \in Worker : pc'[w] \in Viewing => pc[w] \in Viewing
    BY <2>2 DEF TInv, TypeOK, Point, AfterBegin, Failing, Viewing
  <2>5. faults' \in 0 .. MaxFault /\ crashes <= faults'
    BY <2>2, <1>f DEF TInv, TypeOK
  <2> QED
    BY <2>1, <2>3, <2>4, <2>5 DEF MoveEnds, TInv, TypeOK
<1> QED
  BY <1>1, <1>2, <1>3, <1>4, <1>5, <1>6, <1>7

LEMMA StepTyped == TInv /\ [Next]_vars => TInv'
<1> SUFFICES ASSUME TInv, [Next]_vars PROVE TInv'
  OBVIOUS
<1>1. CASE Next
  BY <1>1, LoopTyped, WorkerTyped, WorldTyped DEF Next
<1>2. CASE UNCHANGED vars
  BY <1>2 DEF vars, cluster, loops, workers, history, TInv, TypeOK
<1> QED
  BY <1>1, <1>2

\* Every variable keeps its type: no step, however stale the copy it writes,
\* leaves a job or a request in a state that the enumerations do not have.
THEOREM JobsTypeCorrect == Spec => []TypeOK
<1>1. Init => TInv
  BY InitTyped
<1>2. TInv /\ [Next]_vars => TInv'
  BY StepTyped
<1>3. TInv => TypeOK
  BY DEF TInv
<1> QED
  BY <1>1, <1>2, <1>3, PTL DEF Spec

(***************************************************************************)
(* One worker per job, outcomes are final, the retries end                 *)
(***************************************************************************)
\* What a worker may rely on while nobody has touched its job.
Mine(w) ==
  /\ JobOf(w).claim = "live" /\ JobOf(w).st \in Open /\ JobOf(w).due
  /\ pc[w] \in BeforeBegin => JobOf(w).st = "pending"
  /\ pc[w] \in AfterBegin => JobOf(w).st = "running"
  /\ pc[w] \in {"loaded", "locked", "located", "reloaded"} => copy[w] = JobOf(w)
  /\ pc[w] \in AfterBegin => Known(w) = JobOf(w)

OwnInv ==
  \A w \in Worker : task[w] # NoJob /\ Untouched(task[w]) =>
     Mine(w) /\ \A v \in Worker : task[v] = task[w] => v = w

\* A running job has a claim, and a job that may be tried again has a try left.
Sound(job, held) ==
  /\ job.st = "running" => job.claim # "none"
  /\ RetryLimit > 0 =>
       /\ job.tries <= RetryLimit + crashes
       /\ job.st \in {"free", "pending"} \/ (job.st = "running" /\ ~held) =>
            job.tries < RetryLimit + crashes

SoundInv == \A j \in Job : Untouched(j) => Sound(JobAt(j), AtWork(j))

AdminInv == admin # NoJob => admin[1] \in touched

QInv == OwnInv /\ SoundInv /\ AdminInv

Final ==
  \A r \in Request, k \in Slot :
    jobs[r][k].st \in Closed /\ <<r, k>> \notin touched' => jobs'[r][k].st = jobs[r][k].st

LEMMA InitQueue == Init => QInv
<1> SUFFICES ASSUME Init PROVE QInv
  OBVIOUS
<1>1. \A j \in Job : JobAt(j) = Unused
  BY DEF Init, Job, JobAt
<1>2. SoundInv
  BY <1>1, BoundsAssumption DEF SoundInv, Sound, Unused, Init
<1> QED
  BY <1>2 DEF QInv, OwnInv, AdminInv, Init

LEMMA PutAt ==
  ASSUME jobs \in [Request -> [Slot -> JobRow]], NEW i \in Job, NEW new, Put(i, new)
  PROVE  \A j \in Job : JobAt(j)' = IF j = i THEN new ELSE JobAt(j)
  BY DEF Job, Put, JobAt

LEMMA MergeFresh ==
  ASSUME NEW now \in JobRow, NEW new \in JobRow
  PROVE  MergeJob(now, now, new) = new
  BY DEF MergeJob, Column, JobRow

\* Closed and open jobs are different ones.
LEMMA ClosedIsNotOpen == Closed \cap (Open \cup {"free"}) = {}
  BY DEF Closed, Open

LEMMA FinalByJobs ==
  ASSUME \A j \in Job : JobAt(j).st \in Closed /\ j \notin touched' => JobAt(j)'.st = JobAt(j).st
  PROVE  Final
<1> SUFFICES ASSUME NEW r \in Request, NEW k \in Slot,
                    jobs[r][k].st \in Closed, <<r, k>> \notin touched'
             PROVE  jobs'[r][k].st = jobs[r][k].st
  BY DEF Final
<1>1. <<r, k>> \in Job /\ <<r, k>>[1] = r /\ <<r, k>>[2] = k
  BY DEF Job
<1>2. JobAt(<<r, k>>) = jobs[r][k] /\ JobAt(<<r, k>>)' = jobs'[r][k]
  BY <1>1 DEF JobAt
<1> QED
  BY <1>1, <1>2

\* Steps that change neither jobs nor their workers.
LEMMA NothingDone ==
  ASSUME QInv, UNCHANGED <<jobs, pc, task, copy, admin, crashes, touched>>
  PROVE  QInv' /\ Final
  BY DEF QInv, OwnInv, Mine, Known, SoundInv, Sound, AdminInv, AtWork, JobOf, JobAt, Untouched, Final

\* A step of a worker, about the job it has.
LEMMA OwnStep ==
  ASSUME TInv, QInv, NEW w \in Worker, task[w] \in Job,
         \A j \in Job : j # task[w] => JobAt(j)' = JobAt(j),
         \A v \in Worker : v # w =>
            /\ task'[v] = task[v]
            /\ task[v] # task[w] => pc'[v] = pc[v] /\ copy'[v] = copy[v],
         task'[w] = task[w] \/ task'[w] = NoJob,
         UNCHANGED <<admin, crashes, touched>>,
         \A j \in Job : j = task[w] /\ Untouched(j) => Sound(JobAt(j)', task'[w] = j),
         task'[w] = task[w] /\ Untouched(task[w]) => Mine(w)'
  PROVE  QInv' /\ Final
<1>1. AdminInv'
  BY DEF QInv, AdminInv
<1>2. OwnInv'
  <2> SUFFICES ASSUME NEW v \in Worker, task'[v] # NoJob, Untouched(task'[v])
               PROVE  Mine(v)' /\ \A u \in Worker : task'[u] = task'[v] => u = v
    BY DEF OwnInv, Untouched
  <2>1. task'[v] = task[v] /\ task[v] \in Job
    BY DEF TInv, TypeOK
  <2>2. Mine(v) /\ \A u \in Worker : task[u] = task[v] => u = v
    BY <2>1 DEF QInv, OwnInv
  <2>3. \A u \in Worker : task'[u] = task'[v] => u = v
    BY <2>1, <2>2
  <2>4. CASE v = w
    BY <2>1, <2>3, <2>4
  <2>5. CASE v # w
    <3>1. task[v] # task[w]
      BY <2>2, <2>5
    <3>2. JobOf(v)' = JobOf(v) /\ pc'[v] = pc[v] /\ copy'[v] = copy[v]
      BY <2>1, <2>5, <3>1 DEF JobOf, JobAt
    <3> QED
      BY <2>2, <2>3, <3>2 DEF Mine, Known
  <2> QED
    BY <2>4, <2>5
<1>3. SoundInv'
  <2> SUFFICES ASSUME NEW j \in Job, Untouched(j)
               PROVE  Sound(JobAt(j), AtWork(j))'
    BY DEF SoundInv, Untouched
  <2>1. CASE j = task[w]
    <3>1. Sound(JobAt(j)', task'[w] = j)
      BY <2>1
    <3>2. AtWork(j)' \/ task'[w] # j
      BY DEF AtWork
    <3> QED
      BY <3>1, <3>2 DEF Sound
  <2>2. CASE j # task[w]
    <3>1. Sound(JobAt(j), AtWork(j)) /\ JobAt(j)' = JobAt(j)
      BY <2>2 DEF QInv, SoundInv
    <3>2. AtWork(j)' <=> AtWork(j)
      BY <2>2, PoolsAssumption DEF AtWork
    <3> QED
      BY <3>1, <3>2 DEF Sound
  <2> QED
    BY <2>1, <2>2
<1>4. Final
  <2> SUFFICES ASSUME NEW j \in Job, JobAt(j).st \in Closed, j \notin touched'
               PROVE  JobAt(j)'.st = JobAt(j).st
    BY FinalByJobs
  <2>1. CASE j = task[w]
    <3>1. Mine(w)
      BY <2>1, PoolsAssumption DEF QInv, OwnInv, Untouched
    <3> QED
      BY <2>1, <3>1, ClosedIsNotOpen DEF Mine, JobOf
  <2>2. CASE j # task[w]
    BY <2>2
  <2> QED
    BY <2>1, <2>2
<1> QED
  BY <1>1, <1>2, <1>3, <1>4 DEF QInv

LEMMA MovedOn ==
  ASSUME TInv, QInv, NEW w \in Worker, task[w] \in Job,
         UNCHANGED <<jobs, task, admin, crashes, touched>>,
         \A v \in Worker : v # w /\ task[v] # task[w] => pc'[v] = pc[v] /\ copy'[v] = copy[v],
         Untouched(task[w]) => Mine(w)'
  PROVE  QInv' /\ Final
<1>1. \A j \in Job : JobAt(j)' = JobAt(j)
  BY DEF JobAt
<1>2. ASSUME NEW j \in Job, j = task[w], Untouched(j)
      PROVE  Sound(JobAt(j)', task'[w] = j)
  BY <1>1, <1>2 DEF QInv, SoundInv, Sound
<1> QED
  BY <1>1, <1>2, OwnStep

LEMMA LeftWith ==
  ASSUME TInv, QInv, NEW w \in Worker, task[w] \in Job, Leave(w),
         NEW new, WriteJob(w, new), UNCHANGED <<admin, crashes, touched>>,
         Untouched(task[w]) => Sound(new, FALSE)
  PROVE  QInv' /\ Final
<1>1. \A j \in Job : JobAt(j)' = IF j = task[w] THEN new ELSE JobAt(j)
  BY PutAt DEF WriteJob, TInv, TypeOK
<1>2. task'[w] = NoJob
  BY DEF Leave, TInv, TypeOK
<1>3. \A v \in Worker : v # w => task'[v] = task[v] /\ pc'[v] = pc[v] /\ copy'[v] = copy[v]
  BY DEF Leave, Goto, TInv, TypeOK
<1>4. ASSUME NEW j \in Job, j = task[w], Untouched(j)
      PROVE  Sound(JobAt(j)', task'[w] = j)
  BY <1>1, <1>2, <1>4, PoolsAssumption
<1> QED
  BY <1>1, <1>2, <1>3, <1>4, PoolsAssumption, OwnStep

\* A worker that writes no job relies on what it relied on before.
LEMMA StillMine ==
  ASSUME NEW w \in Worker, Mine(w), UNCHANGED <<jobs, task>>,
         pc'[w] \in BeforeBegin => pc[w] \in BeforeBegin,
         pc'[w] \in AfterBegin => pc[w] \in AfterBegin /\ copy'[w] = copy[w],
         pc'[w] \in {"loaded", "locked", "located", "reloaded"} => copy'[w] = JobOf(w)
  PROVE  Mine(w)'
<1>1. JobOf(w)' = JobOf(w)
  BY DEF JobOf, JobAt
<1> QED
  BY <1>1 DEF Mine, Known

LEMMA WorkerQueue ==
  ASSUME TInv, QInv, NEW w \in Worker, WorkerStep(w)
  PROVE  QInv' /\ Final
<1> USE DEF history
<1>0. pc[w] # "idle"
  BY DEF WorkerStep, Load, LockRow, Locate, RefreshFails, Stale, AlreadyThere, Gate, GateFails,
         Begin, Start, Heartbeat, WatchFails, Arrive, Record, RecordFails, Deadlock, Rollback, Reload,
         Fail
<1>t. task[w] \in Job /\ JobOf(w) \in JobRow /\ copy[w] \in JobRow
  BY <1>0, TaskTyped
<1>m. ASSUME Untouched(task[w])
      PROVE  /\ Mine(w) /\ Sound(JobOf(w), TRUE)
             /\ \A new \in JobRow : MergeJob(JobOf(w), JobOf(w), new) = new
  BY <1>t, <1>m, PoolsAssumption, MergeFresh DEF QInv, OwnInv, SoundInv, Sound, JobOf
<1>g. \A point : Goto(w, point) => /\ pc'[w] = point
                                  /\ \A v \in Worker : v # w => pc'[v] = pc[v]
  BY DEF Goto, TInv, TypeOK
<1>s. \A st \in {"pending", "completed", "failed", "blocked"} :
         Settle(copy[w], st) \in JobRow
  BY <1>t, SettleTyped DEF Status, Open, Closed
<1>1. CASE Load(w)
  <2>1. copy'[w] = JobOf(w) /\ \A v \in Worker : v # w => copy'[v] = copy[v]
    BY <1>1 DEF Load, TInv, TypeOK
  <2>2. pc[w] = "queued" /\ pc'[w] = "loaded" /\ UNCHANGED <<jobs, task>>
    BY <1>1, <1>g DEF Load
  <2>3. Untouched(task[w]) => Mine(w)'
    BY <1>m, <2>1, <2>2, StillMine DEF BeforeBegin, AfterBegin
  <2> QED
    BY <1>1, <1>t, <1>g, <2>1, <2>3, MovedOn DEF Load
<1>2. CASE LockRow(w)
  <2>1. pc[w] = "loaded" /\ pc'[w] = "locked" /\ UNCHANGED <<jobs, task, copy>>
    BY <1>2, <1>g DEF LockRow
  <2>2. Untouched(task[w]) => Mine(w)'
    BY <1>m, <2>1, StillMine DEF Mine, BeforeBegin, AfterBegin
  <2> QED
    BY <1>2, <1>t, <1>g, <2>2, MovedOn DEF LockRow
<1>3. CASE Locate(w)
  <2>1. pc[w] = "locked" /\ pc'[w] = "located" /\ UNCHANGED <<jobs, task, copy>>
    BY <1>3, <1>g DEF Locate
  <2>2. Untouched(task[w]) => Mine(w)'
    BY <1>m, <2>1, StillMine DEF Mine, BeforeBegin, AfterBegin
  <2> QED
    BY <1>3, <1>t, <1>g, <2>2, MovedOn DEF Locate
<1>4. CASE RefreshFails(w)
  <2>1. WriteJob(w, JobOf(w))
    BY <1>4, <1>t DEF RefreshFails, WriteJob, Put, JobOf, JobAt, Job, TInv, TypeOK
  <2>2. Untouched(task[w]) => Sound(JobOf(w), FALSE)
    BY <1>4, <1>m DEF RefreshFails, Mine, Sound, BeforeBegin
  <2> QED
    BY <1>4, <1>t, <2>1, <2>2, LeftWith DEF RefreshFails
<1>5. CASE Stale(w)
  <2> DEFINE new == Tried(Settle(copy[w], "failed"))
  <2>1. new \in JobRow
    BY <1>s, TriedTyped
  <2>2. ASSUME Untouched(task[w]) PROVE Sound(MergeJob(JobOf(w), copy[w], new), FALSE)
    <3>1. copy[w] = JobOf(w) /\ JobOf(w).st = "pending"
      BY <1>5, <1>m, <2>2 DEF Stale, Mine, BeforeBegin
    <3>2. MergeJob(JobOf(w), copy[w], new) = new
      BY <1>m, <2>1, <2>2, <3>1
    <3>3. /\ new.st = "failed"
          /\ new.tries = JobOf(w).tries \/ new.tries = JobOf(w).tries + 1
      BY <1>t, <3>1 DEF Tried, Settle, JobRow
    <3>4. RetryLimit > 0 => JobOf(w).tries < RetryLimit + crashes
      BY <1>m, <2>2, <3>1 DEF Sound
    <3>5. JobOf(w).tries \in Nat /\ RetryLimit + crashes \in Nat
      BY <1>t, BoundsAssumption DEF JobRow, TInv, TypeOK
    <3> HIDE DEF new
    <3>6. RetryLimit > 0 => new.tries <= RetryLimit + crashes
      BY <3>3, <3>4, <3>5
    <3> QED
      BY <3>2, <3>3, <3>6 DEF Sound
  <2> QED
    BY <1>5, <1>t, <2>2, LeftWith DEF Stale
<1>6. CASE AlreadyThere(w)
  <2> DEFINE r == ReqOf(w)
             new == Routed(Settle(copy[w], "completed"), at[r], at[r])
  <2>1. new \in JobRow
    BY <1>0, <1>s, TaskTyped, RoutedTyped DEF TInv, TypeOK
  <2>2. ASSUME Untouched(task[w]) PROVE Sound(MergeJob(JobOf(w), copy[w], new), FALSE)
    <3>1. copy[w] = JobOf(w)
      BY <1>6, <1>m, <2>2 DEF AlreadyThere, Mine
    <3>2. MergeJob(JobOf(w), copy[w], new) = new
      BY <1>m, <2>1, <2>2, <3>1
    <3>3. new.st = "completed" /\ new.tries = JobOf(w).tries
      BY <1>t, <3>1 DEF Routed, Settle, JobRow
    <3> QED
      BY <1>m, <2>2, <3>2, <3>3 DEF Sound
  <2> QED
    BY <1>6, <1>t, <2>2, LeftWith DEF AlreadyThere
<1>7. CASE Gate(w)
  <2> DEFINE routed == Routed(Settle(copy[w], Verdict(w)), route[w].from, route[w].to)
             new == IF Deferred(w) THEN [routed EXCEPT !.due = FALSE] ELSE routed
  <2>0. Verdict(w) \in {"pending", "blocked"}
    BY DEF Verdict
  <2>1. routed \in JobRow /\ new \in JobRow
    <3>1. routed \in JobRow
      BY <1>0, <1>s, <2>0, TaskTyped, RoutedTyped
    <3> QED
      BY <3>1 DEF JobRow
  <2>2. ASSUME Untouched(task[w]) PROVE Sound(MergeJob(JobOf(w), copy[w], new), FALSE)
    <3>1. copy[w] = JobOf(w) /\ JobOf(w).st = "pending"
      BY <1>7, <1>m, <2>2 DEF Gate, Mine, BeforeBegin
    <3>2. MergeJob(JobOf(w), copy[w], new) = new
      BY <1>m, <2>1, <2>2, <3>1
    <3>3. routed.st = Verdict(w) /\ routed.tries = JobOf(w).tries
      BY <1>t, <3>1 DEF Routed, Settle, JobRow
    <3>4. new.st = routed.st /\ new.tries = routed.tries
      BY <2>1 DEF JobRow
    <3> QED
      BY <1>m, <2>0, <2>2, <3>1, <3>2, <3>3, <3>4 DEF Sound
  <2> QED
    BY <1>7, <1>t, <2>2, LeftWith DEF Gate
<1>8. CASE GateFails(w)
  <2>1. pc'[w] = "failed" /\ UNCHANGED <<jobs, task>>
    BY <1>8, <1>g DEF GateFails
  <2>2. Untouched(task[w]) => Mine(w)'
    BY <1>m, <2>1, StillMine DEF BeforeBegin, AfterBegin
  <2> QED
    BY <1>8, <1>t, <1>g, <2>2, MovedOn DEF GateFails
<1>9. CASE Begin(w)
  <2> DEFINE tried == [Tried(copy[w]) EXCEPT !.st = "running"]
             new == Routed(tried, route[w].from, route[w].to)
             merged == MergeJob(JobOf(w), copy[w], new)
  <2>1. \A j \in Job : JobAt(j)' = IF j = task[w] THEN merged ELSE JobAt(j)
    BY <1>9, <1>t, PutAt DEF Begin, WriteJob, TInv, TypeOK
  <2>2. new \in JobRow
    <3>1. tried \in JobRow
      BY <1>t, TriedTyped DEF JobRow, Open
    <3> QED
      BY <1>0, <3>1, TaskTyped, RoutedTyped
  <2>3. ASSUME Untouched(task[w])
        PROVE  /\ merged = new /\ JobOf(w).st = "pending" /\ JobOf(w).claim = "live" /\ JobOf(w).due
               /\ new.st = "running" /\ new.claim = "live" /\ new.due
               /\ new.tries = JobOf(w).tries \/ new.tries = JobOf(w).tries + 1
    <3>1. copy[w] = JobOf(w) /\ JobOf(w).st = "pending" /\ JobOf(w).claim = "live" /\ JobOf(w).due
      BY <1>9, <1>m, <2>3 DEF Begin, Mine, BeforeBegin
    <3>2. merged = new
      BY <1>m, <2>2, <2>3, <3>1
    <3>3. /\ new.st = "running" /\ new.claim = copy[w].claim /\ new.due = copy[w].due
          /\ new.tries = copy[w].tries \/ new.tries = copy[w].tries + 1
      BY <1>t DEF Routed, Tried, JobRow
    <3> HIDE DEF new, merged
    <3> QED
      BY <3>1, <3>2, <3>3
  <2> HIDE DEF new, merged
  <2>4. ASSUME NEW j \in Job, j = task[w], Untouched(j)
        PROVE  Sound(JobAt(j)', task'[w] = j)
    <3>1. JobAt(j)' = new /\ task'[w] = j
      BY <1>9, <2>1, <2>3, <2>4 DEF Begin
    <3>2. RetryLimit > 0 => JobOf(w).tries < RetryLimit + crashes
      BY <1>m, <2>3, <2>4 DEF Sound
    <3>3. JobOf(w).tries \in Nat /\ RetryLimit + crashes \in Nat
      BY <1>t, BoundsAssumption DEF JobRow, TInv, TypeOK
    <3>4. RetryLimit > 0 => new.tries <= RetryLimit + crashes
      BY <2>3, <2>4, <3>2, <3>3
    <3> QED
      BY <2>3, <2>4, <3>1, <3>4 DEF Sound
  <2>5. Untouched(task[w]) => Mine(w)'
    <3>1. JobOf(w)' = merged /\ pc'[w] = "begun" /\ copy'[w] = Unused
      BY <1>9, <1>t, <1>g, <2>1 DEF Begin, JobOf, TInv, TypeOK
    <3> QED
      BY <2>3, <3>1 DEF Mine, Known, Open, BeforeBegin, AfterBegin
  <2> QED
    BY <1>9, <1>t, <1>g, <2>1, <2>4, <2>5, OwnStep DEF Begin
<1>10. CASE Start(w)
  <2>1. Goto(w, "moving") \/ Goto(w, "failed")
    BY <1>10 DEF Start
  <2>2. pc[w] \in AfterBegin /\ pc'[w] \in {"moving", "failed"} /\ UNCHANGED <<jobs, task, copy>>
    BY <1>10, <1>g, <2>1 DEF Start, AfterBegin
  <2>3. Untouched(task[w]) => Mine(w)'
    BY <1>m, <2>2, StillMine DEF BeforeBegin, AfterBegin
  <2> QED
    BY <1>10, <1>t, <1>g, <2>1, <2>3, MovedOn DEF Start
<1>11. CASE Heartbeat(w)
  <2> DEFINE held == [JobOf(w) EXCEPT !.claim = "live"]
  <2>1. \A j \in Job : JobAt(j)' = IF j = task[w] THEN held ELSE JobAt(j)
    BY <1>11, <1>t, PutAt DEF Heartbeat, WriteJob, TInv, TypeOK
  <2>2. Untouched(task[w]) => held = JobOf(w)
    BY <1>t, <1>m DEF Mine, JobRow
  <2>3. /\ copy'[w] = held /\ \A v \in Worker : v # w => copy'[v] = copy[v]
        /\ pc[w] = "moving" /\ UNCHANGED <<pc, task, admin, crashes, touched>>
    BY <1>11 DEF Heartbeat, TInv, TypeOK
  <2> HIDE DEF held
  <2>4. ASSUME NEW j \in Job, j = task[w], Untouched(j)
        PROVE  Sound(JobAt(j)', task'[w] = j)
    BY <1>m, <2>1, <2>2, <2>3, <2>4 DEF Sound
  <2>5. ASSUME Untouched(task[w]) PROVE Mine(w)'
    <3>1. JobOf(w)' = JobOf(w) /\ copy'[w] = JobOf(w)
      BY <1>t, <2>1, <2>2, <2>3, <2>5 DEF JobOf
    <3> QED
      BY <1>m, <2>3, <2>5, <3>1 DEF Mine, Known
  <2> QED
    BY <1>t, <2>1, <2>3, <2>4, <2>5, OwnStep
<1>12. CASE WatchFails(w)
  <2>1. pc'[w] = "failed" /\ UNCHANGED <<jobs, task>>
    BY <1>12, <1>g DEF WatchFails
  <2>2. Untouched(task[w]) => Mine(w)'
    BY <1>m, <2>1, StillMine DEF BeforeBegin, AfterBegin
  <2> QED
    BY <1>12, <1>t, <1>g, <2>2, MovedOn DEF WatchFails
<1>13. CASE Arrive(w)
  <2>1. Goto(w, "moved") \/ Goto(w, "failed")
    BY <1>13 DEF Arrive
  <2>2. pc[w] \in AfterBegin /\ pc'[w] \in {"moved", "failed"} /\ UNCHANGED <<jobs, task, copy>>
    BY <1>13, <1>g, <2>1 DEF Arrive, AfterBegin
  <2>3. Untouched(task[w]) => Mine(w)'
    BY <1>m, <2>2, StillMine DEF BeforeBegin, AfterBegin
  <2> QED
    BY <1>13, <1>t, <1>g, <2>1, <2>3, MovedOn DEF Arrive
<1>14. CASE Record(w)
  <2> DEFINE result == IF route[w].found = route[w].to THEN "completed" ELSE "blocked"
             new == Routed(Settle(Known(w), result), route[w].from, route[w].to)
  <2>1. result \in {"completed", "blocked"}
    OBVIOUS
  <2> HIDE DEF result
  <2>2. ASSUME Untouched(task[w]) PROVE Sound(MergeJob(JobOf(w), Known(w), new), FALSE)
    <3>1. Known(w) = JobOf(w)
      BY <1>14, <1>m, <2>2 DEF Record, Mine, AfterBegin
    <3>2. new \in JobRow
      BY <1>0, <1>t, <2>1, <3>1, SettleTyped, TaskTyped, RoutedTyped DEF Status, Open, Closed
    <3>3. MergeJob(JobOf(w), Known(w), new) = new
      BY <1>m, <2>2, <3>1, <3>2
    <3>4. new.st = result /\ new.tries = JobOf(w).tries
      BY <1>t, <3>1 DEF Routed, Settle, JobRow
    <3> QED
      BY <1>m, <2>1, <2>2, <3>3, <3>4 DEF Sound
  <2>3. WriteJob(w, MergeJob(JobOf(w), Known(w), new)) /\ Leave(w)
        /\ UNCHANGED <<admin, crashes, touched>>
    BY <1>14 DEF Record, result
  <2> HIDE DEF new
  <2> QED
    BY <1>t, <2>2, <2>3, LeftWith
<1>15. CASE RecordFails(w)
  <2>1. pc'[w] = "failed" /\ UNCHANGED <<jobs, task>>
    BY <1>15, <1>g DEF RecordFails
  <2>2. Untouched(task[w]) => Mine(w)'
    BY <1>m, <2>1, StillMine DEF BeforeBegin, AfterBegin
  <2> QED
    BY <1>15, <1>t, <1>g, <2>2, MovedOn DEF RecordFails
<1>16. CASE Deadlock(w)
  <2> DEFINE u == lock[ReqOf(w)]
  <2>1. CASE Goto(w, "failed") /\ UNCHANGED lock
    <3>1. pc'[w] = "failed" /\ UNCHANGED <<jobs, task>>
      BY <1>16, <1>g, <2>1 DEF Deadlock
    <3>2. Untouched(task[w]) => Mine(w)'
      BY <1>m, <3>1, StillMine DEF BeforeBegin, AfterBegin
    <3> QED
      BY <1>16, <1>t, <1>g, <2>1, <3>2, MovedOn DEF Deadlock
  <2>2. CASE u \in Worker /\ pc[u] = "located" /\ Goto(u, "failed") /\ Unlock(u)
    <3>1. task[u] = task[w] /\ u # w
      BY <1>16, <2>2 DEF Deadlock
    <3>2. ~Untouched(task[w])
      BY <1>t, <2>2, <3>1, PoolsAssumption DEF QInv, OwnInv
    <3>3. \A v \in Worker : v # u => pc'[v] = pc[v]
      BY <2>2 DEF Goto, TInv, TypeOK
    <3> QED
      BY <1>16, <1>t, <3>1, <3>2, <3>3, MovedOn DEF Deadlock
  <2> QED
    BY <1>16, <2>1, <2>2 DEF Deadlock
<1>19. CASE Rollback(w)
  <2>1. pc'[w] = "rolled" /\ UNCHANGED <<jobs, task, copy>>
    BY <1>19, <1>g DEF Rollback
  <2>2. Untouched(task[w]) => Mine(w)'
    BY <1>m, <2>1, StillMine DEF BeforeBegin, AfterBegin
  <2> QED
    BY <1>19, <1>t, <1>g, <2>2, MovedOn DEF Rollback
<1>17. CASE Reload(w)
  <2>1. copy'[w] = JobOf(w) /\ \A v \in Worker : v # w => copy'[v] = copy[v]
    BY <1>17 DEF Reload, TInv, TypeOK
  <2>2. pc'[w] = "reloaded" /\ UNCHANGED <<jobs, task>>
    BY <1>17, <1>g DEF Reload
  <2>3. Untouched(task[w]) => Mine(w)'
    BY <1>m, <2>1, <2>2, StillMine DEF BeforeBegin, AfterBegin
  <2> QED
    BY <1>17, <1>t, <1>g, <2>1, <2>3, MovedOn DEF Reload
<1>18. CASE Fail(w)
  <2> DEFINE result == IF Exhausted(copy[w]) THEN "failed" ELSE "pending"
             routed == Routed(Settle(copy[w], result), route[w].from, route[w].to)
             new == IF result = "pending" THEN [routed EXCEPT !.due = FALSE] ELSE routed
  <2>1. result \in {"failed", "pending"}
    OBVIOUS
  <2>2. routed \in JobRow /\ new \in JobRow
    <3>1. routed \in JobRow
      BY <1>0, <1>s, <2>1, TaskTyped, RoutedTyped
    <3> QED
      BY <3>1 DEF JobRow
  <2>3. ASSUME Untouched(task[w]) PROVE Sound(MergeJob(JobOf(w), copy[w], new), FALSE)
    <3>1. copy[w] = JobOf(w)
      BY <1>18, <1>m, <2>3 DEF Fail, Mine
    <3>2. MergeJob(JobOf(w), copy[w], new) = new
      BY <1>m, <2>2, <2>3, <3>1
    <3>3. routed.st = result /\ routed.tries = JobOf(w).tries
      BY <1>t, <3>1 DEF Routed, Settle, JobRow
    <3>4. new.st = routed.st /\ new.tries = routed.tries
      BY <2>2 DEF JobRow
    <3>5. result = "pending" /\ RetryLimit > 0 => JobOf(w).tries < RetryLimit + crashes
      <4>1. JobOf(w).tries \in Nat /\ RetryLimit \in Nat /\ crashes \in Nat
        BY <1>t, BoundsAssumption DEF JobRow, TInv, TypeOK
      <4>2. result = "pending" => ~Exhausted(JobOf(w))
        BY <3>1
      <4> QED
        BY <4>1, <4>2 DEF Exhausted
    <3> HIDE DEF new, routed, result
    <3> QED
      BY <1>m, <2>1, <2>3, <3>2, <3>3, <3>4, <3>5 DEF Sound
  <2>4. WriteJob(w, MergeJob(JobOf(w), copy[w], new)) /\ Leave(w)
        /\ UNCHANGED <<admin, crashes, touched>>
    BY <1>18 DEF Fail
  <2> HIDE DEF new
  <2> QED
    BY <1>t, <2>3, <2>4, LeftWith
<1> QED
  BY <1>1, <1>2, <1>3, <1>4, <1>5, <1>6, <1>7, <1>8, <1>9, <1>10, <1>11, <1>12, <1>13, <1>14,
     <1>15, <1>16, <1>17, <1>18, <1>19
  DEF WorkerStep

\* A synchronised job is as it was, or it had not begun and is new or cancelled.
Quiet(old, new) ==
  \/ /\ new.st = old.st /\ new.tries = old.tries
     /\ new.claim = old.claim \/ new.claim # "none"
  \/ /\ old.st \in {"free", "pending"} /\ new.st \in {"pending", "cancelled"}
     /\ new.tries = old.tries \/ new.tries = 0

LEMMA NewestUnique ==
  ASSUME NEW js, NEW k \in Slot, NEW l \in Slot, NewestOpen(js, k), NewestOpen(js, l)
  PROVE  k = l
  BY BoundsAssumption DEF NewestOpen, Slot

LEMMA SyncQuiet ==
  ASSUME NEW js \in [Slot -> JobRow], NEW r \in Row, NEW src \in Place, NEW k \in Slot
  PROVE  Quiet(js[k], Sync(js, r, src)[k])
<1> DEFINE old == js[k]
           new == Sync(js, r, src)[k]
<1>0. old \in JobRow
  OBVIOUS
<1>1. CASE new = old
  BY <1>1 DEF Quiet
<1>2. CASE Arrived(r, src)
  <2>1. CASE old.st = "pending"
    <3>1. new = Settle(old, "cancelled")
      BY <1>2, <2>1 DEF Sync
    <3>2. new.st = "cancelled" /\ new.tries = old.tries
      BY <1>0, <3>1 DEF Settle, JobRow
    <3> QED
      BY <2>1, <3>2 DEF Quiet
  <2>2. CASE old.st # "pending"
    <3>1. new = old
      BY <1>2, <2>2 DEF Sync
    <3> QED
      BY <1>1, <3>1
  <2> QED
    BY <2>1, <2>2
<1>3. CASE ~Arrived(r, src) /\ Standing(js, r, src)
  <2>1. new = old
    BY <1>3 DEF Sync
  <2> QED
    BY <1>1, <2>1
<1>4. CASE ~Arrived(r, src) /\ ~Standing(js, r, src) /\ Waiting(js)
  <2>1. CASE NewestOpen(js, k)
    <3>1. old.st = "pending"
      BY <1>4, <2>1, NewestUnique DEF Waiting
    <3>2. new = [Enqueued(r, src) EXCEPT !.tries = old.tries]
      BY <1>4, <2>1 DEF Sync
    <3>3. new.st = "pending" /\ new.tries = old.tries
      BY <3>2 DEF Enqueued
    <3> QED
      BY <3>1, <3>3 DEF Quiet
  <2>2. CASE ~NewestOpen(js, k)
    <3>1. new = old
      BY <1>4, <2>2 DEF Sync
    <3> QED
      BY <1>1, <3>1
  <2> QED
    BY <2>1, <2>2
<1>5. CASE ~Arrived(r, src) /\ ~Standing(js, r, src) /\ ~Waiting(js)
  <2>1. CASE NextFree(js, k)
    <3>1. new = Enqueued(r, src)
      BY <1>5, <2>1 DEF Sync
    <3>2. new.st = "pending" /\ new.tries = 0
      BY <3>1 DEF Enqueued
    <3> QED
      BY <2>1, <3>2 DEF Quiet, NextFree
  <2>2. CASE ~NextFree(js, k)
    <3>1. new = old
      BY <1>5, <2>2 DEF Sync
    <3> QED
      BY <1>1, <3>1
  <2> QED
    BY <2>1, <2>2
<1> QED
  BY <1>2, <1>3, <1>4, <1>5

LEMMA QuietSound ==
  ASSUME TInv, NEW old \in JobRow, NEW new \in JobRow, NEW held \in BOOLEAN,
         Sound(old, held), Quiet(old, new)
  PROVE  Sound(new, held)
<1>1. /\ old.tries \in Nat /\ new.tries \in Nat /\ RetryLimit \in Nat /\ crashes \in Nat
  BY BoundsAssumption DEF JobRow, TInv, TypeOK
<1> QED
  BY <1>1 DEF Sound, Quiet

\* Steps that change jobs, but none that a worker is at unless it is touched.
LEMMA NobodysJob ==
  ASSUME TInv, TInv', QInv, UNCHANGED <<pc, task, copy, crashes>>, touched \subseteq touched',
         AdminInv',
         \A j \in Job : j \notin touched' =>
            \/ JobAt(j)' = JobAt(j)
            \/ ~AtWork(j) /\ Quiet(JobAt(j), JobAt(j)')
  PROVE  QInv' /\ Final
<1>1. OwnInv'
  <2> SUFFICES ASSUME NEW w \in Worker, task[w] # NoJob, task[w] \notin touched'
               PROVE  Mine(w)' /\ \A v \in Worker : task[v] = task[w] => v = w
    BY DEF OwnInv, Untouched
  <2>1. task[w] \in Job /\ AtWork(task[w])
    BY DEF TInv, TypeOK, AtWork
  <2>2. JobAt(task[w])' = JobAt(task[w])
    BY <2>1 DEF JobAt
  <2>3. Mine(w) /\ \A v \in Worker : task[v] = task[w] => v = w
    BY DEF QInv, OwnInv, Untouched
  <2> QED
    BY <2>2, <2>3 DEF Mine, Known, JobOf, JobAt
<1>2. SoundInv'
  <2> SUFFICES ASSUME NEW j \in Job, j \notin touched'
               PROVE  Sound(JobAt(j), AtWork(j))'
    BY DEF SoundInv, Untouched
  <2>1. Sound(JobAt(j), AtWork(j))
    BY DEF QInv, SoundInv, Untouched
  <2>2. AtWork(j)' = AtWork(j) /\ AtWork(j) \in BOOLEAN
    BY DEF AtWork
  <2>3. JobAt(j) \in JobRow /\ JobAt(j)' \in JobRow
    BY DEF JobAt, Job, TInv, TypeOK
  <2>4. Quiet(JobAt(j), JobAt(j)')
    BY DEF Quiet
  <2>5. Sound(JobAt(j)', AtWork(j))
    BY <2>1, <2>2, <2>3, <2>4, QuietSound
  <2> QED
    BY <2>2, <2>5 DEF Sound
<1>3. Final
  <2> SUFFICES ASSUME NEW j \in Job, JobAt(j).st \in Closed, j \notin touched'
               PROVE  JobAt(j)'.st = JobAt(j).st
    BY FinalByJobs
  <2>1. JobAt(j).st \notin {"free", "pending"}
    BY DEF Closed
  <2> QED
    BY <2>1 DEF Quiet
<1> QED
  BY <1>1, <1>2, <1>3 DEF QInv

\* A loop that waits for its pool, and no other, has workers with jobs; one that
\* runs its only job by itself has one such worker.
PoolInv ==
  \A w \in Worker : task[w] # NoJob =>
    /\ stage[PoolOf[w]] \in {"serial", "pool"}
    /\ stage[PoolOf[w]] = "serial" =>
         \A v \in Worker : PoolOf[v] = PoolOf[w] /\ task[v] # NoJob => v = w

LEMMA InitPool == Init => PoolInv
  BY DEF Init, PoolInv

LEMMA StageMoved ==
  ASSUME TInv, NEW p \in Loop, NEW point, Stand(p, point)
  PROVE  stage'[p] = point /\ \A q \in Loop : q # p => stage'[q] = stage[q]
  BY DEF Stand, TInv, TypeOK

LEMMA SyncedRequest ==
  ASSUME TInv, NEW r \in Request, NEW req \in Row, NEW src \in Place,
         jobs'[r] = Sync(jobs[r], req, src), NEW k \in Slot
  PROVE  Quiet(JobAt(<<r, k>>), JobAt(<<r, k>>)')
<1>1. jobs[r] \in [Slot -> JobRow]
  BY DEF TInv, TypeOK
<1>2. JobAt(<<r, k>>) = jobs[r][k] /\ JobAt(<<r, k>>)' = jobs'[r][k]
  BY DEF JobAt
<1> QED
  BY <1>1, <1>2, SyncQuiet

LEMMA SyncedJobs ==
  ASSUME TInv, TInv', QInv, UNCHANGED <<pc, task, copy, crashes, admin>>, Disturb(jobs'),
         \A r \in Request : \/ jobs'[r] = jobs[r]
                            \/ \E req \in Row, src \in Place : jobs'[r] = Sync(jobs[r], req, src)
  PROVE  QInv' /\ Final
<1>1. touched \subseteq touched' /\ AdminInv'
  BY DEF Disturb, QInv, AdminInv
<1>2. ASSUME NEW j \in Job, j \notin touched'
      PROVE  JobAt(j)' = JobAt(j) \/ (~AtWork(j) /\ Quiet(JobAt(j), JobAt(j)'))
  <2>1. ~AtWork(j) \/ JobAt(j)' = JobAt(j)
    BY <1>2 DEF Disturb, JobAt
  <2>2. PICK r \in Request, k \in Slot : j = <<r, k>>
    BY DEF Job
  <2>3. CASE jobs'[r] = jobs[r]
    BY <2>2, <2>3 DEF JobAt
  <2>4. CASE \E req \in Row, src \in Place : jobs'[r] = Sync(jobs[r], req, src)
    BY <2>1, <2>2, <2>4, SyncedRequest
  <2> QED
    BY <2>3, <2>4
<1> QED
  BY <1>1, <1>2, NobodysJob

LEMMA ClaimQueue ==
  ASSUME TInv, QInv, PoolInv, NEW p \in Loop, ClaimJobs(p)
  PROVE  QInv' /\ Final
<1> DEFINE pool == PoolOfLoop(p)
<1>1. PICK give \in [pool -> Claimable(jobs) \cup {NoJob}] :
         LET busy  == {w \in pool : give[w] # NoJob}
             given == {give[w] : w \in busy}
         IN  /\ \A v, w \in busy : give[v] = give[w] => v = w
             /\ jobs' = [r \in Request |-> [k \in Slot |->
                            IF <<r, k>> \in given THEN Claimed(jobs[r][k]) ELSE jobs[r][k]]]
             /\ task' = [w \in Worker |-> IF w \in busy THEN give[w] ELSE task[w]]
             /\ pc' = [w \in Worker |-> IF w \in busy THEN "queued" ELSE pc[w]]
  BY DEF ClaimJobs
<1> DEFINE busy  == {w \in pool : give[w] # NoJob}
           given == {give[w] : w \in busy}
<1>2. pool \subseteq Worker /\ given \subseteq Claimable(jobs) /\ Claimable(jobs) \subseteq Job
  BY DEF PoolOfLoop, Claimable
<1>3. \A j \in Job : JobAt(j)' = IF j \in given THEN Claimed(JobAt(j)) ELSE JobAt(j)
  <2> SUFFICES ASSUME NEW j \in Job
               PROVE  JobAt(j)' = IF j \in given THEN Claimed(JobAt(j)) ELSE JobAt(j)
    OBVIOUS
  <2>1. j[1] \in Request /\ j[2] \in Slot /\ j = <<j[1], j[2]>>
    BY DEF Job
  <2>2. jobs'[j[1]][j[2]] = IF <<j[1], j[2]>> \in given THEN Claimed(jobs[j[1]][j[2]])
                                                       ELSE jobs[j[1]][j[2]]
    BY <1>1, <2>1
  <2> QED
    BY <2>1, <2>2 DEF JobAt
<1>4. \A w \in busy : task'[w] = give[w] /\ pc'[w] = "queued" /\ give[w] \in given
  BY <1>1, <1>2
<1>5. \A w \in Worker \ busy : task'[w] = task[w] /\ pc'[w] = pc[w]
  BY <1>1
<1>6. UNCHANGED <<copy, admin, crashes, touched>>
  BY DEF ClaimJobs, history
<1>7. \A j \in Job : JobAt(j) \in JobRow
  BY DEF TInv, TypeOK, Job, JobAt
<1>8. ASSUME NEW j \in given
      PROVE  /\ j \in Job /\ JobAt(j).st \in Open /\ JobAt(j).due /\ JobAt(j).claim # "live"
             /\ Untouched(j) => ~AtWork(j)
  <2>1. j \in Job /\ JobAt(j).st \in Open /\ JobAt(j).due /\ JobAt(j).claim # "live"
    BY <1>2 DEF Claimable, JobAt
  <2> QED
    BY <2>1, PoolsAssumption DEF QInv, OwnInv, Mine, AtWork, JobOf
<1>9. ASSUME NEW j \in given, Untouched(j)
      PROVE  /\ JobAt(j)' \in JobRow /\ JobAt(j)'.st = "pending" /\ JobAt(j)'.claim = "live"
             /\ JobAt(j)'.due /\ JobAt(j)'.tries = JobAt(j).tries
             /\ RetryLimit > 0 => JobAt(j).tries < RetryLimit + crashes
  <2>1. Sound(JobAt(j), FALSE)
    BY <1>8, <1>9 DEF QInv, SoundInv, Sound
  <2>2. JobAt(j).st = "pending" \/ (JobAt(j).st = "running" /\ JobAt(j).claim = "expired")
    BY <1>7, <1>8, <2>1 DEF Sound, Open, JobRow, Claim
  <2>3. JobAt(j)' = Claimed(JobAt(j)) /\ JobAt(j) \in JobRow
    BY <1>3, <1>7, <1>8
  <2>4. JobAt(j)' \in JobRow
    BY <2>3, ClaimedTyped
  <2>5. /\ JobAt(j)'.st = "pending" /\ JobAt(j)'.claim = "live"
        /\ JobAt(j)'.due = JobAt(j).due /\ JobAt(j)'.tries = JobAt(j).tries
    BY <2>2, <2>3 DEF Claimed, JobRow
  <2> QED
    BY <1>8, <2>1, <2>2, <2>4, <2>5 DEF Sound
<1> HIDE DEF given
<1>10. OwnInv'
  <2> SUFFICES ASSUME NEW w \in Worker, task'[w] # NoJob, Untouched(task'[w])
               PROVE  Mine(w)' /\ \A v \in Worker : task'[v] = task'[w] => v = w
    BY <1>6 DEF OwnInv, Untouched
  <2>1. CASE w \in busy
    <3>1. task'[w] \in given /\ pc'[w] = "queued"
      BY <1>4, <2>1
    <3>2. Mine(w)'
      BY <1>9, <3>1 DEF Mine, JobOf, JobAt, BeforeBegin, AfterBegin, Open
    <3>3. \A v \in Worker \ busy : task'[v] # task'[w]
      BY <1>5, <1>8, <3>1 DEF AtWork
    <3>4. \A v \in busy : task'[v] = task'[w] => v = w
      BY <1>1, <1>4, <2>1
    <3> QED
      BY <3>2, <3>3, <3>4
  <2>2. CASE w \notin busy
    <3>1. task'[w] = task[w] /\ pc'[w] = pc[w] /\ copy'[w] = copy[w]
      BY <1>5, <1>6, <2>2
    <3>2. task[w] \in Job /\ AtWork(task[w])
      BY <3>1 DEF TInv, TypeOK, AtWork
    <3>3. task[w] \notin given
      BY <1>8, <3>1, <3>2
    <3>4. JobOf(w)' = JobOf(w)
      BY <1>3, <3>1, <3>2, <3>3 DEF JobOf, JobAt
    <3>5. Mine(w) /\ \A v \in Worker : task[v] = task[w] => v = w
      BY <3>1 DEF QInv, OwnInv
    <3>6. \A v \in busy : task'[v] # task'[w]
      BY <1>4, <3>1, <3>3
    <3> QED
      BY <1>5, <3>1, <3>4, <3>5, <3>6 DEF Mine, Known
  <2> QED
    BY <2>1, <2>2
<1>11. SoundInv'
  <2> SUFFICES ASSUME NEW j \in Job, Untouched(j)
               PROVE  Sound(JobAt(j), AtWork(j))'
    BY <1>6 DEF SoundInv, Untouched
  <2>1. CASE j \in given
    <3>1. JobAt(j)'.tries \in Nat /\ RetryLimit \in Nat /\ crashes \in Nat
      BY <1>9, <2>1, BoundsAssumption DEF JobRow, TInv, TypeOK
    <3> QED
      BY <1>6, <1>9, <2>1, <3>1 DEF Sound
  <2>2. CASE j \notin given
    <3>1. JobAt(j)' = JobAt(j) /\ Sound(JobAt(j), AtWork(j))
      BY <1>3, <2>2 DEF QInv, SoundInv
    <3>2. ASSUME AtWork(j) PROVE AtWork(j)'
      <4>1. PICK w \in Worker : task[w] = j
        BY <3>2 DEF AtWork
      <4>2. stage[PoolOf[w]] \in {"serial", "pool"} /\ stage[p] = "claiming"
        BY <4>1, PoolsAssumption DEF PoolInv, ClaimJobs
      <4>3. w \notin busy
        BY <4>2 DEF PoolOfLoop
      <4> QED
        BY <1>5, <4>1, <4>3 DEF AtWork
    <3> QED
      BY <1>6, <3>1, <3>2 DEF Sound
  <2> QED
    BY <2>1, <2>2
<1>12. Final
  <2> SUFFICES ASSUME NEW j \in Job, JobAt(j).st \in Closed, j \notin touched'
               PROVE  JobAt(j)'.st = JobAt(j).st
    BY FinalByJobs
  <2> QED
    BY <1>3, <1>8, ClosedIsNotOpen
<1> QED
  BY <1>6, <1>10, <1>11, <1>12 DEF QInv, AdminInv

LEMMA LoopQueue ==
  ASSUME TInv, TInv', QInv, PoolInv, NEW p \in Loop, LoopStep(p)
  PROVE  QInv' /\ Final
<1> USE DEF history, workers
<1>1. CASE Survey(p) \/ NoRebalance(p) \/ ClaimFails(p) \/ PoolDone(p)
  BY <1>1, NothingDone DEF Survey, NoRebalance, ClaimFails, PoolDone
<1>2. CASE Rebalance(p)
  <2>1. Disturb(jobs') /\ UNCHANGED <<pc, task, copy, crashes, admin>>
    BY <1>2 DEF Rebalance
  <2> QED
    BY <1>2, <2>1, RebalanceSyncs, SyncedJobs
<1>3. CASE ClaimJobs(p)
  BY <1>3, ClaimQueue
<1>4. ASSUME NEW r \in Request, Ensure(p, r) PROVE QInv' /\ Final
  <2> DEFINE found == [row[r] EXCEPT !.actual = at[r],
                          !.mig = IF row[r].want # at[r] THEN "pending" ELSE row[r].mig]
  <2>1. row[r] \in Row /\ at[r] \in Place
    BY DEF TInv, TypeOK
  <2>2. found \in Row
    BY <2>1 DEF Row, Mig
  <2>3. jobs' = [jobs EXCEPT ![r] = Sync(jobs[r], found, at[r])]
    BY <1>4 DEF Ensure
  <2> HIDE DEF found
  <2>4. \A q \in Request : jobs'[q] = IF q = r THEN Sync(jobs[r], found, at[r]) ELSE jobs[q]
    BY <2>3 DEF TInv, TypeOK
  <2>5. Disturb(jobs') /\ UNCHANGED <<pc, task, copy, crashes, admin>>
    BY <1>4 DEF Ensure
  <2> QED
    BY <2>1, <2>2, <2>4, <2>5, SyncedJobs
<1>5. ASSUME NEW r \in Request, EnsureGone(p, r) \/ EnsureNew(p, r) \/ EnsureFails(p, r)
      PROVE  QInv' /\ Final
  BY <1>5, NothingDone DEF EnsureGone, EnsureNew, EnsureFails
<1> QED
  BY <1>1, <1>2, <1>3, <1>4, <1>5 DEF LoopStep

LEMMA CrashQueue ==
  ASSUME TInv, QInv, NEW p \in Loop, Crash(p)
  PROVE  QInv' /\ Final
<1> DEFINE dead == PoolOfLoop(p)
<1>1. \A w \in Worker : task'[w] = IF w \in dead THEN NoJob ELSE task[w]
  BY DEF Crash
<1>2. \A w \in Worker \ dead : pc'[w] = pc[w] /\ copy'[w] = copy[w]
  BY DEF Crash
<1>3. UNCHANGED <<jobs, admin, touched>> /\ crashes' = crashes + 1
  BY DEF Crash
<1>4. OwnInv'
  BY <1>1, <1>2, <1>3 DEF QInv, OwnInv, Mine, Known, JobOf, JobAt, Untouched
<1>5. SoundInv'
  <2> SUFFICES ASSUME NEW j \in Job, Untouched(j)
               PROVE  Sound(JobAt(j), AtWork(j))'
    BY <1>3 DEF SoundInv, Untouched
  <2>1. Sound(JobAt(j), AtWork(j)) /\ JobAt(j)' = JobAt(j)
    BY <1>3 DEF QInv, SoundInv, JobAt
  <2>2. JobAt(j).tries \in Nat /\ RetryLimit \in Nat /\ crashes \in Nat
    BY BoundsAssumption DEF JobAt, Job, JobRow, TInv, TypeOK
  <2> QED
    BY <1>3, <2>1, <2>2 DEF Sound
<1> QED
  BY <1>3, <1>4, <1>5 DEF QInv, AdminInv, Final

LEMMA WorldQueue ==
  ASSUME TInv, TInv', QInv,
         \/ \E p \in Loop : Crash(p)
         \/ \E j \in Job : Expire(j) \/ Overrun(j) \/ BecomeDue(j)
         \/ \E j \in Job, kind \in {"cancel", "retry"} : Ask(j, kind)
         \/ Answer
         \/ \E r \in Request : Cool(r) \/ End(r) \/ MoveEnds(r) \/ Lose(r)
  PROVE  QInv' /\ Final
<1> USE DEF history, workers
<1>1. ASSUME NEW i \in Job, Expire(i) PROVE QInv' /\ Final
  <2> DEFINE new == [JobAt(i) EXCEPT !.claim = "expired"]
  <2>1. \A j \in Job : JobAt(j)' = IF j = i THEN new ELSE JobAt(j)
    BY <1>1, PutAt DEF Expire, TInv, TypeOK
  <2>2. Quiet(JobAt(i), new) /\ ~AtWork(i)
    BY <1>1 DEF Expire, Quiet, TInv, TypeOK, Job, JobAt, JobRow
  <2>3. AdminInv' /\ UNCHANGED <<pc, task, copy, crashes, touched>>
    BY <1>1 DEF Expire, QInv, AdminInv
  <2> HIDE DEF new
  <2> QED
    BY <2>1, <2>2, <2>3, NobodysJob
<1>2. ASSUME NEW i \in Job, Overrun(i) PROVE QInv' /\ Final
  <2> DEFINE new == [JobAt(i) EXCEPT !.claim = "expired"]
  <2>1. \A j \in Job : JobAt(j)' = IF j = i THEN new ELSE JobAt(j)
    BY <1>2, PutAt DEF Overrun, TInv, TypeOK
  <2>2. JobAt(i) \in JobRow /\ JobAt(i).claim = "live"
    BY <1>2 DEF Overrun, TInv, TypeOK, Job, JobAt
  <2>3. new # JobAt(i)
    BY <2>2 DEF JobRow
  <2>4. i \in touched' /\ touched \subseteq touched'
    BY <1>2, <2>1, <2>3 DEF Overrun, Disturb, JobAt
  <2>5. AdminInv' /\ UNCHANGED <<pc, task, copy, crashes>>
    BY <1>2, <2>4 DEF Overrun, QInv, AdminInv
  <2> HIDE DEF new
  <2> QED
    BY <2>1, <2>4, <2>5, NobodysJob
<1>3. ASSUME NEW i \in Job, BecomeDue(i) PROVE QInv' /\ Final
  <2> DEFINE new == [JobAt(i) EXCEPT !.due = TRUE]
  <2>1. \A j \in Job : JobAt(j)' = IF j = i THEN new ELSE JobAt(j)
    BY <1>3, PutAt DEF BecomeDue, TInv, TypeOK
  <2>2. Quiet(JobAt(i), new)
    BY DEF Quiet, TInv, TypeOK, Job, JobAt, JobRow
  <2>3. Untouched(i) => ~AtWork(i)
    BY <1>3, PoolsAssumption DEF BecomeDue, QInv, OwnInv, Mine, AtWork, JobOf
  <2>4. AdminInv' /\ UNCHANGED <<pc, task, copy, crashes, touched>>
    BY <1>3 DEF BecomeDue, QInv, AdminInv
  <2> HIDE DEF new
  <2> QED
    BY <2>1, <2>2, <2>3, <2>4, NobodysJob DEF Untouched
<1>4. ASSUME NEW i \in Job, NEW kind \in {"cancel", "retry"}, Ask(i, kind)
      PROVE  QInv' /\ Final
  <2>1. AdminInv' /\ touched \subseteq touched' /\ UNCHANGED <<jobs, pc, task, copy, crashes>>
    BY <1>4 DEF Ask, AdminInv
  <2>2. \A j \in Job : JobAt(j)' = JobAt(j)
    BY <2>1 DEF JobAt
  <2> QED
    BY <2>1, <2>2, NobodysJob
<1>5. ASSUME Answer PROVE QInv' /\ Final
  <2> DEFINE i == admin[1]
             new == IF admin[2] = "cancel" THEN Settle(admin[3], "cancelled")
                    ELSE [Settle(admin[3], "pending") EXCEPT !.due = TRUE]
  <2>1. i \in Job /\ i \in touched
    BY <1>5 DEF Answer, TInv, TypeOK, QInv, AdminInv
  <2>2. Put(i, MergeJob(JobAt(i), admin[3], new))
    BY <1>5 DEF Answer
  <2> HIDE DEF new
  <2>3. \A j \in Job : j # i => JobAt(j)' = JobAt(j)
    BY <2>1, <2>2, PutAt DEF TInv, TypeOK
  <2>4. AdminInv' /\ UNCHANGED <<pc, task, copy, crashes, touched>>
    BY <1>5 DEF Answer, AdminInv
  <2> QED
    BY <2>1, <2>3, <2>4, NobodysJob
<1>6. ASSUME NEW r \in Request, Cool(r) \/ End(r) \/ Lose(r) PROVE QInv' /\ Final
  BY <1>6, NothingDone DEF Cool, End, Lose
<1>7. ASSUME NEW r \in Request, MoveEnds(r) PROVE QInv' /\ Final
  <2>1. UNCHANGED <<jobs, task, copy, admin, crashes, touched>>
    BY <1>7 DEF MoveEnds
  <2>2. \A w \in Worker : \/ pc'[w] = pc[w]
                          \/ pc[w] \in AfterBegin /\ pc'[w] \in AfterBegin \cup {"failed"}
    BY <1>7 DEF MoveEnds, AfterBegin
  <2>3. ASSUME NEW w \in Worker, Mine(w) PROVE Mine(w)'
    BY <2>1, <2>2, <2>3 DEF Mine, Known, JobOf, JobAt, BeforeBegin, AfterBegin
  <2> QED
    BY <2>1, <2>3 DEF QInv, OwnInv, SoundInv, Sound, AdminInv, AtWork, JobAt, Untouched, Final
<1>8. ASSUME NEW p \in Loop, Crash(p) PROVE QInv' /\ Final
  BY <1>8, CrashQueue
<1> QED
  BY <1>1, <1>2, <1>3, <1>4, <1>5, <1>6, <1>7, <1>8

LEMMA PoolSame ==
  ASSUME PoolInv, UNCHANGED <<stage, task>>
  PROVE  PoolInv'
  BY DEF PoolInv

\* A step of a loop that has no workers with jobs, and gives out none.
LEMMA PoolIdle ==
  ASSUME TInv, PoolInv, NEW p \in Loop, NEW point, Stand(p, point), UNCHANGED task,
         \A w \in Worker : PoolOf[w] = p => task[w] = NoJob
  PROVE  PoolInv'
  BY StageMoved, PoolsAssumption DEF PoolInv

LEMMA PoolLeft ==
  ASSUME TInv, PoolInv, NEW w \in Worker, Leave(w), UNCHANGED stage
  PROVE  PoolInv'
  BY DEF PoolInv, Leave, TInv, TypeOK

LEMMA PoolStep ==
  ASSUME TInv, PoolInv, Next
  PROVE  PoolInv'
<1> USE DEF history, workers, loops
<1>i. \A p \in Loop : stage[p] \notin {"serial", "pool"} =>
         \A w \in Worker : PoolOf[w] = p => task[w] = NoJob
  BY DEF PoolInv
<1>1. ASSUME NEW p \in Loop, Survey(p) \/ NoRebalance(p) \/ ClaimFails(p) PROVE PoolInv'
  BY <1>1, <1>i, PoolIdle DEF Survey, NoRebalance, ClaimFails
<1>2. ASSUME NEW p \in Loop, Rebalance(p) PROVE PoolInv'
  <2>1. Stand(p, "claiming") /\ UNCHANGED task /\ stage[p] = "placing"
    BY <1>2 DEF Rebalance
  <2> QED
    BY <1>i, <2>1, PoolIdle
<1>3. ASSUME NEW p \in Loop, PoolDone(p) PROVE PoolInv'
  BY <1>3, PoolIdle DEF PoolDone, PoolOfLoop
<1>4. ASSUME NEW p \in Loop, NEW r \in Request,
             Ensure(p, r) \/ EnsureGone(p, r) \/ EnsureNew(p, r) \/ EnsureFails(p, r)
      PROVE  PoolInv'
  <2>1. Visited(p, r) /\ UNCHANGED task /\ stage[p] = "syncing"
    BY <1>4 DEF Ensure, EnsureGone, EnsureNew, EnsureFails
  <2>2. \E point : Stand(p, point)
    BY <2>1 DEF Visited
  <2> QED
    BY <1>i, <2>1, <2>2, PoolIdle
<1>5. ASSUME NEW p \in Loop, ClaimJobs(p) PROVE PoolInv'
  <2>1. stage[p] = "claiming"
    BY <1>5 DEF ClaimJobs
  <2>2. PICK busy \in SUBSET PoolOfLoop(p) :
          /\ \A w \in Worker \ busy : task'[w] = task[w]
          /\ Stand(p, IF active = {} THEN "idle" ELSE IF busy = {} THEN "syncing"
                      ELSE IF \E w \in busy : busy = {w} THEN "serial" ELSE "pool")
          /\ busy # {} => active # {}
    <3>1. PICK give \in [PoolOfLoop(p) -> Claimable(jobs) \cup {NoJob}] :
            LET busy == {w \in PoolOfLoop(p) : give[w] # NoJob}
            IN  /\ task' = [w \in Worker |-> IF w \in busy THEN give[w] ELSE task[w]]
                /\ Stand(p, IF active = {} THEN "idle" ELSE IF busy = {} THEN "syncing"
                            ELSE IF \E w \in busy : busy = {w} THEN "serial" ELSE "pool")
      BY <1>5 DEF ClaimJobs
    <3> DEFINE busy == {w \in PoolOfLoop(p) : give[w] # NoJob}
    <3>2. busy # {} => active # {}
      BY DEF Claimable
    <3> WITNESS busy \in SUBSET PoolOfLoop(p)
    <3> QED
      BY <3>1, <3>2
  <2>3. \A q \in Loop : q # p => stage'[q] = stage[q]
    BY <2>2, StageMoved
  <2>4. busy # {} => /\ stage'[p] \in {"serial", "pool"}
                     /\ stage'[p] = "serial" => \E w \in busy : busy = {w}
    BY <2>2, StageMoved
  <2>5. \A w \in Worker : PoolOf[w] = p /\ task'[w] # NoJob => w \in busy
    BY <1>i, <2>1, <2>2
  <2>6. busy \subseteq Worker /\ \A w \in busy : PoolOf[w] = p
    BY <2>2 DEF PoolOfLoop
  <2> SUFFICES ASSUME NEW w \in Worker, task'[w] # NoJob
               PROVE  /\ stage'[PoolOf[w]] \in {"serial", "pool"}
                      /\ stage'[PoolOf[w]] = "serial" =>
                           \A v \in Worker : PoolOf[v] = PoolOf[w] /\ task'[v] # NoJob => v = w
    BY DEF PoolInv
  <2>7. CASE PoolOf[w] = p
    BY <2>4, <2>5, <2>7
  <2>8. CASE PoolOf[w] # p
    <3>1. \A v \in Worker : PoolOf[v] # p => task'[v] = task[v]
      BY <2>2, <2>6
    <3>2. PoolOf[w] \in Loop
      BY PoolsAssumption
    <3> QED
      BY <2>3, <2>8, <3>1, <3>2 DEF PoolInv
  <2> QED
    BY <2>7, <2>8
<1>6. ASSUME NEW w \in Worker, RefreshFails(w) PROVE PoolInv'
  <2>1. /\ \A v \in Worker : task'[v] = IF v = w THEN NoJob ELSE task[v]
        /\ \/ UNCHANGED stage
           \/ stage[PoolOf[w]] = "serial" /\ Stand(PoolOf[w], "idle")
    BY <1>6 DEF RefreshFails, Leave, TInv, TypeOK
  <2>2. CASE UNCHANGED stage
    BY <2>1, <2>2 DEF PoolInv
  <2>3. CASE stage[PoolOf[w]] = "serial" /\ Stand(PoolOf[w], "idle")
    <3>1. task[w] # NoJob /\ PoolOf[w] \in Loop
      BY <1>6, PoolsAssumption DEF RefreshFails, TInv
    <3>2. \A v \in Worker : PoolOf[v] = PoolOf[w] => task'[v] = NoJob
      BY <2>1, <2>3, <3>1 DEF PoolInv
    <3>3. \A q \in Loop : q # PoolOf[w] => stage'[q] = stage[q]
      BY <2>3, <3>1, StageMoved
    <3> QED
      BY <2>1, <3>2, <3>3, PoolsAssumption DEF PoolInv
  <2> QED
    BY <2>1, <2>2, <2>3
<1>7. ASSUME NEW w \in Worker, Stale(w) \/ AlreadyThere(w) \/ Gate(w) \/ Record(w) \/ Fail(w)
      PROVE  PoolInv'
  <2>1. Leave(w) /\ UNCHANGED stage
    BY <1>7 DEF Stale, AlreadyThere, Gate, Record, Fail
  <2> QED
    BY <2>1, PoolLeft
<1>8. ASSUME NEW w \in Worker,
             \/ Load(w) \/ LockRow(w) \/ Locate(w) \/ GateFails(w) \/ Begin(w) \/ Start(w)
             \/ Heartbeat(w) \/ WatchFails(w) \/ Arrive(w) \/ RecordFails(w) \/ Deadlock(w)
             \/ Rollback(w) \/ Reload(w)
      PROVE  PoolInv'
  BY <1>8, PoolSame DEF Load, LockRow, Locate, GateFails, Begin, Start, Heartbeat, WatchFails,
     Arrive, RecordFails, Deadlock, Rollback, Reload
<1>9. ASSUME NEW p \in Loop, Crash(p) PROVE PoolInv'
  <2>1. Stand(p, "idle") /\ \A w \in Worker : task'[w] = IF PoolOf[w] = p THEN NoJob ELSE task[w]
    BY <1>9 DEF Crash, PoolOfLoop
  <2>2. \A q \in Loop : q # p => stage'[q] = stage[q]
    BY <2>1, StageMoved
  <2> QED
    BY <2>1, <2>2, PoolsAssumption DEF PoolInv
<1>10. ASSUME \/ \E j \in Job : Expire(j) \/ Overrun(j) \/ BecomeDue(j)
              \/ \E j \in Job, kind \in {"cancel", "retry"} : Ask(j, kind)
              \/ Answer
              \/ \E r \in Request : Cool(r) \/ End(r) \/ MoveEnds(r) \/ Lose(r)
       PROVE  PoolInv'
  BY <1>10, PoolSame DEF Expire, Overrun, BecomeDue, Ask, Answer, Cool, End, MoveEnds, Lose
<1> QED
  BY <1>1, <1>2, <1>3, <1>4, <1>5, <1>6, <1>7, <1>8, <1>9, <1>10
  DEF Next, LoopStep, WorkerStep

IInv == TInv /\ QInv /\ PoolInv

LEMMA StepQueue == IInv /\ [Next]_vars => IInv' /\ Final
<1> SUFFICES ASSUME IInv, [Next]_vars PROVE IInv' /\ Final
  OBVIOUS
<1>1. TInv'
  BY StepTyped DEF IInv
<1>2. CASE Next
  <2>1. PoolInv'
    BY <1>2, PoolStep DEF IInv
  <2>2. QInv' /\ Final
    BY <1>1, <1>2, LoopQueue, WorkerQueue, WorldQueue DEF IInv, Next
  <2> QED
    BY <1>1, <2>1, <2>2 DEF IInv
<1>3. CASE UNCHANGED vars
  <2>1. PoolInv'
    BY <1>3, PoolSame DEF IInv, vars, loops, workers
  <2>2. QInv' /\ Final
    BY <1>3, NothingDone DEF IInv, vars, workers, history
  <2> QED
    BY <1>1, <2>1, <2>2 DEF IInv
<1> QED
  BY <1>2, <1>3

LEMMA QueueInvariant == Spec => []IInv /\ [][Final]_vars
<1>1. Init => IInv
  BY InitTyped, InitQueue, InitPool DEF IInv
<1>2. IInv /\ [Next]_vars => IInv' /\ [Final]_vars
  BY StepQueue
<1> QED
  BY <1>1, <1>2, PTL DEF Spec

\* A claimed job has one worker: whatever the order of the passes, the crashes
\* and the failures, claim_jobs_for_requests hands a job to a second worker only
\* after its claim was taken from the first.
THEOREM ClaimsAreExclusive == Spec => []OneWorkerPerJob
<1>1. IInv => OneWorkerPerJob
  BY DEF IInv, QInv, OwnInv, OneWorkerPerJob
<1> QED
  BY <1>1, QueueInvariant, PTL

\* The retries of a job end: migration_retry_limit bounds its attempts, up to
\* one more for every crash that left it running.
THEOREM RetriesEnd == Spec => []TriesBounded
<1>1. ASSUME IInv, RetryLimit > 0, NEW r \in Request, NEW k \in Slot, Untouched(<<r, k>>)
      PROVE  jobs[r][k].tries <= RetryLimit + crashes
  <2>1. <<r, k>> \in Job /\ JobAt(<<r, k>>) = jobs[r][k]
    BY DEF Job, JobAt
  <2> QED
    BY <1>1, <2>1 DEF IInv, QInv, SoundInv, Sound
<1>2. IInv => TriesBounded
  BY <1>1 DEF TriesBounded
<1> QED
  BY <1>2, QueueInvariant, PTL

\* The outcome of a job is written once: only an administrator, or a worker whose
\* claim was taken from it, changes the status of a job that has ended.
THEOREM OutcomesAreFinal == Spec => OutcomeIsFinal
  BY QueueInvariant, PTL DEF OutcomeIsFinal, Final
=============================================================================
