--------------------------- MODULE JobLeaseProofs ---------------------------
(***************************************************************************)
(* What holds of JobLease for every set of invocations and reapers, every  *)
(* lease, back-off and retry budget, and every set of faults.              *)
(***************************************************************************)
EXTENDS JobLease, TLAPS

(* The delay of a retry that is within the budget is one the queue accepts. *)
LEMMA BackoffInRange ==
    ASSUME NEW n \in 1 .. MaxRetries PROVE Backoff(n) \in 1 .. MaxDelay
  BY TimeAssumption

(* A countdown stays within its column's range. *)
LEMMA CountDownRange ==
    ASSUME NEW floor \in Int, NEW top \in Int, floor <= top,
           NEW t \in (floor .. top) \cup {None}
    PROVE  CountDown(t, floor) \in (floor .. top) \cup {None}
  BY NoneAssumption DEF CountDown

(* One more delivery, due after any delay the queue accepts. *)
LEMMA PutType ==
    ASSUME queue \in [Delays -> Nat], NEW d \in Delays, Put(d)
    PROVE  queue' \in [Delays -> Nat]
  BY DEF Put

\* A new delivery takes none of those in the queue away.
LEMMA PutKeeps ==
    ASSUME queue \in [Delays -> Nat], NEW d \in Delays, Put(d)
    PROVE  \A e \in Delays : queue[e] > 0 => queue'[e] > 0
  <1> SUFFICES ASSUME NEW e \in Delays, queue[e] > 0 PROVE queue'[e] > 0
    OBVIOUS
  <1>1. CASE e = d
    BY <1>1 DEF Put
  <1>2. CASE e # d
    BY <1>2 DEF Put
  <1> QED BY <1>1, <1>2

LEMMA DropType == ASSUME dropped \in BOOLEAN, Drop PROVE dropped' \in BOOLEAN
  BY Zenon DEF Drop

(* What a reaper still has to deliver: at most the reclaimed job and the one *)
(* its second scan found, which todo counts.                                 *)
TodoCounted ==
    \A p \in Reaper : /\ rpc[p] \in {"idle", "pending"} => todo[p] = 0
                      /\ rpc[p] = "reclaim" => todo[p] \in 0 .. 1
                      /\ rpc[p] \in {"enqueue", "ack"} => todo[p] \in 1 .. 2

LEMMA ProceedType ==
    ASSUME rpc \in [Reaper -> ReaperPCs], target \in [Reaper -> Run \cup {None}],
           todo \in [Reaper -> 0 .. 2], TodoCounted,
           NEW p \in Reaper, NEW n \in 0 .. 2, Proceed(p, n)
    PROVE  /\ rpc' \in [Reaper -> ReaperPCs]
           /\ target' \in [Reaper -> Run \cup {None}]
           /\ todo' \in [Reaper -> 0 .. 2]
           /\ TodoCounted'
  BY DEF Proceed, TodoCounted, ReaperPCs

-----------------------------------------------------------------------------
(* The attempt an invocation has counted; it matters for the back-off only. *)
Counted == \A r \in Run : Executing(r) \/ pc[r] \in {"requeue", "unschedule"}
                              => attempt[r] \in Nat \ {0}

\* An invocation that owes the delivery of its retry is within the retry budget.
WithinBudget == \A r \in Run : pc[r] \in {"requeue", "unschedule"} => attempt[r] < MaxRetries

TInv == TypeOK /\ Counted /\ WithinBudget /\ TodoCounted

LEMMA TypeInvariant == Spec => []TInv
  <1>1. Init => TInv
    <2> SUFFICES ASSUME Init PROVE TInv
      OBVIOUS
    <2>1. TypeOK
      <3>1. queue \in [Delays -> Nat]
        BY DEF Init
      <3>2. /\ pc \in [Run -> RunPCs] /\ attempt \in [Run -> Nat]
            /\ outcome \in [Run -> Outcomes]
        BY DEF Init, RunPCs, Outcomes
      <3>3. /\ rpc \in [Reaper -> ReaperPCs] /\ target \in [Reaper -> Run \cup {None}]
            /\ todo \in [Reaper -> 0 .. 2]
        BY DEF Init, ReaperPCs
      <3> QED BY <3>1, <3>2, <3>3 DEF Init, TypeOK, Statuses
    <2>2. Counted /\ WithinBudget /\ TodoCounted
      BY DEF Init, Counted, WithinBudget, TodoCounted, Executing
    <2> QED BY <2>1, <2>2 DEF TInv
  <1>2. TInv /\ [Next]_vars => TInv'
    <2> SUFFICES ASSUME TypeOK, Counted, WithinBudget, TodoCounted, [Next]_vars PROVE TInv'
      BY DEF TInv
    <2>a. 0 \in Delays /\ LeaseDuration \in Nat
      BY TimeAssumption DEF Delays
    <2> USE <2>a
        DEF TInv, TypeOK, Counted, WithinBudget, Executing, Statuses, Outcomes, RunPCs,
            row, local, sweep, history
    <2>1. CASE ApiStep
      <3>1. CASE CreateJob
        BY <3>1 DEF CreateJob, TodoCounted
      <3>2. CASE Enqueue
        <4>1. queue' \in [Delays -> Nat]
          BY <3>2, PutType DEF Enqueue
        <4> QED BY <3>2, <4>1 DEF Enqueue, Fault, TodoCounted
      <3>3. CASE MarkEnqueueFailed
        <4>1. dropped' \in BOOLEAN
          BY <3>3, Zenon DEF MarkEnqueueFailed
        <4> QED BY <3>3, <4>1 DEF MarkEnqueueFailed, TodoCounted
      <3> QED BY <2>1, <3>1, <3>2, <3>3 DEF ApiStep
    <2>2. CASE ApiCrash
      BY <2>2, DropType DEF ApiCrash, Fault, TodoCounted
    <2>3. CASE CancelJob
      BY <2>3 DEF CancelJob, TodoCounted
    <2>4. CASE Tick
      <3>1. lease_expires_at' \in (-1 .. LeaseDuration) \cup {None}
        BY <2>4, CountDownRange DEF Tick
      <3>2. next_retry_at' \in Delays \cup {None}
        BY <2>4, CountDownRange, TimeAssumption DEF Tick, Delays
      <3>3. queue' \in [Delays -> Nat]
        BY <2>4, TimeAssumption DEF Tick, Delays
      <3> QED BY <2>4, <3>1, <3>2, <3>3 DEF Tick, TodoCounted
    <2>5. ASSUME NEW r \in Run,
                 WorkerStep(r) \/ TaskEnds(r) \/ WorkerCrash(r) \/ WorkerStop(r)
          PROVE  TInv'
      <3>0. UNCHANGED sweep => TodoCounted'
        BY DEF TodoCounted
      <3>1. CASE Deliver(r)
        <4>1. queue' \in [Delays -> Nat]
          BY <3>1 DEF Deliver
        <4> QED BY <3>0, <3>1, <4>1 DEF Deliver, Goto
      <3>2. CASE AcquireLease(r)
        BY <3>0, <3>2 DEF AcquireLease, Goto
      <3>3. CASE LeaseConflict(r)
        <4>1. dropped' \in BOOLEAN
          BY <3>3, DropType DEF LeaseConflict
        <4> QED BY <3>0, <3>3, <4>1 DEF LeaseConflict, Leave, Goto
      <3>4. CASE StartJob(r)
        BY <3>0, <3>4 DEF StartJob, NextAttempt, Goto
      <3>5. CASE StartRefused(r)
        BY <3>0, <3>5, DropType DEF StartRefused, Goto
      <3>6. CASE BeginTask(r)
        BY <3>0, <3>6 DEF BeginTask, Goto
      <3>7. CASE TaskEnds(r)
        BY <3>0, <3>7 DEF TaskEnds, Goto
      <3>8. CASE PollCancelled(r) \/ CheckCancelled(r)
        BY <3>0, <3>8 DEF PollCancelled, CheckCancelled, Goto
      <3>9. CASE ExtendLease(r)
        BY <3>0, <3>9 DEF ExtendLease, Goto
      <3>10. CASE CompleteJob(r)
        BY <3>0, <3>10 DEF CompleteJob, Goto
      <3>11. CASE ScheduleRetry(r)
        <4>1. Backoff(attempt[r]) \in Delays
          BY <3>11, BackoffInRange, RetryAssumption DEF ScheduleRetry, ShouldRetry, Delays
        <4> QED BY <3>0, <3>11, <4>1 DEF ScheduleRetry, ShouldRetry, Goto
      <3>12. CASE FailPermanently(r)
        BY <3>0, <3>12 DEF FailPermanently, Goto
      <3>13. CASE OutcomeRefused(r)
        BY <3>0, <3>13 DEF OutcomeRefused, Goto
      <3>14. CASE RequeueWithDelay(r)
        <4>1. Backoff(attempt[r]) \in Delays
          BY <3>14, BackoffInRange, RetryAssumption DEF RequeueWithDelay, Delays
        <4>2. queue' \in [Delays -> Nat]
          BY <3>14, <4>1, PutType DEF RequeueWithDelay
        <4> QED BY <3>0, <3>14, <4>2 DEF RequeueWithDelay, Goto, Fault
      <3>15. CASE Unschedule(r)
        <4>1. dropped' \in BOOLEAN
          BY <3>15, DropType DEF Unschedule
        <4> QED BY <3>0, <3>15, <4>1 DEF Unschedule, Goto
      <3>16. CASE ReleaseLease(r)
        BY <3>0, <3>16 DEF ReleaseLease, Releasable, Leave, Goto
      <3>17. CASE WorkerCrash(r)
        <4>1. dropped' \in BOOLEAN
          BY <3>17, DropType DEF WorkerCrash
        <4> QED BY <3>0, <3>17, <4>1 DEF WorkerCrash, Fault, Leave, Goto
      <3>18. CASE WorkerStop(r)
        BY <3>0, <3>18 DEF WorkerStop, Fault, Goto
      <3> QED BY <2>5, <3>1, <3>2, <3>3, <3>4, <3>5, <3>6, <3>7, <3>8, <3>9, <3>10, <3>11,
                 <3>12, <3>13, <3>14, <3>15, <3>16, <3>17, <3>18 DEF WorkerStep
    <2>6. ASSUME NEW p \in Reaper, ReaperStep(p) \/ ReaperCrash(p)
          PROVE  TInv'
      <3>1. CASE ScanExpired(p)
        BY <3>1 DEF ScanExpired, TodoCounted, ReaperPCs
      <3>2. CASE ScanPending(p)
        BY <3>2 DEF ScanPending, TodoCounted, ReaperPCs
      <3>3. CASE ReclaimLease(p)
        <4>1. todo[p] + 1 \in 0 .. 2
          BY <3>3 DEF ReclaimLease, TodoCounted
        <4> QED BY <3>3, <4>1, ProceedType DEF ReclaimLease
      <3>4. CASE ReclaimRefused(p)
        BY <3>4, ProceedType DEF ReclaimRefused
      <3>5. CASE EnqueueReclaimed(p)
        <4>1. todo[p] - 1 \in 0 .. 2
          BY <3>5 DEF EnqueueReclaimed, TodoCounted
        <4>2. queue' \in [Delays -> Nat]
          BY <3>5, PutType DEF EnqueueReclaimed
        <4>3. CASE Proceed(p, todo[p] - 1)
          BY <3>5, <4>1, <4>2, <4>3, ProceedType DEF EnqueueReclaimed, Fault
        <4>4. CASE rpc' = [rpc EXCEPT ![p] = "ack"] /\ UNCHANGED <<target, todo>>
          BY <3>5, <4>2, <4>4 DEF EnqueueReclaimed, Fault, TodoCounted, ReaperPCs
        <4> QED BY <3>5, <4>3, <4>4 DEF EnqueueReclaimed
      <3>6. CASE AckDelivery(p)
        <4>1. todo[p] - 1 \in 0 .. 2
          BY <3>6 DEF AckDelivery, TodoCounted
        <4> QED BY <3>6, <4>1, ProceedType DEF AckDelivery
      <3>7. CASE ReaperCrash(p)
        BY <3>7, ProceedType DEF ReaperCrash, Fault
      <3> QED BY <2>6, <3>1, <3>2, <3>3, <3>4, <3>5, <3>6, <3>7 DEF ReaperStep
    <2>7. CASE UNCHANGED vars
      BY <2>7 DEF vars, TodoCounted
    <2> QED BY <2>1, <2>2, <2>3, <2>4, <2>5, <2>6, <2>7 DEF Next
  <1> QED BY <1>1, <1>2, PTL DEF Spec

(* Every reachable state is well typed: columns, queue, local variables; in  *)
(* particular the queue is never asked for a delay outside its range.        *)
THEOREM TypeCorrect == Spec => []TypeOK
  <1>1. TInv => TypeOK
    BY DEF TInv
  <1> QED BY <1>1, TypeInvariant, PTL

-----------------------------------------------------------------------------
(* Whatever order leases are taken, stolen, lost and released in, a running  *)
(* job names an owner and carries an expiry, by which the reaper finds it.   *)
THEOREM RunningLeased == Spec => []RunningIsLeased
  <1>1. Init => RunningIsLeased
    BY DEF Init, RunningIsLeased
  <1>2. TypeOK /\ RunningIsLeased /\ [Next]_vars => RunningIsLeased'
    <2> SUFFICES ASSUME TypeOK, RunningIsLeased, [Next]_vars PROVE RunningIsLeased'
      OBVIOUS
    <2> USE NoneAssumption DEF RunningIsLeased
    <2>1. CASE UNCHANGED <<status, worker_id, lease_expires_at>>
      BY <2>1
    <2>2. CASE status' # "running"
      BY <2>2
    <2>3. CASE Tick
      BY <2>3 DEF Tick, CountDown, TypeOK
    <2>4. ASSUME NEW r \in Run, WorkerStep(r) \/ TaskEnds(r) \/ WorkerCrash(r) \/ WorkerStop(r)
          PROVE  RunningIsLeased'
      <3>1. CASE AcquireLease(r)
        BY <3>1, TimeAssumption DEF AcquireLease
      <3>2. CASE StartJob(r)
        BY <3>2 DEF StartJob, Startable, Owns, LeaseLive
      <3>3. CASE ExtendLease(r)
        BY <3>3, TimeAssumption DEF ExtendLease, Owns
      <3>4. CASE ReleaseLease(r)
        BY <3>4 DEF ReleaseLease, Releasable
      <3>5. CASE CompleteJob(r) \/ ScheduleRetry(r) \/ FailPermanently(r)
        BY <3>5, <2>2 DEF CompleteJob, ScheduleRetry, FailPermanently
      <3>6. CASE Deliver(r) \/ LeaseConflict(r) \/ StartRefused(r) \/ OutcomeRefused(r)
        BY <3>6, <2>1 DEF Deliver, LeaseConflict, StartRefused, OutcomeRefused, row
      <3>7. CASE BeginTask(r) \/ TaskEnds(r) \/ PollCancelled(r) \/ CheckCancelled(r)
        BY <3>7, <2>1 DEF BeginTask, TaskEnds, PollCancelled, CheckCancelled, row
      <3>8. CASE RequeueWithDelay(r) \/ Unschedule(r) \/ WorkerCrash(r) \/ WorkerStop(r)
        BY <3>8, <2>1 DEF RequeueWithDelay, Unschedule, WorkerCrash, WorkerStop, row
      <3> QED BY <2>4, <3>1, <3>2, <3>3, <3>4, <3>5, <3>6, <3>7, <3>8 DEF WorkerStep
    <2>5. ASSUME NEW p \in Reaper, ReaperStep(p) \/ ReaperCrash(p)
          PROVE  RunningIsLeased'
      <3>1. CASE ReclaimLease(p)
        BY <3>1, <2>2 DEF ReclaimLease
      <3>2. CASE ScanExpired(p) \/ ScanPending(p) \/ ReclaimRefused(p) \/ EnqueueReclaimed(p)
        BY <3>2, <2>1 DEF ScanExpired, ScanPending, ReclaimRefused, EnqueueReclaimed, row
      <3>3. CASE AckDelivery(p) \/ ReaperCrash(p)
        BY <3>3, <2>1 DEF AckDelivery, ReaperCrash, row
      <3> QED BY <2>5, <3>1, <3>2, <3>3 DEF ReaperStep
    <2>6. CASE ApiStep \/ ApiCrash
      BY <2>6, <2>1, <2>2 DEF ApiStep, CreateJob, Enqueue, MarkEnqueueFailed, ApiCrash, row
    <2>7. CASE CancelJob
      BY <2>7, <2>2 DEF CancelJob
    <2>8. CASE UNCHANGED vars
      BY <2>8, <2>1 DEF vars, row
    <2> QED BY <2>3, <2>4, <2>5, <2>6, <2>7, <2>8 DEF Next
  <1> QED BY <1>1, <1>2, TypeCorrect, PTL DEF Spec

-----------------------------------------------------------------------------
(* The invocation that executes a running job as its owner is the one whose  *)
(* attempt the row counts, although attempts is written from a row read      *)
(* before the lease was taken.                                               *)
THEOREM OwnerAttempt == Spec => []OwnerRunsTheAttempt
  <1>1. Init => OwnerRunsTheAttempt
    BY DEF Init, OwnerRunsTheAttempt
  <1>2. TypeOK /\ OwnerRunsTheAttempt /\ [Next]_vars => OwnerRunsTheAttempt'
    <2> SUFFICES ASSUME TypeOK, OwnerRunsTheAttempt, [Next]_vars,
                        NEW s \in Run, (status = "running" /\ worker_id = s /\ Executing(s))'
                 PROVE  (attempt[s] = attempts)'
      BY DEF OwnerRunsTheAttempt
    <2>a. pc \in [Run -> RunPCs] /\ attempt \in [Run -> Nat]
      BY DEF TypeOK
    <2>b. status = "running" /\ worker_id = s /\ Executing(s) => attempt[s] = attempts
      BY DEF OwnerRunsTheAttempt
    <2> USE NoneAssumption, <2>a, <2>b DEF Executing
    <2>1. CASE UNCHANGED <<status, attempts, worker_id, pc, attempt>>
      BY <2>1
    <2>2. ASSUME NEW r \in Run, WorkerStep(r) \/ TaskEnds(r) \/ WorkerCrash(r) \/ WorkerStop(r)
          PROVE  (attempt[s] = attempts)'
      <3>1. CASE AcquireLease(r)
        BY <3>1 DEF AcquireLease, Goto
      <3>2. CASE StartJob(r)
        BY <3>2 DEF StartJob, Startable, Owns, NextAttempt, Goto
      <3>3. CASE Deliver(r)
        BY <3>3 DEF Deliver, Goto, row
      <3>4. CASE ReleaseLease(r)
        BY <3>4 DEF ReleaseLease, Leave, Goto
      <3>5. CASE LeaseConflict(r) \/ WorkerCrash(r)
        BY <3>5 DEF LeaseConflict, WorkerCrash, Leave, Goto, row
      <3>6. CASE BeginTask(r) \/ TaskEnds(r) \/ ExtendLease(r)
        BY <3>6 DEF BeginTask, TaskEnds, ExtendLease, Goto, row
      <3>7. CASE PollCancelled(r) \/ CheckCancelled(r) \/ OutcomeRefused(r) \/ WorkerStop(r)
        BY <3>7 DEF PollCancelled, CheckCancelled, OutcomeRefused, WorkerStop, Goto, row
      <3>8. CASE CompleteJob(r) \/ ScheduleRetry(r) \/ FailPermanently(r)
        BY <3>8 DEF CompleteJob, ScheduleRetry, FailPermanently
      <3>9. CASE StartRefused(r) \/ RequeueWithDelay(r) \/ Unschedule(r)
        BY <3>9 DEF StartRefused, RequeueWithDelay, Unschedule, Goto, row
      <3> QED BY <2>2, <3>1, <3>2, <3>3, <3>4, <3>5, <3>6, <3>7, <3>8, <3>9 DEF WorkerStep
    <2>3. ASSUME NEW p \in Reaper, ReaperStep(p) \/ ReaperCrash(p)
          PROVE  (attempt[s] = attempts)'
      <3>1. CASE ReclaimLease(p)
        BY <3>1 DEF ReclaimLease
      <3>2. CASE ScanExpired(p) \/ ScanPending(p) \/ ReclaimRefused(p) \/ EnqueueReclaimed(p)
        BY <3>2, <2>1 DEF ScanExpired, ScanPending, ReclaimRefused, EnqueueReclaimed, row, local
      <3>3. CASE AckDelivery(p) \/ ReaperCrash(p)
        BY <3>3, <2>1 DEF AckDelivery, ReaperCrash, row, local
      <3> QED BY <2>3, <3>1, <3>2, <3>3 DEF ReaperStep
    <2>4. CASE ApiStep \/ ApiCrash
      BY <2>4, <2>1 DEF ApiStep, CreateJob, Enqueue, MarkEnqueueFailed, ApiCrash, row, local
    <2>5. CASE CancelJob \/ Tick
      BY <2>5, <2>1 DEF CancelJob, Tick, local
    <2>6. CASE UNCHANGED vars
      BY <2>6, <2>1 DEF vars, row, local
    <2> QED BY <2>2, <2>3, <2>4, <2>5, <2>6 DEF Next
  <1> QED BY <1>1, <1>2, TypeCorrect, PTL DEF Spec

-----------------------------------------------------------------------------
(* A running job is ended only by the live owner, with the attempt it        *)
(* started; a worker that lost its lease writes no outcome.                  *)
THEOREM OnlyOwnerEnds == Spec => OutcomeByOwner
  <1>1. TypeOK /\ OwnerRunsTheAttempt /\ [Next]_vars =>
          [status = "running" /\ status' \in {"completed", "failed"} =>
             \/ api = "mark"
             \/ \E r \in Run : /\ Owns(r) /\ Executing(r)
                               /\ attempt[r] = attempts]_vars
    <2> SUFFICES ASSUME TypeOK, OwnerRunsTheAttempt, Next,
                        status = "running", status' \in {"completed", "failed"}, api # "mark"
                 PROVE  \E r \in Run : Owns(r) /\ Executing(r) /\ attempt[r] = attempts
      BY DEF vars, row
    <2>1. \E r \in Run : CompleteJob(r) \/ ScheduleRetry(r) \/ FailPermanently(r)
      <3>1. ASSUME NEW r \in Run, WorkerStep(r) \/ TaskEnds(r) \/ WorkerCrash(r) \/ WorkerStop(r)
            PROVE  CompleteJob(r) \/ ScheduleRetry(r) \/ FailPermanently(r)
        BY <3>1 DEF WorkerStep, Deliver, AcquireLease, LeaseConflict, StartJob, StartRefused,
                    BeginTask, PollCancelled, ExtendLease, CheckCancelled, OutcomeRefused,
                    RequeueWithDelay, Unschedule, ReleaseLease, TaskEnds, WorkerCrash,
                    WorkerStop, row
      <3>2. ASSUME NEW p \in Reaper, ReaperStep(p) \/ ReaperCrash(p) PROVE FALSE
        BY <3>2 DEF ReaperStep, ScanExpired, ScanPending, ReclaimLease, ReclaimRefused,
                    EnqueueReclaimed, AckDelivery, ReaperCrash, row
      <3>3. ~(ApiStep \/ ApiCrash \/ CancelJob \/ Tick)
        BY DEF ApiStep, CreateJob, Enqueue, MarkEnqueueFailed, ApiCrash, CancelJob, Tick, row
      <3> QED BY <3>1, <3>2, <3>3 DEF Next
    <2>2. PICK r \in Run : CompleteJob(r) \/ ScheduleRetry(r) \/ FailPermanently(r)
      BY <2>1
    <2>3. Owns(r) /\ Executing(r)
      BY <2>2 DEF CompleteJob, ScheduleRetry, FailPermanently, Fenced, Executing
    <2> QED BY <2>3 DEF OwnerRunsTheAttempt, Owns
  <1> QED BY <1>1, TypeCorrect, OwnerAttempt, PTL DEF Spec, OutcomeByOwner

(* Until the API has inserted the row nothing else has written it. *)
CreateIsFirst == api = "create" => status = "none"

LEMMA CreatedOnce == Spec => []CreateIsFirst
  <1>1. Init => CreateIsFirst
    BY DEF Init, CreateIsFirst
  <1>2. CreateIsFirst /\ [Next]_vars => CreateIsFirst'
    <2> SUFFICES ASSUME CreateIsFirst, [Next]_vars, api' = "create" PROVE status' = "none"
      BY DEF CreateIsFirst
    <2> USE DEF CreateIsFirst, row
    <2>1. ASSUME NEW r \in Run, WorkerStep(r) \/ TaskEnds(r) \/ WorkerCrash(r) \/ WorkerStop(r)
          PROVE  status' = "none"
      BY <2>1 DEF WorkerStep, Deliver, AcquireLease, LeaseConflict, StartJob, Startable,
                  StartRefused, BeginTask, PollCancelled, ExtendLease, CheckCancelled,
                  CompleteJob, ScheduleRetry, FailPermanently, Fenced, OutcomeRefused,
                  RequeueWithDelay, Unschedule, ReleaseLease, TaskEnds, WorkerCrash, WorkerStop
    <2>2. ASSUME NEW p \in Reaper, ReaperStep(p) \/ ReaperCrash(p) PROVE status' = "none"
      BY <2>2 DEF ReaperStep, ScanExpired, ScanPending, ReclaimLease, Expired, ReclaimRefused,
                  EnqueueReclaimed, AckDelivery, ReaperCrash
    <2>3. ASSUME ApiStep \/ ApiCrash \/ CancelJob \/ Tick PROVE status' = "none"
      BY <2>3 DEF ApiStep, CreateJob, Enqueue, MarkEnqueueFailed, ApiCrash, CancelJob, Retrying,
                  Tick
    <2> QED BY <2>1, <2>2, <2>3 DEF Next, vars
  <1> QED BY <1>1, <1>2, PTL DEF Spec

(* No worker, retry or reaper step takes a cancelled job out of cancelled.   *)
THEOREM CancelledIsFinal == Spec => CancelledStays
  <1>1. CreateIsFirst /\ [Next]_vars => [status = "cancelled" => status' = "cancelled" \/ api = "mark"]_vars
    <2> SUFFICES ASSUME CreateIsFirst, Next, status = "cancelled", api # "mark" PROVE status' = "cancelled"
      BY DEF vars, row
    <2>1. ASSUME NEW r \in Run, WorkerStep(r) \/ TaskEnds(r) \/ WorkerCrash(r) \/ WorkerStop(r)
          PROVE  status' = "cancelled"
      BY <2>1 DEF WorkerStep, Deliver, AcquireLease, LeaseConflict, StartJob, Startable,
                  StartRefused, BeginTask, PollCancelled, ExtendLease, CheckCancelled,
                  CompleteJob, ScheduleRetry, FailPermanently, Fenced, OutcomeRefused,
                  RequeueWithDelay, Unschedule, ReleaseLease, TaskEnds, WorkerCrash,
                  WorkerStop, row
    <2>2. ASSUME NEW p \in Reaper, ReaperStep(p) \/ ReaperCrash(p) PROVE status' = "cancelled"
      BY <2>2 DEF ReaperStep, ScanExpired, ScanPending, ReclaimLease, Expired, ReclaimRefused,
                  EnqueueReclaimed, AckDelivery, ReaperCrash, row
    <2>3. ASSUME ApiStep \/ ApiCrash \/ CancelJob \/ Tick PROVE status' = "cancelled"
      <3>1. ~CreateJob
        BY DEF CreateJob, CreateIsFirst
      <3> QED BY <2>3, <3>1 DEF ApiStep, Enqueue, MarkEnqueueFailed, ApiCrash, CancelJob, Tick, row
    <2> QED BY <2>1, <2>2, <2>3 DEF Next
  <1> QED BY <1>1, CreatedOnce, PTL DEF Spec, CancelledStays

-----------------------------------------------------------------------------
(* The three ways in which the delivery of a scheduled retry is still to     *)
(* come: in the queue and not before it is due, in the hands of an           *)
(* invocation that passed the status gate, or owed by the one that failed.   *)
(* RetryIsOwed alone is not inductive: a delivery that comes too early is    *)
(* used up by the gate, so one must be left that does not.                   *)
DueInQueue == \E d \in Delays : d >= next_retry_at /\ queue[d] > 0
InHand == next_retry_at = 0 /\ \E r \in Run : pc[r] \in {"acquire", "start"}
OwedByRun == \E r \in Run : /\ pc[r] \in {"requeue", "unschedule"}
                            /\ Backoff(attempt[r]) >= next_retry_at

RetryCovered == Retrying /\ ~dropped => DueInQueue \/ InHand \/ OwedByRun

(* What an invocation that owes a delivery will ask the queue for. *)
LEMMA OwedBackoff ==
    ASSUME TInv, NEW r \in Run, pc[r] \in {"requeue", "unschedule"}
    PROVE  Backoff(attempt[r]) \in 1 .. MaxDelay
  <1>1. attempt[r] \in 1 .. MaxRetries
    BY RetryAssumption DEF TInv, TypeOK, Counted, WithinBudget
  <1> QED BY <1>1, BackoffInRange

(* A delivery that was used up while the job waited is not forgotten. *)
LEMMA DroppedStays == ASSUME [Next]_vars, dropped PROVE dropped'
  <1>1. Drop => dropped'
    BY DEF Drop
  <1>2. ASSUME NEW r \in Run, WorkerStep(r) \/ TaskEnds(r) \/ WorkerCrash(r) \/ WorkerStop(r)
        PROVE  dropped'
    BY <1>1, <1>2
    DEF WorkerStep, Deliver, AcquireLease, LeaseConflict, StartJob, StartRefused, BeginTask,
        PollCancelled, ExtendLease, CheckCancelled, CompleteJob, ScheduleRetry,
        FailPermanently, OutcomeRefused, RequeueWithDelay, Unschedule, ReleaseLease, TaskEnds,
        WorkerCrash, WorkerStop, history
  <1>3. ASSUME NEW p \in Reaper, ReaperStep(p) \/ ReaperCrash(p) PROVE dropped'
    BY <1>3 DEF ReaperStep, ScanExpired, ScanPending, ReclaimLease, ReclaimRefused,
                EnqueueReclaimed, AckDelivery, ReaperCrash, history
  <1>4. ApiStep \/ ApiCrash \/ CancelJob \/ Tick => dropped'
    BY <1>1 DEF ApiStep, CreateJob, Enqueue, MarkEnqueueFailed, ApiCrash, CancelJob, Tick, history
  <1> QED BY <1>2, <1>3, <1>4 DEF Next, vars, history

(* A retry that was promised is delivered or still owed, unless a delivery   *)
(* was used up: whatever the faults, only the steps that set dropped break   *)
(* the promise.                                                              *)
THEOREM RetryOwed == Spec => []RetryIsOwed
  <1>1. Init => RetryCovered
    BY DEF Init, RetryCovered, Retrying
  <1>2. TInv /\ RetryCovered /\ [Next]_vars => RetryCovered'
    <2> SUFFICES ASSUME TInv, RetryCovered, [Next]_vars, Retrying', ~dropped'
                 PROVE  DueInQueue' \/ InHand' \/ OwedByRun'
      BY DEF RetryCovered
    <2>a. ~dropped
      BY DroppedStays
    <2>b. /\ pc \in [Run -> RunPCs] /\ attempt \in [Run -> Nat]
          /\ next_retry_at \in Delays \cup {None} /\ queue \in [Delays -> Nat]
      BY DEF TInv, TypeOK
    <2>c. MaxDelay \in Nat \ {0} /\ Delays = 0 .. MaxDelay /\ None \notin Int
      BY TimeAssumption, NoneAssumption DEF Delays
    <2>f. 0 \in Delays
      BY <2>c
    <2>d. Retrying => DueInQueue \/ InHand \/ OwedByRun
      BY <2>a DEF RetryCovered
    <2>e. Retrying => next_retry_at \in 0 .. MaxDelay
      BY <2>b, <2>c DEF Retrying
    <2>1. ASSUME UNCHANGED <<status, next_retry_at, local>>,
                 \A d \in Delays : queue[d] > 0 => queue'[d] > 0
          PROVE  DueInQueue' \/ InHand' \/ OwedByRun'
      BY <2>1, <2>b, <2>c, <2>d DEF Retrying, DueInQueue, InHand, OwedByRun, local
    <2>2. CASE Tick
      <3>1. Retrying /\ status' = status /\ UNCHANGED local
        BY <2>2, <2>c DEF Tick, Retrying, CountDown
      <3>2. /\ next_retry_at' = IF next_retry_at = 0 THEN 0 ELSE next_retry_at - 1
            /\ next_retry_at \in 0 .. MaxDelay
        BY <2>2, <2>c, <2>e, <3>1 DEF Tick, CountDown
      <3>3. ASSUME DueInQueue PROVE DueInQueue'
        <4>1. PICK d \in Delays : d >= next_retry_at /\ queue[d] > 0
          BY <3>3 DEF DueInQueue
        <4>2. CASE d = 0
          <5>1. queue'[0] > 0
            BY <2>2, <2>b, <2>c, <4>1, <4>2 DEF Tick
          <5> QED BY <2>c, <3>2, <4>1, <4>2, <5>1 DEF DueInQueue
        <4>3. CASE d # 0
          <5>1. d - 1 \in Delays /\ d - 1 < MaxDelay
            BY <2>c, <4>3
          <5>2. queue'[d - 1] > 0
            BY <2>2, <2>b, <2>c, <4>1, <5>1 DEF Tick
          <5> QED BY <2>c, <3>2, <4>1, <5>1, <5>2 DEF DueInQueue
        <4> QED BY <4>2, <4>3
      <3>4. ASSUME OwedByRun PROVE OwedByRun'
        <4>1. PICK r \in Run : /\ pc[r] \in {"requeue", "unschedule"}
                               /\ Backoff(attempt[r]) >= next_retry_at
          BY <3>4 DEF OwedByRun
        <4>2. Backoff(attempt[r]) >= next_retry_at'
          BY <2>c, <3>2, <4>1, OwedBackoff
        <4> QED BY <3>1, <4>1, <4>2 DEF OwedByRun, local
      <3>5. InHand => InHand'
        BY <3>1, <3>2 DEF InHand, local
      <3> QED BY <2>d, <3>1, <3>3, <3>4, <3>5
    <2>3. ASSUME NEW r \in Run, WorkerStep(r) \/ TaskEnds(r) \/ WorkerCrash(r) \/ WorkerStop(r)
          PROVE  DueInQueue' \/ InHand' \/ OwedByRun'
      <3>0. ASSUME UNCHANGED <<status, next_retry_at, queue>>,
                   pc[r] \notin {"acquire", "start", "requeue", "unschedule"},
                   \A s \in Run \ {r} : pc'[s] = pc[s] /\ attempt'[s] = attempt[s]
            PROVE  DueInQueue' \/ InHand' \/ OwedByRun'
        BY <2>d, <3>0 DEF Retrying, DueInQueue, InHand, OwedByRun
      <3>1. CASE Deliver(r)
        <4>1. Retrying /\ UNCHANGED <<status, next_retry_at>>
          BY <3>1 DEF Deliver, Retrying, row
        <4>2. \A s \in Run \ {r} : pc'[s] = pc[s] /\ attempt'[s] = attempt[s]
          BY <2>b, <3>1 DEF Deliver, Goto
        <4>3. ASSUME DueInQueue PROVE DueInQueue' \/ InHand'
          <5>1. PICK d \in Delays : d >= next_retry_at /\ queue[d] > 0
            BY <4>3 DEF DueInQueue
          <5>2. CASE d = 0
            <6>1. next_retry_at = 0
              BY <2>e, <4>1, <5>1, <5>2
            <6>2. Runnable
              BY <4>1, <6>1 DEF Runnable
            <6> QED BY <2>b, <3>1, <4>1, <6>1, <6>2 DEF Deliver, Goto, InHand
          <5>3. CASE d # 0
            <6>1. queue'[d] = queue[d]
              BY <2>b, <3>1, <5>3 DEF Deliver
            <6> QED BY <4>1, <5>1, <6>1 DEF DueInQueue
          <5> QED BY <5>2, <5>3
        <4>4. pc[r] = "idle"
          BY <3>1 DEF Deliver, Fresh
        <4> QED BY <2>d, <4>1, <4>2, <4>3, <4>4 DEF InHand, OwedByRun
      <3>2. CASE AcquireLease(r)
        BY <2>b, <2>d, <3>2 DEF AcquireLease, Goto, Retrying, DueInQueue, InHand, OwedByRun
      <3>3. CASE LeaseConflict(r)
        <4>1. Retrying /\ UNCHANGED <<status, next_retry_at, queue>>
          BY <3>3 DEF LeaseConflict, Retrying, row
        <4>2. pc[worker_id] = "start" /\ worker_id \in Run /\ worker_id # r
          BY <3>3, <4>1 DEF LeaseConflict, Drop, Awaiting, LeaseFree, TInv, TypeOK
        <4>3. \A s \in Run \ {r} : pc'[s] = pc[s] /\ attempt'[s] = attempt[s]
          BY <2>b, <3>3 DEF LeaseConflict, Leave, Goto
        <4>4. pc[r] = "acquire"
          BY <3>3 DEF LeaseConflict
        <4> QED BY <2>d, <4>1, <4>2, <4>3, <4>4 DEF DueInQueue, InHand, OwedByRun
      <3>4. CASE StartJob(r)
        BY <3>4 DEF StartJob, Retrying
      <3>5. CASE StartRefused(r)
        BY <3>5 DEF StartRefused, Drop, Awaiting, Retrying, row
      <3>6. CASE BeginTask(r) \/ TaskEnds(r) \/ PollCancelled(r) \/ WorkerStop(r)
        BY <2>b, <3>0, <3>6 DEF BeginTask, TaskEnds, PollCancelled, WorkerStop, Goto, row
      <3>7. CASE ExtendLease(r) \/ CheckCancelled(r) \/ OutcomeRefused(r)
        BY <2>b, <3>0, <3>7 DEF ExtendLease, CheckCancelled, OutcomeRefused, Goto, row
      <3>8. CASE CompleteJob(r) \/ FailPermanently(r)
        BY <3>8 DEF CompleteJob, FailPermanently, Retrying
      <3>9. CASE ScheduleRetry(r)
        <4>1. attempt[r] \in 1 .. MaxRetries
          BY <3>9, RetryAssumption
          DEF ScheduleRetry, ShouldRetry, Executing, TInv, TypeOK, Counted
        <4>2. Backoff(attempt[r]) \in 1 .. MaxDelay
          BY <4>1, BackoffInRange
        <4> QED BY <2>b, <3>9, <4>2 DEF ScheduleRetry, Goto, OwedByRun
      <3>10. CASE RequeueWithDelay(r)
        <4>1. Retrying /\ UNCHANGED <<status, next_retry_at, attempt>>
          BY <3>10 DEF RequeueWithDelay, Retrying, row
        <4>2. \A s \in Run \ {r} : pc'[s] = pc[s]
          BY <2>b, <3>10 DEF RequeueWithDelay, Goto
        <4>3. Backoff(attempt[r]) \in Delays
          BY <2>c, <3>10, OwedBackoff DEF RequeueWithDelay
        <4>4. CASE UNCHANGED queue /\ pc'[r] = "unschedule"
          BY <2>d, <3>10, <4>1, <4>2, <4>4
          DEF RequeueWithDelay, DueInQueue, InHand, OwedByRun
        <4>5. CASE Put(Backoff(attempt[r]))
          <5>1. /\ queue'[Backoff(attempt[r])] > 0
                /\ \A d \in Delays : queue[d] > 0 => queue'[d] > 0
            <6>1. queue'[Backoff(attempt[r])] > 0
              BY <2>b, <4>3, <4>5 DEF Put
            <6> QED BY <2>b, <4>3, <4>5, <6>1, PutKeeps
          <5> QED BY <2>d, <3>10, <4>1, <4>2, <4>3, <5>1
              DEF RequeueWithDelay, DueInQueue, InHand, OwedByRun
        <4> QED BY <2>b, <3>10, <4>4, <4>5 DEF RequeueWithDelay, Goto
      <3>11. CASE Unschedule(r)
        BY <3>11 DEF Unschedule, Drop, Awaiting, Retrying
      <3>12. CASE ReleaseLease(r)
        BY <2>b, <3>0, <3>12 DEF ReleaseLease, Leave, Goto
      <3>13. CASE WorkerCrash(r)
        <4>1. Retrying
          BY <3>13 DEF WorkerCrash, Retrying, row
        <4>2. pc[r] \notin {"acquire", "start", "requeue", "unschedule"}
          BY <3>13, <4>1 DEF WorkerCrash, Drop, Awaiting
        <4> QED BY <2>b, <3>0, <3>13, <4>2 DEF WorkerCrash, Leave, Goto, row
      <3> QED BY <2>3, <3>1, <3>2, <3>3, <3>4, <3>5, <3>6, <3>7, <3>8, <3>9, <3>10,
                 <3>11, <3>12, <3>13 DEF WorkerStep
    <2>4. ASSUME NEW p \in Reaper, ReaperStep(p) \/ ReaperCrash(p)
          PROVE  DueInQueue' \/ InHand' \/ OwedByRun'
      <3>1. CASE ReclaimLease(p)
        BY <3>1 DEF ReclaimLease, Retrying
      <3>2. CASE AckDelivery(p)
        BY <2>1, <2>b, <3>2 DEF AckDelivery, Retrying
      <3>3. CASE EnqueueReclaimed(p)
        <4>1. UNCHANGED queue \/ Put(0)
          BY <3>3 DEF EnqueueReclaimed
        <4>2. \A d \in Delays : queue[d] > 0 => queue'[d] > 0
          BY <2>b, <2>f, <4>1, PutKeeps
        <4> QED BY <2>1, <3>3, <4>2 DEF EnqueueReclaimed, row
      <3>4. CASE ScanExpired(p) \/ ScanPending(p) \/ ReclaimRefused(p) \/ ReaperCrash(p)
        BY <2>1, <2>b, <3>4 DEF ScanExpired, ScanPending, ReclaimRefused, ReaperCrash, row
      <3> QED BY <2>4, <3>1, <3>2, <3>3, <3>4 DEF ReaperStep
    <2>5. CASE ApiStep \/ ApiCrash
      <3>1. CASE CreateJob
        BY <3>1 DEF CreateJob, Retrying
      <3>2. CASE Enqueue
        <4>1. UNCHANGED queue \/ Put(0)
          BY <3>2 DEF Enqueue
        <4>2. \A d \in Delays : queue[d] > 0 => queue'[d] > 0
          BY <2>b, <2>f, <4>1, PutKeeps
        <4> QED BY <2>1, <3>2, <4>2 DEF Enqueue, row
      <3>3. CASE MarkEnqueueFailed
        BY <3>3 DEF MarkEnqueueFailed, Retrying
      <3>4. CASE ApiCrash
        BY <2>1, <2>b, <3>4 DEF ApiCrash, row
      <3> QED BY <2>5, <3>1, <3>2, <3>3, <3>4 DEF ApiStep
    <2>6. CASE CancelJob
      BY <2>6 DEF CancelJob, Retrying
    <2>7. CASE UNCHANGED vars
      BY <2>1, <2>b, <2>7 DEF vars, row
    <2> QED BY <2>2, <2>3, <2>4, <2>5, <2>6, <2>7 DEF Next
  <1>3. RetryCovered => RetryIsOwed
    BY DEF RetryCovered, RetryIsOwed, DueInQueue, InHand, OwedByRun, SomeoneWillDeliver
  <1> QED BY <1>1, <1>2, <1>3, TypeInvariant, PTL DEF Spec

-----------------------------------------------------------------------------
(* Heartbeats in time. *)

\* An invocation past its acquisition holds a lease that has not run out.
HoldsLease ==
    \A r \in Run : pc[r] \notin {"idle", "acquire"}
        => worker_id = r /\ lease_expires_at \in 1 .. LeaseDuration

LEMMA LeaseHeld == Timely => (Spec => []HoldsLease)
  <1> SUFFICES ASSUME Timely PROVE Spec => []HoldsLease
    OBVIOUS
  <1>1. Init => HoldsLease
    BY DEF Init, HoldsLease
  <1>2. TInv /\ HoldsLease /\ [Next]_vars => HoldsLease'
    <2> SUFFICES ASSUME TInv, HoldsLease, [Next]_vars PROVE HoldsLease'
      OBVIOUS
    <2>a. /\ pc \in [Run -> RunPCs]
          /\ lease_expires_at \in (-1 .. LeaseDuration) \cup {None}
          /\ LeaseDuration \in Nat \ {0} /\ None \notin Run /\ None \notin Int
      BY TimeAssumption, NoneAssumption DEF TInv, TypeOK
    <2>0. UNCHANGED <<pc, worker_id, lease_expires_at>> => HoldsLease'
      BY DEF HoldsLease
    <2>b. ASSUME NEW r \in Run, UNCHANGED <<worker_id, lease_expires_at>>,
                 \A s \in Run \ {r} : pc'[s] = pc[s],
                 pc[r] \notin {"idle", "acquire"} \/ pc'[r] \in {"idle", "acquire"}
          PROVE  HoldsLease'
      BY <2>b DEF HoldsLease
    <2>1. CASE ApiStep \/ ApiCrash \/ CancelJob
      BY <2>0, <2>1 DEF ApiStep, CreateJob, Enqueue, MarkEnqueueFailed, ApiCrash, CancelJob, row, local
    <2>2. CASE Tick
      <3>1. \A r \in Run : worker_id = r /\ pc[r] # "idle" => lease_expires_at # 1
        BY <2>2 DEF Tick
      <3>2. lease_expires_at' = CountDown(lease_expires_at, -1) /\ UNCHANGED <<worker_id, pc>>
        BY <2>2 DEF Tick, local
      <3> QED BY <2>a, <3>1, <3>2 DEF CountDown, HoldsLease
    <2>3. ASSUME NEW r \in Run, WorkerStep(r) \/ TaskEnds(r) \/ WorkerCrash(r) \/ WorkerStop(r)
          PROVE  HoldsLease'
      <3>1. CASE AcquireLease(r)
        <4>1. \A s \in Run : pc[s] \notin {"idle", "acquire"} => FALSE
          BY <2>a, <3>1 DEF AcquireLease, LeaseFree, LeaseLapsed, HoldsLease
        <4> QED BY <2>a, <3>1, <4>1 DEF AcquireLease, Goto, HoldsLease
      <3>2. CASE ExtendLease(r)
        <4>1. Owns(r)
          BY <2>a, <3>2 DEF ExtendLease, Owns, LeaseLive, HoldsLease
        <4> QED BY <2>a, <3>2, <4>1 DEF ExtendLease, Goto, HoldsLease
      <3>3. CASE ReleaseLease(r)
        <4>1. worker_id = r
          BY <3>3 DEF ReleaseLease, HoldsLease
        <4>2. \A s \in Run : pc'[s] \in {"idle", "acquire"}
          BY <2>a, <3>3, <4>1 DEF ReleaseLease, Leave, Goto, HoldsLease
        <4> QED BY <4>2 DEF HoldsLease
      <3>4. CASE Deliver(r) \/ LeaseConflict(r) \/ WorkerCrash(r)
        BY <2>a, <2>b, <3>4 DEF Deliver, LeaseConflict, WorkerCrash, Fresh, Leave, Goto, row
      <3>5. CASE StartJob(r) \/ StartRefused(r) \/ BeginTask(r) \/ TaskEnds(r) \/ PollCancelled(r)
                 \/ CheckCancelled(r) \/ WorkerStop(r)
        BY <2>a, <2>b, <3>5 DEF StartJob, StartRefused, BeginTask, TaskEnds, PollCancelled,
                                CheckCancelled, WorkerStop, Goto, row
      <3>6. CASE CompleteJob(r) \/ ScheduleRetry(r) \/ FailPermanently(r) \/ OutcomeRefused(r)
                 \/ RequeueWithDelay(r) \/ Unschedule(r)
        BY <2>a, <2>b, <3>6 DEF CompleteJob, ScheduleRetry, FailPermanently, OutcomeRefused,
                                RequeueWithDelay, Unschedule, Goto, row
      <3> QED BY <2>3, <3>1, <3>2, <3>3, <3>4, <3>5, <3>6 DEF WorkerStep
    <2>4. ASSUME NEW p \in Reaper, ReaperStep(p) \/ ReaperCrash(p)
          PROVE  HoldsLease'
      <3>1. CASE ReclaimLease(p)
        <4>1. \A s \in Run : pc[s] \in {"idle", "acquire"}
          BY <2>a, <3>1 DEF ReclaimLease, Expired, LeaseLapsed, HoldsLease
        <4> QED BY <3>1, <4>1 DEF ReclaimLease, local, HoldsLease
      <3> QED BY <2>0, <2>4, <3>1
          DEF ReaperStep, ScanExpired, ScanPending, ReclaimRefused, EnqueueReclaimed, AckDelivery,
              ReaperCrash, row, local
    <2>5. CASE UNCHANGED vars
      BY <2>0, <2>5 DEF vars, row, local
    <2> QED BY <2>1, <2>2, <2>3, <2>4, <2>5 DEF Next
  <1> QED BY <1>1, <1>2, TypeInvariant, PTL DEF Spec

\* With heartbeats in time, and whatever crashes, two invocations of run_job_async never
\* execute the job at once: OneExecutor.  Everyone who executes holds the one lease.
THEOREM SoleExecutor == Timely => (Spec => []OneExecutor)
  <1>1. HoldsLease => OneExecutor
    BY DEF HoldsLease, OneExecutor, Executing
  <1> QED BY <1>1, LeaseHeld, PTL

-----------------------------------------------------------------------------
(* Queued jobs, with one reaper. *)

\* A queued job that waits for its first or its reclaimed delivery is owed one, and one
\* that the reaper is about to acknowledge has been delivered.
QueueCovered ==
    /\ QueuedIsOwed
    /\ \A p \in Reaper : rpc[p] = "ack" /\ status = "queued" /\ ~dropped => SomeoneWillDeliver
    /\ status = "none" => \A p \in Reaper : rpc[p] = "idle"

\* A step of an invocation that is not its start keeps what a waiting job is owed, or is
\* remembered by dropped.
LEMMA DeliveryKept ==
    ASSUME TInv, NEW r \in Run, WorkerStep(r) \/ TaskEnds(r) \/ WorkerCrash(r) \/ WorkerStop(r),
           status = "queued", ~dropped'
    PROVE  /\ SomeoneWillDeliver /\ status' = "queued" => SomeoneWillDeliver'
           /\ status' = "queued" => UNCHANGED <<api, rpc, next_retry_at>>
  <1>a. pc \in [Run -> RunPCs] /\ queue \in [Delays -> Nat] /\ 0 \in Delays /\ None \notin Run
        /\ worker_id \in Run \cup {None}
    BY TimeAssumption, NoneAssumption DEF TInv, TypeOK, Delays
  <1>0. ASSUME \A d \in Delays : queue[d] > 0 => queue'[d] > 0,
               \A s \in Run : pc[s] \in {"acquire", "start"} => pc'[s] \in {"acquire", "start"}
        PROVE  SomeoneWillDeliver => SomeoneWillDeliver'
    BY <1>0 DEF SomeoneWillDeliver
  <1>1. CASE Deliver(r)
    <2>1. pc'[r] = "acquire"
      BY <1>a, <1>1 DEF Deliver, Runnable, Goto
    <2> QED BY <1>1, <2>1 DEF Deliver, SomeoneWillDeliver, row, sweep
  <1>2. CASE AcquireLease(r)
    BY <1>a, <1>0, <1>2 DEF AcquireLease, Goto, sweep
  <1>3. CASE LeaseConflict(r)
    <2>1. pc[worker_id] = "start" /\ worker_id \in Run \ {r}
      BY <1>a, <1>3 DEF LeaseConflict, Drop, Awaiting, LeaseFree
    <2>2. pc'[worker_id] = "start"
      BY <1>a, <1>3, <2>1 DEF LeaseConflict, Leave, Goto
    <2> QED BY <1>3, <2>1, <2>2 DEF LeaseConflict, SomeoneWillDeliver, row, sweep
  <1>4. CASE StartJob(r)
    BY <1>4 DEF StartJob
  <1>5. CASE StartRefused(r)
    BY <1>5 DEF StartRefused, Drop, Awaiting
  <1>6. CASE BeginTask(r) \/ TaskEnds(r) \/ PollCancelled(r) \/ CheckCancelled(r) \/ WorkerStop(r)
             \/ ExtendLease(r) \/ OutcomeRefused(r) \/ ReleaseLease(r)
    BY <1>a, <1>0, <1>6 DEF BeginTask, TaskEnds, PollCancelled, CheckCancelled, WorkerStop,
          ExtendLease, OutcomeRefused, ReleaseLease, Leave, Goto, row, sweep
  <1>7. CASE CompleteJob(r) \/ ScheduleRetry(r) \/ FailPermanently(r)
    BY <1>7 DEF CompleteJob, ScheduleRetry, FailPermanently, Fenced
  <1>8. CASE RequeueWithDelay(r)
    <2>1. attempt[r] \in 1 .. MaxRetries
      BY <1>8, RetryAssumption
      DEF RequeueWithDelay, Executing, TInv, TypeOK, Counted, WithinBudget
    <2>2. Backoff(attempt[r]) \in Delays
      BY <2>1, BackoffInRange, TimeAssumption DEF Delays
    <2>3. \A d \in Delays : queue[d] > 0 => queue'[d] > 0
      BY <1>a, <1>8, <2>2, PutKeeps DEF RequeueWithDelay
    <2> QED BY <1>a, <1>0, <1>8, <2>3 DEF RequeueWithDelay, Goto, row, sweep
  <1>9. CASE Unschedule(r)
    BY <1>9 DEF Unschedule, Drop, Awaiting
  <1>10. CASE WorkerCrash(r)
    <2>1. pc[r] \notin {"acquire", "start"}
      BY <1>10 DEF WorkerCrash, Drop, Awaiting
    <2> QED BY <1>a, <1>0, <1>10, <2>1 DEF WorkerCrash, Leave, Goto, row, sweep
  <1> QED BY <1>1, <1>2, <1>3, <1>4, <1>5, <1>6, <1>7, <1>8, <1>9, <1>10 DEF WorkerStep

\* One tick brings every delivery nearer and loses none.
LEMMA TickKeeps ==
    ASSUME queue \in [Delays -> Nat], Tick, SomeoneWillDeliver
    PROVE  SomeoneWillDeliver'
  <1>a. MaxDelay \in Nat \ {0} /\ UNCHANGED pc
    BY TimeAssumption DEF Tick, local
  <1>1. CASE \E r \in Run : pc[r] \in {"acquire", "start"}
    BY <1>a, <1>1 DEF SomeoneWillDeliver
  <1>2. ASSUME NEW d \in Delays, queue[d] > 0 PROVE \E e \in Delays : queue'[e] > 0
    <2>1. \A e \in Delays : queue'[e] = (IF e = 0 THEN queue[0] ELSE 0)
                                          + (IF e < MaxDelay THEN queue[e + 1] ELSE 0)
      BY DEF Tick
    <2>2. CASE d = 0
      <3>1. queue'[0] = queue[0] + queue[1] /\ queue[1] \in Nat /\ 0 \in Delays
        BY <1>a, <2>1 DEF Delays
      <3> QED BY <1>2, <2>2, <3>1 DEF Delays
    <2>3. CASE d # 0
      <3>1. d - 1 \in Delays /\ d - 1 < MaxDelay
        BY <1>a, <2>3 DEF Delays
      <3>2. queue'[d - 1] = (IF d - 1 = 0 THEN queue[0] ELSE 0) + queue[d]
        BY <1>a, <2>1, <3>1 DEF Delays
      <3> QED BY <1>a, <1>2, <3>1, <3>2 DEF Delays
    <2> QED BY <2>2, <2>3
  <1> QED BY <1>1, <1>2 DEF SomeoneWillDeliver

\* No sweep reclaims a lease while another stands between its enqueue and its acknowledgement,
\* which would take the new delivery for the old one.
ReclaimApart == \A p, q \in Reaper : ReclaimLease(p) => rpc[q] # "ack"
ReclaimsApart == [][ReclaimApart]_vars

\* A queued job can always still get a worker, through any crash of the API, the workers or
\* the reapers and any refusal of the queue: QueuedIsOwed, however many reapers there are, as
\* long as ReclaimsApart.
THEOREM QueuedOwedApart == Spec /\ ReclaimsApart => []QueuedIsOwed
  <1>1. Init => QueueCovered
    BY DEF Init, QueueCovered, QueuedIsOwed
  <1>2. TInv /\ CreateIsFirst /\ QueueCovered /\ [Next]_vars /\ [ReclaimApart]_vars => QueueCovered'
    <2> SUFFICES ASSUME TInv, CreateIsFirst, QueueCovered, [Next]_vars, [ReclaimApart]_vars
                 PROVE  QueueCovered'
      OBVIOUS
    <2>a. /\ queue \in [Delays -> Nat] /\ 0 \in Delays /\ None \notin Int
          /\ rpc \in [Reaper -> ReaperPCs] /\ pc \in [Run -> RunPCs]
          /\ next_retry_at \in Delays \cup {None} /\ todo \in [Reaper -> 0 .. 2]
      BY TimeAssumption, NoneAssumption DEF TInv, TypeOK, Delays
    <2>b. dropped => dropped'
      BY DroppedStays
    <2>c. Put(0) => SomeoneWillDeliver'
      BY <2>a DEF Put, SomeoneWillDeliver
    <2>d. UNCHANGED pc /\ (UNCHANGED queue \/ Put(0)) => (SomeoneWillDeliver => SomeoneWillDeliver')
      BY <2>c DEF SomeoneWillDeliver
    <2>0. ASSUME status' = "queued" => status = "queued" /\ UNCHANGED next_retry_at,
                 status' = "none" => status = "none", UNCHANGED rpc,
                 status' = "queued" /\ ~dropped' => (SomeoneWillDeliver => SomeoneWillDeliver'),
                 status' = "queued" /\ ~dropped' =>
                    (UNCHANGED api \/ SomeoneWillDeliver' \/ api' \in {"enqueue", "mark"})
          PROVE  QueueCovered'
      BY <2>0, <2>b DEF QueueCovered, QueuedIsOwed
    <2>1. CASE ApiStep \/ ApiCrash
      <3>1. CASE CreateJob
        BY <3>1 DEF CreateJob, CreateIsFirst, QueueCovered, QueuedIsOwed, sweep
      <3>2. CASE Enqueue
        <4>1. (UNCHANGED queue \/ Put(0)) /\ UNCHANGED <<pc, rpc, status, next_retry_at>>
          BY <3>2 DEF Enqueue, row, local, sweep
        <4>2. SomeoneWillDeliver' \/ api' = "mark"
          BY <2>c, <3>2 DEF Enqueue
        <4> QED BY <2>0, <2>d, <4>1, <4>2
      <3>3. CASE MarkEnqueueFailed
        BY <2>0, <3>3 DEF MarkEnqueueFailed, sweep
      <3>4. CASE ApiCrash
        BY <2>0, <3>4 DEF ApiCrash, Drop, Awaiting, row, sweep
      <3> QED BY <2>1, <3>1, <3>2, <3>3, <3>4 DEF ApiStep
    <2>2. CASE CancelJob
      BY <2>0, <2>2 DEF CancelJob, sweep
    <2>3. CASE Tick
      <3>1. /\ UNCHANGED <<status, api, rpc, dropped>>
            /\ next_retry_at # None => next_retry_at' # None
        BY <2>a, <2>3 DEF Tick, CountDown, sweep, history, Delays
      <3>2. SomeoneWillDeliver => SomeoneWillDeliver'
        BY <2>a, <2>3, TickKeeps
      <3> QED BY <3>1, <3>2 DEF QueueCovered, QueuedIsOwed
    <2>4. ASSUME NEW r \in Run, WorkerStep(r) \/ TaskEnds(r) \/ WorkerCrash(r) \/ WorkerStop(r)
          PROVE  QueueCovered'
      <3>1. UNCHANGED rpc /\ (status' # status => status' \notin {"queued", "none"})
        BY <2>4 DEF WorkerStep, Deliver, AcquireLease, LeaseConflict, StartJob, StartRefused,
             BeginTask, TaskEnds, PollCancelled, CheckCancelled, WorkerStop, ExtendLease,
             OutcomeRefused, ReleaseLease, CompleteJob, ScheduleRetry, FailPermanently,
             RequeueWithDelay, Unschedule, WorkerCrash, row, sweep
      <3>2. status' = "queued" /\ ~dropped' =>
              /\ SomeoneWillDeliver => SomeoneWillDeliver'
              /\ UNCHANGED <<api, next_retry_at>>
        BY <2>4, <3>1, DeliveryKept
      <3> QED BY <2>b, <3>1, <3>2 DEF QueueCovered, QueuedIsOwed
    <2>5. ASSUME NEW p \in Reaper, ReaperStep(p) \/ ReaperCrash(p)
          PROVE  QueueCovered'
      <3>a. \A q \in Reaper \ {p} : rpc'[q] = rpc[q]
        BY <2>a, <2>5 DEF ReaperStep, ScanExpired, ScanPending, ReclaimLease, ReclaimRefused,
             EnqueueReclaimed, AckDelivery, ReaperCrash, Proceed
      <3>b. UNCHANGED <<pc, api, dropped>>
        BY <2>5 DEF ReaperStep, ScanExpired, ScanPending, ReclaimLease, ReclaimRefused,
             EnqueueReclaimed, AckDelivery, ReaperCrash, local, history
      <3>0. ASSUME rpc'[p] # "ack", status' # "none",
                   UNCHANGED <<status, next_retry_at>>, UNCHANGED queue \/ Put(0)
            PROVE  QueueCovered'
        <4>1. \A q \in Reaper : rpc'[q] = "ack" => rpc[q] = "ack"
          BY <3>0, <3>a
        <4> QED BY <2>d, <3>0, <3>b, <4>1 DEF QueueCovered, QueuedIsOwed
      <3>1. CASE ScanExpired(p) \/ ScanPending(p)
        BY <2>a, <3>0, <3>1
        DEF ScanExpired, ScanPending, Expired, DeliveryOwed, row, QueueCovered
      <3>2. CASE ReclaimLease(p)
        <4>1. rpc'[p] = "enqueue" /\ rpc[p] = "reclaim"
          BY <2>a, <3>2 DEF ReclaimLease, Proceed
        <4>2. \A q \in Reaper : rpc[q] # "ack"
          BY <3>2, <4>1 DEF ReclaimApart, vars, sweep
        <4>3. \A q \in Reaper : rpc'[q] # "ack"
          BY <3>a, <4>1, <4>2
        <4>4. status' = "queued" /\ next_retry_at' # None
          BY <2>a, <3>2 DEF ReclaimLease
        <4> QED BY <4>3, <4>4 DEF QueueCovered, QueuedIsOwed
      <3>3. CASE ReclaimRefused(p) \/ ReaperCrash(p)
        BY <2>a, <3>0, <3>3 DEF ReclaimRefused, ReaperCrash, Proceed, row, QueueCovered
      <3>4. CASE EnqueueReclaimed(p)
        <4>1. CASE rpc'[p] = "ack"
          <5>1. SomeoneWillDeliver' /\ UNCHANGED row
            BY <2>a, <2>c, <3>4, <4>1 DEF EnqueueReclaimed, Proceed
          <5>2. status' # "none"
            BY <3>4, <5>1 DEF EnqueueReclaimed, row, QueueCovered
          <5> QED BY <5>1, <5>2 DEF QueueCovered, QueuedIsOwed
        <4>2. CASE rpc'[p] # "ack"
          BY <3>0, <3>4, <4>2 DEF EnqueueReclaimed, row, QueueCovered
        <4> QED BY <4>1, <4>2
      <3>5. CASE AckDelivery(p)
        <4>1. status = "queued" /\ ~dropped => SomeoneWillDeliver'
          BY <2>d, <3>b, <3>5 DEF AckDelivery, QueueCovered
        <4>2. status # "none" /\ UNCHANGED <<status, dropped>>
          BY <3>b, <3>5 DEF AckDelivery, QueueCovered
        <4> QED BY <4>1, <4>2 DEF QueueCovered, QueuedIsOwed
      <3> QED BY <2>5, <3>1, <3>2, <3>3, <3>4, <3>5 DEF ReaperStep
    <2>6. CASE UNCHANGED vars
      BY <2>6 DEF vars, row, sweep, history, local, QueueCovered, QueuedIsOwed, SomeoneWillDeliver
    <2> QED BY <2>1, <2>2, <2>3, <2>4, <2>5, <2>6 DEF Next
  <1>3. QueueCovered => QueuedIsOwed
    BY DEF QueueCovered
  <1> QED BY <1>1, <1>2, <1>3, TypeInvariant, CreatedOnce, PTL DEF Spec, ReclaimsApart

\* With one reaper, as the Compose stack deploys it, that is no condition: QueuedIsOwed.
THEOREM QueuedOwed ==
  ASSUME \A p, q \in Reaper : p = q
  PROVE  Spec => []QueuedIsOwed
  <1>1. \A p, q \in Reaper : ReclaimLease(p) => rpc[q] # "ack"
    <2> SUFFICES ASSUME NEW p \in Reaper, ReclaimLease(p), NEW q \in Reaper
                 PROVE  rpc[q] # "ack"
      OBVIOUS
    <2>1. rpc[p] = "reclaim" /\ p = q
      BY DEF ReclaimLease
    <2> QED BY <2>1
  <1>2. [ReclaimApart]_vars
    BY <1>1 DEF ReclaimApart
  <1> QED BY <1>2, QueuedOwedApart, PTL DEF ReclaimsApart

-----------------------------------------------------------------------------
(* The promised lifecycle, when deliveries are not duplicated. *)

\* The faults that neither deliver twice nor end a job from outside its attempt.
SingleDeliveryFaults == {"worker_crash", "worker_stop", "api_crash", "sweep_error", "retry_error"}

\* The only claims to a start: the API's, those in the queue on days D, those of
\* the invocations R and those of the reapers P.
Only(a, D, R, P) ==
    /\ (api = "enqueue") = a
    /\ \A d \in Delays : queue[d] = IF d \in D THEN 1 ELSE 0
    /\ \A r \in Run : pc[r] \in {"acquire", "start", "requeue"} <=> r \in R
    /\ \A p \in Reaper : rpc[p] = "enqueue" <=> p \in P

Nowhere == Only(FALSE, {}, {}, {})

\* At most one claim to a start exists.
AtMostOne ==
    \/ Nowhere
    \/ Only(TRUE, {}, {}, {})
    \/ \E d \in Delays : Only(FALSE, {d}, {}, {})
    \/ \E r \in Run : Only(FALSE, {}, {r}, {})
    \/ \E p \in Reaper : Only(FALSE, {}, {}, {p})

\* Only a queued, retrying or cancelled job has a claim; of the first two a claim is new
\* when the row says that one is owed.
ClaimsFitRow ==
    /\ status \notin {"queued", "cancelled"} /\ ~Retrying => Nowhere
    /\ status = "queued" /\ next_retry_at # None
          => Nowhere \/ \E p \in Reaper : rpc[p] \in {"enqueue", "ack"}
    /\ status = "none" => next_retry_at = None

\* An invocation about to start knows how many attempts the row counts; one that owes a
\* delivery, or owes taking its promise back, has a failed or cancelled job.
ClaimantKnows ==
    \A r \in Run :
        /\ pc[r] \in {"acquire", "start"} => attempt[r] = attempts
        /\ pc[r] \in {"requeue", "unschedule"} => status \in {"failed", "cancelled"}
        /\ pc[r] = "unschedule" => Nowhere

\* What a sweep found stays as it was until the sweep acts on it.
SweepKnows ==
    \A p \in Reaper :
        /\ rpc[p] \in {"pending", "reclaim"}
              => status = "cancelled" \/ (status = "running" /\ LeaseLapsed)
        /\ todo[p] = IF rpc[p] \in {"enqueue", "ack"} THEN 1 ELSE 0

SingleInv == api # "mark" /\ AtMostOne /\ ClaimsFitRow /\ ClaimantKnows /\ SweepKnows

\* Claims stay where they are.
ClaimsStay ==
    /\ (api' = "enqueue") = (api = "enqueue")
    /\ UNCHANGED queue
    /\ \A r \in Run : pc'[r] \in {"acquire", "start", "requeue"} <=> pc[r] \in {"acquire", "start", "requeue"}
    /\ \A p \in Reaper : rpc'[p] = "enqueue" <=> rpc[p] = "enqueue"

LEMMA ClaimsKept ==
    ASSUME ClaimsStay
    PROVE  (Nowhere' <=> Nowhere) /\ (AtMostOne => AtMostOne')
  <1>1. \A a, D, R, P : Only(a, D, R, P)' <=> Only(a, D, R, P)
    BY DEF ClaimsStay, Only
  <1> QED BY <1>1 DEF Nowhere, AtMostOne

\* Whoever has the claim has the only one.
LEMMA OneClaim ==
    ASSUME AtMostOne
    PROVE  /\ api = "enqueue" => Only(TRUE, {}, {}, {})
           /\ \A d \in Delays : queue[d] > 0 => Only(FALSE, {d}, {}, {})
           /\ \A r \in Run : pc[r] \in {"acquire", "start", "requeue"} => Only(FALSE, {}, {r}, {})
           /\ \A p \in Reaper : rpc[p] = "enqueue" => Only(FALSE, {}, {}, {p})
  BY DEF AtMostOne, Nowhere, Only

\* A step that leaves the row's status, its promise and its count alone, and no new claimant.
LEMMA RowKept ==
    ASSUME SingleInv, ClaimsStay, UNCHANGED <<status, next_retry_at, attempts, rpc, todo>>,
           api' # "mark", LeaseLapsed => LeaseLapsed',
           \A r \in Run : pc'[r] \in {"acquire", "start"} => pc[r] \in {"acquire", "start"} /\ attempt'[r] = attempt[r],
           \A r \in Run : pc'[r] \in {"requeue", "unschedule"} => pc[r] = pc'[r]
    PROVE  SingleInv'
  BY ClaimsKept DEF SingleInv, ClaimsFitRow, ClaimantKnows, SweepKnows, Retrying

\* The same when the only claim is used up.
LEMMA ClaimUsedUp ==
    ASSUME SingleInv, Nowhere', UNCHANGED <<status, next_retry_at, attempts, rpc, todo>>,
           api' # "mark", LeaseLapsed => LeaseLapsed',
           \A r \in Run : pc'[r] \notin {"acquire", "start"},
           \A r \in Run : pc'[r] \in {"requeue", "unschedule"} => pc[r] \in {"requeue", "unschedule"}
    PROVE  SingleInv'
  BY DEF SingleInv, AtMostOne, ClaimsFitRow, ClaimantKnows, SweepKnows, Retrying

LEMMA SingleInit == Init => SingleInv
  BY DEF Init, SingleInv, AtMostOne, Nowhere, Only, ClaimsFitRow, ClaimantKnows, SweepKnows, Retrying

LEMMA SingleApi ==
    ASSUME TInv, CreateIsFirst, SingleInv, Faults \subseteq SingleDeliveryFaults \cup {"reaper_crash"},
           ApiStep \/ ApiCrash \/ CancelJob \/ Tick
    PROVE  SingleInv'
  <1>a. /\ queue \in [Delays -> Nat] /\ 0 \in Delays /\ MaxDelay \in Nat \ {0}
        /\ pc \in [Run -> RunPCs] /\ rpc \in [Reaper -> ReaperPCs]
        /\ lease_expires_at \in (-1 .. LeaseDuration) \cup {None} /\ None \notin Int
        /\ next_retry_at \in Delays \cup {None} /\ LeaseDuration \in Nat
    BY TimeAssumption, NoneAssumption DEF TInv, TypeOK, Delays
  <1>1. CASE CreateJob
    <2>1. status = "none" /\ Nowhere /\ next_retry_at = None
      BY <1>1 DEF CreateJob, CreateIsFirst, SingleInv, ClaimsFitRow, Retrying
    <2>2. Only(TRUE, {}, {}, {})'
      BY <1>1, <2>1 DEF CreateJob, Nowhere, Only, local, sweep
    <2> QED BY <1>1, <2>1, <2>2
        DEF CreateJob, SingleInv, AtMostOne, ClaimsFitRow, ClaimantKnows, SweepKnows, Nowhere, Only,
            Retrying, local, sweep
  <1>2. CASE Enqueue
    <2>1. Put(0) /\ api' = "done" /\ UNCHANGED <<row, local, sweep>>
      BY <1>2 DEF Enqueue, Fault, SingleDeliveryFaults
    <2>2. Only(TRUE, {}, {}, {})
      BY <1>2, OneClaim DEF Enqueue, SingleInv
    <2>3. Only(FALSE, {0}, {}, {})'
      BY <1>a, <2>1, <2>2 DEF Put, Only, local, sweep
    <2>4. AtMostOne'
      BY <1>a, <2>3 DEF AtMostOne
    <2> QED BY <1>a, <2>1, <2>2, <2>3, <2>4
        DEF SingleInv, ClaimsFitRow, ClaimantKnows, SweepKnows, Nowhere, Only,
            Retrying, LeaseLapsed, row, local, sweep
  <1>3. ~MarkEnqueueFailed
    BY DEF MarkEnqueueFailed, SingleInv
  <1>4. CASE ApiCrash
    <2>1. api = "enqueue" /\ api' = "done" /\ UNCHANGED <<row, queue, local, sweep>>
      BY <1>4 DEF ApiCrash, SingleInv
    <2>2. Only(TRUE, {}, {}, {})
      BY <2>1, OneClaim DEF SingleInv
    <2>3. Nowhere'
      BY <2>1, <2>2 DEF Nowhere, Only, local, sweep
    <2> QED BY <2>1, <2>2, <2>3, ClaimUsedUp DEF Only, LeaseLapsed, row, local, sweep
  <1>5. CASE CancelJob
    <2>1. ClaimsStay
      BY <1>5 DEF CancelJob, ClaimsStay, local, sweep
    <2> QED BY <1>5, <2>1, ClaimsKept
        DEF CancelJob, SingleInv, ClaimsFitRow, ClaimantKnows, SweepKnows, Retrying, LeaseLapsed,
            local, sweep
  <1>6. CASE Tick
    <2>1. /\ UNCHANGED <<status, attempts, api, local, sweep>>
          /\ LeaseLapsed => LeaseLapsed'
          /\ next_retry_at' = None <=> next_retry_at = None
      BY <1>a, <1>6 DEF Tick, CountDown, LeaseLapsed, Delays
    <2>2. \A d \in Delays : queue'[d] = (IF d = 0 THEN queue[0] ELSE 0)
                                          + (IF d < MaxDelay THEN queue[d + 1] ELSE 0)
      BY <1>6 DEF Tick
    <2>3. ASSUME \A d \in Delays : queue[d] = 0 PROVE \A d \in Delays : queue'[d] = 0
      <3> SUFFICES ASSUME NEW d \in Delays PROVE queue'[d] = 0
        OBVIOUS
      <3>1. queue'[d] = (IF d = 0 THEN queue[0] ELSE 0) + (IF d < MaxDelay THEN queue[d + 1] ELSE 0)
        BY <2>2
      <3>2. queue[0] = 0 /\ (d < MaxDelay => queue[d + 1] = 0)
        BY <1>a, <2>3 DEF Delays
      <3> QED BY <3>1, <3>2
    <2>4. Nowhere <=> Nowhere'
      <3>1. ASSUME NEW d \in Delays, queue[d] > 0 PROVE \E e \in Delays : queue'[e] > 0
        <4>1. CASE d = 0
          BY <1>a, <2>2, <3>1, <4>1 DEF Delays
        <4>2. CASE d # 0
          <5>1. d - 1 \in Delays /\ d - 1 < MaxDelay /\ queue[d - 1 + 1] = queue[d] /\ queue[0] \in Nat
            BY <1>a, <4>2 DEF Delays
          <5>2. queue'[d - 1] = (IF d - 1 = 0 THEN queue[0] ELSE 0) + queue[d]
            BY <2>2, <5>1
          <5> QED BY <1>a, <3>1, <5>1, <5>2
        <4> QED BY <4>1, <4>2
      <3>2. (\A d \in Delays : queue'[d] = 0) => (\A d \in Delays : queue[d] = 0)
        BY <1>a, <3>1
      <3> QED BY <2>1, <2>3, <3>2 DEF Nowhere, Only, local, sweep
    <2>5. AtMostOne'
      <3>1. ASSUME NEW d \in Delays, Only(FALSE, {d}, {}, {}) PROVE \E e \in Delays : Only(FALSE, {e}, {}, {})'
        <4>1. \A e \in Delays : queue[e] = IF e = d THEN 1 ELSE 0
          BY <3>1 DEF Only
        <4>2. CASE d = 0
          <5>1. ASSUME NEW e \in Delays PROVE queue'[e] = IF e = 0 THEN 1 ELSE 0
            <6>1. queue[0] = 1 /\ (e < MaxDelay => queue[e + 1] = 0)
              BY <1>a, <4>1, <4>2 DEF Delays
            <6>2. queue'[e] = (IF e = 0 THEN queue[0] ELSE 0) + (IF e < MaxDelay THEN queue[e + 1] ELSE 0)
              BY <2>2
            <6> QED BY <6>1, <6>2
          <5> QED BY <1>a, <2>1, <3>1, <5>1 DEF Only, local, sweep
        <4>3. CASE d # 0
          <5>1. d - 1 \in Delays
            BY <1>a, <4>3 DEF Delays
          <5>2. ASSUME NEW e \in Delays PROVE queue'[e] = IF e = d - 1 THEN 1 ELSE 0
            <6>1. queue[0] = 0 /\ (e < MaxDelay => queue[e + 1] = IF e = d - 1 THEN 1 ELSE 0)
              BY <1>a, <4>1, <4>3 DEF Delays
            <6>2. queue'[e] = (IF e = 0 THEN queue[0] ELSE 0) + (IF e < MaxDelay THEN queue[e + 1] ELSE 0)
              BY <2>2
            <6>3. e = d - 1 => e < MaxDelay
              BY <1>a, <4>3 DEF Delays
            <6> QED BY <6>1, <6>2, <6>3
          <5> QED BY <2>1, <3>1, <5>1, <5>2 DEF Only, local, sweep
        <4> QED BY <4>2, <4>3
      <3>2. ASSUME NEW a, NEW R, NEW P, Only(a, {}, R, P) PROVE Only(a, {}, R, P)'
        BY <2>1, <2>3, <3>2 DEF Only, local, sweep
      <3> QED BY <2>4, <3>1, <3>2 DEF SingleInv, AtMostOne
    <2> QED BY <2>1, <2>4, <2>5
        DEF SingleInv, ClaimsFitRow, ClaimantKnows, SweepKnows, Retrying, local, sweep
  <1> QED BY <1>1, <1>2, <1>3, <1>4, <1>5, <1>6 DEF ApiStep

LEMMA SingleWorker ==
    ASSUME TInv, SingleInv, Faults \subseteq SingleDeliveryFaults \cup {"reaper_crash"},
           NEW r \in Run, WorkerStep(r) \/ TaskEnds(r) \/ WorkerCrash(r) \/ WorkerStop(r)
    PROVE  SingleInv'
  <1>a. /\ queue \in [Delays -> Nat] /\ 0 \in Delays /\ pc \in [Run -> RunPCs]
        /\ attempt \in [Run -> Nat] /\ attempts \in Nat
        /\ lease_expires_at \in (-1 .. LeaseDuration) \cup {None} /\ None \notin Int
        /\ next_retry_at \in Delays \cup {None} /\ None \notin Run /\ LeaseDuration \in Nat
    BY TimeAssumption, NoneAssumption DEF TInv, TypeOK, Delays
  <1>b. pc[r] \in {"acquire", "start", "requeue"} => Only(FALSE, {}, {r}, {})
    BY OneClaim DEF SingleInv
  <1>c. ASSUME Only(FALSE, {}, {r}, {}), \A s \in Run \ {r} : pc'[s] = pc[s],
               pc'[r] \notin {"acquire", "start", "requeue"}, UNCHANGED <<api, queue, rpc>>
        PROVE  Nowhere'
    BY <1>c DEF Only, Nowhere
  <1>1. CASE Deliver(r)
    <2>1. /\ queue[0] > 0 /\ queue' = [queue EXCEPT ![0] = @ - 1]
          /\ UNCHANGED <<row, api, sweep>> /\ pc[r] = "idle"
          /\ \/ pc' = [pc EXCEPT ![r] = "acquire"] /\ attempt' = [attempt EXCEPT ![r] = attempts]
             \/ UNCHANGED <<pc, attempt>>
      BY <1>1 DEF Deliver, Fresh, Goto
    <2>2. Only(FALSE, {0}, {}, {})
      BY <1>a, <2>1, OneClaim DEF SingleInv
    <2>3. \A d \in Delays : queue'[d] = 0
      BY <1>a, <2>1, <2>2 DEF Only
    <2>4. CASE UNCHANGED <<pc, attempt>>
      <3>1. Nowhere'
        BY <2>1, <2>2, <2>3, <2>4 DEF Nowhere, Only, sweep
      <3> QED BY <2>1, <2>2, <2>4, <3>1, ClaimUsedUp DEF Only, SingleInv, LeaseLapsed, row, sweep
    <2>5. CASE pc' = [pc EXCEPT ![r] = "acquire"] /\ attempt' = [attempt EXCEPT ![r] = attempts]
      <3>1. Only(FALSE, {}, {r}, {})'
        BY <1>a, <2>1, <2>2, <2>3, <2>5 DEF Only, sweep
      <3>2. ~Nowhere
        BY <1>a, <2>1 DEF Nowhere, Only
      <3> QED BY <1>a, <2>1, <2>2, <2>5, <3>1, <3>2
          DEF SingleInv, AtMostOne, ClaimsFitRow, ClaimantKnows, SweepKnows, Only, Retrying, LeaseLapsed,
              row, sweep
    <2> QED BY <2>1, <2>4, <2>5
  <1>2. CASE AcquireLease(r)
    <2>1. ClaimsStay
      BY <1>a, <1>2 DEF AcquireLease, ClaimsStay, Goto, sweep
    <2>2. ~Nowhere
      BY <1>2 DEF AcquireLease, Nowhere, Only
    <2>3. \A p \in Reaper : rpc[p] \in {"pending", "reclaim"} => status = "cancelled"
      BY <2>2 DEF SingleInv, SweepKnows, ClaimsFitRow, Retrying
    <2>4. \A s \in Run : pc'[s] # pc[s] => pc[s] = "acquire" /\ pc'[s] = "start"
      BY <1>a, <1>2 DEF AcquireLease, Goto
    <2> QED BY <1>2, <2>1, <2>2, <2>3, <2>4, ClaimsKept
        DEF AcquireLease, SingleInv, ClaimsFitRow, ClaimantKnows, SweepKnows, Retrying, sweep
  <1>3. CASE LeaseConflict(r) \/ StartRefused(r)
    <2>1. /\ pc[r] \in {"acquire", "start"} /\ UNCHANGED <<row, queue, api, sweep>>
          /\ \A s \in Run \ {r} : pc'[s] = pc[s]
          /\ pc'[r] \in {"idle", "release"}
      BY <1>a, <1>3 DEF LeaseConflict, StartRefused, Leave, Goto
    <2>2. Nowhere'
      BY <1>b, <1>c, <2>1 DEF sweep
    <2>3. \A s \in Run : pc'[s] \notin {"acquire", "start"}
      BY <2>1, <2>2 DEF Nowhere, Only
    <2>4. \A s \in Run : pc'[s] \in {"requeue", "unschedule"} => pc[s] \in {"requeue", "unschedule"}
      BY <2>1
    <2>5. api' # "mark" /\ (LeaseLapsed => LeaseLapsed')
      BY <2>1 DEF SingleInv, LeaseLapsed, row
    <2> QED BY <2>1, <2>2, <2>3, <2>4, <2>5, ClaimUsedUp DEF row, sweep
  <1>4. CASE StartJob(r)
    <2>1. Nowhere' /\ \A s \in Run \ {r} : pc'[s] = pc[s] /\ pc[s] \notin {"acquire", "start", "requeue"}
      BY <1>a, <1>b, <1>c, <1>4 DEF StartJob, Goto, Only, sweep
    <2>2. ~Nowhere /\ pc'[r] = "begin"
      BY <1>a, <1>4 DEF StartJob, Goto, Nowhere, Only
    <2> QED BY <1>4, <2>1, <2>2
        DEF StartJob, Startable, SingleInv, AtMostOne, ClaimsFitRow, ClaimantKnows, SweepKnows, Retrying,
            sweep
  <1>5. CASE BeginTask(r) \/ TaskEnds(r) \/ PollCancelled(r) \/ CheckCancelled(r) \/ WorkerStop(r)
             \/ OutcomeRefused(r)
    <2>1. /\ pc[r] \in {"begin", "exec", "check", "write"}
          /\ pc'[r] \in {"exec", "check", "extend", "write", "release"}
          /\ \A s \in Run \ {r} : pc'[s] = pc[s]
          /\ UNCHANGED <<attempt, status, attempts, lease_expires_at, next_retry_at, queue, api, sweep>>
      BY <1>a, <1>5 DEF BeginTask, TaskEnds, PollCancelled, CheckCancelled, WorkerStop, OutcomeRefused,
          Goto, row
    <2>2. ClaimsStay
      BY <2>1 DEF ClaimsStay, sweep
    <2> QED BY <2>1, <2>2, RowKept DEF SingleInv, LeaseLapsed, sweep
  <1>6. CASE ExtendLease(r)
    <2>1. /\ pc[r] = "extend" /\ pc'[r] \in {"exec", "release"}
          /\ \A s \in Run \ {r} : pc'[s] = pc[s]
          /\ UNCHANGED <<attempt, status, attempts, next_retry_at, queue, api, sweep>>
          /\ LeaseLapsed => LeaseLapsed'
      BY <1>a, <1>6 DEF ExtendLease, Goto, Owns, LeaseLive, LeaseLapsed
    <2>2. ClaimsStay
      BY <2>1 DEF ClaimsStay, sweep
    <2> QED BY <2>1, <2>2, RowKept DEF SingleInv, sweep
  <1>7. CASE CompleteJob(r) \/ FailPermanently(r)
    <2>1. /\ pc[r] = "write" /\ pc'[r] = "release" /\ status = "running" /\ ~LeaseLapsed
          /\ \A s \in Run \ {r} : pc'[s] = pc[s]
          /\ status' \in {"completed", "failed"} /\ next_retry_at' = None
          /\ UNCHANGED <<attempt, attempts, queue, api, sweep>>
      BY <1>a, <1>7 DEF CompleteJob, FailPermanently, Goto, Fenced, Owns, LeaseLive, LeaseLapsed
    <2>2. ClaimsStay
      BY <2>1 DEF ClaimsStay, sweep
    <2>3. Nowhere
      BY <2>1 DEF SingleInv, ClaimsFitRow, Retrying
    <2> QED BY <2>1, <2>2, <2>3, ClaimsKept
        DEF SingleInv, ClaimsFitRow, ClaimantKnows, SweepKnows, sweep
  <1>8. CASE ScheduleRetry(r)
    <2>1. /\ pc[r] = "write" /\ pc'[r] = "requeue" /\ status = "running" /\ ~LeaseLapsed
          /\ \A s \in Run \ {r} : pc'[s] = pc[s]
          /\ status' = "failed" /\ next_retry_at' = Backoff(attempt[r])
          /\ UNCHANGED <<attempt, attempts, queue, api, sweep>>
      BY <1>a, <1>8 DEF ScheduleRetry, Goto, Fenced, Owns, LeaseLive, LeaseLapsed
    <2>2. Nowhere
      BY <2>1 DEF SingleInv, ClaimsFitRow, Retrying
    <2>3. Only(FALSE, {}, {r}, {})'
      BY <2>1, <2>2 DEF Nowhere, Only, sweep
    <2>4. next_retry_at' # None
      <3>1. attempt[r] \in 1 .. MaxRetries
        BY <1>8, RetryAssumption DEF ScheduleRetry, ShouldRetry, Executing, TInv, TypeOK, Counted
      <3> QED BY <1>a, <2>1, <3>1, BackoffInRange
    <2>5. \A s \in Run : pc[s] \notin {"acquire", "start", "requeue", "unschedule"}
      BY <2>1, <2>2 DEF SingleInv, ClaimantKnows, Nowhere, Only
    <2> QED BY <2>1, <2>3, <2>4, <2>5
        DEF SingleInv, AtMostOne, ClaimsFitRow, ClaimantKnows, SweepKnows, Retrying, sweep
  <1>9. CASE RequeueWithDelay(r)
    <2>1. /\ pc[r] = "requeue" /\ UNCHANGED <<row, api, attempt, sweep>>
          /\ \A s \in Run \ {r} : pc'[s] = pc[s]
          /\ \/ Put(Backoff(attempt[r])) /\ pc'[r] = "release"
             \/ UNCHANGED queue /\ pc'[r] = "unschedule"
      BY <1>a, <1>9 DEF RequeueWithDelay, Goto, Fault, SingleDeliveryFaults
    <2>2. Only(FALSE, {}, {r}, {}) /\ status \in {"failed", "cancelled"}
      BY <1>b, <2>1 DEF SingleInv, ClaimantKnows
    <2>3. CASE Put(Backoff(attempt[r])) /\ pc'[r] = "release"
      <3>1. PICK d \in Delays : d = Backoff(attempt[r])
        <4>1. Backoff(attempt[r]) \in 1 .. MaxDelay
          BY <2>1, OwedBackoff
        <4> QED BY <1>a, <4>1, TimeAssumption DEF Delays
      <3>2. Only(FALSE, {d}, {}, {})'
        <4>1. \A e \in Delays : queue[e] = 0
          BY <2>2 DEF Only
        <4>2. \A e \in Delays : queue'[e] = IF e = d THEN 1 ELSE 0
          BY <1>a, <2>3, <3>1, <4>1 DEF Put
        <4> QED BY <2>1, <2>2, <2>3, <4>2 DEF Only, sweep
      <3>3. AtMostOne'
        BY <3>2 DEF AtMostOne
      <3> QED BY <2>1, <2>2, <2>3, <3>3
          DEF SingleInv, ClaimsFitRow, ClaimantKnows, SweepKnows, Nowhere, Only, Retrying, LeaseLapsed,
              row, sweep
    <2>4. CASE UNCHANGED queue /\ pc'[r] = "unschedule"
      <3>1. Nowhere'
        BY <1>c, <2>1, <2>2, <2>4 DEF sweep
      <3> QED BY <2>1, <2>2, <2>4, <3>1, ClaimUsedUp
          DEF Only, SingleInv, LeaseLapsed, row, sweep
    <2> QED BY <2>1, <2>3, <2>4
  <1>10. CASE Unschedule(r)
    <2>1. /\ pc[r] = "unschedule" /\ pc'[r] = "release"
          /\ \A s \in Run \ {r} : pc'[s] = pc[s]
          /\ UNCHANGED <<status, attempts, lease_expires_at, queue, api, attempt, sweep>>
          /\ next_retry_at' \in {next_retry_at, None}
      BY <1>a, <1>10 DEF Unschedule, Goto
    <2>2. ClaimsStay
      BY <2>1 DEF ClaimsStay, sweep
    <2>3. Nowhere
      BY <2>1 DEF SingleInv, ClaimantKnows
    <2> QED BY <2>1, <2>2, <2>3, ClaimsKept
        DEF SingleInv, ClaimsFitRow, ClaimantKnows, SweepKnows, LeaseLapsed, sweep
  <1>11. CASE ReleaseLease(r)
    <2>1. /\ pc[r] = "release" /\ pc'[r] = "idle"
          /\ \A s \in Run \ {r} : pc'[s] = pc[s] /\ attempt'[s] = attempt[s]
          /\ status = "running" => UNCHANGED lease_expires_at
          /\ UNCHANGED <<status, attempts, next_retry_at, queue, api, sweep>>
      BY <1>a, <1>11 DEF ReleaseLease, Releasable, Leave, Goto
    <2>2. ClaimsStay
      BY <2>1 DEF ClaimsStay, sweep
    <2> QED BY <2>1, <2>2, ClaimsKept
        DEF SingleInv, ClaimsFitRow, ClaimantKnows, SweepKnows, LeaseLapsed, Retrying, sweep
  <1>12. CASE WorkerCrash(r)
    <2>1. /\ pc'[r] = "idle" /\ UNCHANGED <<row, queue, api, sweep>>
          /\ \A s \in Run \ {r} : pc'[s] = pc[s] /\ attempt'[s] = attempt[s]
      BY <1>a, <1>12 DEF WorkerCrash, Leave, Goto
    <2>2. CASE pc[r] \in {"acquire", "start", "requeue"}
      <3>1. Nowhere' /\ \A s \in Run \ {r} : pc[s] \notin {"acquire", "start"}
        BY <1>b, <1>c, <2>1, <2>2 DEF Only, sweep
      <3> QED BY <2>1, <3>1, ClaimUsedUp DEF SingleInv, LeaseLapsed, row, sweep
    <2>3. CASE pc[r] \notin {"acquire", "start", "requeue"}
      <3>1. ClaimsStay
        BY <2>1, <2>3 DEF ClaimsStay, sweep
      <3> QED BY <2>1, <3>1, RowKept DEF SingleInv, LeaseLapsed, row, sweep
    <2> QED BY <2>2, <2>3
  <1> QED BY <1>1, <1>2, <1>3, <1>4, <1>5, <1>6, <1>7, <1>8, <1>9, <1>10, <1>11, <1>12 DEF WorkerStep

\* One sweep at a time.
SweepsApart == \A p, q \in Reaper : rpc[p] # "idle" /\ rpc[q] # "idle" => p = q

\* No reaper crashes between its enqueue and its acknowledgement, which would leave the
\* delivery it made owed once more.
AckSurvives == \A p \in Reaper : ReaperCrash(p) => rpc[p] # "ack"

\* While a reaper steps, the others do not sweep.
LEMMA OtherSweepsIdle ==
    ASSUME TInv, SweepKnows, SweepsApart, SweepsApart',
           NEW p \in Reaper, ReaperStep(p) \/ ReaperCrash(p)
    PROVE  \A q \in Reaper \ {p} :
              rpc[q] = "idle" /\ rpc'[q] = "idle" /\ todo[q] = 0 /\ todo'[q] = 0
  <1>a. rpc \in [Reaper -> ReaperPCs] /\ todo \in [Reaper -> 0 .. 2]
    BY DEF TInv, TypeOK
  <1>1. \A q \in Reaper \ {p} : rpc'[q] = rpc[q] /\ todo'[q] = todo[q]
    BY <1>a DEF ReaperStep, ScanExpired, ScanPending, ReclaimLease, ReclaimRefused, EnqueueReclaimed,
         AckDelivery, ReaperCrash, Proceed
  <1>2. rpc[p] # "idle" \/ rpc'[p] # "idle"
    BY <1>a DEF ReaperStep, ScanExpired, ScanPending, ReclaimLease, ReclaimRefused, EnqueueReclaimed,
         AckDelivery, ReaperCrash
  <1>3. \A q \in Reaper \ {p} : rpc[q] = "idle"
    BY <1>1, <1>2 DEF SweepsApart
  <1> QED BY <1>1, <1>3 DEF SweepKnows

LEMMA SingleReaper ==
    ASSUME TInv, SingleInv, Faults \subseteq SingleDeliveryFaults \cup {"reaper_crash"},
           SweepsApart, SweepsApart', [AckSurvives]_vars,
           NEW p \in Reaper, ReaperStep(p) \/ ReaperCrash(p)
    PROVE  SingleInv'
  <1>a. /\ queue \in [Delays -> Nat] /\ 0 \in Delays /\ rpc \in [Reaper -> ReaperPCs]
        /\ todo \in [Reaper -> 0 .. 2] /\ None \notin Int
        /\ \A q \in Reaper \ {p} :
              rpc[q] = "idle" /\ rpc'[q] = "idle" /\ todo[q] = 0 /\ todo'[q] = 0
    BY TimeAssumption, NoneAssumption, OtherSweepsIdle DEF TInv, TypeOK, Delays, SingleInv
  <1>b. UNCHANGED <<api, local, attempts>>
    BY DEF ReaperStep, ScanExpired, ScanPending, ReclaimLease, ReclaimRefused, EnqueueReclaimed,
           AckDelivery, ReaperCrash, row
  <1>c. todo[p] = IF rpc[p] \in {"enqueue", "ack"} THEN 1 ELSE 0
    BY DEF SingleInv, SweepKnows
  <1>d. rpc[p] = "enqueue" => Only(FALSE, {}, {}, {p})
    BY OneClaim DEF SingleInv
  <1>1. CASE ReaperCrash(p)
    <2>1. /\ rpc[p] # "idle" /\ rpc'[p] = "idle" /\ todo'[p] = 0 /\ UNCHANGED <<row, queue>>
      BY <1>a, <1>1 DEF ReaperCrash, Proceed
    <2>2. rpc[p] # "ack"
      BY <1>1, <2>1 DEF AckSurvives, vars, sweep
    <2>3. CASE rpc[p] = "enqueue"
      <3>1. Nowhere'
        BY <1>a, <1>b, <1>d, <2>1, <2>3 DEF Nowhere, Only, local
      <3> QED BY <1>a, <1>b, <2>1, <3>1
          DEF SingleInv, AtMostOne, ClaimsFitRow, ClaimantKnows, SweepKnows, Retrying, row, local
    <2>4. CASE rpc[p] # "enqueue"
      <3>1. ClaimsStay
        BY <1>a, <1>b, <2>1, <2>4 DEF ClaimsStay, local
      <3>2. ClaimsFitRow'
        BY <1>a, <2>1, <2>2, <2>4, <3>1, ClaimsKept DEF SingleInv, ClaimsFitRow, Retrying, row
      <3> QED BY <1>a, <1>b, <2>1, <3>1, <3>2, ClaimsKept
          DEF SingleInv, ClaimantKnows, SweepKnows, row, local
    <2> QED BY <2>3, <2>4
  <1>2. CASE ScanExpired(p)
    <2>1. ClaimsStay
      BY <1>a, <1>b, <1>2 DEF ScanExpired, ClaimsStay, local
    <2> QED BY <1>a, <1>b, <1>2, <2>1, ClaimsKept
        DEF ScanExpired, Expired, SingleInv, ClaimsFitRow, ClaimantKnows, SweepKnows, Retrying, LeaseLapsed,
            row, local
  <1>3. CASE ScanPending(p)
    <2>1. CASE rpc[p] = "idle" /\ DeliveryOwed /\ rpc' = [rpc EXCEPT ![p] = "enqueue"]
      <3>1. Nowhere
        BY <1>a, <2>1 DEF DeliveryOwed, SingleInv, ClaimsFitRow
      <3>2. Only(FALSE, {}, {}, {p})'
        BY <1>a, <1>b, <1>3, <2>1, <3>1 DEF ScanPending, Nowhere, Only, local
      <3>3. todo'[p] = 1 /\ rpc'[p] = "enqueue"
        BY <1>a, <1>3, <2>1 DEF ScanPending
      <3> QED BY <1>a, <1>b, <1>3, <2>1, <3>1, <3>2, <3>3
          DEF ScanPending, DeliveryOwed, SingleInv, AtMostOne, ClaimsFitRow, ClaimantKnows, SweepKnows,
              Nowhere, Only, Retrying, LeaseLapsed, row, local
    <2>2. CASE rpc[p] = "pending" /\ rpc' = [rpc EXCEPT ![p] = "reclaim"]
      <3>1. ~DeliveryOwed
        BY <2>2 DEF DeliveryOwed, SingleInv, SweepKnows
      <3>2. todo'[p] = 0 /\ rpc'[p] = "reclaim"
        BY <1>a, <1>3, <2>2, <3>1 DEF ScanPending
      <3>3. ClaimsStay
        BY <1>a, <1>b, <1>3, <2>2, <3>2 DEF ScanPending, ClaimsStay, local
      <3> QED BY <1>a, <1>b, <1>3, <2>2, <3>2, <3>3, ClaimsKept
          DEF ScanPending, SingleInv, ClaimsFitRow, ClaimantKnows, SweepKnows, Retrying, LeaseLapsed,
              row, local
    <2> QED BY <1>3, <2>1, <2>2 DEF ScanPending
  <1>4. CASE ReclaimLease(p)
    <2>1. /\ todo'[p] = 1 /\ rpc'[p] = "enqueue" /\ status = "running" /\ UNCHANGED queue
          /\ status' = "queued" /\ next_retry_at' = 0
      BY <1>a, <1>c, <1>4 DEF ReclaimLease, Proceed, Expired
    <2>2. Nowhere
      BY <2>1 DEF SingleInv, ClaimsFitRow, Retrying
    <2>3. Only(FALSE, {}, {}, {p})'
      BY <1>a, <1>b, <2>1, <2>2 DEF Nowhere, Only, local
    <2> QED BY <1>a, <1>b, <2>1, <2>2, <2>3
        DEF SingleInv, AtMostOne, ClaimsFitRow, ClaimantKnows, SweepKnows, Nowhere, Only, Retrying, local
  <1>5. CASE ReclaimRefused(p)
    <2>1. rpc[p] = "reclaim" /\ todo'[p] = 0 /\ rpc'[p] = "idle" /\ UNCHANGED <<row, queue>>
      BY <1>a, <1>c, <1>5 DEF ReclaimRefused, Proceed
    <2>2. ClaimsStay
      BY <1>a, <1>b, <2>1 DEF ClaimsStay, local
    <2> QED BY <1>a, <1>b, <2>1, <2>2, ClaimsKept
        DEF SingleInv, ClaimsFitRow, ClaimantKnows, SweepKnows, Retrying, row, local
  <1>6. CASE EnqueueReclaimed(p)
    <2>1. /\ rpc[p] = "enqueue" /\ UNCHANGED row
          /\ \/ Put(0) /\ rpc'[p] = "ack" /\ UNCHANGED todo
             \/ UNCHANGED queue /\ rpc'[p] = "idle" /\ todo'[p] = 0
      BY <1>a, <1>c, <1>6 DEF EnqueueReclaimed, Proceed, Fault, SingleDeliveryFaults
    <2>2. Only(FALSE, {}, {}, {p})
      BY <1>d, <2>1
    <2>3. CASE Put(0) /\ rpc'[p] = "ack" /\ UNCHANGED todo
      <3>1. Only(FALSE, {0}, {}, {})'
        BY <1>a, <1>b, <2>2, <2>3 DEF Put, Only, local
      <3>2. AtMostOne'
        BY <1>a, <3>1 DEF AtMostOne
      <3> QED BY <1>a, <1>b, <1>c, <2>1, <2>2, <2>3, <3>2
          DEF SingleInv, ClaimsFitRow, ClaimantKnows, SweepKnows, Nowhere, Only, Retrying, row, local
    <2>4. CASE UNCHANGED queue /\ rpc'[p] = "idle" /\ todo'[p] = 0
      <3>1. Nowhere'
        BY <1>a, <1>b, <2>2, <2>4 DEF Nowhere, Only, local
      <3> QED BY <1>a, <1>b, <2>1, <2>2, <2>4, <3>1
          DEF SingleInv, AtMostOne, ClaimsFitRow, ClaimantKnows, SweepKnows, Only, Retrying, row, local
    <2> QED BY <2>1, <2>3, <2>4
  <1>7. CASE AckDelivery(p)
    <2>1. /\ rpc[p] = "ack" /\ todo'[p] = 0 /\ rpc'[p] = "idle" /\ UNCHANGED <<status, queue>>
          /\ next_retry_at' = IF status = "queued" THEN None ELSE next_retry_at
      BY <1>a, <1>c, <1>7 DEF AckDelivery, Proceed
    <2>2. ClaimsStay
      BY <1>a, <1>b, <2>1 DEF ClaimsStay, local
    <2> QED BY <1>a, <1>b, <2>1, <2>2, ClaimsKept
        DEF SingleInv, ClaimsFitRow, ClaimantKnows, SweepKnows, Retrying, local
  <1> QED BY <1>1, <1>2, <1>3, <1>4, <1>5, <1>6, <1>7 DEF ReaperStep

LEMMA SingleRefines ==
    ASSUME TInv, CreateIsFirst, SingleInv, OwnerRunsTheAttempt, Faults \subseteq SingleDeliveryFaults \cup {"reaper_crash"},
           [Next]_vars
    PROVE  [Lifecycle!LNext]_(Lifecycle!lvars)
  <1>a. /\ pc \in [Run -> RunPCs] /\ attempts \in Nat /\ None \notin Int /\ None \notin Run
        /\ next_retry_at \in Delays \cup {None} /\ status \in Statuses
    BY NoneAssumption DEF TInv, TypeOK
  <1>b. Statuses = {"none", "queued", "running", "completed", "failed", "cancelled"}
    BY DEF Statuses
  <1>0. ASSUME UNCHANGED <<status, attempts>>, next_retry_at' = None <=> next_retry_at = None
        PROVE  UNCHANGED Lifecycle!lvars
    BY <1>0 DEF Lifecycle!lvars, Retrying
  <1>1. CASE ApiStep \/ ApiCrash \/ CancelJob \/ Tick
    <2>1. CASE CreateJob
      BY <2>1 DEF CreateJob, CreateIsFirst, Lifecycle!LNext, Lifecycle!Created, Retrying
    <2>2. CASE Enqueue \/ ApiCrash
      BY <1>0, <2>2 DEF Enqueue, ApiCrash, row
    <2>3. ~MarkEnqueueFailed
      BY DEF MarkEnqueueFailed, SingleInv
    <2>4. CASE CancelJob
      BY <2>4 DEF CancelJob, Lifecycle!LNext, Lifecycle!Cancelled, Retrying
    <2>5. CASE Tick
      <3>1. next_retry_at' = None <=> next_retry_at = None
        BY <1>a, <2>5, TimeAssumption DEF Tick, CountDown, Delays
      <3> QED BY <1>0, <2>5, <3>1 DEF Tick
    <2> QED BY <1>1, <2>1, <2>2, <2>3, <2>4, <2>5 DEF ApiStep
  <1>2. ASSUME NEW r \in Run, WorkerStep(r) \/ TaskEnds(r) \/ WorkerCrash(r) \/ WorkerStop(r)
        PROVE  [Lifecycle!LNext]_(Lifecycle!lvars)
    <2>1. CASE StartJob(r)
      <3>1. ~Nowhere /\ attempt[r] = attempts
        BY <2>1 DEF StartJob, SingleInv, ClaimantKnows, Nowhere, Only
      <3>2. status = "queued" \/ Retrying
        BY <2>1, <3>1 DEF StartJob, Startable, SingleInv, ClaimsFitRow
      <3> QED BY <2>1, <3>1, <3>2
          DEF StartJob, NextAttempt, Lifecycle!LNext, Lifecycle!Started, Retrying
    <2>2. CASE CompleteJob(r) \/ FailPermanently(r)
      BY <2>2 DEF CompleteJob, FailPermanently, Fenced, Lifecycle!LNext, Lifecycle!Finished, Retrying
    <2>3. CASE ScheduleRetry(r)
      <3>1. attempt[r] = attempts /\ attempts < MaxRetries /\ attempts \in 1 .. MaxRetries
        BY <2>3, RetryAssumption
        DEF ScheduleRetry, Fenced, Owns, ShouldRetry, OwnerRunsTheAttempt, Executing, TInv, TypeOK, Counted
      <3>2. Backoff(attempt[r]) # None
        BY <1>a, <3>1, BackoffInRange
      <3> QED BY <2>3, <3>1, <3>2
          DEF ScheduleRetry, Fenced, Lifecycle!LNext, Lifecycle!RetryPromised, Retrying
    <2>4. CASE Unschedule(r)
      <3>1. CASE status = "failed" /\ next_retry_at # None /\ next_retry_at' = None
        BY <2>4, <3>1 DEF Unschedule, Lifecycle!LNext, Lifecycle!RetryWithdrawn, Retrying
      <3> QED BY <1>0, <2>4, <3>1 DEF Unschedule
    <2> QED BY <1>0, <1>2, <2>1, <2>2, <2>3, <2>4
        DEF WorkerStep, Deliver, AcquireLease, LeaseConflict, StartRefused, BeginTask, TaskEnds,
            PollCancelled, CheckCancelled, WorkerStop, ExtendLease, OutcomeRefused, ReleaseLease,
            RequeueWithDelay, WorkerCrash, row
  <1>3. ASSUME NEW p \in Reaper, ReaperStep(p) \/ ReaperCrash(p)
        PROVE  [Lifecycle!LNext]_(Lifecycle!lvars)
    <2>1. CASE ReclaimLease(p)
      BY <2>1 DEF ReclaimLease, Expired, Lifecycle!LNext, Lifecycle!Abandoned, Retrying
    <2>2. CASE AckDelivery(p)
      BY <1>a, <2>2 DEF AckDelivery, Lifecycle!lvars, Retrying
    <2> QED BY <1>0, <1>3, <2>1, <2>2
        DEF ReaperStep, ScanExpired, ScanPending, ReclaimRefused, EnqueueReclaimed, ReaperCrash, row
  <1>4. CASE UNCHANGED vars
    BY <1>0, <1>4 DEF vars, row
  <1> QED BY <1>1, <1>2, <1>3, <1>4 DEF Next

\* While no fault delivers a job twice, sweeps are apart and no reaper crashes before its
\* acknowledgement, jobs keep the lifecycle they promise: ImplementsLifecycle.  Finished phases
\* are final, each start counts one attempt, a retry is promised within the budget only.
THEOREM KeepsLifecycleApart ==
  ASSUME Faults \subseteq SingleDeliveryFaults \cup {"reaper_crash"}
  PROVE  Spec /\ []SweepsApart /\ [][AckSurvives]_vars => ImplementsLifecycle
  <1>1. Init => Lifecycle!LInit
    BY DEF Init, Lifecycle!LInit
  <1>2. TInv /\ CreateIsFirst /\ SingleInv /\ SweepsApart /\ SweepsApart' /\ [AckSurvives]_vars
          /\ [Next]_vars => SingleInv'
    <2> SUFFICES ASSUME TInv, CreateIsFirst, SingleInv, SweepsApart, SweepsApart',
                        [AckSurvives]_vars, [Next]_vars
                 PROVE  SingleInv'
      OBVIOUS
    <2>1. CASE UNCHANGED vars
      BY <2>1, RowKept DEF vars, row, local, sweep, history, ClaimsStay, LeaseLapsed, SingleInv
    <2>2. ASSUME NEW p \in Reaper, ReaperStep(p) \/ ReaperCrash(p) PROVE SingleInv'
      BY <2>2, SingleReaper
    <2> QED BY <2>1, <2>2, SingleApi, SingleWorker DEF Next
  <1>3. TInv /\ CreateIsFirst /\ SingleInv /\ OwnerRunsTheAttempt /\ [Next]_vars
            => [Lifecycle!LNext]_(Lifecycle!lvars)
    BY SingleRefines
  <1> QED BY <1>1, <1>2, <1>3, SingleInit, TypeInvariant, CreatedOnce, OwnerAttempt, PTL
      DEF Spec, ImplementsLifecycle, Lifecycle!LSpec

\* One reaper that does not crash meets both conditions: ImplementsLifecycle.
THEOREM KeepsLifecycle ==
  ASSUME Faults \subseteq SingleDeliveryFaults, \A p, q \in Reaper : p = q
  PROVE  Spec => ImplementsLifecycle
  <1>1. SweepsApart
    BY DEF SweepsApart
  <1>2. [AckSurvives]_vars
    BY DEF AckSurvives, ReaperCrash, Fault, SingleDeliveryFaults
  <1>3. Spec /\ []SweepsApart /\ [][AckSurvives]_vars => ImplementsLifecycle
    BY KeepsLifecycleApart
  <1> QED BY <1>1, <1>2, <1>3, PTL
=============================================================================
