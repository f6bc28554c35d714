------------------------------ MODULE JobLease ------------------------------
(***************************************************************************)
(* One row of the jobs table and everything that writes it: the API call   *)
(* that creates and enqueues the job, the queue that delivers it, the      *)
(* worker invocations of run_job_async with their lease and heartbeat, the *)
(* user's cancellation and the lease reaper.  Each database transaction,   *)
(* each queue operation and each decision taken on a value read earlier is *)
(* an action of its own, so a process can be overtaken, stopped or killed  *)
(* between any two of them.  Every query of the code filters on the job    *)
(* id, so jobs meet only in the capacity check and the reaper's batch      *)
(* limit, neither of which is in this module.  The queue mode is "rq".     *)
(*                                                                         *)
(* Time is kept as countdowns: a deadline is the number of ticks until it  *)
(* is reached.  lease_expires_at > now is a positive countdown, < now a    *)
(* negative one, and at 0 the lease is neither live nor stealable, as the  *)
(* strict comparisons of the code have it.                                 *)
(***************************************************************************)
EXTENDS Integers, FiniteSets

CONSTANTS
    Run,            \* identities of run_job_async invocations (worker_id values)
    Reaper,         \* reaper processes
    None,           \* a NULL column
    MaxRetries,     \* Job.max_retries
    LeaseDuration,  \* JOB_LEASE_DURATION_SECONDS, in ticks
    InitialDelay,   \* JOB_RETRY_INITIAL_DELAY_SECONDS, in ticks
    MaxDelay,       \* JOB_RETRY_MAX_DELAY_SECONDS, in ticks
    Timely,         \* TRUE: live workers never let their lease run out
    Faults,         \* the kinds of fault that may happen
    MaxFaults,      \* bound: how many faults happen in a behaviour
    MaxAttempts     \* bound: no delivery is taken up beyond this many attempts

FaultKinds == {"worker_crash", "worker_stop", "api_crash", "reaper_crash",
               "create_error", "create_unknown", "retry_error", "retry_unknown",
               "sweep_error", "sweep_unknown"}

\* _calculate_backoff_delay: base * 2^(attempt-1), capped.
Backoff(attempt) ==
    LET doubled == InitialDelay * 2 ^ (attempt - 1)
    IN  IF doubled < MaxDelay THEN doubled ELSE MaxDelay

ASSUME NoneAssumption == None \notin Run /\ None \notin Int
ASSUME RetryAssumption == MaxRetries \in Nat \ {0} /\ MaxAttempts \in Nat
ASSUME TimeAssumption ==
    /\ LeaseDuration \in Nat \ {0}
    /\ MaxDelay \in Nat \ {0}
    /\ \A attempt \in 1 .. MaxRetries : Backoff(attempt) \in 1 .. MaxDelay
ASSUME FaultAssumption ==
    Faults \subseteq FaultKinds /\ MaxFaults \in Nat /\ Timely \in BOOLEAN

VARIABLES
    status, attempts, progress, worker_id, lease_expires_at, next_retry_at,  \* the row
    queue,              \* queue[d]: deliveries of this job that fall due in d ticks
    api,                \* where create_and_enqueue_job is
    pc,                 \* pc[r]: where invocation r is
    attempt, outcome,   \* r's local variables: attempts, and how the task ended
    rpc,                \* rpc[p]: where reaper p's sweep is
    target, todo,       \* what p's scans returned: a worker_id, deliveries to make
    faults,             \* faults so far
    errors,             \* history: errors of this job that _handle_job_error recorded
    dropped             \* history: a delivery was used up while the job waited for it

row == <<status, attempts, progress, worker_id, lease_expires_at, next_retry_at>>
local == <<pc, attempt, outcome>>
sweep == <<rpc, target, todo>>
history == <<errors, dropped>>
vars == <<row, queue, api, local, sweep, faults, history>>

Statuses == {"none", "queued", "running", "completed", "failed", "cancelled"}
Outcomes == {"ok", "transient", "permanent"}
RunPCs == {"idle", "acquire", "start", "begin", "exec", "extend", "check",
           "write", "requeue", "unschedule", "release"}
ReaperPCs == {"idle", "pending", "reclaim", "enqueue", "ack"}
Delays == 0 .. MaxDelay

TypeOK ==
    /\ status \in Statuses
    /\ attempts \in Nat
    /\ progress \in {0, 5, 20, 100}
    /\ worker_id \in Run \cup {None}
    /\ lease_expires_at \in (-1 .. LeaseDuration) \cup {None}
    /\ next_retry_at \in Delays \cup {None}
    /\ queue \in [Delays -> Nat]
    /\ api \in {"create", "enqueue", "mark", "done"}
    /\ pc \in [Run -> RunPCs]
    /\ attempt \in [Run -> Nat]
    /\ outcome \in [Run -> Outcomes]
    /\ rpc \in [Reaper -> ReaperPCs]
    /\ target \in [Reaper -> Run \cup {None}]
    /\ todo \in [Reaper -> 0 .. 2]
    /\ faults \in Nat
    /\ errors \in Nat
    /\ dropped \in BOOLEAN

Init ==
    /\ status = "none" /\ attempts = 0 /\ progress = 0
    /\ worker_id = None /\ lease_expires_at = None /\ next_retry_at = None
    /\ queue = [d \in Delays |-> 0]
    /\ api = "create"
    /\ pc = [r \in Run |-> "idle"]
    /\ attempt = [r \in Run |-> 0]
    /\ outcome = [r \in Run |-> "ok"]
    /\ rpc = [p \in Reaper |-> "idle"]
    /\ target = [p \in Reaper |-> None]
    /\ todo = [p \in Reaper |-> 0]
    /\ faults = 0
    /\ errors = 0
    /\ dropped = FALSE

-----------------------------------------------------------------------------
(* Predicates of the WHERE clauses. *)

LeaseLive == lease_expires_at # None /\ lease_expires_at > 0
LeaseLapsed == lease_expires_at # None /\ lease_expires_at < 0
Owns(r) == worker_id = r /\ LeaseLive

\* A failed attempt that waits for its retry.
Retrying == status = "failed" /\ next_retry_at # None
Awaiting == status = "queued" \/ Retrying
Terminal == status \in {"completed", "failed", "cancelled"} /\ ~Retrying

Put(d) == queue' = [queue EXCEPT ![d] = @ + 1]

Fault(kind) == kind \in Faults /\ faults < MaxFaults /\ faults' = faults + 1

\* A delivery ends without starting the job; it mattered if the job waits for one.
Drop == dropped' = (dropped \/ Awaiting)

Goto(r, label) == pc' = [pc EXCEPT ![r] = label]

\* The invocation is over; its local variables are gone.
Leave(r) ==
    /\ Goto(r, "idle")
    /\ attempt' = [attempt EXCEPT ![r] = 0]
    /\ outcome' = [outcome EXCEPT ![r] = "ok"]

-----------------------------------------------------------------------------
(* create_and_enqueue_job in the API process, and DELETE /jobs/{id}. *)

CreateJob ==
    /\ api = "create"
    /\ api' = "enqueue"
    /\ status' = "queued"
    /\ UNCHANGED <<attempts, progress, worker_id, lease_expires_at, next_retry_at>>
    /\ UNCHANGED <<queue, local, sweep, faults, history>>

Enqueue ==
    /\ api = "enqueue"
    /\ \/ Put(0) /\ api' = "done" /\ UNCHANGED faults
       \/ Fault("create_error") /\ api' = "mark" /\ UNCHANGED queue
       \/ Fault("create_unknown") /\ api' = "mark" /\ Put(0)
    /\ UNCHANGED <<row, local, sweep, history>>

\* The except branch: update_job without expected_statuses.  next_retry_at keeps
\* its value: on a row the reaper has put back meanwhile, the delivery it still
\* owes now looks like a scheduled retry, which no sweep looks for.
MarkEnqueueFailed ==
    /\ api = "mark"
    /\ api' = "done"
    /\ status' = "failed"
    /\ progress' = 100
    /\ dropped' = (dropped \/ next_retry_at # None)
    /\ UNCHANGED <<attempts, worker_id, lease_expires_at, next_retry_at>>
    /\ UNCHANGED <<queue, local, sweep, faults, errors>>

ApiCrash ==
    /\ api \in {"enqueue", "mark"}
    /\ Fault("api_crash")
    /\ api' = "done"
    /\ Drop
    /\ UNCHANGED <<row, queue, local, sweep, errors>>

CancelJob ==
    /\ status \in {"queued", "running"} \/ Retrying
    /\ status' = "cancelled"
    /\ progress' = 100
    /\ next_retry_at' = None
    /\ UNCHANGED <<attempts, worker_id, lease_expires_at>>
    /\ UNCHANGED <<queue, api, local, sweep, faults, history>>

-----------------------------------------------------------------------------
(* run_job_async, one delivery. *)

\* The status gate, on the row as get_job returned it.
Runnable == status = "queued" \/ (Retrying /\ next_retry_at <= 0)

\* worker_id is a fresh uuid per delivery: an identity is reused only when
\* nothing refers to it any more.
Fresh(r) == pc[r] = "idle" /\ worker_id # r /\ \A p \in Reaper : target[p] # r

Deliver(r) ==
    /\ Fresh(r)
    /\ queue[0] > 0
    /\ attempts < MaxAttempts
    /\ queue' = [queue EXCEPT ![0] = @ - 1]
    /\ \/ Runnable /\ Goto(r, "acquire") /\ attempt' = [attempt EXCEPT ![r] = attempts]
       \/ ~Runnable /\ UNCHANGED <<pc, attempt>>
    /\ UNCHANGED <<row, api, outcome, sweep, faults, history>>

LeaseFree(r) == worker_id \in {None, r} \/ lease_expires_at = None \/ LeaseLapsed

AcquireLease(r) ==
    /\ pc[r] = "acquire"
    /\ LeaseFree(r)
    /\ worker_id' = r
    /\ lease_expires_at' = LeaseDuration
    /\ Goto(r, "start")
    /\ UNCHANGED <<status, attempts, progress, next_retry_at, attempt, outcome>>
    /\ UNCHANGED <<queue, api, sweep, faults, history>>

LeaseConflict(r) ==
    /\ pc[r] = "acquire"
    /\ ~LeaseFree(r)
    /\ Leave(r)
    /\ IF pc[worker_id] = "start" THEN UNCHANGED dropped ELSE Drop
    /\ UNCHANGED <<row, queue, api, sweep, faults, errors>>

\* Mutant: only a running job is refused.
StartableUnlessRunning(r) == status # "running" /\ Owns(r)

Startable(r) == status \in {"queued", "failed"} /\ Owns(r)

\* Mutant: the row counts on from its own value, the invocation from its old one.
AttemptOfRow(r) == attempts + 1

\* attempts comes from the row read before the lease was taken.
NextAttempt(r) == attempt[r] + 1

StartJob(r) ==
    /\ pc[r] = "start"
    /\ Startable(r)
    /\ status' = "running"
    /\ progress' = 5
    /\ attempts' = NextAttempt(r)
    /\ next_retry_at' = None
    /\ attempt' = [attempt EXCEPT ![r] = @ + 1]
    /\ Goto(r, "begin")
    /\ UNCHANGED <<worker_id, lease_expires_at, outcome>>
    /\ UNCHANGED <<queue, api, sweep, faults, history>>

StartRefused(r) ==
    /\ pc[r] = "start"
    /\ ~Startable(r)
    /\ Goto(r, "release")
    /\ Drop
    /\ UNCHANGED <<row, queue, api, attempt, outcome, sweep, faults, errors>>

\* _execute_job; agent_run and publish jobs first write progress=20, unfenced.
BeginTask(r) ==
    /\ pc[r] = "begin"
    /\ progress' \in {20, progress}
    /\ Goto(r, "exec")
    /\ UNCHANGED <<status, attempts, worker_id, lease_expires_at, next_retry_at>>
    /\ UNCHANGED <<queue, api, attempt, outcome, sweep, faults, history>>

TaskEnds(r) ==
    /\ pc[r] = "exec"
    /\ \E o \in Outcomes : outcome' = [outcome EXCEPT ![r] = o]
    /\ Goto(r, "check")
    /\ UNCHANGED <<row, queue, api, attempt, sweep, faults, history>>

\* _monitor_job_lease: first the cancellation poll, then the heartbeat.
PollCancelled(r) ==
    /\ pc[r] = "exec"
    /\ Goto(r, IF status = "cancelled" THEN "release" ELSE "extend")
    /\ UNCHANGED <<row, queue, api, attempt, outcome, sweep, faults, history>>

ExtendLease(r) ==
    /\ pc[r] = "extend"
    /\ \/ Owns(r) /\ lease_expires_at' = LeaseDuration /\ Goto(r, "exec")
       \/ ~Owns(r) /\ UNCHANGED lease_expires_at /\ Goto(r, "release")   \* lease lost
    /\ UNCHANGED <<status, attempts, progress, worker_id, next_retry_at>>
    /\ UNCHANGED <<queue, api, attempt, outcome, sweep, faults, history>>

CheckCancelled(r) ==
    /\ pc[r] = "check"
    /\ Goto(r, IF status = "cancelled" THEN "release" ELSE "write")
    /\ UNCHANGED <<row, queue, api, attempt, outcome, sweep, faults, history>>

\* Mutant: the fence forgets who owns the lease.
FencedByStatus(r) == status = "running"

\* The predicate of update_job(expected_statuses={"running"}, expected_worker_id=r).
Fenced(r) == status = "running" /\ Owns(r)

CompleteJob(r) ==
    /\ pc[r] = "write" /\ outcome[r] = "ok"
    /\ Fenced(r)
    /\ status' = "completed"
    /\ progress' = 100
    /\ next_retry_at' = None
    /\ Goto(r, "release")
    /\ UNCHANGED <<attempts, worker_id, lease_expires_at, attempt, outcome>>
    /\ UNCHANGED <<queue, api, sweep, faults, history>>

\* Mutant: one retry too many.
ShouldRetryOnceMore(r) == outcome[r] = "transient" /\ attempt[r] <= MaxRetries

ShouldRetry(r) == outcome[r] = "transient" /\ attempt[r] < MaxRetries

ScheduleRetry(r) ==
    /\ pc[r] = "write" /\ ShouldRetry(r)
    /\ Fenced(r)
    /\ status' = "failed"
    /\ progress' = 100
    /\ next_retry_at' = Backoff(attempt[r])
    /\ errors' = errors + 1
    /\ Goto(r, "requeue")
    /\ UNCHANGED <<attempts, worker_id, lease_expires_at, attempt, outcome>>
    /\ UNCHANGED <<queue, api, sweep, faults, dropped>>

FailPermanently(r) ==
    /\ pc[r] = "write" /\ outcome[r] # "ok" /\ ~ShouldRetry(r)
    /\ Fenced(r)
    /\ status' = "failed"
    /\ progress' = 100
    /\ next_retry_at' = None
    /\ errors' = errors + 1
    /\ Goto(r, "release")
    /\ UNCHANGED <<attempts, worker_id, lease_expires_at, attempt, outcome>>
    /\ UNCHANGED <<queue, api, sweep, faults, dropped>>

\* update_job returned None: whatever the outcome was, it is not written.
OutcomeRefused(r) ==
    /\ pc[r] = "write"
    /\ ~Fenced(r)
    /\ Goto(r, "release")
    /\ UNCHANGED <<row, queue, api, attempt, outcome, sweep, faults, history>>

\* Mutant: a refused retry is not taken back.
RequeueWithoutRollback(r) ==
    /\ pc[r] = "requeue"
    /\ \/ Put(Backoff(attempt[r])) /\ UNCHANGED faults
       \/ Fault("retry_error") /\ UNCHANGED queue
    /\ Goto(r, "release")
    /\ UNCHANGED <<row, api, attempt, outcome, sweep, history>>

\* requeue_job_with_delay; an error may still have reached the queue.
RequeueWithDelay(r) ==
    /\ pc[r] = "requeue"
    /\ \/ Put(Backoff(attempt[r])) /\ Goto(r, "release") /\ UNCHANGED faults
       \/ Fault("retry_error") /\ Goto(r, "unschedule") /\ UNCHANGED queue
       \/ Fault("retry_unknown") /\ Goto(r, "unschedule") /\ Put(Backoff(attempt[r]))
    /\ UNCHANGED <<row, api, attempt, outcome, sweep, history>>

Unschedule(r) ==
    /\ pc[r] = "unschedule"
    /\ Goto(r, "release")
    /\ \/ /\ status = "failed" /\ Owns(r)
          /\ next_retry_at' = None
          /\ UNCHANGED dropped
       \/ /\ ~(status = "failed" /\ Owns(r))
          /\ UNCHANGED next_retry_at
          /\ Drop
    /\ UNCHANGED <<status, attempts, progress, worker_id, lease_expires_at>>
    /\ UNCHANGED <<queue, api, attempt, outcome, sweep, faults, errors>>

\* Mutant: the lease of a running job is released too.
OwnLease(r) == worker_id = r

\* release_job_lease keeps the lease of a running job, for the reaper to find.
Releasable(r) == worker_id = r /\ status # "running"

\* The finally block.
ReleaseLease(r) ==
    /\ pc[r] = "release"
    /\ Leave(r)
    /\ IF Releasable(r)
         THEN worker_id' = None /\ lease_expires_at' = None
         ELSE UNCHANGED <<worker_id, lease_expires_at>>
    /\ UNCHANGED <<status, attempts, progress, next_retry_at>>
    /\ UNCHANGED <<queue, api, sweep, faults, history>>

\* SIGKILL, OOM or node loss: no cleanup code runs, the delivery is gone.
WorkerCrash(r) ==
    /\ pc[r] # "idle"
    /\ Fault("worker_crash")
    /\ Leave(r)
    /\ IF pc[r] \in {"acquire", "start", "requeue", "unschedule"}
         THEN Drop ELSE UNCHANGED dropped
    /\ UNCHANGED <<row, queue, api, sweep, errors>>

\* CancelledError that the monitor did not ask for: re-raised through finally.
WorkerStop(r) ==
    /\ pc[r] = "exec"
    /\ Fault("worker_stop")
    /\ Goto(r, "release")
    /\ UNCHANGED <<row, queue, api, attempt, outcome, sweep, history>>

-----------------------------------------------------------------------------
(* reap_expired_leases. *)

\* Mutants: a lease is given up for lost before it runs out; the scan also asks
\* for the column the other scan goes by.
ExpiredEarly == status = "running" /\ lease_expires_at < LeaseDuration
ExpiredAndOwed == status = "running" /\ LeaseLapsed /\ next_retry_at # None

Expired == status = "running" /\ LeaseLapsed
DeliveryOwed == status = "queued" /\ next_retry_at # None /\ next_retry_at <= 0

ScanExpired(p) ==
    /\ rpc[p] = "idle"
    /\ Expired
    /\ rpc' = [rpc EXCEPT ![p] = "pending"]
    /\ target' = [target EXCEPT ![p] = worker_id]
    /\ UNCHANGED <<row, queue, api, local, todo, faults, history>>

\* The second scan; from "idle" the first one found nothing.
ScanPending(p) ==
    /\ \/ rpc[p] = "idle" /\ DeliveryOwed /\ rpc' = [rpc EXCEPT ![p] = "enqueue"]
       \/ rpc[p] = "pending" /\ rpc' = [rpc EXCEPT ![p] = "reclaim"]
    /\ todo' = [todo EXCEPT ![p] = IF DeliveryOwed THEN 1 ELSE 0]
    /\ UNCHANGED <<row, queue, api, local, target, faults, history>>

\* The sweep goes on with n deliveries left to make.
Proceed(p, n) ==
    /\ rpc' = [rpc EXCEPT ![p] = IF n = 0 THEN "idle" ELSE "enqueue"]
    /\ target' = [target EXCEPT ![p] = None]
    /\ todo' = [todo EXCEPT ![p] = n]

ReclaimLease(p) ==
    /\ rpc[p] = "reclaim"
    /\ Expired /\ worker_id = target[p]
    /\ status' = "queued"
    /\ worker_id' = None
    /\ lease_expires_at' = None
    /\ next_retry_at' = 0
    /\ Proceed(p, todo[p] + 1)
    /\ UNCHANGED <<attempts, progress, queue, api, local, faults, history>>

ReclaimRefused(p) ==
    /\ rpc[p] = "reclaim"
    /\ ~(Expired /\ worker_id = target[p])
    /\ Proceed(p, todo[p])
    /\ UNCHANGED <<row, queue, api, local, faults, history>>

\* Mutant: a delivery is acknowledged although the queue refused it.
EnqueueAlwaysAcked(p) ==
    /\ rpc[p] = "enqueue"
    /\ \/ Put(0) /\ UNCHANGED faults
       \/ Fault("sweep_error") /\ UNCHANGED queue
    /\ rpc' = [rpc EXCEPT ![p] = "ack"]
    /\ UNCHANGED <<target, todo, row, api, local, history>>

EnqueueReclaimed(p) ==
    /\ rpc[p] = "enqueue"
    /\ \/ Put(0) /\ rpc' = [rpc EXCEPT ![p] = "ack"] /\ UNCHANGED <<target, todo, faults>>
       \/ Fault("sweep_error") /\ Proceed(p, todo[p] - 1) /\ UNCHANGED queue
       \/ Fault("sweep_unknown") /\ Proceed(p, todo[p] - 1) /\ Put(0)
    /\ UNCHANGED <<row, api, local, history>>

AckDelivery(p) ==
    /\ rpc[p] = "ack"
    /\ next_retry_at' = IF status = "queued" THEN None ELSE next_retry_at
    /\ Proceed(p, todo[p] - 1)
    /\ UNCHANGED <<status, attempts, progress, worker_id, lease_expires_at>>
    /\ UNCHANGED <<queue, api, local, faults, history>>

ReaperCrash(p) ==
    /\ rpc[p] # "idle"
    /\ Fault("reaper_crash")
    /\ Proceed(p, 0)
    /\ UNCHANGED <<row, queue, api, local, history>>

-----------------------------------------------------------------------------
(* Time. *)

CountDown(t, floor) == IF t = None \/ t = floor THEN t ELSE t - 1

\* Timely: heartbeats come well within the lease (validate_runtime requires
\* JOB_LEASE_DURATION_SECONDS > JOB_HEARTBEAT_INTERVAL_SECONDS), so the lease of
\* a worker that is alive is renewed before it runs out.
Tick ==
    /\ Timely => \A r \in Run : worker_id = r /\ pc[r] # "idle" => lease_expires_at # 1
    /\ lease_expires_at' = CountDown(lease_expires_at, -1)
    /\ next_retry_at' = CountDown(next_retry_at, 0)
    /\ queue' = [d \in Delays |-> (IF d = 0 THEN queue[0] ELSE 0)
                                  + (IF d < MaxDelay THEN queue[d + 1] ELSE 0)]
    /\ UNCHANGED <<status, attempts, progress, worker_id>>
    /\ UNCHANGED <<api, local, sweep, faults, history>>

-----------------------------------------------------------------------------

WorkerStep(r) ==
    \/ Deliver(r) \/ AcquireLease(r) \/ LeaseConflict(r) \/ StartJob(r) \/ StartRefused(r)
    \/ BeginTask(r) \/ PollCancelled(r) \/ ExtendLease(r) \/ CheckCancelled(r)
    \/ CompleteJob(r) \/ ScheduleRetry(r) \/ FailPermanently(r) \/ OutcomeRefused(r)
    \/ RequeueWithDelay(r) \/ Unschedule(r) \/ ReleaseLease(r)

ReaperStep(p) ==
    \/ ScanExpired(p) \/ ScanPending(p) \/ ReclaimLease(p) \/ ReclaimRefused(p)
    \/ EnqueueReclaimed(p) \/ AckDelivery(p)

ApiStep == CreateJob \/ Enqueue \/ MarkEnqueueFailed

Next ==
    \/ ApiStep \/ ApiCrash \/ CancelJob \/ Tick
    \/ \E r \in Run : WorkerStep(r) \/ TaskEnds(r) \/ WorkerCrash(r) \/ WorkerStop(r)
    \/ \E p \in Reaper : ReaperStep(p) \/ ReaperCrash(p)

Spec == Init /\ [][Next]_vars

\* The event loops, the queue and the reaper's loop keep running; a task ends
\* sooner or later (HTTP and LLM timeouts, RQ's job_timeout) although heartbeats
\* go on while it runs, hence the strong fairness.  Nobody has to cancel, and no
\* fault has to happen.
Fairness ==
    /\ WF_vars(ApiStep) /\ SF_vars(Tick)
    /\ \A r \in Run : WF_vars(WorkerStep(r)) /\ SF_vars(TaskEnds(r))
    /\ \A p \in Reaper : WF_vars(ReaperStep(p))

FairSpec == Spec /\ Fairness

-----------------------------------------------------------------------------
(* Properties. *)

Executing(r) == pc[r] \in {"begin", "exec", "extend", "check", "write"}

\* A running row always names an owner and carries a lease expiry, whatever
\* order leases are taken, stolen, lost and released in: otherwise the reaper's
\* scan could not find the job when its worker dies.
RunningIsLeased ==
    status = "running" => worker_id # None /\ lease_expires_at # None

\* The executing owner of a running row is the invocation whose attempt the row
\* counts: a lease that changed hands in between cannot leave an older attempt
\* in charge of the outcome.
OwnerRunsTheAttempt ==
    \A r \in Run : status = "running" /\ worker_id = r /\ Executing(r)
                       => attempt[r] = attempts

\* Only the live owner, and only with the attempt it started, ends a running job
\* as completed or failed; a worker that lost its lease changes nothing.
\* The one other writer is the API's unconditional update after a failed enqueue.
OutcomeByOwner ==
    [][status = "running" /\ status' \in {"completed", "failed"} =>
         \/ api = "mark"
         \/ \E r \in Run : /\ Owns(r) /\ Executing(r)
                           /\ attempt[r] = attempts]_vars

\* No worker, retry or reaper step, however late, takes a cancelled job out of
\* cancelled; again only the API's unconditional update can.
CancelledStays ==
    [][status = "cancelled" => status' = "cancelled" \/ api = "mark"]_vars

\* A queued or retrying job can still get a worker: a delivery is in the queue or
\* in the hands of an invocation that may start the job, or somebody still owes
\* one.  dropped marks the steps that use a delivery up while the job waits: a
\* crash between delivery and start or between a commit and its enqueue, a lease
\* conflict with a holder that will not start the job.
SomeoneWillDeliver ==
    \/ \E d \in Delays : queue[d] > 0
    \/ \E r \in Run : pc[r] \in {"acquire", "start"}

\* For a queued job the API owes the first delivery and next_retry_at records
\* that the reaper owes one, through any crash of the reaper and queue outage.
QueuedIsOwed ==
    status = "queued" /\ ~dropped =>
        SomeoneWillDeliver \/ api \in {"enqueue", "mark"} \/ next_retry_at # None

\* For a scheduled retry the worker that wrote next_retry_at owes the delivery,
\* or owes taking next_retry_at back when the queue refused it.
RetryIsOwed ==
    Retrying /\ ~dropped =>
        SomeoneWillDeliver \/ \E r \in Run : pc[r] \in {"requeue", "unschedule"}

\* With heartbeats in time, two invocations never execute the job at once, so its
\* side effects are not interleaved.
OneExecutor ==
    \A r, s \in Run : Executing(r) /\ Executing(s) => r = s

\* Without duplicated deliveries the protocol implements the promised lifecycle:
\* finished phases are final, each start counts one attempt, retries stay within
\* the budget.
Lifecycle == INSTANCE JobLifecycle WITH
    phase <- IF status = "none" THEN "absent" ELSE IF Retrying THEN "retrying" ELSE status,
    attempts <- attempts

ImplementsLifecycle == Lifecycle!LSpec

\* A worker that died while running the job is noticed: the reaper puts the job
\* back in the queue (or the user cancels it).
AbandonedIsRecovered ==
    (status = "running" /\ \A r \in Run : worker_id = r => pc[r] = "idle")
        ~> status # "running"

\* A created job ends, unless a delivery it waited for was used up.
EventuallySettles == status = "queued" ~> Terminal \/ dropped

-----------------------------------------------------------------------------
(* What comments and tests of the repository say, and the code does not keep. *)

\* runner.py: "duplicate deliveries must not revive permanent failures or jobs
\* that exhausted their retry budget".
PermanentFailureStays ==
    [][status = "failed" /\ next_retry_at = None => status' = "failed"]_vars

\* reaper.py: "Reclaiming deliberately does *not* consume a retry attempt".  So a
\* job whose last error was transient is failed for good only after max_retries
\* errors of its own.
EvictionIsFree ==
    [][\A r \in Run :
         pc[r] = "write" /\ outcome[r] = "transient" /\ errors' = errors + 1
           => Retrying' \/ errors' >= MaxRetries]_vars

\* runner.py: "Without a queued delivery this timestamp would promise a retry that
\* never happens".
RetryPromiseKept ==
    Retrying => \/ SomeoneWillDeliver
                \/ \E r \in Run : pc[r] \in {"requeue", "unschedule"}

\* job_repository.py: next_retry_at "is committed with the reclaim so a process
\* crash or Redis outage between this transaction and enqueue cannot strand the
\* job".  So a reclaim is remembered until a delivery follows it.
ReclaimIsRemembered ==
    \A p \in Reaper :
        rpc[p] = "enqueue" /\ status = "queued" /\ ~dropped =>
            SomeoneWillDeliver \/ next_retry_at # None

\* test_jobs_contract.py: a cancelled job reads progress 100.
CancelledReadsFull == status = "cancelled" => progress = 100
=============================================================================
