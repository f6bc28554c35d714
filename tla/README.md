# A TLA+ model of the content operations agent

The repository is a Python backend (`src/src`, FastAPI, SQLAlchemy over
PostgreSQL, Redis/RQ) with a Vue frontend.  It drafts, reviews, schedules and
publishes content with LLM agents.  What is hard in it is not the prompts: it is
the durable background work around them — jobs with leases and retries, pipeline
runs that resume from checkpoints, an idempotency ledger, publications whose
outcome may be unknown — written by API processes, queue workers and a reaper
that share rows of one database and nothing else.  That is what is modelled here.

Paths below are relative to `src/`.

## 1. Inventory

| Component | State | Operations | Meets | Hard because | Modelled in |
|---|---|---|---|---|---|
| **Job lease and retry** `src/jobs/{runner,queue,reaper,error_classifier}.py`, `storage/repositories/job_repository.py` | one `jobs` row: status, attempts, progress, worker_id, lease_expires_at, next_retry_at; RQ deliveries | create+enqueue, deliver, acquire/extend/release lease, start, complete, schedule retry, fail, cancel, sweep, reclaim, requeue, acknowledge | API process, RQ, workers, reaper, database clock | workers stall or die anywhere; deliveries are lost, late and duplicated; values read before the lease are used after it | `JobLease` (3) |
| **Pipeline runs** `run_repository.py`, `runner.py:52-158`, `dynamic_pipeline.py`, `checkpoint.py` | `agent_runs` row, `agent_run_events`, `run_steps` | create, claim, heartbeat, append event, checkpoint, revise plan, complete, fail, cancel, resume, expire | API, workers, reaper, readers | stale workers, crash between checkpoint and event, resume racing late writes | `PipelineRun` (4) |
| **Event stream** `run_event_hub.py`, `routes/agent.py:233-298`, the frontend's reader | position of each SSE reader, wake-up flags, one LISTEN connection, the browser's cursor | subscribe, read page, wait, notify, reconnect | event log of a run | lost wake-ups, terminal events a resume supersedes, lost connections | `RunEventStream` (5) |
| **Idempotency ledger** `idempotency_repository.py`, `utils/idempotency.py` | row per (scope, key) | claim, replay, conflict, complete, fail | all write endpoints | crash between the write and the completion | `IdempotencyLedger` (6) |
| **Publication** `publish_service.py`, `routes/publish.py`, `publication_repository.py`, `integrations/mcp_client.py` | publication row, job, ledger row, the platform's own state | request, execute, record outcome | jobs, ledger, MCP server | an external effect with an unknown outcome under retries | `Publication` (6) |
| **Proposed actions** `action_repository.py`, `tool_policy.py`, `intent_recognizer.py`, `chat_agent.py` | capability row per proposed tool call, last message of the thread | propose, confirm, consume, cancel, expire | chat turns, HTTP routes | double confirmation, replay, changed arguments | `ProposedActions` (7) |
| **Plans** `plan_schema.py`, `dynamic_pipeline.py:735-954`, `pipeline_graph.py` | the plan of one execution | validate, repair, coerce, revise, compare completed steps | pipeline runs | malformed planner output, step renumbering | `Planner` (8) |
| **Content, media, calendar** `content_repository.py`, `media_repository.py`, `calendar_repository.py` and their routes | content row with version and edit token, rows under it, files | edit, restore, archive, delete, upload, metrics, calendar entries | users, jobs | concurrent edits, files next to rows | `ContentLibrary` (9) |
| **File memory, frozen prompts** `file_memory.py`, `routes/memory.py`, `chat_agent.py:871-910` | memory file, epoch file, a prompt cache per process | add, replace, remove, save, refresh, build a prompt | chat turns, editors, processes | writers in several processes, caches in several processes | `AgentMemory` (10) |
| **Admission limit** `queue.py:37-47` | number of in-flight jobs of a provider | count, insert | API requests | count and insert are separate transactions | — |
| **Accounts, sessions, tenancy, budget** `account_store.py`, `security.py`, `dependencies.py`, `tenancy.py` | users, sessions, request counters | login, logout, check, filter | every request | counters at their limit | — |
| **Cleanup** `jobs/cleanup.py` | old job rows | select, delete | jobs | select and delete around other writers | — |
| Threads, context compression, sub-agents, memory curator, LLM client, search, config, metrics, schema, frontend views | text, single-statement CRUD, I/O | | | | — (11) |

What makes each correct, in one line: a job is executed by one live owner, its
outcome is the owner's, and whoever is waiting for a delivery is owed one; a run's
event log ends in one terminal event and a finished step is not run again; a
stream delivers every event once and in order; a ledger key stands for at most one
completed write; a publication happens at most once per request and its row says
so; a capability is consumed at most once; a plan never moves a finished step; an
edit never overwrites what its author has not seen; no memory entry is lost.

How they interact: `PipelineRun` implements `RunEventLog`, and `RunEventStream` is built
on `RunEventLog` alone.  `Publication` composes both uses of `IdempotencyLedger`, which
implements `WriteOnce`, with job deliveries that behave as `JobLease` allows (at least
once, two at a time).  `Planner` discharges `PlansAssumption` of `PipelineRun`: every plan
it lets through is a sequence of steps that read from earlier ones.  `ContentLibrary` takes
the status writes of jobs as requests.  `AgentMemory` and `ProposedActions` share only the
chat turn they belong to.

`PROJECT.json` lists under `hazards` where each of these can go wrong, at its line.

## 2. Plan

Done: the modules of sections 3 to 10, and the theorems of their *Proofs* parts: every
invariant and every action property a passing run checks is also a theorem, for every
value of the constants (some under a hypothesis their section names).  Liveness
stays with TLC: `AbandonedIsRecovered`, `EventuallySettles`, `RunsEnd`, `EveryWatcherTold`,
`WatchedRunsEnd` need fairness and ENABLED, which the prover does not reason about.  What
the plan has left are sessions and the request budget, if their order of steps turns out to
matter.

Induction.  The library's induction theorems take a predicate as a parameter, which the
provers cannot instantiate.  Where a claim is about every prefix of a sequence
(`PlannerProofs`), it is proved from the least counterexample instead: `LeastNat`, a
consequence of the well-foundedness of finite sets under inclusion, gives the smallest
member of the set of positions at which the claim fails, and the position before it
refutes that one.

Bounds: two or three actors of a kind, one row of each table (queries select by
key), two or three steps, one or two faults of every kind; time as countdowns of
one or two ticks.  Everything is written without RECURSIVE operators.

### Instances

Each run of `PROJECT.json` asks one question.  The instances `job_revived`, `job_eviction`,
`job_retry_promise`, `job_two_reapers`, `job_progress`, `pipe_relabel`, `pipe_empty`,
`stale_call` and `stale_prompt` reproduce one divergence each between a sentence of the
repository and the code; `tlc -config <name>.cfg <module>` prints the behaviour.  They are
kept beside the list of runs, and described in the section of their module;
`schedule_twice` is the one the list holds.  `TypeOK` of every module was checked with the bounds of its run; where a
proof establishes it, no run repeats it.

## 3. The job lease protocol

### Modules

* `JobLease` — the row, the queue, the API call, the invocations, the reaper, time.
* `JobLifecycle` — what a user is promised: phases and attempts, no workers.
* `MCJobLease` — symmetry and fault sets for TLC.  `job_*.cfg` — its instances.
* `JobLeaseProofs` — theorems.

### State and code

`status, attempts, progress, worker_id, lease_expires_at, next_retry_at` are the
columns of one row of `jobs` (`models.py:229`) that steer the protocol; payload,
result, error text, usage and timestamps for display are left out.  Deadlines are
countdowns: *live* (`> now`) is positive, *lapsed* (`< now`) is negative, and zero is
the instant at which the strict comparisons of the code make a lease neither.
`queue[d]` counts the RQ entries of this job that fall due in `d` ticks; RQ's own
retry is not configured, so a delivery that a dead worker held is gone.
`pc`, `attempt`, `outcome` are the local state of an invocation of
`run_job_async`: an identity in `Run` is one `worker_id` (a fresh uuid per delivery)
and is reused only when nothing refers to it.  `rpc`, `target`, `todo` are a
reaper's sweep: what its two scans returned and how far it got.  `errors` and
`dropped` are history variables that no guard reads.

Each action is one transaction or one queue operation, with the guard that its
WHERE clause or the branch before it states; the values read earlier (`attempt`,
`target`, the status gate of `Deliver`) are kept in local state, so everything
between two transactions can be overtaken.

| Action | Code |
|---|---|
| `CreateJob`, `Enqueue`, `MarkEnqueueFailed` | `queue.create_and_enqueue_job` |
| `Deliver`, `AcquireLease`, `LeaseConflict`, `StartJob`, `StartRefused` | `runner.run_job_async` up to the start, `acquire_job_lease`, `start_job` |
| `BeginTask`, `TaskEnds`, `PollCancelled`, `ExtendLease` | `_execute_job` and `_monitor_job_lease` beside it |
| `CheckCancelled`, `CompleteJob`, `ScheduleRetry`, `FailPermanently`, `OutcomeRefused` | the end of `run_job_async`, `_handle_job_error`, `update_job` with its predicates |
| `RequeueWithDelay`, `Unschedule`, `ReleaseLease` | `requeue_job_with_delay`, the rollback when it raises, the `finally` block |
| `ScanExpired` … `AckDelivery` | `reaper.reap_expired_leases` |
| `CancelJob` | `DELETE /jobs/{id}` |
| `WorkerCrash`, `WorkerStop`, `ApiCrash`, `ReaperCrash`, error branches of the queue operations | faults; an `_unknown` fault raises although Redis took the entry |

A delivery that ends without a start while the job waits for one sets `dropped`.
It is what the properties about owed deliveries are relative to: the code keeps no
record from which such a delivery could be made again (see the divergences below).

### Runs

Two invocations and one reaper are enough for every conflict over one lease: an old
and a new owner, and the sweep between them.  A lease of two ticks has all four
stages (fresh, live, at the instant, lapsed); a budget of two or three attempts has
a first, a last and, with `MaxDelay = 2`, two different backoffs.  `MaxFaults` and
`MaxAttempts` are the bounds of each run; no property mentions them.
Deadlock is not checked: a finished job with nothing in the queue stops.

| Run | Shows |
|---|---|
| `job_faults` | under two faults of any kind and workers that stall past their lease: a running row is always leased to somebody; the executing owner is the one whose attempt the row counts; only it ends the job; nobody revives a cancelled job; a waiting job is owed a delivery |
| `job_timely` | with heartbeats in time (`Timely`): one executor at a time; a dead worker's job leaves `running`; a job settles unless a delivery was used up |
| `job_lifecycle` | without faults that leave two deliveries at once: the protocol implements `JobLifecycle` |

`Timely` is an assumption on the environment: `Config.validate_runtime` makes the
lease longer than the heartbeat interval, and by default it is ten times as long.
`job_faults` does without it, so no safety property but `OneExecutor` rests on it.

Fairness (`job_timely` only).  Weak fairness of a worker's, the reaper's and the
API's steps: event loops, RQ and the reaper's endless loop run while their process
lives.  Strong fairness of `TaskEnds` and `Tick`, because heartbeats keep toggling
their guards: tasks end through HTTP/LLM timeouts or RQ's `job_timeout`, and clocks
go on.  Cancelling and faults are never forced.

### Divergences

Each is a definition at the end of `JobLease`, and its instance finds the counterexample.

| Instance, definition | The repository says | The code does |
|---|---|---|
| `job_revived`, `PermanentFailureStays` | `runner.py:166`: "duplicate deliveries must not revive permanent failures" | the gate looks at a row read before the lease; `start_job` accepts every `failed` row.  A reaper that dies between enqueue and acknowledgement leads to two deliveries; the second passes the gate while the row is `queued` and starts the job again after the first has failed it for good |
| `job_eviction`, `EvictionIsFree` | `reaper.py:8`: reclaiming does not "consume a retry attempt" | `attempts` was counted when the evicted start began (`runner.py:197-199`) and is compared with `max_retries` |
| `job_retry_promise`, `RetryPromiseKept` | `runner.py:412`: the timestamp must not "promise a retry that never happens" | a worker that dies between the commit of `next_retry_at` and the enqueue leaves that row; no scan looks for it |
| `job_two_reapers`, `ReclaimIsRemembered` | `job_repository.py:360`: a crash between the reclaim and the enqueue "cannot strand the job" | a late acknowledgement of one reaper clears the marker of another's newer reclaim |
| `job_progress`, `CancelledReadsFull` | `test_jobs_contract.py:119`: a cancelled job reads `progress == 100` | the progress write of a starting task (`runner.py:501`) has no predicate |

### Proofs

`JobLeaseProofs` proves, for any sets of invocations and reapers, any budget,
lease, delay and fault bound:

* `TypeCorrect`.  `TypeOK` is not inductive: a countdown of `todo` or of `queue[0]`
  stays in `Nat` because the sweep position and the queue guard it, and a backoff is
  a legal delay only while `attempt` is within the budget.  `TInv` adds those parts
  (`Counted`, `WithinBudget`, `TodoCounted`).
* `RunningLeased`, `OwnerAttempt`: by induction over the actions on the row.
  The attempt of the owner needs that an identity that still executes is not handed
  out again (`Fresh`) and that `start_job` checks the lease in the same transaction.
* `OnlyOwnerEnds`, `CancelledIsFinal`: action properties from these invariants.
* `RetryOwed`: `RetryIsOwed` alone is not inductive, because a delivery in the queue
  may lie beyond the retry's due time and be thrown away as too early.
  `RetryCovered` says that a delivery is in the queue no earlier than due, or in
  the hands of an invocation that may still start the job, or owed by its writer.

Assumptions: `None` is no identity, the numeric constants are naturals, leases and
delays are positive, and every backoff of the budget lies in `1..MaxDelay`
(`TimeAssumption`, which holds for the code's formula with positive settings).

* `SoleExecutor`: `OneExecutor` when `Timely` holds.  An invocation past its acquisition
  holds a lease that has not run out (`HoldsLease`), and a row has one lease.
* `QueuedOwedApart`: `QueuedIsOwed` for any number of reapers, as long as none reclaims a
  lease while another is between its enqueue and its acknowledgement (`ReclaimsApart`, the
  step that `job_two_reapers` takes).  `QueueCovered` says who owes the delivery of a queued
  job, and that one a reaper is about to acknowledge has been delivered.  `QueuedOwed`: with
  one reaper, as `docker-compose.yml` deploys it, there is nothing to assume.
* `KeepsLifecycleApart`: `ImplementsLifecycle` without the faults that leave two deliveries
  or end a job from outside its attempt (`SingleDeliveryFaults`), when sweeps do not overlap
  (`SweepsApart`) and reapers may crash anywhere but between an enqueue and its
  acknowledgement (`AckSurvives`), where the delivery would be made once more.
  `KeepsLifecycle` is the case of one reaper that does not crash, the instance of
  `job_lifecycle`.  `SingleInv` counts claims to a start: at most one exists
  (`AtMostOne`), only a job that waits has one (`ClaimsFitRow`), its holder knows the attempt
  the row counts (`ClaimantKnows`), and what a sweep found stands until it acts
  (`SweepKnows`).  Each step then maps to one step of `JobLifecycle` or to none.

Only model-checked: `AbandonedIsRecovered` and `EventuallySettles` (liveness).

### Not modelled in JobLease

The inline `background` queue mode; the batch limit of a sweep (`JOB_REAPER_BATCH_SIZE`);
database errors in the middle of an invocation (they end like `WorkerStop` or
`WorkerCrash`); loss of Redis data; a thread that `asyncio.to_thread` leaves running
after its task was cancelled; the in-flight limit, which relates several jobs.

## 4. Pipeline runs

### Modules

* `PipelineRun` — one run: its row, event log, checkpoints, API calls, deliveries,
  workers, expiry.
* `RunEventLog` — what a reader of the log is promised: an attempt writes progress and
  then one terminal event, in the transaction that ends the run; only `run_resumed`
  follows a `run_failed`; an article exists exactly when the run completed.
* `MCPipelineRun` — plans, fault set and symmetry for TLC.  `pipe_*.cfg` — its instances.
* `PipelineRunProofs` — theorems.

### State and code

`status, worker_id, lease, plan, revision_count, saved` are columns of one row of
`agent_runs` (`saved` says that `saved_content_id` is set); `checkpoint` is `run_steps`,
`last` the newest row of `agent_run_events`: the model keeps no older events, the
properties compare a step with the next.  `last.by` and `checkpoint[i].attempt` record
the attempt that wrote them; the code stores no such thing and no guard reads them.  The
same goes for `call[h].attempt`, the attempt an API call opened: the `run_failed` that its
except branch appends is stamped with it, whatever attempt is running by then.
`resumes`, `shown` and `handed` (the plan the run was last resumed with) are history.
`execution[w]` is `PipelineExecution`: the plan, the status and output of its steps, the
step at hand, the revisions used.  An output is the agent that wrote it and whether there
is any text, since the code tests both.  The lease is a countdown; a run is expired at 0, when `lease_expires_at <= now`, and live before:
unlike those of jobs, these two comparisons leave no gap.

An identity in `Worker` is the `worker_id` of one delivery, a fresh uuid; it is used
again only after its invocation is over and the row no longer holds it.

| Action | Code |
|---|---|
| `CreateRun`, `EnqueueRun`, `MarkRunFailed` | `POST /runs` and its except branch |
| `ResumeRun`, `CancelRun` | `POST /runs/{id}/resume`, `DELETE /runs/{id}` |
| `ExpireRun` | `fail_expired_run`, from the reaper and from reads of the run |
| `Deliver`, `Claim`, `ClaimRefused`, `Heartbeat` | `_run_pipeline_job_async`, `acquire_run_lease`, `_monitor_pipeline_lease` |
| `Load`, `MakePlan`, `AnnouncePlan` | `_prepare_execution`, `_restore_progress` |
| `SelectStep` | `_select_next_step` |
| `StartStep`, `Stream`, `StepSucceeds`, `StepFails`, `SaveCheckpoint`, `ReportStep`, `ReportFailure` | `_execute_step`, one action per write |
| `Revise`, `KeepPlan`, `AnnounceRevision` | `_revise_after_step`, `_maybe_revise_plan` |
| `Finish`, `CompleteRun`, `FailEmptyRun`, `ClearCheckpoints` | `_finish_execution` |
| `FailRun`, `LeaseLost` | `fail_owned_run`, `RunLeaseLostError` |
| `DbError`, `WorkerStop`, `WorkerCrash`, `ApiCrash`, the `Fault` branches | faults; an `_unknown` fault has its effect and raises all the same |

Every worker write locks the run row and checks the fence in the transaction, so it is one
action and what lies between two of them may be overtaken.  The LangGraph engine
(`pipeline_graph.py`) visits the same four methods in the same order, over the same
`PipelineExecution`, and both engines are this model.  `_restore_progress` reads the row
and then the checkpoints; they are one step because only the holder of the claim writes
them, except for a cancellation, after which the holder writes nothing.  A heartbeat that
finds the lease gone cancels the task: `LeaseLost` may happen at any label.  A write that
`asyncio.to_thread` leaves running after the cancellation is refused by the same fence.

### Runs

| Run | Shows |
|---|---|
| `pipe_faults` | with two workers, two API calls, a resume, two revisions and one fault of any kind: an event appended is of the current attempt, but for the `run_failed` of a call whose enqueue failed; a step the log reported as completed can be resumed from; a cancelled run keeps no checkpoint; a completed step carries the answer of the agent its plan names; no attempt starts again what an earlier one completed with a result, by the plan it was resumed with; the revision budget is the run's; the log is that of `RunEventLog` |
| `pipe_live` | with two faults a run does not stay `running` |

Two workers are the old and the new owner, two API calls the one whose enqueue failed and
the one that resumes.  The two plans of `TwoPlans` differ in the agent of a step that the
other step reads: enough for a revision that relabels it, that repeats it, or that
keeps it; `reviewer` also makes a revision due without a failure.  The pipeline has no
loop but that of its steps, so two steps have a first, a next and a last.  Two revisions,
the code's own budget (`plan_schema.py:56`), can give a step to another agent and back;
they are spent, refused and carried over a resume.  Leases of one tick are live, then expired.
`Stream` writes one batch of events between two others (a bound: a batch repeats the one
before it).  `pipe_live` has no resume: an attempt started by one is in the same state as
a new one, a row that is running, unclaimed and has a dispatch deadline, and two faults
on each side of a resume are too many states.  Deadlock is not checked: a run that ended
stops.

Fairness (`pipe_live` only).  Weak fairness of a worker's own steps: its event loop runs
while it lives, and agents answer because their clients have timeouts and RQ limits the
job.  Of the API handler's steps, for the same reason.  Of `ExpireRun`: the reaper loops
forever, and each read of the run attempts it too.  Of `Tick`.  Heartbeats, deliveries,
users and faults are never forced: `RunsEnd` does not depend on a worker that is in time,
nor on one that exists.

### Divergences

* `pipe_relabel`, `InputsAreLabelled`.  `dynamic_pipeline.py:915-918`: a revision must not
  relabel a recorded output, "so downstream steps reading inputs_from would consume text
  from an agent they did not ask for".  The gate looks at `completed` steps; a step whose
  answer came but whose checkpoint or event write failed is `failed` (376) while its text
  stays in `outputs` (334), and a revision may give its number to another agent.
* `pipe_empty`, `CheckpointedIsRestored`.  `docs/PRODUCTION_OPERATIONS.md:230-232`: steps
  with a completed checkpoint "are restored, not executed".  `_restore_progress` (654)
  requires an output that is not empty, and an agent may answer with no text.

* `stale_call`, `MovedRunsAreLeftAlone`.  `run_repository.py:284-286`: the terminal
  transition "returns `None` when another actor already moved the run out of an expected
  state", "preventing duplicate terminal events during cancel/fail races".  The except
  branches after a failed enqueue (`routes/agent.py:119-130, 191-199`) expect `running` and
  name no attempt.  If the enqueue raises only after the dispatch deadline, the run may
  have been expired and resumed meanwhile, and is `running` again: the call writes a second
  `run_failed` for the attempt it opened and ends the one of the resume.  This is why
  `EventsBelongToTheirAttempt` exempts that call.  Every other property of `pipe_faults`
  holds in spite of it.

One observation without a run: `docs/PRODUCTION_OPERATIONS.md:243-245` still says that a
run whose worker was killed stays `running` because runs hold no lease, and the code has
since given them one (`run_repository.py:403-427`; `RunsEnd`).

### Proofs

`PipelineRunProofs` proves, for any workers, API calls, plans, revision budget, deadlines,
faults and resumes:

* `TypeCorrect`, `CompletedOutputsAreLabelled`.  Neither is inductive.  `Good(label, e)`
  says what a worker at a label of the pipeline knows: each step it counts is one of its
  plan's, what it counts as completed was written by the agent the plan names, and the
  step it works on exists.  It holds of `Nothing`, is rebuilt by `Load` because of the
  name check in `_restore_progress`, and survives `Revise` because of the gate.
* `LogBelongsToAttempt`, `ReportedStepsSurvive`, `CancelledRunsAreClean`,
  `ImplementsRunEventLog`.  `DurableStep` reduces the thirty actions to the seven things a
  step can do to the durable state (open, report, record a checkpoint, end, reopen,
  clear, nothing), `OwnerStep` to three things it does to the claim, `WorkerMoves` to four
  it does to a worker.  `DInv` is inductive over these: the worker the row names knows the
  current attempt (`Current`); what it is about to report is saved (`SavedThenShown`);
  checkpoints are cleared only once nobody can resume (`ClearAfterEnd`); an article means
  a completed run (`SavedIsCompleted`), without which `End` of the log could not be shown.
  `LogBelongsToAttempt` is an action property: whoever appends passes the fence and so, by
  `Current`, writes for the current attempt (`WriterIsCurrent`), and `MarkRunFailed`, which
  passes none, is the exception it states.

Assumptions: plans are non-empty sequences of steps that read earlier ones; `None` is
no value of another kind; the bounds are naturals and the deadlines positive.

* `PaidOnce`: `NothingIsPaidTwice`, and `RevisionsNeverReturn`: `RevisionsAddUp`.  `BInv` says
  what a resumed attempt has been told: whoever owns the run has the plan and the revisions
  of its row, and counts as completed every result an earlier attempt has paid for under the
  plan it was handed (`Informed`); a run nobody owns still has that plan (`Unclaimed`); a run
  without a plan was not revised (`Unrevised`).  A revision keeps the completed steps, so no
  pending step is ever one of those.

`NothingIsPaidTwice` is relative to `handed` because the plain statement is false, which the
proof showed and TLC confirmed with two revisions: a step whose checkpoint is saved but whose
report fails is `failed`, a revision gives its number to another agent, the run is resumed
under that plan, and a revision of the new attempt gives the step back: it runs again
although `run_steps` holds an answer of that agent.  Only the plan a run starts with is
compared with the checkpoints (`_restore_progress`), never one it adopts later.

Only model-checked: `RunsEnd` (liveness).

### Not modelled in PipelineRun

Text, titles, tokens and cost; the contents of plans beyond agents and references (the
planner's repair is `Planner`, section 8); direct in-process callers without a worker
id and the `background` queue mode; an unreadable stored plan; `save_final=False`; other
runs of the same workspace.

## 5. The run event stream

### Modules

`RunEventStream` is the table of events as `RunEventLog` promises it, the notification hub of
one API process, the generator behind each `GET /runs/{id}/stream`, and the browser's
reconnecting reader.  `MCRunEventStream`, `stream.cfg`.

| Actions | Code |
|---|---|
| `OpenRun`, `WriteEvent`, `WorkerLost`, `FailExpiredRun`, `ReadRun` | the run's writers through `RunEventLog`; `fail_expired_run`, which the stream and the reads of a run call |
| `Listen`, `WakeAll`, `HandleNotification`, `LoseLink`, `NoticeOutage`, `SetWoken` | the listener thread of `run_event_hub.py`, `call_soon_threadsafe` |
| `ClearWoken`, `CheckExpiry`, `ReadPage`, `TakeEvent`, `SendEvent`, `PageDone`, `Wake` | the loop of `stream_pipeline_run`, one action per `await` or `yield` |
| `Subscribe`, `Reconnect`, `ConnectRefused`, `ConnectionEnds`, `Resume` | the reader in the frontend, with its cursor and retries |

The notification is sent by the transaction that inserts the event, so it is part of
`Record`.  An event a broken connection swallowed was taken from the page but not applied:
`last` and `cursor` are different variables.

### Run

`stream`: one browser suffices, because streams share only the hub, which treats each alike;
pages of two rows have a full page, a part and an end, and four events hold an attempt, its
failure, a resume and the next end.  Two broken connections use the retry budget up and
reset it.  `NothingMissed`: what the browser has applied has no hole but superseded failures.
`NoLostWakeup`: a stream that sleeps on a healthy listener has read everything.
`HangsUpOnNews`: no hang-up on a failure that had already been resumed.  `EveryWatcherTold`,
`WatchedRunsEnd`: under weak fairness of the streams and of the reader's timer, everybody
attached is let go, and a run with a vanished worker becomes a failure, with no assumption
on the listener: `hub.wait` ends by itself, so notifications are an optimisation.

### Proofs

`RunEventStreamProofs` proves, for any watchers, page size, log length and outages:
`TypeCorrect`, `WatchersMissNothing` (`NothingMissed`), `WakeupsArrive` (`NoLostWakeup`) and
`HangUpsAreNews` (`HangsUpOnNews`).  `LogFits` is what is needed of the log: it only grows,
and a terminal event that is not its last is followed by `run_resumed`.  The rest is said of
each watcher alone (`Watched`): positions lie in the log (`InLog`), every event up to them was
applied or superseded (`Covered`), a terminal event on its way is younger than its stream
(`NewsOnly`), and what the stream has not read it will be told of (`WillKnow`: it is about to
be woken, or the hub is about to wake everybody).  That last part is where the order *clear
the flag, then read* is used.  Only model-checked: `EveryWatcherTold`, `WatchedRunsEnd`.

### Left out

A late failure may still end a stream that opened before the resume; the reader's `Resume`
covers it.  Ping frames, the stream's own deadline (it ends like a lost connection) and
payloads are left out.

## 6. Ledger and publication

### Modules

* `IdempotencyLedger` — `idempotency_records`: `Claim` is the INSERT under the unique
  constraint and, when it loses, the locked read; `CompleteKey`, `FailKey`.
* `WriteOnce` — what a key promises: one writer at a time, no write after one succeeded, one
  answer; a writer that vanishes leaves the key closed.
* `Publication` — `POST /publish` under the client's key, the job executions under the
  publication's own key, and the platform.  `MCPublication`, `publish.cfg`.
* `PublicationProofs` — its theorems (below).

| Actions | Code |
|---|---|
| `Post`, `ClaimRequest`, `CreatePublication`, `EnqueueJob`, `UndoPublication`, `CompleteRequest`, `ReleaseRequest`, `ApiCrash` | `routes/publish.py` inside `idempotent_write` |
| `StartJob`, `EndJob`, `WorkerVanishes`, `DeliveredAgain` | what `JobLease` lets a job do: retries of transient errors, two deliveries, a vanished worker |
| `ClaimExecution`, `MarkRunning`, `SettleExecution`, `ReleaseExecution` | `execute_publication` inside `idempotent_write_async` |
| `CallTool`, `CallRest` | `McpClient`: a call that failed before dispatch falls back to REST, an ambiguous one does not |
| `BookPublication`, `BookContent`, `BookCalendar`, `BookFailure` | `_execute_publication_once` after the call |

`posts` is the platform's own count.  `disowned` and `misqueued` are history: publications
whose accepted post was booked as a failure, and enqueues that raised though the queue took
the job.  No guard reads them; the properties name them as the exceptions the code really has.

### Run

`publish`: two requests with one key and either payload, two executions at a time, two faults
of any kind.  `PostedOnce`, `KeyPostsOnce`: a post is made once, and once per key, but for
those exceptions.  `BooksAgree`: rows, content and calendar say what the platform has.
`PostedStays`: no late step takes a posted publication back.  `KeepsThePromise`: both
uses of the ledger implement `WriteOnce`.

Observation: `publish_service.py:121-122` says that the key "never permits executing the same
row more than once".  When the platform has accepted a post and a database error in the
bookkeeping follows, the except branch books a failure and releases the key, and a
transient error is retried: the row is posted again.  That is the set `disowned`.

### Proofs

`PublicationProofs` proves, for any requests, keys, rows, executions, arguments and bounds
(`PublicationAssumption`: bounds are naturals, header keys and rows are apart, `None` is no
key), in five layers, each an inductive invariant over the one before:

* `TInv`: `TypeOK`, and that a completed key, an execution and an answered request name a
  publication.  Theorem `TypeCorrect`.
* `KeyInv`: whoever is inside the write of a key holds it `in_progress`, alone (`OneRequest`,
  `OneExecution`), and its callers were given what its row stores (`SameAnswer`).  Theorem
  `KeepsPromise`: `KeepsThePromise`, the refinement of `WriteOnce`.  Every step of a request or
  an execution is told by what it does to its key: it passes, claims or ends (`RequestStep`,
  `ExecutionStep`), and each maps to one step of `WriteOnce` or to none (`KeyRefines`).
* `PostInv`: a row that can still be claimed, or whose execution has not called yet, was not
  posted unless it is in `disowned` (`OpenIsClean`, `CallsClean`).  Without `OneExecution` a
  second execution could call between the first one's call and its booking.  Theorems
  `PostsOnce`: `PostedOnce`, and `PostedKept`: `PostedStays`.
* `RowInv`: a row is used by the one request that made it (`OwnPublication`), a request still
  open has left its key unused (`KeyIsUsed`), a row not made has no jobs, and a row whose
  request was undone has none but for `misqueued` (`NotMade`, `OneJob`).  Theorem `KeyPosts`:
  `KeyPostsOnce`.
* `BooksInv`: theorem `BooksAlwaysAgree`: `BooksAgree`.  The property speaks of publications
  nobody works on; the invariant says how far the books are while somebody does.  A completed
  key is booked, a posted row was accepted, and a key that can be claimed has no calendar
  event (`RowBooked`); an execution books the row before the calendar and the calendar before
  it settles (`WorkBooked`).

TLC checked each layer on the instance of `publish` before it was proved.

Left out: image preparation and its files; the platform's status polling; legacy rows.

## 7. Proposed actions

`ProposedActions` is one chat thread: turns that run concurrently, the rows of
`proposed_actions`, what the last message proposed, and the HTTP routes.  A call stands for
a tool name with its arguments, so equality of calls is equality of argument hashes; a
schedule is named by the turn that proposed it.  `MCProposedActions`, `actions.cfg`,
`schedule_twice.cfg`.

| Actions | Code |
|---|---|
| `ProposeAction`, `ConfirmAction`, `CancelAction`, `ListActions`, `TimePasses` | HTTP routes, expiry; the routes propose write calls only |
| `BeginTurn`, `Classify`, `MatchRule`, `FinalizeIntent`, `LookUpCapability`, `CreateScheduleCapability`, `ConfirmCapability`, `RecognitionFails` | `intent_recognizer.py`; two lookups, which may find different rows |
| `ProposeSchedule`, `PersistProposedAction`, `AuthorizeToolCall`, `RunTool`, `CommitEntry` | the loop of `_run_agent`, `authorize_tool_call` |
| `Reply`, `Die` | `_persist_chat_response`; a dead process |

`actions`: three turns, so that one proposes and two confirm; two write calls, so that the
model can change its arguments; two rows, two calls per turn.  `ExecutedOnceAsStored`,
`OneHolder` and `ClosedStaysClosed` are also proved (below).  `schedule_twice` finds that a
schedule shown once can be committed twice: each confirmation makes a capability of its own
(`findings`).  Symmetry of turns and write calls: no expression orders them.

Observations: a bare confirmation confirms the newest pending proposal of the thread even
when the preceding message did not show it (`intent_recognizer.py:79, 590-592`); an action
confirmed over HTTP is never executed, since only a turn that confirmed it holds it.

### Proofs

`ProposedActionsProofs` proves, for any turns, write calls, rows, entries and calls per turn
(`ProposedActionsAssumption`: the bounds are naturals, calls, turns and `None` are apart):

* `TypeCorrect`: `TypeOK`, with `HasCall`: a turn about to store or run a call has one.
* `ClosedStays`: `ClosedStaysClosed`.  It rests on `StepMovesRows`: every step moves every row
  along its lifecycle (`RowMoves`) or leaves it, whichever actor takes it.
* `ExecutedOnce`: `ExecutedOnceAsStored`, and `CapabilityHasOneHolder`: `OneHolder`.

The last two need each other, and more.  An execution is the first under its row only if
nobody else runs under that row, which is `OneHolder`; and `OneHolder` survives a confirmation
only because a row still proposed has no holder, which is `BoundToCall`.  The inductive
invariant `HoldInv` is therefore: a message starts without a capability (`StartsFree`); one in
use is past its proposal and stores the call its turn confirmed (`BoundToCall`); a tool runs
under a consumed capability that nothing was executed under (`ClearedToRun`); and the two
properties.  The step is one argument for five shapes of step (`Touches`: a turn idles, keeps,
confirms, consumes or finishes): what the other turns rely on survives (`OthersHold`), so does
the turn's own claim (`OwnHold`).  TLC checked `HoldInv` on the instance of `actions` first.

Not proved: `PlanCommittedOnce`, which `schedule_twice` refutes.

## 8. Plans

`Planner` is how an answer of the model becomes the plan of an execution: parsing, schema
validation, salvage, the structural passes under `PLANNER_MAX_REPAIR_ATTEMPTS`, the default
plan, and `_maybe_revise_plan` with the gate on completed steps; the nodes of the graph
engine are its control.  An answer is a sequence of entries (index, agent, references), how
it was wrapped, and whether each entry has the fields the schema wants.

`plans`: every answer of up to three entries over two agents, junk, indices 0..3 and edges to
1 and 2; plans of at most two steps, so that truncation, renumbering, collisions and edges in
both directions occur; two revisions.  The default plan is cut to two steps there and the
code's five steps are checked by `CanonicalPlanIsValid`.
`PlanIsSound`: what a run follows violates no invariant; `SalvageKeepsMeaning` compares the
coercion with a reference: a valid answer comes out as it is, and edges keep pointing at the
step they named; `WithinRecursionLimit`: no behaviour reaches `GRAPH_RECURSION_LIMIT`;
`CompletedStaysPut`: no revision moves, relabels or drops a completed step.

The salvage of a revision may return a plan that does not end in a writer or editor, when the
limit cut its end off; this is why `PlanIsSound` allows it after a revision, although the
docstring of the salvage speaks of "a valid plan" (`plan_schema.py:240-241`).  Entries
without an index may be dropped when the number they would get is taken.  Checkpoints,
crashes and leases around the plan are `PipelineRun`.

### Proofs

`PlannerProofs` proves all four properties and `TypeCorrect` for answers of any length over
any entries, and any limits (`BoundsAssumption`, `NoneAssumption`; `DefaultAssumption`: the
default plan is valid, which `CanonicalPlanIsValid` checks of the five steps of `_default_plan`).

About the repair of an answer:

* `KeptIsSieved`: what the loop of `_repair_coerce_steps` keeps has known agents, numbers of
  its own and edges to lower ones.  The loop is a recursive function; that it is defined for
  every answer (`KeptRecursion`) and keeps this are the two inductions of section 2.
* `PlacesOfKept`, `InOrderPlaces`: renumbering and sorting are permutations, both from
  `RankIsPlace`: the ranks of a finite ordered set are `1 .. n`, each taken once.
* `SalvagedNumbers`, `ParsedIsValidated`: what comes out of salvage, and of each path through
  the repair passes, is a plan (`Numbers`), and ends in a draft where validation saw it.
* `SalvageKeeps`: `SalvageKeepsMeaning`.  A valid answer is sieved already, so the loop keeps
  it (`ValidIsKept`) and renumbering sorts it (`ValidIsUnchanged`); of any answer, the edges
  go where their numbers went (`EdgesFollow`).

About the run: `PlanInv` is inductive.  After planning there is always a plan, of steps that
are numbered by their position (`HasPlan`); the step at hand exists, and has no result before
it runs (`AtHand`); a pass costs three visits a step and only a revision starts another
(`Spent`), which is tight: the last visit is the limit minus one.  From it `PlansAreSound`,
`LimitNeverMet` and, with the gate on completed steps, `CompletedStepsStay`.

## 9. The content library

`ContentLibrary` is one content item, its rows (media assets, metric readings, calendar
entries) and the files of its media directory, under concurrent requests of any route and the
status writes of jobs.  A transaction that takes the row lock is two steps, `Lock` with its
reads and `Commit` (or `Rollback`) with its writes; a write without the lock waits for it.
Uploads are `MakeDirectory`, `OpenFile`, `CopyChunks`, the transaction, `CleanUp`; deletions
commit first and unlink afterwards.

`library`: four requests of any kind, an image limit of two, one failed transaction.
`RowsAgree` (no child outlives the item, the limit holds, orders are unique, one reading per
platform), `FilesMatchRows` (with all requests done, files and rows agree), `NoLostEdit` (an
edit is accepted only if nothing was written since its author loaded the draft).

### Proofs

`ContentLibraryProofs` proves, for any requests, media limit and number of failures:

* `TypeCorrect`.  It needs `Locked`: a request about to commit holds the row lock, and what
  it read under the lock still stands.
* `RowsAlwaysAgree`: `RowsAgree` is inductive given `Locked`; a new asset takes an order above
  every other because the highest is read under the lock.
* `EditsAreCurrent`: `NoLostEdit`.  The row carries the token of the last write
  (`TokenIsLast`) and an editor that of the write it saw (`EditorsKnow`), so equal tokens mean
  that nothing was written in between.
* `FilesAlwaysMatch`: `FilesMatchRows`.  Whoever made an asset is done (`WritersDone`); an
  upload keeps its file while the content is there, and an unlink takes no asset's file
  (`HandsOff`); every other file is in the hands of a request (`FilesAccounted`).

### Left out

The clock moves between two transactions that write the row.  Edits make their own token
newer than the last, the other writers do not: two of them in one microsecond could repeat a
token.  Left out: creation, analytics, listings and searches; a lost acknowledgement of an
upload's commit, after which the handler unlinks the file of a committed row; a process that
dies between file and row, which leaves a stray file.  A late status write of a job may
replace `archived`.

## 10. Agent memory

`AgentMemory` is one memory file, the epoch file, and in each API process the cache of frozen
prompts with its dates and epochs.  Entries and prompts are numbered by writes, so a prompt is
as current as its number.  The lock of the directory is `lock`; reading and writing under it
are two steps (`Acquire`, `WriteMemory`, `BumpSnapshotEpoch`), and a dead process gives it up.
A turn builds its prompt in three steps (`ReadEpoch`, `TakeSnapshot`, `KeepPrompt`) on the
event loop; a refresh drops prompt and date in two (`DropPrompt`, `DropMeta`) in a thread
beside it.

`memory`: two processes, two callers, two threads with room for one prompt, two writes, a
refresh, two turns, a crash, midnight.  `NoEntryLost`: an entry leaves the file only by a
request that had read it (a save without an etag, which the route allows, is the
exception the property names).  `DatedPromptsAreCurrent`: a prompt kept with its epoch is
never shown to a turn that began after a refresh covering it, in any process.

Divergence, `stale_prompt.cfg`: `bump_snapshot_epoch` says "all Gunicorn workers drop stale
frozen prompts" (`file_memory.py:195`).  `invalidate_frozen` pops the prompt, a turn builds
and keeps a new one from files read before, and then the date is popped: a prompt
without its date is reused for good (`chat_agent.py:885, 907-908`), whatever day or epoch
comes.  A prompt may also differ between processes, since each has its own cache.

### Proofs

`AgentMemoryProofs` proves, for any processes, callers, threads, cache size, crashes and
writes: `TypeCorrect`, `DatedPromptsStayCurrent` (`DatedPromptsAreCurrent`) and
`EntriesSurvive` (`NoEntryLost`).  The inductive invariant `MemoryInv` says that a request's
step fits its kind (`Staged`); that who writes holds the lock and has read what is still in
the file (`Exclusive`); that no refresh covers a write that has not happened
(`CoversThePast`); and that a prompt kept with its epoch either shows what every refresh
promised or has an epoch older than the thread's (`KeptTell`), as has the one a turn is
building (`TurnsTell`), because the epoch is read before the files.  `BumpsAhead` is why a
refresh makes older epochs tell: a bump puts the threads it covers ahead of every epoch there
was.

### Left out

The two files have the same code and share the lock; one is modelled.  The ledger around the
memory tools is `IdempotencyLedger`.

## 11. Not modelled

* **Admission limit**: count and insert are separate transactions, so concurrent requests may
  pass the limit together; the cap is approximate and nothing relies on it.
* **Accounts, sessions, budget, tenancy**: each check is one statement on one row; the tenant
  filter is a property of each query.
* **Cleanup**: an operator's script that deletes jobs that ended days ago.
* **Memory curator**: proposes entries; nothing in `src/` writes what it proposes.
* **Threads, context compression, sub-agents, LLM client, search, prompts**: sequential text
  handling around network calls; their failures reach the models as outcomes of tasks.
* **Configuration, metrics, logging, schema, frontend views**: no protocol of their own.
