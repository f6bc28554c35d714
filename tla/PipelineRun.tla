---------------------------- MODULE PipelineRun -----------------------------
(***************************************************************************)
(* One pipeline run: its row in agent_runs, its events and its step        *)
(* checkpoints, the API handlers that create, resume and cancel it, the    *)
(* queue that delivers it, the worker invocations that claim a delivery    *)
(* and drive the dynamic pipeline, and the expiry of a lapsed lease.       *)
(* Every worker transaction locks the run row and checks the fence         *)
(* (assert_run_lease), so each is one action; what a worker knows between  *)
(* two of them is its PipelineExecution, rebuilt from the row and the      *)
(* checkpoints when an attempt starts.  The LangGraph engine visits the    *)
(* same four nodes in the same order, so one model stands for both.        *)
(*                                                                         *)
(* The lease is a countdown to lease_expires_at: live while positive, and  *)
(* expired at 0, as the code compares (> now, <= now).  The queue mode is  *)
(* "rq" and save_final keeps its default.                                  *)
(***************************************************************************)
EXTENDS Integers, FiniteSets, Sequences

CONSTANTS
    Worker,             \* lease tokens, one per delivery taken up
    Request,            \* API calls that create or resume the run
    None,               \* a NULL column, an absent entry
    Plans,              \* what the planner may return: sequences of steps
    MaxRevisions,       \* MAX_REVISIONS
    DispatchTimeout,    \* PIPELINE_DISPATCH_TIMEOUT_SECONDS, in ticks
    LeaseDuration,      \* JOB_LEASE_DURATION_SECONDS, in ticks
    Faults,             \* the kinds of fault that may happen
    MaxFaults,          \* bound: how many faults happen in a behaviour
    MaxResumes          \* bound: how often the user resumes the run

FaultKinds == {"worker_crash", "worker_stop", "api_crash", "queue_error",
               "queue_unknown", "redelivery", "db_error", "db_unknown"}

ToolAgents == {"researcher", "fact_checker"}
ContentAgents == {"editor", "writer"}
Agents == ToolAgents \cup ContentAgents \cup {"strategy", "reviewer"}

\* Steps are numbered from 1; the ones a plan reads come before it.
PlanSteps == [agent : Agents, inputs : SUBSET Nat]

ASSUME PlansAssumption ==
    /\ Plans # {}
    /\ \A p \in Plans : /\ p \in Seq(PlanSteps) /\ p # << >>
                        /\ \A i \in DOMAIN p : p[i].inputs \subseteq 1 .. (i - 1)
ASSUME BoundsAssumption ==
    /\ MaxRevisions \in Nat /\ MaxResumes \in Nat /\ MaxFaults \in Nat
    /\ DispatchTimeout \in Nat \ {0} /\ LeaseDuration \in Nat \ {0}
    /\ Faults \subseteq FaultKinds

Step == UNION {DOMAIN p : p \in Plans}

VARIABLES
    status, worker_id, lease, plan, revision_count, saved,  \* the row of the run
    last,               \* its newest event
    checkpoint,         \* run_steps: checkpoint[i] or None
    queue,              \* deliveries of this run in the queue
    call,               \* call[h]: where API call h is; history: the attempt it opened
    pc, execution,      \* pc[w], execution[w]: where worker w is, what it knows
    faults,             \* faults so far
    resumes,            \* history: attempts after the first
    handed,             \* history: the plan the run was last resumed with
    shown               \* history: steps the log has reported as completed

row == <<status, worker_id, lease, plan, revision_count, saved>>
events == <<last, shown>>
local == <<pc, execution>>
api == <<call, queue>>
vars == <<row, events, checkpoint, api, local, faults, resumes, handed>>

Ended == {"completed", "failed", "cancelled"}
StepStatuses == {"absent", "pending", "running", "completed", "failed"}

\* An output remembers which agent wrote it; text says that it is not empty.
Outputs == [agent : Agents, text : BOOLEAN]

Checkpoints == [output : Outputs, attempt : 0 .. MaxResumes]

ASSUME NoneAssumption ==
    /\ None \notin Worker /\ None \notin Int /\ None \notin Plans
    /\ None \notin Outputs /\ None \notin Checkpoints

Executions ==
    [plan : Plans \cup {None}, status : [Step -> StepStatuses],
     output : [Step -> Outputs \cup {None}], step : Step \cup {0},
     revisions : 0 .. MaxRevisions, attempt : 0 .. MaxResumes]

\* No invocation: the delivery has not been taken up, or is over.
Nothing ==
    [plan |-> None, status |-> [i \in Step |-> "absent"], output |-> [i \in Step |-> None],
     step |-> 0, revisions |-> 0, attempt |-> 0]

\* exec_task is running, and with it the lease monitor.
Executing == {"load", "plan", "announce", "select", "start", "exec", "save", "complete",
              "failing", "revise", "revised", "finish", "final", "clear"}
WorkerPCs == Executing \cup {"idle", "claim", "fail"}

NoCall == [at |-> "idle", attempt |-> 0]

StepEvents == {"step_start", "step_stream", "step_complete", "step_failed"}
EventTypes == StepEvents \cup {"none", "plan_ready", "plan_revised", "run_complete",
                               "run_failed", "run_cancelled", "run_resumed"}

TypeOK ==
    /\ status \in Ended \cup {"none", "running"}
    /\ worker_id \in Worker \cup {None}
    /\ lease \in (0 .. LeaseDuration) \cup (0 .. DispatchTimeout) \cup {None}
    /\ plan \in Plans \cup {None}
    /\ revision_count \in 0 .. MaxRevisions
    /\ saved \in BOOLEAN
    /\ last \in [type : EventTypes, step : Step \cup {0}, by : 0 .. MaxResumes]
    /\ checkpoint \in [Step -> Checkpoints \cup {None}]
    /\ queue \in Nat
    /\ call \in [Request -> [at : {"idle", "enqueue", "mark"}, attempt : 0 .. MaxResumes]]
    /\ pc \in [Worker -> WorkerPCs]
    /\ execution \in [Worker -> Executions]
    /\ faults \in 0 .. MaxFaults
    /\ resumes \in 0 .. MaxResumes
    /\ handed \in Plans \cup {None}
    /\ shown \subseteq Step

NoCheckpoints == [i \in Step |-> None]

Init ==
    /\ status = "none" /\ worker_id = None /\ lease = None
    /\ plan = None /\ revision_count = 0 /\ saved = FALSE
    /\ last = [type |-> "none", step |-> 0, by |-> 0] /\ shown = {}
    /\ checkpoint = NoCheckpoints
    /\ queue = 0
    /\ call = [h \in Request |-> NoCall]
    /\ pc = [w \in Worker |-> "idle"]
    /\ execution = [w \in Worker |-> Nothing]
    /\ faults = 0 /\ resumes = 0 /\ handed = None

-----------------------------------------------------------------------------
(* Building blocks. *)

Fault(kind) == kind \in Faults /\ faults < MaxFaults /\ faults' = faults + 1

Live == lease # None /\ lease > 0
Expired == lease # None /\ lease <= 0

\* assert_run_lease, under the lock of the run row.
Fence(w) == worker_id = w /\ status = "running" /\ Live

AppendEvent(type, i, by) ==
    /\ last' = [type |-> type, step |-> i, by |-> by]
    /\ shown' = IF type = "step_complete" THEN shown \cup {i} ELSE shown

\* Mutant: a failed run loses its checkpoints as well.
EndRunForGood(s, type, by) ==
    /\ status' = s
    /\ lease' = None
    /\ AppendEvent(type, 0, by)
    /\ checkpoint' = NoCheckpoints

\* transition_run_and_append_event into a terminal state: the run ends, its event
\* is appended and a cancelled run's checkpoints go, in one transaction.
EndRun(s, type, by) ==
    /\ status' = s
    /\ lease' = None
    /\ AppendEvent(type, 0, by)
    /\ IF s = "cancelled" THEN checkpoint' = NoCheckpoints ELSE UNCHANGED checkpoint

\* The invocation goes on at label, knowing e; at "idle" it is over.
Goto(w, label, e) ==
    /\ pc' = [pc EXCEPT ![w] = label]
    /\ execution' = [execution EXCEPT ![w] = IF label = "idle" THEN Nothing ELSE e]

Stay(w, label) == Goto(w, label, execution[w])
Leave(w) == Stay(w, "idle")

\* Where an exception of the store leads: out of the delivery before the claim and
\* from the failure handler, to a failed step inside the step's try block, to the
\* failure handler elsewhere.  Tool events are best effort (_safe_sink).
OnError(w) ==
    CASE pc[w] \in {"claim", "fail", "clear"} -> "idle"
      [] pc[w] \in {"save", "complete"} -> "failing"
      [] pc[w] = "exec" ->
           IF execution[w].plan[execution[w].step].agent \in ToolAgents THEN "exec" ELSE "failing"
      [] OTHER -> "fail"

\* A transaction that commits; the caller may see an error all the same.
Committed(w, label, e) ==
    \/ Goto(w, label, e) /\ UNCHANGED faults
    \/ Fault("db_unknown") /\ Stay(w, OnError(w))

\* A worker's event, after which it goes on at label.
Emit(w, type, i, label, e) ==
    /\ Fence(w)
    /\ AppendEvent(type, i, execution[w].attempt)
    /\ Committed(w, label, e)
    /\ UNCHANGED <<row, checkpoint, api, resumes, handed>>

-----------------------------------------------------------------------------
(* The API: POST /runs, POST /runs/{id}/resume, DELETE /runs/{id}, and the *)
(* expiry that the reaper and every read of the run attempt.               *)

CreateRun(h) ==
    /\ call[h].at = "idle" /\ status = "none"
    /\ status' = "running"
    /\ lease' = DispatchTimeout
    /\ call' = [call EXCEPT ![h] = [at |-> "enqueue", attempt |-> resumes]]
    /\ UNCHANGED <<worker_id, plan, revision_count, saved>>
    /\ UNCHANGED <<events, checkpoint, queue, local, faults, resumes, handed>>

\* enqueue_pipeline_run; an error may still have reached the queue.
EnqueueRun(h) ==
    /\ call[h].at = "enqueue"
    /\ \/ call' = [call EXCEPT ![h] = NoCall] /\ queue' = queue + 1 /\ UNCHANGED faults
       \/ /\ call' = [call EXCEPT ![h].at = "mark"]
          /\ \/ Fault("queue_error") /\ UNCHANGED queue
             \/ Fault("queue_unknown") /\ queue' = queue + 1
    /\ UNCHANGED <<row, events, checkpoint, local, resumes, handed>>

\* The except branch of the call, on behalf of the attempt it opened.  It compares the
\* status alone: it fails whichever attempt is running by now.
MarkRunFailed(h) ==
    /\ call[h].at = "mark"
    /\ call' = [call EXCEPT ![h] = NoCall]
    /\ IF status = "running"
         THEN EndRun("failed", "run_failed", call[h].attempt)
         ELSE UNCHANGED <<status, lease, events, checkpoint>>
    /\ UNCHANGED <<worker_id, plan, revision_count, saved, queue, local, faults, resumes, handed>>

ApiCrash(h) ==
    /\ call[h].at # "idle"
    /\ Fault("api_crash")
    /\ call' = [call EXCEPT ![h] = NoCall]
    /\ UNCHANGED <<row, events, checkpoint, queue, local, resumes, handed>>

\* Mutant: the row still names the worker of the attempt before.
KeptWorker == worker_id

ReleasedWorker == None

\* The reads before it decide nothing: the transition compares and sets.
ResumeRun(h) ==
    /\ call[h].at = "idle" /\ status = "failed" /\ resumes < MaxResumes
    /\ status' = "running"
    /\ worker_id' = ReleasedWorker
    /\ lease' = DispatchTimeout
    /\ resumes' = resumes + 1
    /\ handed' = plan
    /\ AppendEvent("run_resumed", 0, resumes')
    /\ call' = [call EXCEPT ![h] = [at |-> "enqueue", attempt |-> resumes']]
    /\ UNCHANGED <<plan, revision_count, saved, checkpoint, queue, local, faults>>

\* Mutant: whatever has not been cancelled can be.
NotCancelled == status \in {"running", "completed", "failed"}

Cancellable == status = "running"

CancelRun ==
    /\ Cancellable
    /\ EndRun("cancelled", "run_cancelled", resumes)
    /\ UNCHANGED <<worker_id, plan, revision_count, saved, api, local, faults, resumes, handed>>

\* Mutant: only a run some worker has claimed can be given up for lost.
ExpiredClaim == status = "running" /\ Expired /\ worker_id # None

Expirable == status = "running" /\ Expired

\* fail_expired_run checks the lease again under the lock.
ExpireRun ==
    /\ Expirable
    /\ EndRun("failed", "run_failed", resumes)
    /\ UNCHANGED <<worker_id, plan, revision_count, saved, api, local, faults, resumes, handed>>

-----------------------------------------------------------------------------
(* One delivery: claim the run, rebuild what is known about it, plan.      *)

\* The token is a fresh uuid: an identity is reused when the row has forgotten it.
Deliver(w) ==
    /\ queue > 0
    /\ pc[w] = "idle" /\ worker_id # w
    /\ \/ queue' = queue - 1 /\ UNCHANGED faults
       \/ Fault("redelivery") /\ UNCHANGED queue
    /\ IF status = "running" THEN Stay(w, "claim") ELSE UNCHANGED local
    /\ UNCHANGED <<row, events, checkpoint, call, resumes, handed>>

Claimable == status = "running" /\ worker_id = None /\ Live

Claim(w) ==
    /\ pc[w] = "claim"
    /\ Claimable
    /\ worker_id' = w
    /\ lease' = LeaseDuration
    /\ Committed(w, "load", [Nothing EXCEPT !.attempt = resumes])
    /\ UNCHANGED <<status, plan, revision_count, saved, events, checkpoint, api, resumes, handed>>

ClaimRefused(w) ==
    /\ pc[w] = "claim"
    /\ ~Claimable
    /\ Leave(w)
    /\ UNCHANGED <<row, events, checkpoint, api, faults, resumes, handed>>

\* The monitor extends the lease beside the execution.
Heartbeat(w) ==
    /\ pc[w] \in Executing
    /\ Fence(w)
    /\ lease' = LeaseDuration
    /\ UNCHANGED <<status, worker_id, plan, revision_count, saved>>
    /\ UNCHANGED <<events, checkpoint, api, local, faults, resumes, handed>>

\* Mutant: a checkpoint is trusted whatever agent wrote it.
TrustedByIndex(i) == checkpoint[i] # None /\ checkpoint[i].output.text

\* A checkpoint counts if the agent the plan now names wrote it, and wrote something.
Trusted(i) ==
    /\ checkpoint[i] # None
    /\ checkpoint[i].output.agent = plan[i].agent
    /\ checkpoint[i].output.text

\* A plan some of whose steps are done; the others are still to be run.
StatusOfSteps(p, done) ==
    [i \in Step |-> IF i \in done THEN "completed"
                   ELSE IF i \in DOMAIN p THEN "pending" ELSE "absent"]

\* Mutant: a resumed run has its revisions again.
FreshBudget == 0

RevisionsSpent == revision_count

\* _restore_progress, or None: then the pipeline plans afresh.  Its two reads are one
\* step: only the claim's holder writes what they return, and a cancellation between
\* them fences the holder.
Load(w) ==
    /\ pc[w] = "load"
    /\ IF plan = None
         THEN Stay(w, "plan")
         ELSE LET done == {i \in DOMAIN plan : Trusted(i)}
              IN  Goto(w, "announce",
                       [execution[w] EXCEPT
                          !.plan = plan,
                          !.revisions = RevisionsSpent,
                          !.status = StatusOfSteps(plan, done),
                          !.output = [i \in Step |-> IF i \in done THEN checkpoint[i].output
                                                                   ELSE None]])
    /\ UNCHANGED <<row, events, checkpoint, api, faults, resumes, handed>>

\* The planner, its repaired or default plan, and the write of it.
MakePlan(w) ==
    /\ pc[w] = "plan"
    /\ Fence(w)
    /\ \E p \in Plans :
         /\ plan' = p
         /\ Committed(w, "announce",
                [execution[w] EXCEPT !.plan = p, !.status = StatusOfSteps(p, {})])
    /\ UNCHANGED <<status, worker_id, lease, revision_count, saved>>
    /\ UNCHANGED <<events, checkpoint, api, resumes, handed>>

AnnouncePlan(w) ==
    /\ pc[w] = "announce"
    /\ Emit(w, "plan_ready", 0, "select", execution[w])

-----------------------------------------------------------------------------
(* The steps of the plan. *)

\* Mutant: the loop takes the plan's steps one after the other.
Planned(e) == {i \in Step : e.status[i] \in {"pending", "completed"}}

Pending(e) == {i \in Step : e.status[i] = "pending"}

\* The loop's index never passes a pending step, so the next one is the first.
FirstPending(e, i) == i \in Pending(e) /\ \A j \in Pending(e) : i <= j

SelectStep(w) ==
    /\ pc[w] = "select"
    /\ LET e == execution[w]
       IN  \/ Pending(e) = {} /\ Stay(w, "finish")
           \/ Pending(e) # {} /\ status = "cancelled" /\ Stay(w, "clear")
           \/ /\ status # "cancelled"
              /\ \E i \in Step :
                    /\ FirstPending(e, i)
                    /\ Goto(w, "start", [e EXCEPT !.step = i, !.status[i] = "running"])
    /\ UNCHANGED <<row, events, checkpoint, api, faults, resumes, handed>>

StartStep(w) ==
    /\ pc[w] = "start"
    /\ Emit(w, "step_start", execution[w].step, "exec", execution[w])

\* The agent's tokens, or its tool calls, reach the log in batches.  Bound: one batch.
Stream(w) ==
    /\ pc[w] = "exec"
    /\ last.type # "step_stream"
    /\ Emit(w, "step_stream", execution[w].step, "exec", execution[w])

\* The agent answers.  A tool agent always has something to say; a streamed answer
\* may be empty.
StepSucceeds(w) ==
    /\ pc[w] = "exec"
    /\ LET e == execution[w]
           agent == e.plan[e.step].agent
       IN  \E text \in BOOLEAN :
             /\ agent \in ToolAgents => text
             /\ Goto(w, "save", [e EXCEPT !.status[e.step] = "completed",
                                          !.output[e.step] = [agent |-> agent, text |-> text]])
    /\ UNCHANGED <<row, events, checkpoint, api, faults, resumes, handed>>

\* The provider fails, or its configuration does: that one ends the run.
StepFails(w) ==
    /\ pc[w] = "exec"
    /\ Stay(w, "failing") \/ Stay(w, "fail")
    /\ UNCHANGED <<row, events, checkpoint, api, faults, resumes, handed>>

\* Mutant: the checkpoint is written whoever owns the run.
Unfenced(w) == TRUE

CheckpointFence(w) == Fence(w)

SaveCheckpoint(w) ==
    /\ pc[w] = "save"
    /\ CheckpointFence(w)
    /\ LET e == execution[w]
       IN  checkpoint' = [checkpoint EXCEPT ![e.step] = [output |-> e.output[e.step],
                                                         attempt |-> e.attempt]]
    /\ Committed(w, "complete", execution[w])
    /\ UNCHANGED <<row, events, api, resumes, handed>>

ReportStep(w) ==
    /\ pc[w] = "complete"
    /\ Emit(w, "step_complete", execution[w].step, "revise", execution[w])

\* The except branch; the output of a step that failed after its answer stays.
ReportFailure(w) ==
    /\ pc[w] = "failing"
    /\ LET e == execution[w]
       IN  Emit(w, "step_failed", e.step, "revise", [e EXCEPT !.status[e.step] = "failed"])

Done(e) == {i \in Step : e.status[i] = "completed"}

\* Mutant: a revision may relabel a completed step.
SameLength(e, p) == \A i \in Done(e) : i \in DOMAIN p

\* assert_completed_steps_preserved.
Preserved(e, p) ==
    \A i \in Done(e) : i \in DOMAIN p /\ p[i] = e.plan[i]

ShouldRevise(e) ==
    /\ e.revisions < MaxRevisions
    /\ e.plan[e.step].agent = "reviewer" \/ e.status[e.step] = "failed"

\* The planner proposes a revision that passes the gate; it is written.
Revise(w) ==
    /\ pc[w] = "revise"
    /\ ShouldRevise(execution[w])
    /\ Fence(w)
    /\ \E p \in Plans :
         LET e == execution[w]
         IN  /\ Preserved(e, p)
             /\ plan' = p
             /\ revision_count' = e.revisions + 1
             /\ Committed(w, "revised",
                    [e EXCEPT !.plan = p,
                              !.revisions = @ + 1,
                              !.status = StatusOfSteps(p, Done(e))])
    /\ UNCHANGED <<status, worker_id, lease, saved, events, checkpoint, api, resumes, handed>>

\* No revision is due, none is wanted, or the planner fails.
KeepPlan(w) ==
    /\ pc[w] = "revise"
    /\ Stay(w, "select")
    /\ UNCHANGED <<row, events, checkpoint, api, faults, resumes, handed>>

AnnounceRevision(w) ==
    /\ pc[w] = "revised"
    /\ Emit(w, "plan_revised", 0, "select", execution[w])

-----------------------------------------------------------------------------
(* The end of the run. *)

\* _finish_execution reads the status once more before the final write.
Finish(w) ==
    /\ pc[w] = "finish"
    /\ Stay(w, IF status = "cancelled" THEN "clear" ELSE "final")
    /\ UNCHANGED <<row, events, checkpoint, api, faults, resumes, handed>>

\* _select_final_output: some content agent completed, and wrote something.
HasContent(e) ==
    \E i \in Step : /\ e.status[i] = "completed"
                    /\ e.plan[i].agent \in ContentAgents
                    /\ e.output[i].text

\* complete_run_with_content: article, status and event in one transaction.
CompleteRun(w) ==
    /\ pc[w] = "final"
    /\ HasContent(execution[w])
    /\ Fence(w)
    /\ EndRun("completed", "run_complete", execution[w].attempt)
    /\ plan' = execution[w].plan
    /\ revision_count' = execution[w].revisions
    /\ saved' = TRUE
    /\ \/ Stay(w, "clear") /\ UNCHANGED faults
       \/ Fault("db_unknown") /\ Stay(w, "fail")
    /\ UNCHANGED <<worker_id, api, resumes, handed>>

\* Nothing to deliver: the run fails and keeps its checkpoints.
FailEmptyRun(w) ==
    /\ pc[w] = "final"
    /\ ~HasContent(execution[w])
    /\ Fence(w)
    /\ EndRun("failed", "run_failed", execution[w].attempt)
    /\ plan' = execution[w].plan
    /\ revision_count' = execution[w].revisions
    /\ \/ Leave(w) /\ UNCHANGED faults
       \/ Fault("db_unknown") /\ Stay(w, "fail")
    /\ UNCHANGED <<worker_id, saved, api, resumes, handed>>

\* clear_checkpoints: the fence lets the owner of a finished run through.
ClearCheckpoints(w) ==
    /\ pc[w] = "clear"
    /\ worker_id = w /\ (status \in {"completed", "cancelled"} \/ Fence(w))
    /\ checkpoint' = NoCheckpoints
    /\ Leave(w)
    /\ UNCHANGED <<row, events, api, faults, resumes, handed>>

\* fail_owned_run, for an exception that left the pipeline.
FailRun(w) ==
    /\ pc[w] = "fail"
    /\ Fence(w)
    /\ EndRun("failed", "run_failed", execution[w].attempt)
    /\ Leave(w)
    /\ UNCHANGED <<worker_id, plan, revision_count, saved, api, faults, resumes, handed>>

\* The fence refused a write, or the heartbeat found the lease gone: nothing is
\* written any more.
LeaseLost(w) ==
    /\ pc[w] \in Executing \cup {"fail"}
    /\ ~Fence(w)
    /\ Leave(w)
    /\ UNCHANGED <<row, events, checkpoint, api, faults, resumes, handed>>

\* A transaction of the worker fails without effect, or its heartbeat does.
DbError(w) ==
    /\ pc[w] # "idle"
    /\ Fault("db_error")
    /\ Stay(w, OnError(w)) \/ (pc[w] \in Executing /\ Leave(w))
    /\ UNCHANGED <<row, events, checkpoint, api, resumes, handed>>

\* CancelledError that the monitor did not ask for.
WorkerStop(w) ==
    /\ pc[w] \in Executing
    /\ Fault("worker_stop")
    /\ Stay(w, "fail")
    /\ UNCHANGED <<row, events, checkpoint, api, resumes, handed>>

\* SIGKILL, OOM or node loss.
WorkerCrash(w) ==
    /\ pc[w] # "idle"
    /\ Fault("worker_crash")
    /\ Leave(w)
    /\ UNCHANGED <<row, events, checkpoint, api, resumes, handed>>

Tick ==
    /\ lease # None /\ lease > 0
    /\ lease' = lease - 1
    /\ UNCHANGED <<status, worker_id, plan, revision_count, saved>>
    /\ UNCHANGED <<events, checkpoint, api, local, faults, resumes, handed>>

-----------------------------------------------------------------------------

HandlerStep(h) == EnqueueRun(h) \/ MarkRunFailed(h)

\* What a live worker does by itself.
WorkerStep(w) ==
    \/ Claim(w) \/ ClaimRefused(w) \/ Load(w) \/ MakePlan(w) \/ AnnouncePlan(w)
    \/ SelectStep(w) \/ StartStep(w) \/ StepSucceeds(w) \/ StepFails(w)
    \/ SaveCheckpoint(w) \/ ReportStep(w) \/ ReportFailure(w)
    \/ Revise(w) \/ KeepPlan(w) \/ AnnounceRevision(w)
    \/ Finish(w) \/ CompleteRun(w) \/ FailEmptyRun(w) \/ ClearCheckpoints(w)
    \/ FailRun(w) \/ LeaseLost(w)

Next ==
    \/ \E h \in Request : CreateRun(h) \/ HandlerStep(h) \/ ApiCrash(h) \/ ResumeRun(h)
    \/ \E w \in Worker : \/ Deliver(w) \/ WorkerStep(w) \/ Heartbeat(w) \/ Stream(w)
                         \/ DbError(w) \/ WorkerStop(w) \/ WorkerCrash(w)
    \/ CancelRun \/ ExpireRun \/ Tick

Spec == Init /\ [][Next]_vars

\* A live worker goes on, agents answer (their client and the queue time out), a
\* handler ends, time passes, and somebody looks for lapsed leases.  Users need not
\* resume or cancel, the queue need not deliver, heartbeats need not be in time.
Fairness ==
    /\ \A w \in Worker : WF_vars(WorkerStep(w))
    /\ \A h \in Request : WF_vars(HandlerStep(h))
    /\ WF_vars(ExpireRun)
    /\ WF_vars(Tick)

FairSpec == Spec /\ Fairness

-----------------------------------------------------------------------------
(* Properties. *)

\* No event of one attempt lands in the log of the next, but for the run_failed of a call
\* whose enqueue failed: an appended event is of the attempt the run is in.  A worker that
\* lost its lease, or was taken for dead, can still be anywhere in its pipeline (the fence
\* of every worker transaction, the resume that releases the row; DEPLOYMENT.md:168-170).
EventsBelongToTheirAttempt ==
    [][last' # last =>
         last'.by = resumes' \/ \E h \in Request : MarkRunFailed(h)]_vars

\* Once the log has reported a step as completed, its result survives every failure
\* of the worker: the run can be resumed from it (the order of save_step_checkpoint
\* and the step_complete event, and what a failed run keeps).
ShownIsDurable ==
    status \in {"running", "failed"} => \A i \in shown : checkpoint[i] # None

\* A cancelled run holds no checkpoint, whatever a late worker still tries to save
\* (transition_run_and_append_event owns the cleanup; save_run_step_checkpoint).
CancelledLeavesNothing == status = "cancelled" => checkpoint = NoCheckpoints

\* A result the pipeline counts as completed was written by the agent its plan names
\* at that step, through resumes under a plan revised meanwhile (_restore_progress,
\* assert_completed_steps_preserved).
CompletedIsLabelled ==
    \A w \in Worker : \A i \in Step :
        execution[w].status[i] = "completed" =>
            /\ i \in DOMAIN execution[w].plan
            /\ execution[w].output[i] # None
            /\ execution[w].output[i].agent = execution[w].plan[i].agent

\* An attempt does not start, and pay for, a step that an earlier attempt completed
\* with a result, under the agent named by the plan the run was resumed with
\* (save_step_checkpoint before the event, _restore_progress).  Only a revision of its
\* own may give a step back to the agent that once completed it: that step runs again.
PaidStep(i, p) ==
    /\ checkpoint[i] # None
    /\ i \in DOMAIN p
    /\ checkpoint[i].output.agent = p[i].agent
    /\ checkpoint[i].attempt < resumes
StepStarted == last' # last /\ last'.type = "step_start"
NothingIsPaidTwice ==
    [][StepStarted /\ handed # None =>
         ~(PaidStep(last'.step, handed) /\ checkpoint[last'.step].output.text)]_vars

\* The budget of revisions is the run's, not the attempt's (revision_count).
RevisionsAddUp == [][revision_count' >= revision_count]_vars

\* Readers of the log get what RunEventLog promises.
tail == IF last.type \in StepEvents \cup {"plan_ready", "plan_revised"}
          THEN "progress" ELSE last.type
Log == INSTANCE RunEventLog WITH phase <- status
ImplementsLog == Log!LogSpec

\* A run does not stay running: it ends, or somebody notices that nobody works on it
\* (dispatch deadline, lease, fail_expired_run).
RunsEnd == status = "running" ~> status # "running"

\* run_repository.py:284-286: transition_run_and_append_event "returns None when another
\* actor already moved the run out of an expected state", "preventing duplicate terminal
\* events".  A call that opened an attempt and then fails to enqueue it compares the status
\* only: when that attempt was expired and the run resumed, the call ends the resumed one,
\* with a second terminal event of its own.
MovedRunsAreLeftAlone ==
    [][\A h \in Request :
         MarkRunFailed(h) /\ status = "running" => call[h].attempt = resumes]_vars

\* docs/PRODUCTION_OPERATIONS.md: steps with a completed checkpoint are restored,
\* not executed.  The code distrusts a checkpoint whose output is empty.
CheckpointedIsRestored ==
    [][StepStarted => ~PaidStep(last'.step, plan)]_vars

\* plan_schema.py: a draft must not flow downstream wearing another agent's name.
\* An output is kept when its step fails after the answer, and a revision may give
\* that step to another agent.
InputsAreLabelled ==
    \A w \in Worker : pc[w] = "exec" =>
        LET e == execution[w]
        IN  \A i \in e.plan[e.step].inputs :
                e.output[i] # None => e.output[i].agent = e.plan[i].agent
=============================================================================
