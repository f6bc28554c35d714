-------------------------- MODULE PipelineRunProofs -------------------------
(***************************************************************************)
(* What holds of PipelineRun for every set of workers, API calls and plans,*)
(* every revision budget, every deadline and every set of faults.          *)
(***************************************************************************)
EXTENDS PipelineRun, TLAPS

-----------------------------------------------------------------------------
(* What a worker knows. *)

\* A step of a plan is one of Step, and names an agent.
LEMMA PlanFacts ==
    ASSUME NEW p \in Plans
    PROVE  \A i \in DOMAIN p : i \in Step /\ i \in Nat /\ p[i].agent \in Agents
  <1>1. p \in Seq(PlanSteps) /\ DOMAIN p = 1 .. Len(p)
    BY PlansAssumption
  <1>2. \A i \in DOMAIN p : p[i] \in PlanSteps
    BY <1>1
  <1>3. \A i \in DOMAIN p : i \in Step
    BY DEF Step
  <1> QED BY <1>1, <1>2, <1>3 DEF PlanSteps

LEMMA NoneFacts ==
    /\ None \notin Worker /\ None \notin Int /\ None \notin Plans
    /\ None \notin Outputs /\ None \notin Checkpoints
  BY NoneAssumption

OnStep == {"start", "exec", "save", "complete", "failing", "revise"}

\* The execution of a worker that is at label: its steps are those of its plan, what
\* it counts as completed was written by the agent the plan names, and the step it
\* works on is one of them.
Good(label, e) ==
    /\ e \in Executions
    /\ \A i \in Step : e.status[i] # "absent" => e.plan \in Plans /\ i \in DOMAIN e.plan
    /\ \A i \in Step : e.status[i] = "completed" =>
           e.output[i] # None /\ e.output[i].agent = e.plan[i].agent
    /\ label \in OnStep => e.step \in Step /\ e.status[e.step] # "absent"
    /\ label \in {"save", "complete"} => e.status[e.step] = "completed"

LocalInv ==
    /\ pc \in [Worker -> WorkerPCs]
    /\ execution \in [Worker -> Executions]
    /\ \A w \in Worker : Good(pc[w], execution[w])

LEMMA NothingGood == Nothing \in Executions /\ Good("idle", Nothing) /\ Good("load", Nothing)
  <1>1. Nothing \in Executions
    BY BoundsAssumption DEF Nothing, Executions, StepStatuses
  <1>2. \A i \in Step : Nothing.status[i] = "absent"
    BY DEF Nothing
  <1> QED BY <1>1, <1>2 DEF Good, OnStep

\* It is enough to look at the worker that moves.
LEMMA GotoGood ==
    ASSUME LocalInv, NEW w \in Worker, NEW label \in WorkerPCs, NEW e,
           label = "idle" \/ Good(label, e), Goto(w, label, e)
    PROVE  LocalInv'
  <1> DEFINE f == IF label = "idle" THEN Nothing ELSE e
  <1>1. Good(label, f)
    BY NothingGood
  <1>2. f \in Executions
    BY <1>1 DEF Good
  <1>3. /\ pc' \in [Worker -> WorkerPCs]
        /\ execution' \in [Worker -> Executions]
        /\ pc'[w] = label /\ execution'[w] = f
        /\ \A v \in Worker : v # w => pc'[v] = pc[v] /\ execution'[v] = execution[v]
    BY <1>2 DEF Goto, LocalInv
  <1>4. \A v \in Worker : Good(pc'[v], execution'[v])
    <2> TAKE v \in Worker
    <2>1. CASE v = w
      BY <2>1, <1>1, <1>3
    <2>2. CASE v # w
      BY <2>2, <1>3 DEF LocalInv
    <2> QED BY <2>1, <2>2
  <1> HIDE DEF f
  <1> QED BY <1>3, <1>4 DEF LocalInv

\* A worker that goes on as it is, to where less is asked of it.
LEMMA StayGood ==
    ASSUME LocalInv, NEW w \in Worker, NEW label \in WorkerPCs, Stay(w, label),
           label \in OnStep => pc[w] \in OnStep,
           label \in {"save", "complete"} => pc[w] \in {"save", "complete"}
    PROVE  LocalInv'
  <1>1. Good(label, execution[w])
    BY DEF LocalInv, Good
  <1> QED BY <1>1, GotoGood DEF Stay

\* An exception of the store leads to such a place.
LEMMA ErrorGood ==
    ASSUME LocalInv, NEW w \in Worker, Stay(w, OnError(w))
    PROVE  LocalInv'
  <1>1. OnError(w) \in {"idle", "fail", "failing", "exec"}
    BY DEF OnError
  <1>2. OnError(w) \in {"failing", "exec"} => pc[w] \in {"save", "complete", "exec"}
    BY DEF OnError
  <1>3. OnError(w) \in WorkerPCs
    BY <1>1 DEF WorkerPCs, Executing
  <1>4. OnError(w) \in OnStep => pc[w] \in OnStep
    BY <1>1, <1>2 DEF OnStep
  <1> QED BY <1>1, <1>3, <1>4, StayGood

LEMMA CommittedGood ==
    ASSUME LocalInv, NEW w \in Worker, NEW label \in WorkerPCs, NEW e,
           Good(label, e), Committed(w, label, e)
    PROVE  LocalInv'
  BY GotoGood, ErrorGood DEF Committed

\* Every action of a worker keeps what is known about the workers.
LEMMA LocalStep ==
    ASSUME TypeOK, LocalInv, [Next]_vars
    PROVE  LocalInv'
  <1>1. CASE UNCHANGED local
    BY <1>1 DEF local, LocalInv
  <1>2. ASSUME NEW w \in Worker, Claim(w) PROVE LocalInv'
    <2>1. Good("load", [Nothing EXCEPT !.attempt = resumes])
      BY NothingGood DEF Good, TypeOK, Nothing, Executions, OnStep
    <2> QED BY <1>2, <2>1, CommittedGood DEF Claim, WorkerPCs, Executing
  <1>3. ASSUME NEW w \in Worker, Load(w) PROVE LocalInv'
    <2>1. CASE plan = None
      BY <1>3, <2>1, StayGood DEF Load, WorkerPCs, Executing, OnStep
    <2>2. CASE plan # None
      <3> DEFINE done == {i \in DOMAIN plan : Trusted(i)}
                 e == [execution[w] EXCEPT
                         !.plan = plan,
                         !.revisions = RevisionsSpent,
                         !.status = StatusOfSteps(plan, done),
                         !.output = [i \in Step |-> IF i \in done THEN checkpoint[i].output
                                                                  ELSE None]]
      <3>1. plan \in Plans
        BY <2>2 DEF TypeOK
      <3>2. \A i \in done : i \in Step /\ checkpoint[i] # None
                            /\ checkpoint[i].output.agent = plan[i].agent
        BY <3>1, PlanFacts DEF Trusted
      <3>3. \A i \in done : checkpoint[i].output \in Outputs
        BY <3>2 DEF TypeOK, Checkpoints
      <3>4. execution[w] \in Executions
        BY DEF LocalInv
      <3>5. e \in Executions
        <4> HIDE DEF done
        <4>1. [i \in Step |-> IF i \in done THEN checkpoint[i].output ELSE None]
                 \in [Step -> Outputs \cup {None}]
          BY <3>3
        <4>2. StatusOfSteps(plan, done) \in [Step -> StepStatuses]
          BY DEF StepStatuses, StatusOfSteps
        <4>3. RevisionsSpent \in 0 .. MaxRevisions
          BY DEF RevisionsSpent, TypeOK
        <4> QED BY <3>1, <3>4, <4>1, <4>2, <4>3 DEF Executions
      <3>6. Good("announce", e)
        <4>1. \A i \in Step : e.status[i] # "absent" => e.plan \in Plans /\ i \in DOMAIN e.plan
          BY <3>1, <3>2, <3>4 DEF Executions, StatusOfSteps
        <4>2. \A i \in Step : e.status[i] = "completed" =>
                  e.output[i] # None /\ e.output[i].agent = e.plan[i].agent
          BY <3>1, <3>2, <3>3, <3>4, NoneFacts DEF Executions, StatusOfSteps
        <4> QED BY <3>5, <4>1, <4>2 DEF Good, OnStep
      <3>7. Goto(w, "announce", e)
        BY <1>3, <2>2 DEF Load
      <3> QED BY <3>6, <3>7, GotoGood DEF WorkerPCs, Executing
    <2> QED BY <2>1, <2>2
  <1>4. ASSUME NEW w \in Worker, MakePlan(w) PROVE LocalInv'
    <2> PICK p \in Plans :
           Committed(w, "announce",
                [execution[w] EXCEPT !.plan = p, !.status = StatusOfSteps(p, {})])
      BY <1>4 DEF MakePlan
    <2> DEFINE e == [execution[w] EXCEPT !.plan = p, !.status = StatusOfSteps(p, {})]
    <2>1. execution[w] \in Executions
      BY DEF LocalInv
    <2>2. e \in Executions
      BY <2>1 DEF Executions, StepStatuses, StatusOfSteps
    <2>3. Good("announce", e)
      BY <2>1, <2>2 DEF Good, OnStep, Executions, StatusOfSteps
    <2> QED BY <2>3, CommittedGood DEF WorkerPCs, Executing
  <1>5. ASSUME NEW w \in Worker, SelectStep(w) PROVE LocalInv'
    <2>1. CASE Stay(w, "finish") \/ Stay(w, "clear")
      BY <2>1, StayGood DEF WorkerPCs, Executing, OnStep
    <2>2. ASSUME NEW i \in Step, FirstPending(execution[w], i),
                 Goto(w, "start", [execution[w] EXCEPT !.step = i, !.status[i] = "running"])
          PROVE  LocalInv'
      <3> DEFINE e == [execution[w] EXCEPT !.step = i, !.status[i] = "running"]
      <3>1. /\ execution[w] \in Executions /\ Good(pc[w], execution[w])
            /\ execution[w].status[i] = "pending"
        BY <2>2 DEF LocalInv, FirstPending, Pending
      <3>2. /\ e \in Executions /\ e.step = i
            /\ e.plan = execution[w].plan /\ e.output = execution[w].output
            /\ e.status = [execution[w].status EXCEPT ![i] = "running"]
        BY <3>1 DEF Executions, StepStatuses
      <3>3. \A j \in Step : e.status[j] = IF j = i THEN "running" ELSE execution[w].status[j]
        BY <3>1, <3>2 DEF Executions
      <3>4. Good("start", e)
        <4> HIDE DEF e
        <4> QED BY <3>1, <3>2, <3>3 DEF Good, OnStep
      <3> QED BY <2>2, <3>4, GotoGood DEF WorkerPCs, Executing
    <2> QED BY <1>5, <2>1, <2>2 DEF SelectStep
  <1>6. ASSUME NEW w \in Worker, StepSucceeds(w) PROVE LocalInv'
    <2> DEFINE k == execution[w].step
               agent == execution[w].plan[k].agent
    <2> PICK text \in BOOLEAN :
           Goto(w, "save", [execution[w] EXCEPT !.status[k] = "completed",
                                                !.output[k] = [agent |-> agent, text |-> text]])
      BY <1>6 DEF StepSucceeds
    <2> DEFINE e == [execution[w] EXCEPT !.status[k] = "completed",
                                         !.output[k] = [agent |-> agent, text |-> text]]
    <2>1. /\ execution[w] \in Executions /\ Good(pc[w], execution[w]) /\ pc[w] \in OnStep
      BY <1>6 DEF LocalInv, StepSucceeds, OnStep
    <2>2. k \in Step /\ execution[w].plan \in Plans /\ k \in DOMAIN execution[w].plan
      BY <2>1 DEF Good
    <2>3. [agent |-> agent, text |-> text] \in Outputs
      BY <2>2, PlanFacts DEF Outputs
    <2>4. /\ e \in Executions /\ e.step = k /\ e.plan = execution[w].plan
          /\ e.status = [execution[w].status EXCEPT ![k] = "completed"]
          /\ e.output = [execution[w].output EXCEPT ![k] = [agent |-> agent, text |-> text]]
      BY <2>1, <2>2, <2>3 DEF Executions, StepStatuses
    <2>5. \A j \in Step :
             /\ e.status[j] = IF j = k THEN "completed" ELSE execution[w].status[j]
             /\ e.output[j] = IF j = k THEN [agent |-> agent, text |-> text]
                                       ELSE execution[w].output[j]
      BY <2>1, <2>2, <2>4 DEF Executions
    <2>6. e.output[k] # None /\ e.output[k].agent = e.plan[k].agent
      <3>1. e.output[k] = [agent |-> agent, text |-> text] /\ e.plan[k].agent = agent
        BY <2>2, <2>4, <2>5
      <3> HIDE DEF e
      <3> QED BY <2>3, <3>1, NoneFacts
    <2>7. Good("save", e)
      <3> HIDE DEF e, k, agent
      <3>1. \A i \in Step : e.status[i] # "absent" => e.plan \in Plans /\ i \in DOMAIN e.plan
        BY <2>1, <2>2, <2>4, <2>5 DEF Good
      <3>2. \A i \in Step : e.status[i] = "completed" =>
                e.output[i] # None /\ e.output[i].agent = e.plan[i].agent
        BY <2>1, <2>2, <2>4, <2>5, <2>6 DEF Good
      <3> QED BY <2>2, <2>4, <2>5, <3>1, <3>2 DEF Good, OnStep
    <2> QED BY <2>7, GotoGood DEF WorkerPCs, Executing
  <1>7. ASSUME NEW w \in Worker, ReportFailure(w) PROVE LocalInv'
    <2> DEFINE k == execution[w].step
               e == [execution[w] EXCEPT !.status[k] = "failed"]
    <2>1. execution[w] \in Executions /\ Good(pc[w], execution[w]) /\ pc[w] \in OnStep
      BY <1>7 DEF LocalInv, ReportFailure, OnStep
    <2>2. k \in Step /\ execution[w].status[k] # "absent"
      BY <2>1 DEF Good
    <2>3. /\ e \in Executions /\ e.step = k
          /\ e.plan = execution[w].plan /\ e.output = execution[w].output
          /\ \A j \in Step : e.status[j] = IF j = k THEN "failed" ELSE execution[w].status[j]
      BY <2>1, <2>2 DEF Executions, StepStatuses
    <2>4. Good("revise", e)
      <3> HIDE DEF e, k
      <3> QED BY <2>1, <2>2, <2>3 DEF Good, OnStep
    <2> QED BY <1>7, <2>4, CommittedGood DEF ReportFailure, Emit, WorkerPCs, Executing
  <1>8. ASSUME NEW w \in Worker, Revise(w) PROVE LocalInv'
    <2> PICK p \in Plans :
           /\ Preserved(execution[w], p)
           /\ Committed(w, "revised", [execution[w] EXCEPT
                  !.plan = p, !.revisions = @ + 1,
                  !.status = StatusOfSteps(p, Done(execution[w]))])
      BY <1>8 DEF Revise
    <2> DEFINE e == [execution[w] EXCEPT !.plan = p, !.revisions = @ + 1,
                                         !.status = StatusOfSteps(p, Done(execution[w]))]
    <2>1. execution[w] \in Executions /\ Good(pc[w], execution[w])
      BY DEF LocalInv
    <2>2. execution[w].revisions + 1 \in 0 .. MaxRevisions
      BY <1>8, <2>1, BoundsAssumption DEF Revise, ShouldRevise, Executions
    <2>3. StatusOfSteps(p, Done(execution[w])) \in [Step -> StepStatuses]
      BY DEF StatusOfSteps, StepStatuses
    <2>4. /\ e \in Executions /\ e.plan = p /\ e.output = execution[w].output
          /\ e.status = StatusOfSteps(p, Done(execution[w]))
      BY <2>1, <2>2, <2>3 DEF Executions
    <2>5. \A i \in Step : e.status[i] = IF i \in Done(execution[w]) THEN "completed"
                                        ELSE IF i \in DOMAIN p THEN "pending" ELSE "absent"
      BY <2>4 DEF StatusOfSteps
    <2>6. Good("revised", e)
      <3> HIDE DEF e
      <3>1. \A i \in Step : e.status[i] # "absent" => e.plan \in Plans /\ i \in DOMAIN e.plan
        BY <2>4, <2>5 DEF Preserved
      <3>2. \A i \in Step : e.status[i] = "completed" =>
                e.output[i] # None /\ e.output[i].agent = e.plan[i].agent
        BY <2>1, <2>4, <2>5 DEF Preserved, Done, Good
      <3> QED BY <2>4, <3>1, <3>2 DEF Good, OnStep
    <2> QED BY <2>6, CommittedGood DEF WorkerPCs, Executing
  <1>9. ASSUME NEW w \in Worker,
               \/ AnnouncePlan(w) \/ StartStep(w) \/ Stream(w) \/ SaveCheckpoint(w)
               \/ ReportStep(w) \/ AnnounceRevision(w)
        PROVE  LocalInv'
    <2> DEFINE Next1(from, label) == pc[w] = from /\ Committed(w, label, execution[w])
    <2>1. \/ Next1("announce", "select") \/ Next1("start", "exec") \/ Next1("exec", "exec")
          \/ Next1("save", "complete") \/ Next1("complete", "revise")
          \/ Next1("revised", "select")
      BY <1>9 DEF AnnouncePlan, StartStep, Stream, SaveCheckpoint, ReportStep,
                  AnnounceRevision, Emit
    <2>2. ASSUME NEW from, NEW label \in WorkerPCs, Next1(from, label),
                 label \in OnStep => from \in OnStep,
                 label \in {"save", "complete"} => from \in {"save", "complete"}
          PROVE  LocalInv'
      BY <2>2, StayGood, ErrorGood DEF Committed, Stay
    <2> HIDE DEF Next1
    <2> QED BY <2>1, <2>2 DEF WorkerPCs, Executing, OnStep
  <1>10. ASSUME NEW w \in Worker,
                \/ Deliver(w) \/ ClaimRefused(w) \/ StepFails(w) \/ KeepPlan(w) \/ Finish(w)
                \/ CompleteRun(w) \/ FailEmptyRun(w) \/ ClearCheckpoints(w) \/ FailRun(w)
                \/ LeaseLost(w) \/ DbError(w) \/ WorkerStop(w) \/ WorkerCrash(w)
         PROVE  LocalInv'
    <2>1. \/ UNCHANGED local \/ Stay(w, OnError(w))
          \/ \E label \in {"claim", "idle", "select", "clear", "final", "fail"} : Stay(w, label)
          \/ pc[w] = "exec" /\ Stay(w, "failing")
      BY <1>10 DEF Deliver, ClaimRefused, StepFails, KeepPlan, Finish, CompleteRun,
           FailEmptyRun, ClearCheckpoints, FailRun, LeaseLost, DbError, WorkerStop,
           WorkerCrash, Leave
    <2>2. ASSUME NEW label \in {"claim", "idle", "select", "clear", "final", "fail"},
                 Stay(w, label)
          PROVE  LocalInv'
      BY <2>2, StayGood DEF WorkerPCs, Executing, OnStep
    <2>3. CASE pc[w] = "exec" /\ Stay(w, "failing")
      BY <2>3, StayGood DEF WorkerPCs, Executing, OnStep
    <2> QED BY <1>1, <2>1, <2>2, <2>3, ErrorGood
  <1>11. CASE \/ \E h \in Request : CreateRun(h) \/ HandlerStep(h) \/ ApiCrash(h) \/ ResumeRun(h)
              \/ \E w \in Worker : Heartbeat(w)
              \/ CancelRun \/ ExpireRun \/ Tick \/ UNCHANGED vars
    BY <1>1, <1>11 DEF CreateRun, HandlerStep, EnqueueRun, MarkRunFailed, ApiCrash, ResumeRun,
         Heartbeat, CancelRun, ExpireRun, Tick, vars
  <1> QED
    BY <1>2, <1>3, <1>4, <1>5, <1>6, <1>7, <1>8, <1>9, <1>10, <1>11 DEF Next, WorkerStep

-----------------------------------------------------------------------------
(* Type correctness. *)

\* A worker's own step: the step it is on, and what it would checkpoint.
LEMMA OwnStep ==
    ASSUME LocalInv, NEW w \in Worker, pc[w] \in OnStep
    PROVE  /\ execution[w].step \in Step
           /\ pc[w] \in {"save", "complete"} =>
                 execution[w].output[execution[w].step] \in Outputs
  BY NoneFacts DEF LocalInv, Good, Executions

LEMMA AppendType ==
    ASSUME TypeOK, NEW type \in EventTypes, NEW i \in Step \cup {0},
           NEW by \in 0 .. MaxResumes, type = "step_complete" => i \in Step,
           AppendEvent(type, i, by)
    PROVE  /\ last' \in [type : EventTypes, step : Step \cup {0}, by : 0 .. MaxResumes]
           /\ shown' \subseteq Step
  BY DEF AppendEvent, TypeOK

LEMMA CheckpointType ==
    ASSUME TypeOK, checkpoint' = checkpoint \/ checkpoint' = NoCheckpoints
    PROVE  checkpoint' \in [Step -> Checkpoints \cup {None}]
  BY DEF TypeOK, NoCheckpoints

LEMMA EndType ==
    ASSUME TypeOK, NEW s \in Ended, NEW type \in EventTypes \ {"step_complete"},
           NEW by \in 0 .. MaxResumes, EndRun(s, type, by)
    PROVE  /\ status' \in Ended /\ lease' = None
           /\ last' \in [type : EventTypes, step : Step \cup {0}, by : 0 .. MaxResumes]
           /\ shown' \subseteq Step
           /\ checkpoint' \in [Step -> Checkpoints \cup {None}]
  BY AppendType, CheckpointType DEF EndRun

LEMMA EmitType ==
    ASSUME TypeOK, LocalInv, NEW w \in Worker, NEW type \in EventTypes,
           NEW i \in Step \cup {0}, NEW label, NEW e,
           type = "step_complete" => i \in Step, Emit(w, type, i, label, e)
    PROVE  /\ last' \in [type : EventTypes, step : Step \cup {0}, by : 0 .. MaxResumes]
           /\ shown' \subseteq Step
           /\ faults' \in 0 .. MaxFaults
           /\ UNCHANGED <<row, checkpoint, api, resumes, handed>>
  <1>1. execution[w].attempt \in 0 .. MaxResumes
    BY DEF LocalInv, Executions
  <1>2. faults' \in 0 .. MaxFaults
    BY BoundsAssumption DEF Emit, Committed, Fault, TypeOK
  <1> QED BY <1>1, <1>2, AppendType DEF Emit

TInv == TypeOK /\ LocalInv

LEMMA TypeStep ==
    ASSUME TypeOK, LocalInv, LocalInv', [Next]_vars
    PROVE  TypeOK'
  <1>a. pc' \in [Worker -> WorkerPCs] /\ execution' \in [Worker -> Executions]
    BY DEF LocalInv
  <1>b. {"plan_ready", "plan_revised"} \subseteq EventTypes
    BY DEF EventTypes
  <1>c. NoCall \in [at : {"idle", "enqueue", "mark"}, attempt : 0 .. MaxResumes]
    BY BoundsAssumption DEF NoCall
  <1> USE <1>a DEF TypeOK
  <1>1. ASSUME NEW h \in Request, CreateRun(h) \/ EnqueueRun(h) \/ MarkRunFailed(h)
                                  \/ ApiCrash(h) \/ ResumeRun(h)
        PROVE  TypeOK'
    <2>1. CASE CreateRun(h)
      BY <2>1, BoundsAssumption DEF CreateRun, events, local
    <2>2. CASE EnqueueRun(h)
      BY <2>2, <1>c, BoundsAssumption DEF EnqueueRun, Fault, events, local, row
    <2>3. CASE MarkRunFailed(h)
      <3>1. CASE status = "running"
        <4>1. call[h].attempt \in 0 .. MaxResumes
          OBVIOUS
        <4> QED BY <2>3, <3>1, <4>1, <1>c, EndType
                DEF MarkRunFailed, Ended, EventTypes, StepEvents, local
      <3>2. CASE status # "running"
        BY <2>3, <3>2, <1>c DEF MarkRunFailed, events, local
      <3> QED BY <3>1, <3>2
    <2>4. CASE ApiCrash(h)
      BY <2>4, <1>c, BoundsAssumption DEF ApiCrash, Fault, events, local, row
    <2>5. CASE ResumeRun(h)
      <3>1. resumes' \in 0 .. MaxResumes
        BY <2>5, BoundsAssumption DEF ResumeRun
      <3>2. /\ last' \in [type : EventTypes, step : Step \cup {0}, by : 0 .. MaxResumes]
            /\ shown' \subseteq Step
        BY <2>5, <3>1, AppendType DEF ResumeRun, EventTypes
      <3> QED BY <2>5, <3>1, <3>2, BoundsAssumption DEF ResumeRun, local, ReleasedWorker
    <2> QED BY <1>1, <2>1, <2>2, <2>3, <2>4, <2>5
  <1>2. CASE CancelRun \/ ExpireRun
    BY <1>2, EndType DEF CancelRun, ExpireRun, Ended, EventTypes, StepEvents, local, api
  <1>3. CASE Tick
    <2>1. lease' \in (0 .. LeaseDuration) \cup (0 .. DispatchTimeout) \cup {None}
      BY <1>3, BoundsAssumption DEF Tick
    <2> QED BY <1>3, <2>1 DEF Tick, events, local, api
  <1>4. ASSUME NEW w \in Worker, Claim(w) \/ Heartbeat(w) PROVE TypeOK'
    BY <1>4, BoundsAssumption DEF Claim, Heartbeat, Committed, Fault, events, local, api
  <1>5. ASSUME NEW w \in Worker, Deliver(w) PROVE TypeOK'
    BY <1>5, BoundsAssumption DEF Deliver, Fault, events, row
  <1>6. ASSUME NEW w \in Worker,
               \/ ClaimRefused(w) \/ Load(w) \/ SelectStep(w) \/ StepSucceeds(w)
               \/ StepFails(w) \/ KeepPlan(w) \/ Finish(w) \/ LeaseLost(w)
               \/ DbError(w) \/ WorkerStop(w) \/ WorkerCrash(w)
        PROVE  TypeOK'
    <2>1. UNCHANGED <<row, events, checkpoint, api, resumes, handed>> /\ faults' \in 0 .. MaxFaults
      <3>1. CASE DbError(w) \/ WorkerStop(w) \/ WorkerCrash(w)
        BY <3>1, BoundsAssumption DEF DbError, WorkerStop, WorkerCrash, Fault
      <3>2. CASE \/ ClaimRefused(w) \/ Load(w) \/ SelectStep(w) \/ StepSucceeds(w)
                 \/ StepFails(w) \/ KeepPlan(w) \/ Finish(w) \/ LeaseLost(w)
        BY <3>2 DEF ClaimRefused, Load, SelectStep, StepSucceeds, StepFails, KeepPlan,
                    Finish, LeaseLost
      <3> QED BY <1>6, <3>1, <3>2
    <2> QED BY <2>1 DEF row, events, api
  <1>7. ASSUME NEW w \in Worker, MakePlan(w) PROVE TypeOK'
    BY <1>7, BoundsAssumption DEF MakePlan, Committed, Fault, events, api
  <1>8. ASSUME NEW w \in Worker, Revise(w) PROVE TypeOK'
    <2>1. execution[w].revisions + 1 \in 0 .. MaxRevisions
      BY <1>8, BoundsAssumption DEF Revise, ShouldRevise, Executions
    <2> QED BY <1>8, <2>1, BoundsAssumption DEF Revise, Committed, Fault, events, api
  <1>9. ASSUME NEW w \in Worker,
               \/ AnnouncePlan(w) \/ AnnounceRevision(w) \/ StartStep(w) \/ Stream(w)
               \/ ReportStep(w) \/ ReportFailure(w)
        PROVE  TypeOK'
    <2>1. /\ last' \in [type : EventTypes, step : Step \cup {0}, by : 0 .. MaxResumes]
          /\ shown' \subseteq Step
          /\ faults' \in 0 .. MaxFaults
          /\ UNCHANGED <<row, checkpoint, api, resumes, handed>>
      <3>1. CASE AnnouncePlan(w) \/ AnnounceRevision(w)
        BY <3>1, <1>b, EmitType DEF AnnouncePlan, AnnounceRevision
      <3>2. CASE StartStep(w) \/ Stream(w) \/ ReportStep(w) \/ ReportFailure(w)
        <4>1. pc[w] \in OnStep
          BY <3>2 DEF StartStep, Stream, ReportStep, ReportFailure, OnStep
        <4>2. execution[w].step \in Step
          BY <4>1, OwnStep
        <4>3. {"step_start", "step_stream", "step_complete", "step_failed"} \subseteq EventTypes
          BY DEF EventTypes, StepEvents
        <4> QED BY <3>2, <4>2, <4>3, EmitType DEF StartStep, Stream, ReportStep, ReportFailure
      <3> QED BY <1>9, <3>1, <3>2
    <2> QED BY <2>1 DEF row, api
  <1>10. ASSUME NEW w \in Worker, SaveCheckpoint(w) PROVE TypeOK'
    <2>1. pc[w] \in OnStep /\ pc[w] = "save"
      BY <1>10 DEF SaveCheckpoint, OnStep
    <2>2. [output |-> execution[w].output[execution[w].step],
           attempt |-> execution[w].attempt] \in Checkpoints
      BY <2>1, OwnStep DEF Checkpoints, Executions
    <2>3. checkpoint' \in [Step -> Checkpoints \cup {None}]
      BY <1>10, <2>2 DEF SaveCheckpoint
    <2> QED BY <1>10, <2>3, BoundsAssumption
            DEF SaveCheckpoint, Committed, Fault, row, events, api
  <1>11. ASSUME NEW w \in Worker, CompleteRun(w) \/ FailEmptyRun(w) \/ FailRun(w)
         PROVE  TypeOK'
    <2>1. /\ execution[w].attempt \in 0 .. MaxResumes
          /\ execution[w].plan \in Plans \cup {None}
          /\ execution[w].revisions \in 0 .. MaxRevisions
      BY DEF Executions
    <2>2. \E s \in {"completed", "failed"}, type \in {"run_complete", "run_failed"} :
             EndRun(s, type, execution[w].attempt)
      BY <1>11 DEF CompleteRun, FailEmptyRun, FailRun
    <2>3. /\ status' \in Ended /\ lease' = None
          /\ last' \in [type : EventTypes, step : Step \cup {0}, by : 0 .. MaxResumes]
          /\ shown' \subseteq Step
          /\ checkpoint' \in [Step -> Checkpoints \cup {None}]
      BY <2>1, <2>2, EndType DEF Ended, EventTypes, StepEvents
    <2>4. faults' \in 0 .. MaxFaults
      BY <1>11, BoundsAssumption DEF CompleteRun, FailEmptyRun, FailRun, Fault
    <2> QED BY <1>11, <2>1, <2>3, <2>4 DEF CompleteRun, FailEmptyRun, FailRun, api
  <1>12. ASSUME NEW w \in Worker, ClearCheckpoints(w) PROVE TypeOK'
    BY <1>12, CheckpointType DEF ClearCheckpoints, row, events, api
  <1>13. CASE UNCHANGED vars
    BY <1>13 DEF vars, row, events, api, local
  <1> QED
    BY <1>1, <1>2, <1>3, <1>4, <1>5, <1>6, <1>7, <1>8, <1>9, <1>10, <1>11, <1>12, <1>13
    DEF Next, WorkerStep, HandlerStep

-----------------------------------------------------------------------------
(* What a step can do to the durable state, in seven ways, and to a worker. *)

shared == <<status, saved, last, shown, checkpoint, resumes>>

Opens ==
    /\ status = "none" /\ status' = "running"
    /\ UNCHANGED <<saved, last, shown, checkpoint, resumes>>

Reports(w, type, i) ==
    /\ pc[w] \in Executing /\ Fence(w)
    /\ AppendEvent(type, i, execution[w].attempt)
    /\ type = "step_complete" => pc[w] = "complete" /\ i = execution[w].step
    /\ UNCHANGED <<status, saved, checkpoint, resumes>>

Records(w) ==
    /\ pc[w] = "save" /\ Fence(w)
    /\ \E c \in Checkpoints : checkpoint' = [checkpoint EXCEPT ![execution[w].step] = c]
    /\ UNCHANGED <<status, saved, last, shown, resumes>>

\* The attempt a run is ended for: the current one, as the API says of a cancellation
\* or an expiry and a worker of its own, or the one whose enqueue failed.
By(n) ==
    \/ n = resumes
    \/ \E w \in Worker :
           Fence(w) /\ pc[w] \notin {"idle", "claim"} /\ n = execution[w].attempt
    \/ \E h \in Request : MarkRunFailed(h) /\ n = call[h].attempt

Ends(p, n) ==
    /\ status = "running" /\ By(n)
    /\ EndRun(p, Log!EndEvent[p], n)
    /\ saved' = (saved \/ p = "completed")
    /\ resumes' = resumes

Reopens ==
    /\ status = "failed" /\ status' = "running"
    /\ resumes' = resumes + 1
    /\ AppendEvent("run_resumed", 0, resumes')
    /\ UNCHANGED <<saved, checkpoint>>

Clears ==
    /\ \E w \in Worker : pc[w] = "clear"
    /\ checkpoint' = NoCheckpoints
    /\ UNCHANGED <<status, saved, last, shown, resumes>>

ProgressEvents == StepEvents \cup {"plan_ready", "plan_revised"}

LEMMA DurableStep ==
    ASSUME TypeOK, LocalInv, [Next]_vars
    PROVE  \/ UNCHANGED shared
           \/ Opens
           \/ \E w \in Worker, type \in ProgressEvents, i \in Step \cup {0} : Reports(w, type, i)
           \/ \E w \in Worker : Records(w)
           \/ \E p \in Ended, n \in 0 .. MaxResumes : Ends(p, n)
           \/ Reopens
           \/ Clears
  <1>a. /\ Log!EndEvent["completed"] = "run_complete"
        /\ Log!EndEvent["failed"] = "run_failed"
        /\ Log!EndEvent["cancelled"] = "run_cancelled"
    BY DEF Log!EndEvent
  <1>b. resumes \in 0 .. MaxResumes /\ saved \in BOOLEAN /\ {"completed", "failed", "cancelled"} = Ended
    BY DEF TypeOK, Ended
  <1>c. saved = (saved \/ FALSE)
    BY <1>b
  <1>1. ASSUME NEW h \in Request, CreateRun(h) PROVE Opens
    BY <1>1 DEF CreateRun, Opens, events
  <1>2. ASSUME NEW h \in Request, ResumeRun(h) PROVE Reopens
    BY <1>2 DEF ResumeRun, Reopens
  <1>3. ASSUME NEW h \in Request, EnqueueRun(h) \/ ApiCrash(h) PROVE UNCHANGED shared
    BY <1>3 DEF EnqueueRun, ApiCrash, row, events, shared
  <1>4. ASSUME NEW h \in Request, MarkRunFailed(h)
        PROVE  UNCHANGED shared \/ \E n \in 0 .. MaxResumes : Ends("failed", n)
    <2>1. CASE status = "running"
      <3>1. call[h].attempt \in 0 .. MaxResumes
        BY DEF TypeOK
      <3>2. By(call[h].attempt)
        BY <1>4 DEF By
      <3>3. Ends("failed", call[h].attempt)
        BY <1>4, <2>1, <3>2, <1>a, <1>b DEF MarkRunFailed, Ends
      <3> QED BY <3>1, <3>3
    <2>2. CASE status # "running"
      BY <1>4, <2>2 DEF MarkRunFailed, events, shared
    <2> QED BY <2>1, <2>2
  <1>5. CancelRun => Ends("cancelled", resumes)
    BY <1>a, <1>b DEF CancelRun, Cancellable, Ends, By
  <1>6. ExpireRun => Ends("failed", resumes)
    BY <1>a, <1>b DEF ExpireRun, Expirable, Ends, By
  <1>7. Tick \/ UNCHANGED vars => UNCHANGED shared
    BY DEF Tick, vars, row, events, shared
  <1>8. ASSUME NEW w \in Worker,
               \/ Deliver(w) \/ Claim(w) \/ ClaimRefused(w) \/ Heartbeat(w) \/ Load(w)
               \/ MakePlan(w) \/ SelectStep(w) \/ StepSucceeds(w) \/ StepFails(w)
               \/ Revise(w) \/ KeepPlan(w) \/ Finish(w) \/ LeaseLost(w)
               \/ DbError(w) \/ WorkerStop(w) \/ WorkerCrash(w)
        PROVE  UNCHANGED shared
    BY <1>8 DEF Deliver, Claim, ClaimRefused, Heartbeat, Load, MakePlan, SelectStep,
         StepSucceeds, StepFails, Revise, KeepPlan, Finish, LeaseLost, DbError,
         WorkerStop, WorkerCrash, row, events, shared
  <1>9. ASSUME NEW w \in Worker,
               \/ AnnouncePlan(w) \/ AnnounceRevision(w) \/ StartStep(w) \/ Stream(w)
               \/ ReportStep(w) \/ ReportFailure(w)
        PROVE  \E type \in ProgressEvents, i \in Step \cup {0} : Reports(w, type, i)
    <2>1. execution[w].step \in Step \cup {0}
      BY DEF LocalInv, Executions
    <2>2. CASE AnnouncePlan(w)
      BY <2>2 DEF AnnouncePlan, Emit, Reports, ProgressEvents, Executing, row
    <2>3. CASE AnnounceRevision(w)
      BY <2>3 DEF AnnounceRevision, Emit, Reports, ProgressEvents, Executing, row
    <2>4. CASE StartStep(w) \/ Stream(w)
      BY <2>1, <2>4 DEF StartStep, Stream, Emit, Reports, ProgressEvents, StepEvents,
                        Executing, row
    <2>5. CASE ReportStep(w)
      BY <2>1, <2>5 DEF ReportStep, Emit, Reports, ProgressEvents, StepEvents, Executing, row
    <2>6. CASE ReportFailure(w)
      BY <2>1, <2>6 DEF ReportFailure, Emit, Reports, ProgressEvents, StepEvents, Executing, row
    <2> QED BY <1>9, <2>2, <2>3, <2>4, <2>5, <2>6
  <1>10. ASSUME NEW w \in Worker, SaveCheckpoint(w) PROVE Records(w)
    <2>1. [output |-> execution[w].output[execution[w].step],
           attempt |-> execution[w].attempt] \in Checkpoints
      BY <1>10, OwnStep DEF SaveCheckpoint, OnStep, Checkpoints, LocalInv, Executions
    <2> QED BY <1>10, <2>1 DEF SaveCheckpoint, CheckpointFence, Records, row, events
  <1>11. ASSUME NEW w \in Worker, CompleteRun(w) \/ FailEmptyRun(w) \/ FailRun(w)
         PROVE  \E p \in Ended, n \in 0 .. MaxResumes : Ends(p, n)
    <2>1. execution[w].attempt \in 0 .. MaxResumes
      BY DEF LocalInv, Executions
    <2>2. By(execution[w].attempt) /\ status = "running"
      BY <1>11 DEF CompleteRun, FailEmptyRun, FailRun, By, Fence
    <2>3. CompleteRun(w) => Ends("completed", execution[w].attempt)
      BY <2>2, <1>a DEF CompleteRun, Ends
    <2>4. FailEmptyRun(w) \/ FailRun(w) => Ends("failed", execution[w].attempt)
      BY <2>2, <1>a, <1>b DEF FailEmptyRun, FailRun, Ends
    <2> QED BY <1>11, <1>b, <2>1, <2>3, <2>4
  <1>12. ASSUME NEW w \in Worker, ClearCheckpoints(w) PROVE Clears
    BY <1>12 DEF ClearCheckpoints, Clears, row, events
  <1> QED
    BY <1>b, <1>1, <1>2, <1>3, <1>4, <1>5, <1>6, <1>7, <1>8, <1>9, <1>10, <1>11, <1>12
    DEF Next, WorkerStep, HandlerStep

LEMMA OwnerStep ==
    ASSUME [Next]_vars
    PROVE  \/ worker_id' = worker_id /\ resumes' = resumes
           \/ \E w \in Worker : Claim(w) /\ worker_id' = w /\ resumes' = resumes
           \/ worker_id' = None
  <1>1. ASSUME NEW h \in Request, CreateRun(h) \/ HandlerStep(h) \/ ApiCrash(h)
        PROVE  worker_id' = worker_id /\ resumes' = resumes
    BY <1>1 DEF CreateRun, HandlerStep, EnqueueRun, MarkRunFailed, ApiCrash, row
  <1>2. ASSUME NEW h \in Request, ResumeRun(h) PROVE worker_id' = None
    BY <1>2 DEF ResumeRun, ReleasedWorker
  <1>3. CASE CancelRun \/ ExpireRun \/ Tick \/ UNCHANGED vars
    BY <1>3 DEF CancelRun, ExpireRun, Tick, vars, row
  <1>4. ASSUME NEW w \in Worker, Claim(w) PROVE worker_id' = w /\ resumes' = resumes
    BY <1>4 DEF Claim
  <1>5. ASSUME NEW w \in Worker,
               \/ Deliver(w) \/ ClaimRefused(w) \/ Heartbeat(w) \/ Load(w)
               \/ MakePlan(w) \/ SelectStep(w) \/ StepSucceeds(w) \/ StepFails(w)
               \/ Revise(w) \/ KeepPlan(w) \/ Finish(w) \/ LeaseLost(w)
               \/ DbError(w) \/ WorkerStop(w) \/ WorkerCrash(w)
        PROVE  worker_id' = worker_id /\ resumes' = resumes
    BY <1>5 DEF Deliver, ClaimRefused, Heartbeat, Load, MakePlan, SelectStep,
         StepSucceeds, StepFails, Revise, KeepPlan, Finish, LeaseLost, DbError,
         WorkerStop, WorkerCrash, row
  <1>6. ASSUME NEW w \in Worker,
               \/ AnnouncePlan(w) \/ AnnounceRevision(w) \/ StartStep(w) \/ Stream(w)
               \/ ReportStep(w) \/ ReportFailure(w) \/ SaveCheckpoint(w) \/ CompleteRun(w)
               \/ FailEmptyRun(w) \/ FailRun(w) \/ ClearCheckpoints(w)
        PROVE  worker_id' = worker_id /\ resumes' = resumes
    BY <1>6 DEF AnnouncePlan, AnnounceRevision, StartStep, Stream, ReportStep, ReportFailure,
         Emit, SaveCheckpoint, CompleteRun, FailEmptyRun, FailRun, ClearCheckpoints, row
  <1> QED BY <1>1, <1>2, <1>3, <1>4, <1>5, <1>6 DEF Next, WorkerStep

\* How a step moves one worker.
Still(v) == pc'[v] = pc[v] /\ execution'[v] = execution[v]
Advances(v) ==
    /\ pc[v] \notin {"idle", "claim"}
    /\ execution'[v].attempt = execution[v].attempt
    /\ pc'[v] = "complete" => SaveCheckpoint(v) /\ execution'[v] = execution[v]
    /\ pc'[v] = "clear" => status' \in {"completed", "cancelled"}
Begins(v) == Claim(v) /\ pc'[v] = "load" /\ execution'[v].attempt = resumes
Moved(v) == Still(v) \/ pc'[v] \in {"idle", "claim"} \/ Begins(v) \/ Advances(v)

LEMMA GotoMoves ==
    ASSUME LocalInv, NEW w \in Worker, NEW label, NEW e, Goto(w, label, e)
    PROVE  /\ \A v \in Worker : v # w => Still(v)
           /\ pc'[w] = label
           /\ label # "idle" => execution'[w] = e
  BY DEF Goto, LocalInv, Still

LEMMA ErrorMoves ==
    ASSUME LocalInv, NEW w \in Worker, Stay(w, OnError(w)), pc[w] # "idle"
    PROVE  /\ \A v \in Worker : v # w => Still(v)
           /\ pc[w] = "claim" => pc'[w] = "idle"
           /\ pc'[w] \in {"idle", "fail", "failing", "exec"}
           /\ pc'[w] # "idle" => execution'[w] = execution[w]
  <1>1. OnError(w) \in {"idle", "fail", "failing", "exec"}
    BY DEF OnError
  <1>2. pc[w] = "claim" => OnError(w) = "idle"
    BY DEF OnError
  <1> QED BY <1>1, <1>2, GotoMoves DEF Stay

LEMMA CommittedMoves ==
    ASSUME LocalInv, NEW w \in Worker, NEW label, NEW e, Committed(w, label, e),
           pc[w] \notin {"idle", "claim"}, label # "idle", label # "clear",
           e.attempt = execution[w].attempt,
           label = "complete" => SaveCheckpoint(w) /\ e = execution[w]
    PROVE  \A v \in Worker : Moved(v)
  BY GotoMoves, ErrorMoves DEF Committed, Moved, Advances

LEMMA WorkerMoves ==
    ASSUME TypeOK, LocalInv, [Next]_vars
    PROVE  \A v \in Worker : Moved(v)
  <1>1. CASE UNCHANGED local
    BY <1>1 DEF local, Moved, Still
  <1>2. ASSUME NEW w \in Worker, Claim(w) PROVE \A v \in Worker : Moved(v)
    <2> DEFINE e == [Nothing EXCEPT !.attempt = resumes]
    <2>1. e.attempt = resumes
      BY DEF Nothing
    <2> HIDE DEF e
    <2>2. CASE Goto(w, "load", e)
      BY <1>2, <2>1, <2>2, GotoMoves DEF Moved, Begins
    <2>3. CASE Stay(w, OnError(w))
      BY <1>2, <2>3, ErrorMoves DEF Claim, Moved
    <2> QED BY <1>2, <2>2, <2>3 DEF Claim, Committed, e
  <1>3. ASSUME NEW w \in Worker,
               Load(w) \/ MakePlan(w) \/ SelectStep(w) \/ StepSucceeds(w)
               \/ ReportFailure(w) \/ Revise(w)
        PROVE  \A v \in Worker : Moved(v)
    <2>a. execution[w] \in Executions
      BY DEF LocalInv
    <2>1. CASE Load(w)
      <3>1. CASE plan = None
        BY <2>1, <3>1, GotoMoves DEF Load, Stay, Moved, Advances
      <3>2. CASE plan # None
        <4> DEFINE done == {i \in DOMAIN plan : Trusted(i)}
                   e == [execution[w] EXCEPT
                           !.plan = plan,
                           !.revisions = RevisionsSpent,
                           !.status = StatusOfSteps(plan, done),
                           !.output = [i \in Step |-> IF i \in done THEN checkpoint[i].output
                                                                    ELSE None]]
        <4>1. Goto(w, "announce", e)
          BY <2>1, <3>2 DEF Load
        <4>2. e.attempt = execution[w].attempt
          BY <2>a DEF Executions
        <4>3. pc[w] = "load"
          BY <2>1 DEF Load
        <4> HIDE DEF e
        <4> QED BY <4>1, <4>2, <4>3, GotoMoves DEF Moved, Advances
      <3> QED BY <3>1, <3>2
    <2>2. CASE MakePlan(w)
      <3> PICK p \in Plans :
            Committed(w, "announce",
                [execution[w] EXCEPT !.plan = p, !.status = StatusOfSteps(p, {})])
        BY <2>2 DEF MakePlan
      <3> DEFINE e == [execution[w] EXCEPT !.plan = p, !.status = StatusOfSteps(p, {})]
      <3>1. Committed(w, "announce", e)
        OBVIOUS
      <3>2. e.attempt = execution[w].attempt
        BY <2>a DEF Executions
      <3>3. pc[w] = "plan"
        BY <2>2 DEF MakePlan
      <3> HIDE DEF e
      <3> QED BY <3>1, <3>2, <3>3, CommittedMoves
    <2>3. CASE SelectStep(w)
      <3>a. pc[w] = "select" /\ status' = status
        BY <2>3 DEF SelectStep, row
      <3>1. CASE Stay(w, "finish")
        BY <3>a, <3>1, GotoMoves DEF Stay, Moved, Advances
      <3>2. CASE status = "cancelled" /\ Stay(w, "clear")
        BY <3>a, <3>2, GotoMoves DEF Stay, Moved, Advances
      <3>3. ASSUME NEW i \in Step,
                   Goto(w, "start", [execution[w] EXCEPT !.step = i, !.status[i] = "running"])
            PROVE  \A v \in Worker : Moved(v)
        <4> DEFINE e == [execution[w] EXCEPT !.step = i, !.status[i] = "running"]
        <4>1. Goto(w, "start", e)
          BY <3>3
        <4>2. e.attempt = execution[w].attempt
          BY <2>a DEF Executions
        <4> HIDE DEF e
        <4> QED BY <3>a, <4>1, <4>2, GotoMoves DEF Moved, Advances
      <3> QED BY <2>3, <3>1, <3>2, <3>3 DEF SelectStep
    <2>4. CASE StepSucceeds(w)
      <3> DEFINE s == execution[w].step
                 answer(text) == [agent |-> execution[w].plan[s].agent, text |-> text]
                 e(text) == [execution[w] EXCEPT !.status[s] = "completed",
                                                 !.output[s] = answer(text)]
      <3> PICK text \in BOOLEAN : Goto(w, "save", e(text))
        BY <2>4 DEF StepSucceeds
      <3>1. e(text).attempt = execution[w].attempt
        BY <2>a DEF Executions
      <3>2. pc[w] = "exec"
        BY <2>4 DEF StepSucceeds
      <3> HIDE DEF e
      <3> QED BY <3>1, <3>2, GotoMoves DEF Moved, Advances
    <2>5. CASE ReportFailure(w)
      <3> PICK e : Committed(w, "revise", e) /\ e.attempt = execution[w].attempt
        BY <2>5, <2>a DEF ReportFailure, Emit, Executions
      <3> QED BY <2>5, CommittedMoves DEF ReportFailure
    <2>6. CASE Revise(w)
      <3> DEFINE e(p) == [execution[w] EXCEPT !.plan = p,
                                              !.revisions = @ + 1,
                                              !.status = StatusOfSteps(p, Done(execution[w]))]
      <3> PICK p \in Plans : Committed(w, "revised", e(p))
        BY <2>6 DEF Revise
      <3>1. e(p).attempt = execution[w].attempt
        BY <2>a DEF Executions
      <3>2. pc[w] = "revise"
        BY <2>6 DEF Revise
      <3> HIDE DEF e
      <3> QED BY <3>1, <3>2, CommittedMoves
    <2> QED BY <1>3, <2>1, <2>2, <2>3, <2>4, <2>5, <2>6
  <1>4. ASSUME NEW w \in Worker,
               \/ AnnouncePlan(w) \/ StartStep(w) \/ Stream(w) \/ SaveCheckpoint(w)
               \/ ReportStep(w) \/ AnnounceRevision(w)
        PROVE  \A v \in Worker : Moved(v)
    <2>1. \E label \in {"select", "exec", "revise", "complete"} :
             /\ Committed(w, label, execution[w])
             /\ label = "complete" => SaveCheckpoint(w)
      BY <1>4 DEF AnnouncePlan, StartStep, Stream, SaveCheckpoint, ReportStep,
                  AnnounceRevision, Emit
    <2>2. pc[w] \notin {"idle", "claim"}
      BY <1>4 DEF AnnouncePlan, StartStep, Stream, SaveCheckpoint, ReportStep, AnnounceRevision
    <2> QED BY <2>1, <2>2, CommittedMoves
  <1>5. ASSUME NEW w \in Worker,
               \/ StepFails(w) \/ KeepPlan(w) \/ Finish(w) \/ CompleteRun(w)
               \/ FailEmptyRun(w) \/ WorkerStop(w)
        PROVE  \A v \in Worker : Moved(v)
    <2>1. \E label \in {"failing", "fail", "select", "final", "clear", "idle"} :
             /\ Stay(w, label)
             /\ label = "clear" => status' \in {"completed", "cancelled"}
      BY <1>5 DEF StepFails, KeepPlan, Finish, CompleteRun, FailEmptyRun, WorkerStop, Leave,
                  EndRun, row
    <2>2. pc[w] \notin {"idle", "claim"}
      BY <1>5 DEF StepFails, KeepPlan, Finish, CompleteRun, FailEmptyRun, WorkerStop, Executing
    <2> QED BY <2>1, <2>2, GotoMoves DEF Stay, Moved, Advances
  <1>6. ASSUME NEW w \in Worker,
               \/ Deliver(w) \/ ClaimRefused(w) \/ ClearCheckpoints(w) \/ FailRun(w)
               \/ LeaseLost(w) \/ DbError(w) \/ WorkerCrash(w)
        PROVE  \A v \in Worker : Moved(v)
    <2>1. \/ UNCHANGED local \/ Stay(w, "claim") \/ Stay(w, "idle")
          \/ pc[w] # "idle" /\ Stay(w, OnError(w))
      BY <1>6 DEF Deliver, ClaimRefused, ClearCheckpoints, FailRun, LeaseLost, DbError,
                  WorkerCrash, Leave
    <2>2. CASE Stay(w, "claim") \/ Stay(w, "idle")
      BY <2>2, GotoMoves DEF Stay, Moved
    <2>3. CASE pc[w] # "idle" /\ Stay(w, OnError(w))
      BY <2>3, ErrorMoves DEF Moved, Advances
    <2> QED BY <1>1, <2>1, <2>2, <2>3
  <1>7. CASE \/ \E h \in Request : CreateRun(h) \/ HandlerStep(h) \/ ApiCrash(h) \/ ResumeRun(h)
             \/ \E w \in Worker : Heartbeat(w)
             \/ CancelRun \/ ExpireRun \/ Tick \/ UNCHANGED vars
    BY <1>1, <1>7 DEF CreateRun, HandlerStep, EnqueueRun, MarkRunFailed, ApiCrash, ResumeRun,
         Heartbeat, CancelRun, ExpireRun, Tick, vars
  <1> QED
    BY <1>2, <1>3, <1>4, <1>5, <1>6, <1>7 DEF Next, WorkerStep

-----------------------------------------------------------------------------
(* The invariant of the durable state, and the steps that preserve it. *)

\* The worker the row names is in the attempt the run is in.
Current ==
    \A w \in Worker :
        pc[w] \notin {"idle", "claim"} /\ worker_id = w => execution[w].attempt = resumes

\* Checkpoints are cleared only when nobody will need them again.
ClearAfterEnd == \A w \in Worker : pc[w] = "clear" => status \in {"completed", "cancelled"}

\* What the owner is about to report as completed is saved.
SavedThenShown ==
    \A w \in Worker :
        pc[w] = "complete" /\ worker_id = w /\ status \notin {"completed", "cancelled"} =>
            checkpoint[execution[w].step] # None

\* ShownIsDurable, said of a run that has not begun as well.
Resumable ==
    status \notin {"completed", "cancelled"} => \A i \in shown : checkpoint[i] # None

SavedIsCompleted == saved => status = "completed"

DInv ==
    /\ Current /\ ClearAfterEnd /\ SavedThenShown /\ Resumable
    /\ CancelledLeavesNothing /\ SavedIsCompleted

LEMMA CurrentStep ==
    ASSUME TInv, DInv, [Next]_vars
    PROVE  Current'
  <1>1. \A w \in Worker : Moved(w)
    BY WorkerMoves DEF TInv
  <1> SUFFICES ASSUME NEW w \in Worker, pc'[w] \notin {"idle", "claim"}, worker_id' = w
               PROVE  execution'[w].attempt = resumes'
    BY DEF Current
  <1>2. \/ worker_id = w /\ resumes' = resumes
        \/ Claim(w) /\ resumes' = resumes
    BY OwnerStep, NoneFacts
  <1>3. Claim(w) => pc[w] = "claim"
    BY DEF Claim
  <1>4. Begins(w) => execution'[w].attempt = resumes
    BY DEF Begins
  <1>5. Begins(w) => resumes' = resumes
    BY <1>2
  <1>6. Still(w) \/ Advances(w) =>
          pc[w] \notin {"idle", "claim"} /\ execution'[w].attempt = execution[w].attempt
    BY DEF Still, Advances
  <1> QED BY <1>1, <1>2, <1>3, <1>4, <1>5, <1>6 DEF Moved, DInv, Current

\* A completed or a cancelled run stays what it is.
LEMMA EndedStays ==
    ASSUME TInv, [Next]_vars, status \in {"completed", "cancelled"}
    PROVE  status' = status
  BY DurableStep DEF TInv, shared, Opens, Reports, Records, Ends, Reopens, Clears, Fence

LEMMA ClearStep ==
    ASSUME TInv, DInv, [Next]_vars
    PROVE  ClearAfterEnd'
  <1> SUFFICES ASSUME NEW w \in Worker, pc'[w] = "clear"
               PROVE  status' \in {"completed", "cancelled"}
    BY DEF ClearAfterEnd
  <1>1. Still(w) \/ Advances(w)
    BY WorkerMoves DEF TInv, Moved, Begins
  <1>2. CASE Still(w)
    BY <1>2, EndedStays DEF Still, DInv, ClearAfterEnd
  <1>3. CASE Advances(w)
    BY <1>3 DEF Advances
  <1> QED BY <1>1, <1>2, <1>3

\* A checkpoint goes only with a run that nobody can resume.
LEMMA CheckpointsStay ==
    ASSUME TInv, DInv, [Next]_vars, status' \notin {"completed", "cancelled"},
           NEW i \in Step, checkpoint[i] # None
    PROVE  checkpoint'[i] # None
  <1>1. checkpoint \in [Step -> Checkpoints \cup {None}]
    BY DEF TInv, TypeOK
  <1>2. CASE checkpoint' = checkpoint
    BY <1>2
  <1>3. ASSUME NEW w \in Worker, Records(w) PROVE checkpoint'[i] # None
    <2> PICK c \in Checkpoints : checkpoint' = [checkpoint EXCEPT ![execution[w].step] = c]
      BY <1>3 DEF Records
    <2> QED BY <1>1, NoneFacts
  <1>4. ASSUME NEW p \in Ended, NEW n \in 0 .. MaxResumes, Ends(p, n)
        PROVE  checkpoint' = checkpoint
    BY <1>4 DEF Ends, EndRun
  <1>5. ~Clears
    BY DEF Clears, DInv, ClearAfterEnd
  <1> QED
    BY <1>2, <1>3, <1>4, <1>5, DurableStep DEF TInv, shared, Opens, Reports, Reopens

LEMMA SavedThenShownStep ==
    ASSUME TInv, DInv, [Next]_vars
    PROVE  SavedThenShown'
  <1> SUFFICES ASSUME NEW w \in Worker, pc'[w] = "complete", worker_id' = w,
                      status' \notin {"completed", "cancelled"}
               PROVE  checkpoint'[execution'[w].step] # None
    BY DEF SavedThenShown
  <1>1. Still(w) \/ Advances(w)
    BY WorkerMoves DEF TInv, Moved, Begins
  <1>2. CASE Still(w)
    <2>1. pc[w] = "complete" /\ execution'[w] = execution[w]
      BY <1>2 DEF Still
    <2>2. worker_id = w
      BY <2>1, OwnerStep, NoneFacts DEF Claim
    <2>3. status \notin {"completed", "cancelled"}
      BY EndedStays
    <2>4. checkpoint[execution[w].step] # None
      BY <2>1, <2>2, <2>3 DEF DInv, SavedThenShown
    <2>5. execution[w].step \in Step
      BY <2>1 DEF TInv, LocalInv, Good, OnStep
    <2> QED BY <2>1, <2>4, <2>5, CheckpointsStay
  <1>3. CASE Advances(w)
    <2>1. SaveCheckpoint(w) /\ execution'[w] = execution[w]
      BY <1>3 DEF Advances
    <2>2. execution[w].step \in Step /\ checkpoint \in [Step -> Checkpoints \cup {None}]
      BY <2>1 DEF SaveCheckpoint, TInv, TypeOK, LocalInv, Good, OnStep
    <2> DEFINE c == [output |-> execution[w].output[execution[w].step],
                     attempt |-> execution[w].attempt]
    <2>3. c \in Checkpoints
      BY <2>1, OwnStep DEF SaveCheckpoint, TInv, OnStep, Checkpoints, LocalInv, Executions
    <2>4. checkpoint' = [checkpoint EXCEPT ![execution[w].step] = c]
      BY <2>1 DEF SaveCheckpoint
    <2> HIDE DEF c
    <2> QED BY <2>1, <2>2, <2>3, <2>4, NoneFacts
  <1> QED BY <1>1, <1>2, <1>3

LEMMA ResumableStep ==
    ASSUME TInv, DInv, [Next]_vars
    PROVE  Resumable'
  <1> SUFFICES ASSUME status' \notin {"completed", "cancelled"}, NEW i \in shown'
               PROVE  checkpoint'[i] # None
    BY DEF Resumable
  <1>1. status \notin {"completed", "cancelled"}
    BY EndedStays
  <1>2. shown \subseteq Step
    BY DEF TInv, TypeOK
  <1>3. CASE i \in shown
    BY <1>1, <1>2, <1>3, CheckpointsStay DEF DInv, Resumable
  <1>4. CASE i \notin shown
    <2>1. \E w \in Worker, type \in ProgressEvents, j \in Step \cup {0} :
             Reports(w, type, j) /\ type = "step_complete" /\ i = j
      BY <1>4, DurableStep
      DEF TInv, shared, Opens, Reports, Records, Ends, EndRun, Log!EndEvent, Ended, Reopens,
          Clears, AppendEvent
    <2>2. PICK w \in Worker :
             /\ pc[w] = "complete" /\ worker_id = w /\ i = execution[w].step
             /\ checkpoint' = checkpoint
      BY <2>1 DEF Reports, Fence
    <2> QED BY <1>1, <2>2 DEF DInv, SavedThenShown
  <1> QED BY <1>3, <1>4

\* The attempt that ends a run, or reports, is the one the run is in, unless it is the
\* one whose enqueue failed.
LEMMA WriterIsCurrent ==
    ASSUME DInv
    PROVE  /\ \A n : By(n) => n = resumes \/ \E h \in Request : MarkRunFailed(h)
           /\ \A w \in Worker : pc[w] \in Executing /\ Fence(w) => execution[w].attempt = resumes
  BY DEF DInv, Current, By, Fence, Executing

LEMMA EventsStep ==
    ASSUME TInv, DInv, [Next]_vars, last' # last
    PROVE  last'.by = resumes' \/ \E h \in Request : MarkRunFailed(h)
  <1>1. ASSUME NEW w \in Worker, NEW type, NEW i, Reports(w, type, i)
        PROVE  last'.by = resumes'
    BY <1>1, WriterIsCurrent DEF Reports, AppendEvent
  <1>2. ASSUME NEW p, NEW n, Ends(p, n)
        PROVE  last'.by = resumes' \/ \E h \in Request : MarkRunFailed(h)
    <2>1. By(n) /\ last'.by = n /\ resumes' = resumes
      BY <1>2 DEF Ends, EndRun, AppendEvent
    <2> QED BY <2>1, WriterIsCurrent
  <1>3. Reopens => last'.by = resumes'
    BY DEF Reopens, AppendEvent
  <1> QED
    BY <1>1, <1>2, <1>3, DurableStep DEF TInv, shared, Opens, Records, Clears

LEMMA CancelledStep ==
    ASSUME TInv, DInv, [Next]_vars
    PROVE  CancelledLeavesNothing'
  BY DurableStep
  DEF TInv, shared, Opens, Reports, Records, Ends, EndRun, Reopens, Clears, Fence, DInv,
      CancelledLeavesNothing

LEMMA SavedStep ==
    ASSUME TInv, DInv, [Next]_vars
    PROVE  SavedIsCompleted'
  <1>1. SavedIsCompleted
    BY DEF DInv
  <1>2. ASSUME NEW p \in Ended, NEW n, Ends(p, n) PROVE SavedIsCompleted'
    <2>1. status = "running" /\ status' = p /\ saved' = (saved \/ p = "completed")
      BY <1>2 DEF Ends, EndRun
    <2>2. ~saved
      BY <1>1, <2>1 DEF SavedIsCompleted
    <2> QED BY <2>1, <2>2 DEF SavedIsCompleted
  <1>3. ASSUME ~(\E p \in Ended, n \in 0 .. MaxResumes : Ends(p, n))
        PROVE  saved' = saved /\ (status = "completed" => status' = status)
    BY <1>3, DurableStep, EndedStays
    DEF TInv, shared, Opens, Reports, Records, Reopens, Clears
  <1> QED BY <1>1, <1>2, <1>3 DEF SavedIsCompleted

LEMMA InitInv == Init => TInv /\ DInv
  <1> SUFFICES ASSUME Init PROVE TInv /\ DInv
    OBVIOUS
  <1>1. LocalInv
    BY NothingGood DEF Init, LocalInv, WorkerPCs
  <1>2. TypeOK
    <2>1. 0 \in 0 .. MaxRevisions /\ 0 \in 0 .. MaxResumes /\ 0 \in 0 .. MaxFaults
      BY BoundsAssumption
    <2>2. checkpoint \in [Step -> Checkpoints \cup {None}]
      BY DEF Init, NoCheckpoints
    <2>3. last \in [type : EventTypes, step : Step \cup {0}, by : 0 .. MaxResumes]
      BY <2>1 DEF Init, EventTypes
    <2>4. pc \in [Worker -> WorkerPCs] /\ execution \in [Worker -> Executions]
      BY <1>1 DEF LocalInv
    <2>5. call \in [Request -> [at : {"idle", "enqueue", "mark"}, attempt : 0 .. MaxResumes]]
      BY <2>1 DEF Init, NoCall
    <2> QED BY <2>1, <2>2, <2>3, <2>4, <2>5 DEF Init, TypeOK
  <1>3. DInv
    BY DEF Init, DInv, Current, ClearAfterEnd, SavedThenShown, Resumable,
           CancelledLeavesNothing, SavedIsCompleted
  <1> QED BY <1>1, <1>2, <1>3 DEF TInv

-----------------------------------------------------------------------------
(* The theorems. *)

LEMMA Invariance == Spec => [](TInv /\ DInv)
  <1>1. TInv /\ DInv /\ [Next]_vars => (TInv /\ DInv)'
    <2> SUFFICES ASSUME TInv, DInv, [Next]_vars PROVE (TInv /\ DInv)'
      OBVIOUS
    <2>1. LocalInv'
      BY LocalStep DEF TInv
    <2>2. TypeOK'
      BY <2>1, TypeStep DEF TInv
    <2>3. DInv'
      BY CurrentStep, ClearStep, SavedThenShownStep, ResumableStep,
         CancelledStep, SavedStep
      DEF DInv
    <2> QED BY <2>1, <2>2, <2>3 DEF TInv
  <1> QED BY <1>1, InitInv, PTL DEF Spec

\* The row, the log, the checkpoints and what every worker knows have their types:
\* in particular the revisions of a run never exceed MAX_REVISIONS.
THEOREM TypeCorrect == Spec => []TypeOK
  <1>1. TInv /\ DInv => TypeOK
    BY DEF TInv
  <1> QED BY <1>1, Invariance, PTL

\* No late invocation writes into the log of a later attempt, however many workers
\* still believe they own the run (assert_run_lease).  The call whose enqueue failed is
\* the only writer that can: its except branch asserts no lease.
THEOREM LogBelongsToAttempt == Spec => EventsBelongToTheirAttempt
  <1>1. ASSUME TInv, DInv, [Next]_vars
        PROVE  [last' # last =>
                  last'.by = resumes' \/ \E h \in Request : MarkRunFailed(h)]_vars
    BY <1>1, EventsStep
  <1> QED BY <1>1, Invariance, PTL DEF Spec, EventsBelongToTheirAttempt

\* A step the log has reported as completed has its checkpoint as long as the run can
\* still be resumed (checkpoint before event, cleared after the end).
THEOREM ReportedStepsSurvive == Spec => []ShownIsDurable
  <1>1. TInv /\ DInv => ShownIsDurable
    BY DEF DInv, Resumable, ShownIsDurable
  <1> QED BY <1>1, Invariance, PTL

\* A cancelled run holds no checkpoint, whoever was about to save one.
THEOREM CancelledRunsAreClean == Spec => []CancelledLeavesNothing
  <1>1. TInv /\ DInv => CancelledLeavesNothing
    BY DEF DInv
  <1> QED BY <1>1, Invariance, PTL

\* What the pipeline counts as completed was written by the agent its plan names, for
\* every set of plans a planner may return and through every revision and resume.
THEOREM CompletedOutputsAreLabelled == Spec => []CompletedIsLabelled
  <1>1. TInv /\ DInv => CompletedIsLabelled
    BY DEF TInv, LocalInv, Good, CompletedIsLabelled
  <1> QED BY <1>1, Invariance, PTL

\* PipelineRun implements RunEventLog: the log of a run ends once per attempt, in the
\* step that ends the run, and only run_resumed follows.
THEOREM ImplementsRunEventLog == Spec => ImplementsLog
  <1>1. Init => Log!LogInit
    BY DEF Init, Log!LogInit, tail, StepEvents
  <1>2. ASSUME TInv, DInv, [Next]_vars
        PROVE  [Log!LogNext]_(Log!logVars)
    <2>1. ASSUME NEW w \in Worker, NEW type \in ProgressEvents, NEW i, Reports(w, type, i)
          PROVE  Log!Progress
      BY <2>1 DEF Reports, Fence, AppendEvent, ProgressEvents, tail, Log!Progress
    <2>2. ASSUME NEW p \in Ended, NEW n, Ends(p, n)
          PROVE  Log!End(p) /\ p \in Log!Ended
      <3>a. status = "running" /\ saved' = (saved \/ p = "completed")
        BY <2>2 DEF Ends
      <3>1. ~saved
        BY <1>2, <3>a DEF DInv, SavedIsCompleted
      <3>2. saved' = (p = "completed")
        BY <3>a, <3>1
      <3>3. status = "running" /\ status' = p /\ last'.type = Log!EndEvent[p]
        BY <2>2 DEF Ends, EndRun, AppendEvent
      <3>4. p \in Log!Ended /\ Log!EndEvent[p] \in {"run_complete", "run_failed", "run_cancelled"}
        BY DEF Ended, Log!Ended, Log!EndEvent
      <3>5. tail' = Log!EndEvent[p]
        BY <3>3, <3>4 DEF tail, StepEvents
      <3> QED BY <3>2, <3>3, <3>4, <3>5 DEF Log!End
    <2>3. Reopens => Log!Reopen
      BY DEF Reopens, AppendEvent, tail, StepEvents, Log!Reopen
    <2>4. Opens => Log!Open
      BY DEF Opens, tail, Log!Open
    <2>5. UNCHANGED shared \/ (\E w \in Worker : Records(w)) \/ Clears
            => UNCHANGED Log!logVars
      BY DEF shared, Records, Clears, tail, Log!logVars
    <2>6. \/ UNCHANGED Log!logVars \/ Log!Open \/ Log!Progress
          \/ (\E p \in Log!Ended : Log!End(p)) \/ Log!Reopen
      BY <1>2, <2>1, <2>2, <2>3, <2>4, <2>5, DurableStep DEF TInv
    <2> QED BY <2>6 DEF Log!LogNext
  <1> QED BY <1>1, <1>2, Invariance, PTL DEF Spec, ImplementsLog, Log!LogSpec

-----------------------------------------------------------------------------
(* What a resumed attempt has been told. *)

\* The pipeline is past its plan, and has not ended.
Working == {"announce", "select", "start", "exec", "save", "complete", "failing",
            "revise", "revised", "finish", "final"}

\* An earlier attempt paid for step i, under the plan the run was resumed with.
Spent(i) == handed # None /\ PaidStep(i, handed) /\ checkpoint[i].output.text

\* What the owner of a running run knows at label, when its execution is e: the plan and
\* the revisions of the row, and every result an earlier attempt has paid for.
Informed(label, e) ==
    /\ label = "load" => plan = handed
    /\ label = "plan" => plan = None /\ handed = None
    /\ label \in {"load", "plan"} => e.revisions = 0
    /\ label \in Working =>
          /\ e.plan # None /\ e.revisions = revision_count
          /\ \A i \in Step : Spent(i) => e.status[i] = "completed"
    /\ label \in OnStep => ~Spent(e.step)

Owns(w) == worker_id = w /\ status = "running"

\* A run nobody owns still has the plan it was resumed with, and a run without a plan
\* has not been revised.
Unclaimed ==
    /\ status = "none" => worker_id = None /\ plan = None /\ handed = None
    /\ status = "running" /\ worker_id = None => plan = handed
Unrevised == plan = None => revision_count = 0

BInv ==
    /\ Unclaimed /\ Unrevised
    /\ \A w \in Worker : Owns(w) => Informed(pc[w], execution[w])

Shares == <<status, worker_id, plan, revision_count, checkpoint, resumes, handed>>

\* A worker that moves and leaves the row, the checkpoints and the history alone.
LEMMA MoverInformed ==
    ASSUME BInv, UNCHANGED Shares, NEW w \in Worker,
           \A v \in Worker : v # w => Still(v),
           Owns(w) => Informed(pc'[w], execution'[w])
    PROVE  BInv'
  <1>1. Unclaimed' /\ Unrevised'
    BY DEF BInv, Shares, Unclaimed, Unrevised
  <1>2. ASSUME NEW v \in Worker, Owns(v)' PROVE Informed(pc[v], execution[v])'
    <2>1. Owns(v)
      BY <1>2 DEF Shares, Owns
    <2>2. Informed(pc'[v], execution'[v])
      BY <2>1 DEF BInv, Still
    <2> QED BY <2>2 DEF Shares, Informed, Spent, PaidStep
  <1> QED BY <1>1, <1>2 DEF BInv

\* The owner writes: no other worker owns the run.
LEMMA OwnerInformed ==
    ASSUME NEW w \in Worker, worker_id' = w, status' = "running", Unrevised',
           Informed(pc[w], execution[w])'
    PROVE  BInv'
  BY NoneFacts DEF BInv, Unclaimed, Owns

LEMMA EndedInformed ==
    ASSUME status' \in Ended, Unrevised'
    PROVE  BInv'
  BY DEF BInv, Unclaimed, Owns, Ended

\* A worker that goes on as it is.
LEMMA StayInformed ==
    ASSUME LocalInv, NEW w \in Worker, Informed(pc[w], execution[w]), NEW label, Stay(w, label),
           label \in Working => pc[w] \in Working,
           label \in OnStep => pc[w] \in OnStep,
           label \notin {"load", "plan"}
    PROVE  Informed(pc'[w], execution'[w])
  <1>1. pc'[w] = label /\ (label # "idle" => execution'[w] = execution[w])
    BY GotoMoves DEF Stay
  <1>2. CASE label = "idle"
    BY <1>1, <1>2 DEF Informed, Working, OnStep
  <1>3. CASE label # "idle"
    BY <1>1, <1>3 DEF Informed
  <1> QED BY <1>2, <1>3

LEMMA ErrorInformed ==
    ASSUME LocalInv, NEW w \in Worker, Informed(pc[w], execution[w]), Stay(w, OnError(w))
    PROVE  Informed(pc'[w], execution'[w])
  <1>1. OnError(w) \in {"idle", "fail", "failing", "exec"}
    BY DEF OnError
  <1>2. OnError(w) \in {"failing", "exec"} => pc[w] \in {"save", "complete", "exec"}
    BY DEF OnError
  <1> QED BY <1>1, <1>2, StayInformed DEF Working, OnStep

LEMMA LoadInformed ==
    ASSUME TInv, NEW w \in Worker, Load(w), Informed(pc[w], execution[w])
    PROVE  Informed(pc'[w], execution'[w])
  <1>1. pc[w] = "load" /\ plan = handed /\ execution[w].revisions = 0
    BY DEF Load, Informed
  <1>2. CASE plan = None
    <2>1. pc'[w] = "plan" /\ execution'[w] = execution[w]
      BY <1>2, GotoMoves DEF Load, Stay, TInv
    <2> QED BY <1>1, <1>2, <2>1 DEF Informed, Working, OnStep
  <1>3. CASE plan # None
    <2> DEFINE done == {i \in DOMAIN plan : Trusted(i)}
               e == [execution[w] EXCEPT
                       !.plan = plan,
                       !.revisions = RevisionsSpent,
                       !.status = StatusOfSteps(plan, done),
                       !.output = [i \in Step |-> IF i \in done THEN checkpoint[i].output
                                                                ELSE None]]
    <2>1. Goto(w, "announce", e)
      BY <1>3 DEF Load
    <2>2. /\ e.plan = plan /\ e.revisions = revision_count
          /\ e.status = StatusOfSteps(plan, done)
      BY DEF TInv, LocalInv, Executions, RevisionsSpent
    <2>3. \A i \in Step : Spent(i) => i \in done
      BY <1>1 DEF Spent, PaidStep, Trusted
    <2>4. \A i \in Step : Spent(i) => e.status[i] = "completed"
      BY <2>2, <2>3 DEF StatusOfSteps
    <2> HIDE DEF e
    <2>5. pc'[w] = "announce" /\ execution'[w] = e
      BY <2>1, GotoMoves DEF TInv
    <2> QED BY <1>3, <2>2, <2>4, <2>5 DEF Informed, OnStep
  <1> QED BY <1>2, <1>3

LEMMA SelectInformed ==
    ASSUME TInv, NEW w \in Worker, SelectStep(w), Informed(pc[w], execution[w])
    PROVE  Informed(pc'[w], execution'[w])
  <1>1. pc[w] = "select"
    BY DEF SelectStep
  <1>2. ASSUME NEW label \in {"finish", "clear"}, Stay(w, label)
        PROVE  Informed(pc'[w], execution'[w])
    BY <1>1, <1>2, StayInformed DEF TInv, Working, OnStep
  <1>3. ASSUME NEW i \in Step, FirstPending(execution[w], i),
               Goto(w, "start", [execution[w] EXCEPT !.step = i, !.status[i] = "running"])
        PROVE  Informed(pc'[w], execution'[w])
    <2> DEFINE e == [execution[w] EXCEPT !.step = i, !.status[i] = "running"]
    <2>1. /\ e.step = i /\ e.plan = execution[w].plan /\ e.revisions = execution[w].revisions
          /\ \A j \in Step : j # i => e.status[j] = execution[w].status[j]
      BY DEF TInv, LocalInv, Executions
    <2>2. execution[w].status[i] = "pending"
      BY <1>3 DEF FirstPending, Pending
    <2>3. ~Spent(i)
      BY <1>1, <2>2 DEF Informed, Working
    <2> HIDE DEF e
    <2>4. pc'[w] = "start" /\ execution'[w] = e
      BY <1>3, GotoMoves DEF TInv, e
    <2> QED BY <1>1, <2>1, <2>3, <2>4 DEF Informed, Working
  <1> QED BY <1>2, <1>3 DEF SelectStep

LEMMA AnswerInformed ==
    ASSUME TInv, NEW w \in Worker, StepSucceeds(w), Informed(pc[w], execution[w])
    PROVE  Informed(pc'[w], execution'[w])
  <1> DEFINE s == execution[w].step
             e(text) == [execution[w] EXCEPT
                           !.status[s] = "completed",
                           !.output[s] = [agent |-> execution[w].plan[s].agent, text |-> text]]
  <1> PICK text \in BOOLEAN : Goto(w, "save", e(text))
    BY DEF StepSucceeds
  <1>1. pc[w] = "exec" /\ s \in Step
    BY OwnStep DEF StepSucceeds, TInv, OnStep
  <1>2. /\ e(text).step = s /\ e(text).plan = execution[w].plan
        /\ e(text).revisions = execution[w].revisions
        /\ \A j \in Step : j # s => e(text).status[j] = execution[w].status[j]
    BY DEF TInv, LocalInv, Executions
  <1> HIDE DEF e
  <1>3. pc'[w] = "save" /\ execution'[w] = e(text)
    BY GotoMoves DEF TInv
  <1> QED BY <1>1, <1>2, <1>3 DEF Informed, Working, OnStep

LEMMA FailureInformed ==
    ASSUME TInv, NEW w \in Worker, ReportFailure(w), Informed(pc[w], execution[w])
    PROVE  Informed(pc'[w], execution'[w])
  <1> DEFINE s == execution[w].step
             e == [execution[w] EXCEPT !.status[s] = "failed"]
  <1>1. pc[w] = "failing" /\ s \in Step /\ Committed(w, "revise", e)
    BY OwnStep DEF ReportFailure, Emit, TInv, OnStep
  <1>2. /\ e.step = s /\ e.plan = execution[w].plan /\ e.revisions = execution[w].revisions
        /\ \A j \in Step : j # s => e.status[j] = execution[w].status[j]
    BY DEF TInv, LocalInv, Executions
  <1> HIDE DEF e
  <1>3. CASE Goto(w, "revise", e)
    <2>1. pc'[w] = "revise" /\ execution'[w] = e
      BY <1>3, GotoMoves DEF TInv
    <2> QED BY <1>1, <1>2, <2>1 DEF Informed, Working, OnStep
  <1> QED BY <1>1, <1>3, ErrorInformed DEF Committed, TInv

\* The actions of a worker that write no column, checkpoint or history.
LEMMA ReaderInformed ==
    ASSUME TInv, BInv, NEW w \in Worker,
           \/ Deliver(w) \/ ClaimRefused(w) \/ Load(w) \/ AnnouncePlan(w) \/ SelectStep(w)
           \/ StartStep(w) \/ Stream(w) \/ StepSucceeds(w) \/ StepFails(w) \/ ReportStep(w)
           \/ ReportFailure(w) \/ KeepPlan(w) \/ AnnounceRevision(w) \/ Finish(w) \/ LeaseLost(w)
           \/ DbError(w) \/ WorkerStop(w) \/ WorkerCrash(w)
    PROVE  BInv'
  <1>1. UNCHANGED Shares
    BY DEF Deliver, ClaimRefused, Load, AnnouncePlan, SelectStep, StartStep, Stream, StepSucceeds,
           StepFails, ReportStep, ReportFailure, KeepPlan, AnnounceRevision, Finish, LeaseLost,
           DbError, WorkerStop, WorkerCrash, Emit, row, Shares
  <1>2. \/ UNCHANGED local
        \/ \E label, e : Goto(w, label, e)
    BY DEF Deliver, ClaimRefused, Load, AnnouncePlan, SelectStep, StartStep, Stream, StepSucceeds,
           StepFails, ReportStep, ReportFailure, KeepPlan, AnnounceRevision, Finish, LeaseLost,
           DbError, WorkerStop, WorkerCrash, Emit, Committed, Stay, Leave
  <1>3. \A v \in Worker : v # w => Still(v)
    BY <1>2, GotoMoves DEF TInv, local, Still
  <1>4. ASSUME Owns(w) PROVE Informed(pc'[w], execution'[w])
    <2>1. Informed(pc[w], execution[w])
      BY <1>4 DEF BInv
    <2>2. CASE Load(w) \/ SelectStep(w) \/ StepSucceeds(w) \/ ReportFailure(w)
      BY <2>1, <2>2, LoadInformed, SelectInformed, AnswerInformed, FailureInformed
    <2>3. CASE \/ AnnouncePlan(w) \/ StartStep(w) \/ Stream(w) \/ ReportStep(w)
               \/ AnnounceRevision(w)
      <3>1. PICK label \in {"select", "exec", "revise"} :
              /\ Committed(w, label, execution[w])
              /\ pc[w] \in Working /\ (label \in OnStep => pc[w] \in OnStep)
        BY <2>3 DEF AnnouncePlan, StartStep, Stream, ReportStep, AnnounceRevision, Emit, Working, OnStep
      <3>2. CASE Goto(w, label, execution[w])
        BY <2>1, <3>1, <3>2, StayInformed DEF Stay, TInv
      <3> QED BY <2>1, <3>1, <3>2, ErrorInformed DEF Committed, TInv
    <2>4. CASE \/ Deliver(w) \/ ClaimRefused(w) \/ StepFails(w) \/ KeepPlan(w) \/ Finish(w)
               \/ LeaseLost(w) \/ DbError(w) \/ WorkerStop(w) \/ WorkerCrash(w)
      <3>1. \/ UNCHANGED local
            \/ \E label \in {"claim", "idle", "fail", "clear"} : Stay(w, label)
            \/ Stay(w, OnError(w))
            \/ \E label \in {"failing", "select", "final"} :
                  Stay(w, label) /\ pc[w] \in Working /\ (label \in OnStep => pc[w] \in OnStep)
        BY <2>4 DEF Deliver, ClaimRefused, StepFails, KeepPlan, Finish, LeaseLost, DbError,
                    WorkerStop, WorkerCrash, Leave, Working, OnStep
      <3>2. CASE UNCHANGED local
        BY <2>1, <3>2 DEF local
      <3>3. ASSUME NEW label \in {"claim", "idle", "fail", "clear"}, Stay(w, label)
            PROVE  Informed(pc'[w], execution'[w])
        BY <2>1, <3>3, StayInformed DEF TInv, Working, OnStep
      <3>4. ASSUME NEW label \in {"failing", "select", "final"}, Stay(w, label),
                   pc[w] \in Working, label \in OnStep => pc[w] \in OnStep
            PROVE  Informed(pc'[w], execution'[w])
        BY <2>1, <3>4, StayInformed DEF TInv
      <3> QED BY <2>1, <3>1, <3>2, <3>3, <3>4, ErrorInformed DEF TInv
    <2> QED BY <2>2, <2>3, <2>4
  <1> QED BY <1>1, <1>3, <1>4, MoverInformed

\* The actions of a worker that write.
LEMMA ClaimInformed ==
    ASSUME TInv, BInv, NEW w \in Worker, Claim(w)
    PROVE  BInv'
  <1> DEFINE e == [Nothing EXCEPT !.attempt = resumes]
  <1>1. /\ status' = "running" /\ worker_id' = w /\ plan = handed
        /\ UNCHANGED <<plan, handed, revision_count>> /\ Committed(w, "load", e)
    BY DEF Claim, Claimable, BInv, Unclaimed
  <1>2. e.revisions = 0
    BY DEF Nothing
  <1> HIDE DEF e
  <1>3. pc'[w] \in {"load", "idle"} /\ (pc'[w] = "load" => execution'[w] = e)
    <2>1. OnError(w) = "idle"
      BY DEF Claim, OnError
    <2> QED BY <1>1, <2>1, GotoMoves DEF Committed, Stay, TInv
  <1>4. Informed(pc[w], execution[w])'
    BY <1>1, <1>2, <1>3 DEF Informed, Working, OnStep
  <1>5. Unrevised'
    BY <1>1 DEF BInv, Unrevised
  <1> QED BY <1>1, <1>4, <1>5, OwnerInformed

LEMMA PlanInformed ==
    ASSUME TInv, BInv, NEW w \in Worker, MakePlan(w)
    PROVE  BInv'
  <1>1. pc[w] = "plan" /\ Owns(w) /\ UNCHANGED <<status, worker_id, revision_count, handed>>
    BY DEF MakePlan, Fence, Owns
  <1>2. plan = None /\ handed = None /\ execution[w].revisions = 0 /\ revision_count = 0
    BY <1>1 DEF BInv, Informed, Unrevised
  <1> PICK p \in Plans :
        /\ plan' = p
        /\ Committed(w, "announce",
              [execution[w] EXCEPT !.plan = p, !.status = StatusOfSteps(p, {})])
    BY DEF MakePlan
  <1> DEFINE e == [execution[w] EXCEPT !.plan = p, !.status = StatusOfSteps(p, {})]
  <1>3. e.plan = p /\ e.revisions = 0
    BY <1>2 DEF TInv, LocalInv, Executions
  <1>4. Committed(w, "announce", e)
    OBVIOUS
  <1> HIDE DEF e
  <1>5. CASE Goto(w, "announce", e)
    <2>1. pc'[w] = "announce" /\ execution'[w] = e
      BY <1>5, GotoMoves DEF TInv
    <2>2. Informed(pc[w], execution[w])'
      BY <1>1, <1>2, <1>3, <2>1, NoneFacts DEF Informed, Spent, OnStep
    <2> QED BY <1>1, <1>2, <2>2, OwnerInformed DEF Owns, Unrevised
  <1>6. CASE Stay(w, OnError(w))
    <2>1. pc'[w] = "fail"
      BY <1>1, <1>6, GotoMoves DEF TInv, OnError, Stay
    <2> QED BY <1>1, <1>2, <2>1, NoneFacts, OwnerInformed DEF Informed, Working, OnStep, Owns, Unrevised
  <1> QED BY <1>4, <1>5, <1>6 DEF Committed

LEMMA ReviseInformed ==
    ASSUME TInv, BInv, NEW w \in Worker, Revise(w)
    PROVE  BInv'
  <1>1. /\ pc[w] = "revise" /\ Owns(w)
        /\ UNCHANGED <<status, worker_id, checkpoint, resumes, handed>>
    BY DEF Revise, Fence, Owns
  <1>2. Informed(pc[w], execution[w])
    BY <1>1 DEF BInv
  <1> PICK p \in Plans :
        /\ plan' = p
        /\ revision_count' = execution[w].revisions + 1
        /\ Committed(w, "revised",
              [execution[w] EXCEPT !.plan = p, !.revisions = @ + 1,
                                   !.status = StatusOfSteps(p, Done(execution[w]))])
    BY DEF Revise
  <1> DEFINE e == [execution[w] EXCEPT !.plan = p, !.revisions = @ + 1,
                                       !.status = StatusOfSteps(p, Done(execution[w]))]
  <1>3. /\ e.plan = p /\ e.revisions = execution[w].revisions + 1
        /\ e.status = StatusOfSteps(p, Done(execution[w]))
    BY DEF TInv, LocalInv, Executions
  <1>4. Committed(w, "revised", e) /\ Unrevised'
    BY NoneFacts DEF Unrevised
  <1>5. \A i \in Step : Spent(i) => e.status[i] = "completed"
    BY <1>1, <1>2, <1>3 DEF Informed, Working, Done, StatusOfSteps
  <1> HIDE DEF e
  <1>6. pc'[w] \in {"revised", "fail"} /\ (pc'[w] = "revised" => execution'[w] = e)
    <2>1. OnError(w) = "fail"
      BY <1>1 DEF OnError
    <2> QED BY <1>4, <2>1, GotoMoves DEF Committed, Stay, TInv
  <1>7. \A i \in Step : Spent(i)' <=> Spent(i)
    BY <1>1 DEF Spent, PaidStep
  <1>8. Informed(pc[w], execution[w])'
    BY <1>3, <1>5, <1>6, <1>7, NoneFacts DEF Informed, Working, OnStep
  <1> QED BY <1>1, <1>4, <1>8, OwnerInformed DEF Owns

LEMMA SaveInformed ==
    ASSUME TInv, DInv, BInv, NEW w \in Worker, SaveCheckpoint(w)
    PROVE  BInv'
  <1> PICK s \in Step : s = execution[w].step
    BY OwnStep DEF SaveCheckpoint, TInv, OnStep
  <1> DEFINE c == [output |-> execution[w].output[s], attempt |-> execution[w].attempt]
  <1>1. /\ pc[w] = "save" /\ Owns(w)
        /\ UNCHANGED <<status, worker_id, plan, revision_count, resumes, handed>>
        /\ checkpoint' = [checkpoint EXCEPT ![s] = c]
    BY DEF SaveCheckpoint, CheckpointFence, Fence, Owns, row
  <1>2. Informed(pc[w], execution[w])
    BY <1>1 DEF BInv
  <1>3. c.attempt = resumes /\ resumes \in Nat
    BY <1>1 DEF DInv, Current, Owns, TInv, TypeOK
  <1> HIDE DEF c
  <1>4. /\ checkpoint'[s] = c
        /\ \A i \in Step : i # s => checkpoint'[i] = checkpoint[i]
    BY <1>1 DEF TInv, TypeOK
  <1>5. ~Spent(s)'
    BY <1>1, <1>3, <1>4 DEF Spent, PaidStep
  <1>6. \A i \in Step : Spent(i)' => Spent(i)
    BY <1>1, <1>4, <1>5 DEF Spent, PaidStep
  <1>7. /\ pc'[w] \in {"complete", "failing"}
        /\ execution'[w] = execution[w]
    <2>1. OnError(w) = "failing" /\ Committed(w, "complete", execution[w])
      BY <1>1 DEF OnError, SaveCheckpoint
    <2> QED BY <2>1, GotoMoves DEF Committed, Stay, TInv
  <1>8. Informed(pc[w], execution[w])'
    BY <1>1, <1>2, <1>5, <1>6, <1>7 DEF Informed, Working, OnStep
  <1>9. Unrevised'
    BY <1>1 DEF BInv, Unrevised
  <1> QED BY <1>1, <1>8, <1>9, OwnerInformed DEF Owns

\* A worker that ends the run writes the plan and the revisions of its execution.
LEMMA WriterAgrees ==
    ASSUME BInv, NEW w \in Worker, CompleteRun(w) \/ FailEmptyRun(w)
    PROVE  plan' # None /\ revision_count' = revision_count
  <1>1. pc[w] = "final" /\ Owns(w) /\ plan' = execution[w].plan
        /\ revision_count' = execution[w].revisions
    BY DEF CompleteRun, FailEmptyRun, Fence, Owns
  <1> QED BY <1>1 DEF BInv, Informed, Working

LEMMA BudgetStep ==
    ASSUME TInv, DInv, BInv, [Next]_vars
    PROVE  BInv'
  <1>1. ASSUME NEW h \in Request, CreateRun(h) PROVE BInv'
    BY <1>1, NoneFacts DEF CreateRun, BInv, Unclaimed, Unrevised, Owns
  <1>2. ASSUME NEW h \in Request, ResumeRun(h) PROVE BInv'
    BY <1>2, NoneFacts DEF ResumeRun, ReleasedWorker, BInv, Unclaimed, Unrevised, Owns
  <1>3. CASE \/ \E h \in Request : EnqueueRun(h) \/ ApiCrash(h)
             \/ \E h \in Request : MarkRunFailed(h) /\ status # "running"
             \/ \E w \in Worker : Heartbeat(w)
             \/ Tick \/ UNCHANGED vars
    <2>1. UNCHANGED Shares /\ UNCHANGED local
      BY <1>3 DEF EnqueueRun, ApiCrash, MarkRunFailed, Heartbeat, Tick, vars, row, events, Shares
    <2>2. Unclaimed' /\ Unrevised'
      BY <2>1 DEF BInv, Shares, Unclaimed, Unrevised
    <2>3. ASSUME NEW v \in Worker, Owns(v)' PROVE Informed(pc[v], execution[v])'
      <3>1. Informed(pc[v], execution[v])
        BY <2>1, <2>3 DEF BInv, Shares, Owns
      <3> QED BY <2>1, <3>1 DEF local, Shares, Informed, Spent, PaidStep
    <2> QED BY <2>2, <2>3 DEF BInv
  <1>4. CASE \/ \E h \in Request : MarkRunFailed(h) /\ status = "running"
             \/ CancelRun \/ ExpireRun \/ \E w \in Worker : FailRun(w)
    <2>1. status' \in Ended /\ UNCHANGED <<plan, revision_count>>
      BY <1>4 DEF MarkRunFailed, CancelRun, ExpireRun, FailRun, EndRun, Ended
    <2> QED BY <2>1, EndedInformed DEF BInv, Unrevised
  <1>5. ASSUME NEW w \in Worker, CompleteRun(w) \/ FailEmptyRun(w) PROVE BInv'
    <2>1. status' \in Ended
      BY <1>5 DEF CompleteRun, FailEmptyRun, EndRun, Ended
    <2> QED BY <1>5, <2>1, WriterAgrees, EndedInformed DEF Unrevised
  <1>6. ASSUME NEW w \in Worker, ClearCheckpoints(w) PROVE BInv'
    <2>1. status' \in Ended /\ UNCHANGED <<plan, revision_count>>
      BY <1>6 DEF ClearCheckpoints, row, DInv, ClearAfterEnd, Ended
    <2> QED BY <2>1, EndedInformed DEF BInv, Unrevised
  <1>7. ASSUME NEW w \in Worker,
               Claim(w) \/ MakePlan(w) \/ Revise(w) \/ SaveCheckpoint(w)
        PROVE  BInv'
    BY <1>7, ClaimInformed, PlanInformed, ReviseInformed, SaveInformed
  <1>8. ASSUME NEW w \in Worker,
               \/ Deliver(w) \/ ClaimRefused(w) \/ Load(w) \/ AnnouncePlan(w) \/ SelectStep(w)
               \/ StartStep(w) \/ Stream(w) \/ StepSucceeds(w) \/ StepFails(w) \/ ReportStep(w)
               \/ ReportFailure(w) \/ KeepPlan(w) \/ AnnounceRevision(w) \/ Finish(w)
               \/ LeaseLost(w) \/ DbError(w) \/ WorkerStop(w) \/ WorkerCrash(w)
        PROVE  BInv'
    BY <1>8, ReaderInformed
  <1> QED
    BY <1>1, <1>2, <1>3, <1>4, <1>5, <1>6, <1>7, <1>8 DEF Next, WorkerStep, HandlerStep

LEMMA BudgetInvariance == Spec => [](TInv /\ DInv /\ BInv)
  <1>1. Init => BInv
    BY NoneFacts DEF Init, BInv, Unclaimed, Unrevised, Owns
  <1>2. TInv /\ DInv /\ BInv /\ [Next]_vars => BInv'
    BY BudgetStep
  <1> QED BY <1>1, <1>2, Invariance, PTL DEF Spec

\* Only the start of a step is logged as one.
LEMMA StartLogged ==
    ASSUME [Next]_vars, StepStarted
    PROVE  \E w \in Worker : StartStep(w)
  <1>1. last' # last /\ last'.type = "step_start"
    BY DEF StepStarted
  <1>2. ASSUME NEW h \in Request, CreateRun(h) \/ HandlerStep(h) \/ ApiCrash(h) \/ ResumeRun(h)
        PROVE  FALSE
    BY <1>1, <1>2 DEF CreateRun, HandlerStep, EnqueueRun, MarkRunFailed, ApiCrash, ResumeRun,
         EndRun, AppendEvent, events
  <1>3. CASE CancelRun \/ ExpireRun \/ Tick \/ UNCHANGED vars
    BY <1>1, <1>3 DEF CancelRun, ExpireRun, Tick, vars, EndRun, AppendEvent, events
  <1>4. ASSUME NEW w \in Worker,
               \/ Deliver(w) \/ Claim(w) \/ ClaimRefused(w) \/ Heartbeat(w) \/ Load(w)
               \/ MakePlan(w) \/ SelectStep(w) \/ StepSucceeds(w) \/ StepFails(w)
               \/ SaveCheckpoint(w) \/ Revise(w) \/ KeepPlan(w) \/ Finish(w)
               \/ ClearCheckpoints(w) \/ LeaseLost(w)
               \/ DbError(w) \/ WorkerStop(w) \/ WorkerCrash(w)
        PROVE  FALSE
    BY <1>1, <1>4 DEF Deliver, Claim, ClaimRefused, Heartbeat, Load, MakePlan, SelectStep,
         StepSucceeds, StepFails, SaveCheckpoint, Revise, KeepPlan, Finish, ClearCheckpoints,
         LeaseLost, DbError, WorkerStop, WorkerCrash, events
  <1>5. ASSUME NEW w \in Worker,
               \/ AnnouncePlan(w) \/ AnnounceRevision(w) \/ Stream(w) \/ ReportStep(w)
               \/ ReportFailure(w) \/ CompleteRun(w) \/ FailEmptyRun(w) \/ FailRun(w)
        PROVE  FALSE
    BY <1>1, <1>5 DEF AnnouncePlan, AnnounceRevision, Stream, ReportStep, ReportFailure, Emit,
         CompleteRun, FailEmptyRun, FailRun, EndRun, AppendEvent
  <1> QED BY <1>2, <1>3, <1>4, <1>5 DEF Next, WorkerStep

\* An attempt never starts a step whose result an earlier attempt has paid for, under the
\* plan the run was resumed with: NothingIsPaidTwice (_restore_progress).
THEOREM PaidOnce == Spec => NothingIsPaidTwice
  <1>1. ASSUME TInv, DInv, BInv, [Next]_vars, StepStarted, handed # None
        PROVE  ~(PaidStep(last'.step, handed) /\ checkpoint[last'.step].output.text)
    <2> PICK w \in Worker : StartStep(w)
      BY <1>1, StartLogged
    <2>1. pc[w] = "start" /\ Owns(w) /\ last'.step = execution[w].step
      BY DEF StartStep, Emit, Fence, Owns, AppendEvent
    <2>2. ~Spent(execution[w].step)
      BY <1>1, <2>1 DEF BInv, Informed, OnStep
    <2> QED BY <1>1, <2>1, <2>2 DEF Spent
  <1>2. TInv /\ DInv /\ BInv /\ [Next]_vars =>
          [StepStarted /\ handed # None =>
             ~(PaidStep(last'.step, handed) /\ checkpoint[last'.step].output.text)]_vars
    BY <1>1
  <1> QED BY <1>2, BudgetInvariance, PTL DEF Spec, NothingIsPaidTwice

\* The revisions a run has spent never come back, whoever drives it and however it
\* ends: RevisionsAddUp (revision_count, read back by _restore_progress).
THEOREM RevisionsNeverReturn == Spec => RevisionsAddUp
  <1>1. ASSUME TInv, DInv, BInv, [Next]_vars
        PROVE  revision_count' >= revision_count
    <2>1. revision_count \in Nat
      BY <1>1, BoundsAssumption DEF TInv, TypeOK
    <2>2. ASSUME NEW w \in Worker, Revise(w) PROVE revision_count' >= revision_count
      <3>1. pc[w] = "revise" /\ Owns(w) /\ revision_count' = execution[w].revisions + 1
        BY <2>2 DEF Revise, Fence, Owns
      <3>2. execution[w].revisions = revision_count
        BY <1>1, <3>1 DEF BInv, Informed, Working
      <3> QED BY <2>1, <3>1, <3>2
    <2>3. ASSUME NEW w \in Worker, CompleteRun(w) \/ FailEmptyRun(w)
          PROVE  revision_count' >= revision_count
      BY <1>1, <2>1, <2>3, WriterAgrees
    <2>4. CASE ~\E w \in Worker : Revise(w) \/ CompleteRun(w) \/ FailEmptyRun(w)
      <3>1. ASSUME NEW h \in Request, CreateRun(h) \/ HandlerStep(h) \/ ApiCrash(h) \/ ResumeRun(h)
            PROVE  revision_count' = revision_count
        BY <3>1 DEF CreateRun, HandlerStep, EnqueueRun, MarkRunFailed, ApiCrash, ResumeRun, row
      <3>2. ASSUME CancelRun \/ ExpireRun \/ Tick \/ UNCHANGED vars
            PROVE  revision_count' = revision_count
        BY <3>2 DEF CancelRun, ExpireRun, Tick, vars, row
      <3>3. ASSUME NEW w \in Worker,
                   \/ Deliver(w) \/ Claim(w) \/ ClaimRefused(w) \/ Heartbeat(w) \/ Load(w)
                   \/ MakePlan(w) \/ AnnouncePlan(w) \/ SelectStep(w) \/ StartStep(w) \/ Stream(w)
                   \/ StepSucceeds(w) \/ StepFails(w) \/ SaveCheckpoint(w) \/ ReportStep(w)
                   \/ ReportFailure(w) \/ KeepPlan(w) \/ AnnounceRevision(w) \/ Finish(w)
                   \/ ClearCheckpoints(w) \/ FailRun(w) \/ LeaseLost(w)
                   \/ DbError(w) \/ WorkerStop(w) \/ WorkerCrash(w)
            PROVE  revision_count' = revision_count
        BY <3>3 DEF Deliver, Claim, ClaimRefused, Heartbeat, Load, MakePlan, AnnouncePlan, SelectStep,
             StartStep, Stream, StepSucceeds, StepFails, SaveCheckpoint, ReportStep, ReportFailure,
             KeepPlan, AnnounceRevision, Finish, ClearCheckpoints, FailRun, LeaseLost, DbError,
             WorkerStop, WorkerCrash, Emit, row
      <3>4. revision_count' = revision_count
        BY <1>1, <2>4, <3>1, <3>2, <3>3 DEF Next, WorkerStep
      <3> QED BY <2>1, <3>4
    <2> QED BY <2>2, <2>3, <2>4
  <1>2. TInv /\ DInv /\ BInv /\ [Next]_vars => [revision_count' >= revision_count]_vars
    BY <1>1
  <1> QED BY <1>2, BudgetInvariance, PTL DEF Spec, RevisionsAddUp

=============================================================================
