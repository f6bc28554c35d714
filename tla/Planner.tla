------------------------------ MODULE Planner -------------------------------
(***************************************************************************)
(* How the text of a language model becomes the plan a run follows         *)
(* (plan_schema.py) and how a later answer may revise that plan while      *)
(* some of its steps are completed (dynamic_pipeline.py).  An answer is    *)
(* untrusted: entries may be malformed, numbered twice, out of order, too  *)
(* many, or depend on steps that do not exist.                             *)
(*                                                                         *)
(* Texts are abstracted: an answer is a sequence of entries, how it was    *)
(* wrapped, and whether every entry has the fields the schema wants.  The  *)
(* run around the plan (leases, checkpoints, crashes) is PipelineRun.      *)
(***************************************************************************)
EXTENDS Integers, Sequences, FiniteSets, SequencesExt

CONSTANTS
    MaxSteps,           \* MAX_STEPS
    MaxRevisions,       \* MAX_REVISIONS
    RepairCap,          \* PLANNER_MAX_REPAIR_ATTEMPTS
    DefaultPlan,        \* _default_plan: entries, used when an answer is unusable
    Entries,            \* bound: the entries an answer may hold
    MaxReply,           \* bound: how many
    None

KnownAgents == {"strategy", "writer", "editor", "reviewer", "researcher", "fact_checker"}
FinalAgents == {"writer", "editor"}

\* One entry of an answer; index 0 when it has none, agent "unknown" when the entry is
\* no object, names no agent, or its index is no number.
Entry == [index : Nat, agent : KnownAgents \cup {"unknown"}, refs : SUBSET Nat]

-----------------------------------------------------------------------------
(* The invariants of a plan. *)

\* check_plan_invariants: what a sequence of entries violates.
Violations(p) ==
    {v \in {"step_count", "contiguous", "known_agents", "backward_edges", "final_agent"} :
        CASE v = "step_count"     -> Len(p) \notin 1 .. MaxSteps
          [] v = "contiguous"     -> \E n \in DOMAIN p : p[n].index # n
          [] v = "known_agents"   -> \E n \in DOMAIN p : p[n].agent \notin KnownAgents
          [] v = "backward_edges" -> \E n \in DOMAIN p : ~(p[n].refs \subseteq 1 .. (p[n].index - 1))
          [] v = "final_agent"    -> p # << >> /\ Last(p).agent \notin FinalAgents}

ASSUME BoundsAssumption ==
    /\ MaxSteps \in Nat \ {0} /\ MaxRevisions \in Nat /\ RepairCap \in Nat /\ MaxReply \in Nat
    /\ Entries \subseteq Entry
ASSUME NoneAssumption == None \notin Seq(Entry)
ASSUME DefaultAssumption == DefaultPlan \in Seq(Entry) /\ Violations(DefaultPlan) = {}

-----------------------------------------------------------------------------
(* Repair.  A pass returns None when it has nothing to do. *)

\* The index an entry claims; an entry without one takes the next place.
Claimed(entry, kept) == IF entry.index # 0 THEN entry.index ELSE Len(kept) + 1

\* The coercion loop: unknown agents and repeated indices are dropped, and so are
\* edges that do not point to a lower index.
Keep(kept, entry) ==
    LET index == Claimed(entry, kept)
    IN  IF entry.agent \notin KnownAgents \/ \E n \in DOMAIN kept : kept[n].index = index
        THEN kept
        ELSE Append(kept, [entry EXCEPT !.index = index,
                                        !.refs = {ref \in @ : ref < index}])

\* Only the first MAX_STEPS entries are looked at: what is kept of the first n of them.
Kept(payload) ==
    LET looked == IF Len(payload) < MaxSteps THEN Len(payload) ELSE MaxSteps
        kept[n \in 0 .. looked] == IF n = 0 THEN << >> ELSE Keep(kept[n - 1], payload[n])
    IN  kept[looked]

\* Mutant: edges keep the numbers of the answer.
RenumberedOnly(kept) ==
    LET used == {kept[n].index : n \in DOMAIN kept}
        Place(index) == Cardinality({i \in used : i <= index})
        At(place) == CHOOSE n \in DOMAIN kept : Place(kept[n].index) = place
    IN  [place \in 1 .. Len(kept) |-> [kept[At(place)] EXCEPT !.index = place]]

\* The survivors in the order of their indices, renumbered from 1, their edges with them.
Renumbered(kept) ==
    LET used == {kept[n].index : n \in DOMAIN kept}
        Place(index) == Cardinality({i \in used : i <= index})
        At(place) == CHOOSE n \in DOMAIN kept : Place(kept[n].index) = place
    IN  [place \in 1 .. Len(kept) |->
            [kept[At(place)] EXCEPT !.index = place,
                                    !.refs = {Place(ref) : ref \in @ \cap used}]]

CoerceSteps(payload) ==
    LET kept == Kept(payload) IN IF kept = << >> THEN None ELSE Renumbered(kept)

\* The longest prefix that ends in a step that writes the draft.
Trimmed(payload) ==
    LET ends == {n \in DOMAIN payload : payload[n].agent \in FinalAgents}
    IN  IF ends = {} THEN None
        ELSE SubSeq(payload, 1, CHOOSE n \in ends : \A m \in ends : m <= n)

\* What _repair_enforce_structure appends: a draft from everything before it.
WriterAfter(payload) ==
    [index |-> 1 + IF Last(payload).index # 0 THEN Last(payload).index ELSE Len(payload),
     agent |-> "writer",
     refs  |-> {payload[n].index : n \in DOMAIN payload} \ {0}]

\* Mutant: a full plan gets its writer too.
AppendAlways(payload) ==
    IF payload = << >> \/ Last(payload).agent \in FinalAgents THEN None
    ELSE Append(payload, WriterAfter(payload))

\* A plan that ends without a draft gets a writer, or loses its tail when it is full.
EnforceStructure(payload) ==
    IF payload = << >> \/ Last(payload).agent \in FinalAgents THEN None
    ELSE IF Len(payload) >= MaxSteps THEN Trimmed(payload)
    ELSE Append(payload, WriterAfter(payload))

-----------------------------------------------------------------------------
(* From an answer to a plan. *)

\* tidy: every entry has the schema's fields, and no other.
Payload == [steps : Seq(Entry), tidy : BOOLEAN]

\* The steps that a stable sort by number leaves at or before step n.
UpTo(steps, n) ==
    {m \in DOMAIN steps : \/ steps[m].index < steps[n].index
                          \/ steps[m].index = steps[n].index /\ m <= n}

\* _drafts_to_runtime: an answer numbered correctly may come in any order.
InOrder(steps) ==
    [place \in 1 .. Len(steps) |->
        steps[CHOOSE n \in DOMAIN steps : Cardinality(UpTo(steps, n)) = place]]

\* _validate_payload: the plan, empty when the schema or an invariant is violated.
Validate(payload) ==
    IF \/ payload = None
       \/ ~payload.tidy
       \/ \E n \in DOMAIN payload.steps : payload.steps[n].index = 0
       \/ Violations(InOrder(payload.steps)) # {}
    THEN << >>
    ELSE InOrder(payload.steps)

\* One repair pass of parse_planner_output: outcome o before it, what the pass returns.
Pass(o, repaired) ==
    IF o.steps # << >> \/ o.attempts >= RepairCap \/ repaired = None THEN o
    ELSE [payload |-> repaired, attempts |-> o.attempts + 1, steps |-> Validate(repaired)]

Repaired(steps) == IF steps = None THEN None ELSE [steps |-> steps, tidy |-> TRUE]

\* parse_planner_output; the plan is empty in mode "fallback".
ParsePlannerOutput(r) ==
    LET parsed    == IF r.form = "json" THEN r.payload ELSE None
        strict    == [payload |-> parsed, attempts |-> 0, steps |-> Validate(parsed)]
        extracted == Pass(strict, IF r.form = "prose" THEN r.payload ELSE None)
        coerced   == Pass(extracted, IF extracted.payload = None THEN None
                                     ELSE Repaired(CoerceSteps(extracted.payload.steps)))
    IN  Pass(coerced, IF coerced.payload = None THEN None
                      ELSE Repaired(EnforceStructure(coerced.payload.steps)))

\* coerce_plan_payload: the lenient way of a revision, empty when nothing survives.
CoercePlanPayload(payload) ==
    LET coerced    == CoerceSteps(payload)
        structured == EnforceStructure(coerced)
    IN  IF coerced = None THEN << >>
        ELSE IF structured = None THEN coerced ELSE structured

-----------------------------------------------------------------------------
(* The run that follows the plan. *)

VARIABLES
    reply,              \* the planner's answer, while it is parsed
    plan,               \* PipelineExecution.plan: entries with a status and an output
    index,              \* PipelineExecution.index, from 1
    revisions,          \* PipelineExecution.revisions
    pc,                 \* the node of the pipeline to visit next
    visits              \* history: nodes visited

vars == <<reply, plan, index, revisions, pc, visits>>

\* What a language model may answer.  "none" is null, prose or JSON without a list.
Replies == [form : {"json", "prose", "none"},
            payload : [steps : UNION {[1 .. n -> Entries] : n \in 0 .. MaxReply},
                       tidy : BOOLEAN]]
NoReply == [form |-> "none", payload |-> [steps |-> << >>, tidy |-> TRUE]]

\* A planned step; its output is the text its agent wrote, when it completed.
Pending(steps) ==
    [n \in DOMAIN steps |->
        [index |-> steps[n].index, agent |-> steps[n].agent, refs |-> steps[n].refs,
         status |-> "pending", output |-> None]]

Init ==
    /\ reply = NoReply
    /\ plan = << >>
    /\ index = 1
    /\ revisions = 0
    /\ pc = "call_planner"
    /\ visits = 0

Visit(node) == pc' = node /\ visits' = visits + 1

\* The planner answers, in JSON mode or, when the provider refuses it, without.
CallPlanner ==
    /\ pc = "call_planner"
    /\ reply' \in Replies
    /\ pc' = "make_plan"
    /\ UNCHANGED <<plan, index, revisions, visits>>

\* _plan_run: an answer that cannot be used, or an exception, gives the default plan.
MakePlan ==
    /\ pc = "make_plan"
    /\ LET steps == ParsePlannerOutput(reply)
       IN  plan' = Pending(IF steps.steps # << >> THEN steps.steps ELSE DefaultPlan)
    /\ reply' = NoReply
    /\ Visit("select")
    /\ UNCHANGED <<index, revisions>>

\* _select_next_step passes over every step that is not pending.
Waiting == {n \in index .. Len(plan) : n <= MaxSteps /\ plan[n].status = "pending"}

SelectNextStep ==
    /\ pc = "select"
    /\ IF Waiting = {} THEN index' = 1 + Len(plan) /\ Visit("finish")
       ELSE /\ index' = CHOOSE n \in Waiting : \A m \in Waiting : n <= m
            /\ Visit("execute_step")
    /\ UNCHANGED <<reply, plan, revisions>>

\* The sub-agent of the step answers, or fails.
ExecuteStep ==
    /\ pc = "execute_step"
    /\ \/ plan' = [plan EXCEPT ![index].status = "completed", ![index].output = plan[index].agent]
       \/ plan' = [plan EXCEPT ![index].status = "failed"]
    /\ Visit("revise")
    /\ UNCHANGED <<reply, index, revisions>>

Completed(p) == {n \in DOMAIN p : p[n].status = "completed"}

\* The steps of q with that number; a dict by index keeps the last of them.
Numbered(q, number) == {n \in DOMAIN q : q[n].index = number}

\* Mutant: the gate compares the agents only.
SameAgents(p, q) ==
    \A n \in Completed(p) : \E m \in Numbered(q, p[n].index) : q[m].agent = p[n].agent

\* assert_completed_steps_preserved returns no violation.
CompletedStepsPreserved(p, q) ==
    \A n \in Completed(p) :
        \E m \in Numbered(q, p[n].index) :
            /\ \A o \in Numbered(q, p[n].index) : o <= m
            /\ q[m].agent = p[n].agent
            /\ q[m].refs = p[n].refs

\* The results of completed steps move to the steps of the same number.
CarryForward(p, q) ==
    [m \in DOMAIN q |->
        LET done == {n \in Completed(p) : p[n].index = q[m].index}
        IN  IF done = {} THEN q[m]
            ELSE LET n == CHOOSE n \in done : \A o \in done : o <= n
                 IN  [q[m] EXCEPT !.status = p[n].status, !.output = p[n].output]]

\* Mutant: one revision too many.
ShouldReviseAgain(p, n, revised) ==
    /\ revised <= MaxRevisions
    /\ p[n].agent = "reviewer" \/ p[n].status = "failed"

ShouldRevise(p, n, revised) ==
    /\ revised < MaxRevisions
    /\ p[n].agent = "reviewer" \/ p[n].status = "failed"

\* _maybe_revise_plan with an answer, adopted: the plan starts over at its first pending
\* step.  The revision path takes plain JSON only and salvages what it can.
RevisePlan ==
    /\ pc = "revise"
    /\ ShouldRevise(plan, index, revisions)
    /\ \E steps \in {r.payload.steps : r \in {s \in Replies : s.form = "json" /\ s.payload.tidy}} :
         LET revised == Pending(CoercePlanPayload(steps))
         IN  /\ revised # << >>
             /\ CompletedStepsPreserved(plan, revised)
             /\ plan' = CarryForward(plan, revised)
             /\ index' = CHOOSE n \in 1 .. Len(revised) + 1 :
                   /\ n \in DOMAIN revised => plan'[n].status = "pending"
                   /\ \A m \in 1 .. n - 1 : plan'[m].status # "pending"
    /\ revisions' = revisions + 1
    /\ Visit("select")
    /\ UNCHANGED reply

\* No revision is due, none is wanted, the answer is unusable or refused, or the call fails.
KeepPlan ==
    /\ pc = "revise"
    /\ index' = index + 1
    /\ Visit("select")
    /\ UNCHANGED <<reply, plan, revisions>>

Finish ==
    /\ pc = "finish"
    /\ Visit("end")
    /\ UNCHANGED <<reply, plan, index, revisions>>

Next ==
    \/ CallPlanner \/ MakePlan \/ SelectNextStep \/ ExecuteStep
    \/ RevisePlan \/ KeepPlan \/ Finish

Spec == Init /\ [][Next]_vars

-----------------------------------------------------------------------------
(* Properties. *)

TypeOK ==
    /\ reply \in Replies \cup {NoReply}
    /\ plan \in Seq([index : Nat, agent : KnownAgents, refs : SUBSET Nat,
                     status : {"pending", "completed", "failed"},
                     output : KnownAgents \cup {None}])
    /\ index \in 1 .. MaxSteps + 1
    /\ revisions \in 0 .. MaxRevisions
    /\ pc \in {"call_planner", "make_plan", "select", "execute_step", "revise", "finish", "end"}
    /\ visits \in Nat

\* Whatever the model answered, the plan a run follows is numbered from 1, holds known
\* agents, is no longer than the limit, and reads only from steps before; until a revision
\* it also ends in a draft.  Repair, fallback and salvage together must ensure it: the run
\* loop indexes the plan by position and builds prompts from inputs_from unchecked.
PlanIsSound ==
    plan # << >> => Violations(plan) \subseteq IF revisions = 0 THEN {} ELSE {"final_agent"}

\* Salvaging an answer keeps what it says: a plan that is valid as it stands comes out
\* unchanged, so that a revision may repeat the completed steps, and a step that survives
\* reads from the steps it named, whatever numbers they get (_repair_coerce_steps: "a
\* surviving step keeps pointing at the same step it originally depended on").
SalvageKeepsMeaning ==
    LET answer == reply.payload.steps
        kept   == Kept(answer)
        Place(n) == Cardinality({m \in DOMAIN kept : kept[m].index <= kept[n].index})
    IN  /\ Validate([reply.payload EXCEPT !.tidy = TRUE]) # << >>
              => CoercePlanPayload(answer) = Validate([reply.payload EXCEPT !.tidy = TRUE])
        /\ kept # << >>
              => \A a, b \in DOMAIN kept :
                    LET step == CoerceSteps(answer)[Place(a)]
                    IN  /\ step.agent = kept[a].agent
                        /\ Place(b) \in step.refs <=> kept[b].index \in kept[a].refs

\* No revision moves, relabels, reconnects or forgets a step whose output is recorded:
\* later steps read that output under the step's number, agent and inputs.
CompletedStaysPut ==
    [][\A n \in Completed(plan) :
          \E m \in DOMAIN plan' :
              /\ plan'[m] = plan[n]
              /\ \A o \in DOMAIN plan' : plan'[o].index = plan[n].index => o = m]_plan

\* The graph engine aborts a run after GRAPH_RECURSION_LIMIT node visits: no sequence of
\* failures, reviews and revisions reaches it.
GRAPH_RECURSION_LIMIT == 3 * MaxSteps * (MaxRevisions + 1) + 4
WithinRecursionLimit == visits < GRAPH_RECURSION_LIMIT
=============================================================================
