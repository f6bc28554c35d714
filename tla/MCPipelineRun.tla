--------------------------- MODULE MCPipelineRun ----------------------------
(* Small instances of PipelineRun for TLC. *)
EXTENDS PipelineRun, TLC

Agent(name, refs) == [agent |-> name, inputs |-> refs]

\* What the planner may answer: research before a draft, or a review of nothing yet
\* that gives the same step to another agent.
TwoPlans == {<<Agent("researcher", {}), Agent("writer", {1})>>,
             <<Agent("reviewer", {}), Agent("writer", {1})>>}

\* Two drafts, whose answers are streamed and may be empty.
OnePlan == {<<Agent("strategy", {}), Agent("writer", {1})>>}

WorkerSymmetry == Permutations(Worker)

AllFaults == FaultKinds
=============================================================================
