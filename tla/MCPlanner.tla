------------------------------ MODULE MCPlanner -----------------------------
(* A small instance of Planner for TLC: answers of up to three entries, plans of up to two. *)
EXTENDS Planner

\* _default_plan, cut to two steps.
TwoSteps == <<[index |-> 1, agent |-> "researcher", refs |-> {}],
              [index |-> 2, agent |-> "writer", refs |-> {1}]>>

Junk == [index |-> 0, agent |-> "unknown", refs |-> {}]

\* Entries with and without a number, two kinds of agent, edges forward and backward.
SomeEntries ==
    {Junk} \cup [index : 0 .. 3, agent : {"writer", "reviewer"}, refs : {{}, {1}, {2}}]

\* The default plan of the code, which has five steps.
CanonicalPlan ==
    <<[index |-> 1, agent |-> "researcher",   refs |-> {}],
      [index |-> 2, agent |-> "strategy",     refs |-> {1}],
      [index |-> 3, agent |-> "writer",       refs |-> {1, 2}],
      [index |-> 4, agent |-> "fact_checker", refs |-> {3}],
      [index |-> 5, agent |-> "editor",       refs |-> {3, 4}]>>

ASSUME CanonicalPlanIsValid == Violations(CanonicalPlan) \subseteq {"step_count"}
=============================================================================
