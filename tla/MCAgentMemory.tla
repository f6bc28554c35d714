---------------------------- MODULE MCAgentMemory ---------------------------
(* A small instance of AgentMemory for TLC. *)
EXTENDS AgentMemory, TLC

Symmetry == Permutations(Proc) \cup Permutations(Caller) \cup Permutations(Thread)
=============================================================================
