------------------------- MODULE MCProposedActions --------------------------
(* A small instance of ProposedActions for TLC. *)
EXTENDS ProposedActions, TLC

TurnSymmetry == Permutations(Turn)
CallSymmetry == TurnSymmetry \cup Permutations(Write)
=============================================================================
