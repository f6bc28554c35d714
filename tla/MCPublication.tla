--------------------------- MODULE MCPublication ----------------------------
(* A small instance of Publication for TLC. *)
EXTENDS Publication, TLC

CONSTANT k1

MCHeaderKey == {k1}
MCKeys == MCHeaderKey \cup 1..MaxPublications

ActorSymmetry == Permutations(Client) \cup Permutations(Executor)
=============================================================================
