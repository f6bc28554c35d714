-------------------------- MODULE MCContentLibrary --------------------------
(* A small instance of ContentLibrary for TLC. *)
EXTENDS ContentLibrary, TLC

RequestSymmetry == Permutations(Request)
=============================================================================
