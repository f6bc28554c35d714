-------------------------- MODULE MCRunEventStream --------------------------
(* A small instance of RunEventStream for TLC. *)
EXTENDS RunEventStream, TLC
=============================================================================
