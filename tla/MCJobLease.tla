----------------------------- MODULE MCJobLease -----------------------------
(* Small instances of JobLease for TLC. *)
EXTENDS JobLease, TLC

\* Invocations are interchangeable (safety runs only).
RunSymmetry == Permutations(Run)

AllFaults == FaultKinds
=============================================================================
