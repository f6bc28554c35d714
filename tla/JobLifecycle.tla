---------------------------- MODULE JobLifecycle ----------------------------
(***************************************************************************)
(* What a job promises its user, without workers, leases or queues: the    *)
(* phases it goes through and the attempts it counts.  A finished phase is *)
(* final; each start counts exactly one attempt; a retry is promised only  *)
(* while the budget lasts.                                                 *)
(***************************************************************************)
EXTENDS Naturals

CONSTANT MaxRetries

VARIABLES phase, attempts

lvars == <<phase, attempts>>

LInit == phase = "absent" /\ attempts = 0

Created == phase = "absent" /\ phase' = "queued" /\ UNCHANGED attempts

Started ==
    /\ phase \in {"queued", "retrying"}
    /\ phase' = "running"
    /\ attempts' = attempts + 1

Finished == phase = "running" /\ phase' \in {"completed", "failed"} /\ UNCHANGED attempts

RetryPromised ==
    /\ phase = "running"
    /\ attempts < MaxRetries
    /\ phase' = "retrying"
    /\ UNCHANGED attempts

\* No delivery could be arranged for the retry, so the promise is taken back.
RetryWithdrawn == phase = "retrying" /\ phase' = "failed" /\ UNCHANGED attempts

\* The worker vanished; the job goes back to the queue.
Abandoned == phase = "running" /\ phase' = "queued" /\ UNCHANGED attempts

Cancelled ==
    /\ phase \in {"queued", "running", "retrying"}
    /\ phase' = "cancelled"
    /\ UNCHANGED attempts

LNext ==
    \/ Created \/ Started \/ Finished \/ RetryPromised \/ RetryWithdrawn
    \/ Abandoned \/ Cancelled

LSpec == LInit /\ [][LNext]_lvars
=============================================================================
