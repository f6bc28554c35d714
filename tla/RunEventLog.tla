---------------------------- MODULE RunEventLog -----------------------------
(***************************************************************************)
(* What a pipeline run promises to whoever reads its event log: numbered   *)
(* events, one terminal event per attempt, written in the transaction that *)
(* ends it, nothing after it but the run_resumed that reopens a failed     *)
(* run, and an article saved by the completion alone.  RunEventStream      *)
(* readers are built on this; PipelineRun is shown to implement it.        *)
(***************************************************************************)
EXTENDS Naturals

VARIABLES
    phase,      \* agent_runs.status, "none" before the row exists
    tail,       \* what the newest event tells a reader
    saved       \* the article of the run exists

logVars == <<phase, tail, saved>>

EndEvent == [completed |-> "run_complete", failed |-> "run_failed",
             cancelled |-> "run_cancelled"]
Ended == DOMAIN EndEvent

LogTypeOK ==
    /\ phase \in Ended \cup {"none", "running"}
    /\ tail \in {"none", "progress", "run_resumed"} \cup {EndEvent[p] : p \in Ended}
    /\ saved \in BOOLEAN

LogInit == phase = "none" /\ tail = "none" /\ saved = FALSE

Open ==
    /\ phase = "none"
    /\ phase' = "running"
    /\ UNCHANGED <<tail, saved>>

Progress ==
    /\ phase = "running"
    /\ tail' = "progress"
    /\ UNCHANGED <<phase, saved>>

End(p) ==
    /\ phase = "running"
    /\ phase' = p
    /\ tail' = EndEvent[p]
    /\ saved' = (p = "completed")

Reopen ==
    /\ phase = "failed"
    /\ phase' = "running"
    /\ tail' = "run_resumed"
    /\ UNCHANGED saved

LogNext == Open \/ Progress \/ (\E p \in Ended : End(p)) \/ Reopen

LogSpec == LogInit /\ [][LogNext]_logVars
=============================================================================
