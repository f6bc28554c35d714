-------------------------- MODULE IdempotencyLedger -------------------------
(***************************************************************************)
(* The table idempotency_records and the operations on it.  A claim is an  *)
(* INSERT under a unique constraint followed, when it loses, by a locked   *)
(* read; rows are never deleted, so what the locked read finds decides.    *)
(***************************************************************************)
CONSTANTS
    Keys,       \* idempotency keys, with their scope
    None

VARIABLE ledger     \* the row of each key

NoRow == [status |-> "absent", args |-> None, result |-> None]

Row(Arguments, Results) ==
    [status : {"absent", "in_progress", "completed", "failed"},
     args : Arguments \cup {None}, result : Results \cup {None}]

LedgerInit == ledger = [k \in Keys |-> NoRow]

\* Mutant: only a completed key is closed.
OpenUnlessCompleted(k) == ledger[k].status # "completed"

\* The key was never used, or its last attempt released it.
Open(k) == ledger[k].status \in {"absent", "failed"}

\* Mutant: a key in progress is taken over when its arguments agree.
ClaimOutcomeTakeover(k, a) ==
    IF Open(k) THEN "claimed"
    ELSE IF ledger[k].args # a THEN "conflict"
    ELSE IF ledger[k].status = "completed" THEN "replay"
    ELSE "claimed"

ClaimOutcome(k, a) ==
    IF Open(k) THEN "claimed"
    ELSE IF ledger[k].args # a THEN "conflict"
    ELSE IF ledger[k].status = "completed" THEN "replay"
    ELSE "in_flight"

Claim(k, a) ==
    ledger' = IF ClaimOutcome(k, a) = "claimed"
              THEN [ledger EXCEPT ![k] = [status |-> "in_progress", args |-> a, result |-> None]]
              ELSE ledger

\* complete_idempotency_key and fail_idempotency_key touch a row in progress only.
Finish(k, status, r) ==
    ledger' = IF ledger[k].status = "in_progress"
              THEN [ledger EXCEPT ![k].status = status, ![k].result = r]
              ELSE ledger

CompleteKey(k, r) == Finish(k, "completed", r)
FailKey(k) == Finish(k, "failed", ledger[k].result)
=============================================================================
