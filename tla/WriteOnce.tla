----------------------------- MODULE WriteOnce ------------------------------
(***************************************************************************)
(* What an idempotency key promises its callers: one writer at a time, no  *)
(* write after one has succeeded, and one answer for everybody.  A writer  *)
(* that vanishes keeps the key closed for good.                            *)
(***************************************************************************)
EXTENDS Naturals

CONSTANTS Keys, Results

VARIABLES
    state,      \* of each key: open, held by a writer, or settled
    writers,    \* how many callers are inside the write of each key
    answers     \* the results callers of each key have been given

onceVars == <<state, writers, answers>>

OnceInit ==
    /\ state = [k \in Keys |-> "open"]
    /\ writers = [k \in Keys |-> 0]
    /\ answers = [k \in Keys |-> {}]

Begin(k) ==
    /\ state[k] = "open"
    /\ state' = [state EXCEPT ![k] = "held"]
    /\ writers' = [writers EXCEPT ![k] = 1]
    /\ UNCHANGED answers

\* The write raised and the key is released.
Abort(k) ==
    /\ state[k] = "held" /\ writers[k] = 1
    /\ state' = [state EXCEPT ![k] = "open"]
    /\ writers' = [writers EXCEPT ![k] = 0]
    /\ UNCHANGED answers

\* The writer is gone and nobody releases the key.
Vanish(k) ==
    /\ state[k] = "held" /\ writers[k] = 1
    /\ writers' = [writers EXCEPT ![k] = 0]
    /\ UNCHANGED <<state, answers>>

\* The write succeeded; its caller is answered with the result.
Settle(k) ==
    /\ state[k] = "held" /\ writers[k] = 1
    /\ state' = [state EXCEPT ![k] = "settled"]
    /\ writers' = [writers EXCEPT ![k] = 0]
    /\ \E r \in Results : answers' = [answers EXCEPT ![k] = {r}]

\* Later callers get that result and no other.
Replay(k) == state[k] = "settled" /\ UNCHANGED onceVars

OnceNext == \E k \in Keys : Begin(k) \/ Abort(k) \/ Vanish(k) \/ Settle(k) \/ Replay(k)

OnceSpec == OnceInit /\ [][OnceNext]_onceVars
=============================================================================
