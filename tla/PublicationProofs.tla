-------------------------- MODULE PublicationProofs -------------------------
(***************************************************************************)
(* Theorems about Publication, for any requests, executions, keys, rows    *)
(* and bounds.                                                             *)
(***************************************************************************)
EXTENDS Publication, TLAPS, FiniteSetTheorems

-----------------------------------------------------------------------------
(* Types. *)

\* An execution has its publication, a request the one it made or was told of.
ExecutionHasPub(e) == exec[e].pc # "idle" => exec[e].pub \in Pub
RequestHasPub(c) ==
    client[c].pc \in {"enqueue", "undo", "complete", "answered"} => client[c].pub \in Pub

\* A completed key stores its publication.
StoresPub(k) == ledger[k].status = "completed" => ledger[k].result \in Pub

TInv ==
    /\ TypeOK
    /\ \A e \in Executor : ExecutionHasPub(e)
    /\ \A c \in Client : RequestHasPub(c)
    /\ \A k \in Keys : StoresPub(k)

LEMMA InitTyped == Init => TInv
BY PublicationAssumption
   DEF Init, LedgerInit, NoRow, NoPublication, Outside, TInv, TypeOK, Records, Row, PubRow,
       RequestState, ExecutionState, ExecutionHasPub, RequestHasPub, StoresPub, Posted

LEMMA ClaimTyped ==
  ASSUME TInv, NEW k \in Keys, NEW a \in Timing \cup {"execute", None}, Claim(k, a)
  PROVE  ledger' \in [Keys -> Records] /\ \A j \in Keys : StoresPub(j)'
BY DEF Claim, TInv, TypeOK, Records, Row, StoresPub

LEMMA FinishTyped ==
  ASSUME TInv, NEW k \in Keys, NEW status \in {"completed", "failed"}, NEW r \in Pub \cup {None},
         status = "completed" => r \in Pub, Finish(k, status, r)
  PROVE  ledger' \in [Keys -> Records] /\ \A j \in Keys : StoresPub(j)'
<1>1. /\ ledger \in [Keys -> Records] /\ ledger[k] \in Records /\ None \notin Pub
      /\ \A j \in Keys : StoresPub(j)
  BY PublicationAssumption DEF TInv, TypeOK
<1>2. CASE UNCHANGED ledger
  BY <1>1, <1>2 DEF StoresPub
<1>3. CASE ledger' = [ledger EXCEPT ![k].status = status, ![k].result = r]
  <2>1. ledger' = [ledger EXCEPT ![k] = [ledger[k] EXCEPT !.status = status, !.result = r]]
    BY <1>3
  <2>2. [ledger[k] EXCEPT !.status = status, !.result = r] \in Records
    BY <1>1 DEF Records, Row
  <2>3. ledger' \in [Keys -> Records] BY <1>1, <2>1, <2>2
  <2>4. ledger'[k].status = status /\ ledger'[k].result = r
    BY <1>1, <2>1 DEF Records, Row
  <2>5. \A j \in Keys : j # k => ledger'[j] = ledger[j] BY <1>1, <2>1
  <2> QED BY <1>1, <2>3, <2>4, <2>5 DEF StoresPub
<1> QED BY <1>2, <1>3 DEF Finish

\* The two ways a key is finished.
LEMMA KeyFinished ==
  ASSUME TInv, NEW k \in Keys, FailKey(k) \/ \E r \in Pub : CompleteKey(k, r)
  PROVE  ledger' \in [Keys -> Records] /\ \A j \in Keys : StoresPub(j)'
<1>1. CASE FailKey(k)
  <2>1. ledger[k].result \in Pub \cup {None} BY DEF TInv, TypeOK, Records, Row
  <2> QED BY <1>1, <2>1, FinishTyped DEF FailKey
<1>2. CASE \E r \in Pub : CompleteKey(k, r)
  BY <1>2, FinishTyped DEF CompleteKey
<1> QED BY <1>1, <1>2

LEMMA StatusTyped ==
  ASSUME TInv, NEW p, NEW s \in {"none", "queued", "running", "failed"} \cup Posted, SetStatus(p, s)
  PROVE  pubs' \in [Pub -> PubRow]
BY DEF SetStatus, TInv, TypeOK, PubRow

LEMMA RequestTyped ==
  ASSUME TInv, NEW c \in Client, Request(c)
  PROVE  TInv'
<1>1. /\ client \in [Client -> RequestState] /\ client[c] \in RequestState
      /\ \A d \in Client : RequestHasPub(d)
  BY DEF TInv, TypeOK
<1>2. None \notin Keys /\ HeaderKey \subseteq Keys
  BY PublicationAssumption
<1> USE <1>1, <1>2 DEF RequestHasPub
<1>3. CASE \E k \in HeaderKey \cup {None}, t \in Timing : Post(c, k, t)
  <2>1. client' \in [Client -> RequestState] /\ \A d \in Client : RequestHasPub(d)'
    BY <1>3 DEF Post, RequestState
  <2> QED BY <1>3, <2>1 DEF Post, TInv, TypeOK, ExecutionHasPub, StoresPub, tables, jobs, history
<1>4. CASE ClaimRequest(c)
  <2>1. client[c].key \in HeaderKey \cup {None} /\ client[c].timing \in Timing \cup {None}
    BY DEF RequestState
  <2>2. CASE client[c].key = None
    <3>1. client' \in [Client -> RequestState] /\ \A d \in Client : RequestHasPub(d)'
      BY <1>4, <2>2 DEF ClaimRequest, ClientGoes, RequestState
    <3> QED BY <1>4, <2>2, <3>1
            DEF ClaimRequest, TInv, TypeOK, ExecutionHasPub, StoresPub, tables, jobs, history
  <2>3. CASE client[c].key # None
    <3> DEFINE k == client[c].key  t == client[c].timing
    <3>1. k \in Keys /\ Claim(k, t) BY <1>4, <2>1, <2>3 DEF ClaimRequest
    <3>2. ClaimOutcome(k, t) = "replay" => ledger[k].result \in Pub
      BY <3>1 DEF ClaimOutcome, TInv, StoresPub
    <3>3. \/ client' = [client EXCEPT ![c].pc = "create"]
          \/ /\ ledger[k].result \in Pub
             /\ client' = [client EXCEPT ![c].pc = "answered", ![c].pub = ledger[k].result]
          \/ client' = [client EXCEPT ![c] = Outside("failed")]
      BY <1>4, <2>3, <3>2 DEF ClaimRequest
    <3>4. client' \in [Client -> RequestState] /\ \A d \in Client : RequestHasPub(d)'
      BY <3>3 DEF Outside, RequestState
    <3>5. ledger' \in [Keys -> Records] /\ \A j \in Keys : StoresPub(j)'
      BY <2>1, <3>1, ClaimTyped
    <3> QED BY <1>4, <3>4, <3>5 DEF ClaimRequest, TInv, TypeOK, ExecutionHasPub, tables, jobs, history
  <2> QED BY <2>2, <2>3
<1>5. CASE CreatePublication(c)
  <2>1. client' \in [Client -> RequestState] /\ \A d \in Client : RequestHasPub(d)'
    BY <1>5 DEF CreatePublication, At, ClientGoes, Errs, Outside, RequestState
  <2>2. UNCHANGED <<ledger, events, content, jobs, posts, exec, history>>
    BY <1>5 DEF CreatePublication
  <2>3. [status |-> "queued", key |-> client[c].key, timing |-> client[c].timing] \in PubRow
    BY DEF PubRow, RequestState, Posted
  <2>4. pubs' \in [Pub -> PubRow]
    BY <1>5, <2>3 DEF CreatePublication, TInv, TypeOK
  <2>5. faults' \in Nat
    BY <1>5 DEF CreatePublication, Fault, TInv, TypeOK
  <2> QED BY <2>1, <2>2, <2>4, <2>5 DEF TInv, TypeOK, ExecutionHasPub, StoresPub, jobs, history
<1>6. CASE EnqueueJob(c)
  <2>1. client' \in [Client -> RequestState] /\ \A d \in Client : RequestHasPub(d)'
    BY <1>6 DEF EnqueueJob, At, ClientGoes, Errs, Outside, RequestState
  <2> QED BY <1>6, <2>1 DEF EnqueueJob, At, TInv, TypeOK, ExecutionHasPub, StoresPub, tables, jobs, history, Fault
<1>7. CASE UndoPublication(c)
  <2>1. client' \in [Client -> RequestState] /\ \A d \in Client : RequestHasPub(d)'
    BY <1>7 DEF UndoPublication, At, ClientGoes, RequestState
  <2>2. SetStatus(client[c].pub, "failed") \/ UNCHANGED pubs
    BY <1>7 DEF UndoPublication
  <2>3. pubs' \in [Pub -> PubRow]
    BY <2>2, StatusTyped DEF TInv, TypeOK
  <2> QED BY <1>7, <2>1, <2>3 DEF UndoPublication, TInv, TypeOK, ExecutionHasPub, StoresPub,
                                  jobs, history, Fault
<1>8. CASE ReleaseRequest(c) \/ CompleteRequest(c)
  <2>1. client[c].key \in HeaderKey \cup {None}
    BY DEF RequestState
  <2>2. client' \in [Client -> RequestState] /\ \A d \in Client : RequestHasPub(d)'
    BY <1>8 DEF ReleaseRequest, CompleteRequest, At, ClientGoes, Errs, Outside, RequestState
  <2>3. \/ UNCHANGED ledger
        \/ /\ client[c].key \in Keys
           /\ FailKey(client[c].key) \/ \E r \in Pub : CompleteKey(client[c].key, r)
    BY <1>8, <2>1 DEF ReleaseRequest, CompleteRequest, At
  <2>4. ledger' \in [Keys -> Records] /\ \A j \in Keys : StoresPub(j)'
    <3>1. CASE UNCHANGED ledger BY <3>1 DEF TInv, TypeOK, StoresPub
    <3> QED BY <2>3, <3>1, KeyFinished
  <2> QED BY <1>8, <2>2, <2>4 DEF ReleaseRequest, CompleteRequest, TInv, TypeOK, ExecutionHasPub,
                                  tables, jobs, history, Fault
<1>9. CASE ApiCrash(c)
  <2>1. client' \in [Client -> RequestState] /\ \A d \in Client : RequestHasPub(d)'
    BY <1>9 DEF ApiCrash, At, ClientGoes, Errs, Outside, RequestState
  <2> QED BY <1>9, <2>1 DEF ApiCrash, At, TInv, TypeOK, ExecutionHasPub, StoresPub, tables, jobs, history, Fault
<1> QED BY <1>3, <1>4, <1>5, <1>6, <1>7, <1>8, <1>9 DEF Request

LEMMA ExecutionTyped ==
  ASSUME TInv, NEW e \in Executor, Execution(e) \/ WorkerVanishes(e) \/ DeliveredAgain(e)
  PROVE  TInv'
<1>1. /\ exec \in [Executor -> ExecutionState] /\ exec[e] \in ExecutionState
      /\ \A f \in Executor : ExecutionHasPub(f)
  BY DEF TInv, TypeOK
<1>2. Pub \subseteq Keys
  BY PublicationAssumption
<1> USE <1>1, <1>2 DEF ExecutionHasPub
<1>3. CASE StartJob(e)
  <2>1. PICK p \in Pub :
          exec' = IF pubs[p].status \in Posted THEN exec
                  ELSE [exec EXCEPT ![e] = [Idle EXCEPT !.pc = "claim", !.pub = p]]
    BY <1>3 DEF StartJob
  <2>2. [Idle EXCEPT !.pc = "claim", !.pub = p] \in ExecutionState
    BY DEF Idle, ExecutionState
  <2>3. [Idle EXCEPT !.pc = "claim", !.pub = p].pub = p
    BY DEF Idle
  <2>4. exec' \in [Executor -> ExecutionState] /\ \A f \in Executor : ExecutionHasPub(f)'
    BY <2>1, <2>2, <2>3
  <2> QED BY <1>3, <2>4 DEF StartJob, TInv, TypeOK, RequestHasPub, StoresPub, tables, jobs, history
<1>4. CASE ClaimExecution(e)
  <2>1. exec' \in [Executor -> ExecutionState] /\ \A f \in Executor : ExecutionHasPub(f)'
    BY <1>4 DEF ClaimExecution, Running, Idle, ExecutionState
  <2>2. exec[e].pub \in Keys /\ Claim(exec[e].pub, "execute")
    BY <1>4 DEF ClaimExecution, Running
  <2>3. ledger' \in [Keys -> Records] /\ \A j \in Keys : StoresPub(j)'
    BY <2>2, ClaimTyped
  <2> QED BY <1>4, <2>1, <2>3 DEF ClaimExecution, TInv, TypeOK, RequestHasPub, tables, jobs, history
<1>5. CASE MarkRunning(e)
  <2>1. exec' \in [Executor -> ExecutionState] /\ \A f \in Executor : ExecutionHasPub(f)'
    BY <1>5 DEF MarkRunning, Running, Goes, Raises, BookFails, ExecutionState
  <2>2. SetStatus(exec[e].pub, "running") \/ UNCHANGED pubs
    BY <1>5 DEF MarkRunning
  <2>3. pubs' \in [Pub -> PubRow]
    BY <2>2, StatusTyped DEF FinalStatus, Posted, TInv, TypeOK
  <2> QED BY <1>5, <2>1, <2>3 DEF MarkRunning, Running, BookFails, TInv, TypeOK, RequestHasPub, StoresPub, tables, jobs, history, Fault
<1>6. CASE BookFailure(e)
  <2>1. exec' \in [Executor -> ExecutionState] /\ \A f \in Executor : ExecutionHasPub(f)'
    BY <1>6 DEF BookFailure, Running, Goes, Raises, BookFails, ExecutionState
  <2>2. SetStatus(exec[e].pub, "failed") \/ UNCHANGED pubs
    BY <1>6 DEF BookFailure
  <2>3. pubs' \in [Pub -> PubRow]
    BY <2>2, StatusTyped DEF FinalStatus, Posted, TInv, TypeOK
  <2> QED BY <1>6, <2>1, <2>3 DEF BookFailure, Running, BookFails, TInv, TypeOK, RequestHasPub, StoresPub, tables, jobs, history, Fault
<1>7. CASE BookPublication(e)
  <2>1. exec' \in [Executor -> ExecutionState] /\ \A f \in Executor : ExecutionHasPub(f)'
    BY <1>7 DEF BookPublication, Running, Goes, Raises, BookFails, ExecutionState
  <2>2. SetStatus(exec[e].pub, FinalStatus(exec[e].pub)) \/ UNCHANGED pubs
    BY <1>7 DEF BookPublication
  <2>3. pubs' \in [Pub -> PubRow]
    BY <2>2, StatusTyped DEF FinalStatus, Posted, TInv, TypeOK
  <2> QED BY <1>7, <2>1, <2>3 DEF BookPublication, Running, BookFails, TInv, TypeOK, RequestHasPub, StoresPub, tables, jobs, history, Fault
<1>8. CASE CallTool(e) \/ CallRest(e)
  <2>1. exec[e].pub \in Pub BY <1>8 DEF CallTool, CallRest, Running
  <2>2. \/ Goes(e, "rest") /\ UNCHANGED posts
        \/ \E accepted \in BOOLEAN, verdict \in Verdict : Called(e, accepted, verdict)
    BY <1>8 DEF CallTool, CallRest, Verdict
  <2>3. UNCHANGED <<ledger, tables, jobs, client, history>> /\ faults' \in {faults, faults + 1}
    BY <1>8 DEF CallTool, CallRest, Fault
  <2>4. faults' \in Nat
    BY <2>3 DEF TInv, TypeOK
  <2>5. CASE Goes(e, "rest") /\ UNCHANGED posts
    <3>1. exec' \in [Executor -> ExecutionState] /\ \A f \in Executor : ExecutionHasPub(f)'
      BY <2>1, <2>5 DEF Goes, ExecutionState
    <3> QED BY <2>3, <2>4, <2>5, <3>1 DEF TInv, TypeOK, RequestHasPub, StoresPub, tables, jobs, history
  <2>6. ASSUME NEW accepted \in BOOLEAN, NEW verdict \in Verdict, Called(e, accepted, verdict)
        PROVE  TInv'
    <3>1. PICK r \in {None, "transient", "permanent"}, label \in {"book", "except"} :
            exec' = [exec EXCEPT ![e].accepted = accepted, ![e].error = r, ![e].pc = label]
      BY <2>6 DEF Called
    <3>2. exec' \in [Executor -> ExecutionState] /\ \A f \in Executor : ExecutionHasPub(f)'
      BY <2>1, <3>1 DEF ExecutionState
    <3>3. posts' \in [Pub -> Nat]
      BY <2>1, <2>6 DEF Called, TInv, TypeOK
    <3> QED BY <2>3, <2>4, <3>2, <3>3 DEF TInv, TypeOK, RequestHasPub, StoresPub, tables, jobs, history
  <2> QED BY <2>2, <2>5, <2>6
<1>9. CASE BookContent(e)
  <2>1. exec' \in [Executor -> ExecutionState] /\ \A f \in Executor : ExecutionHasPub(f)'
    BY <1>9 DEF BookContent, Running, Goes, Raises, BookFails, Idle, ExecutionState
  <2> QED BY <1>9, <2>1 DEF BookContent, Running, BookFails, TInv, TypeOK, RequestHasPub, StoresPub, tables, jobs, history, Fault
<1>10. CASE BookCalendar(e)
  <2>1. exec' \in [Executor -> ExecutionState] /\ \A f \in Executor : ExecutionHasPub(f)'
    BY <1>10 DEF BookCalendar, Running, Goes, Raises, BookFails, Idle, ExecutionState
  <2> QED BY <1>10, <2>1 DEF BookCalendar, Running, BookFails, TInv, TypeOK, RequestHasPub, StoresPub, tables, jobs, history, Fault
<1>11. CASE ReleaseExecution(e) \/ SettleExecution(e)
  <2>1. exec[e].pub \in Pub
    BY <1>11 DEF ReleaseExecution, SettleExecution, Running
  <2>2. exec' \in [Executor -> ExecutionState] /\ \A f \in Executor : ExecutionHasPub(f)'
    <3>1. Idle \in ExecutionState /\ Idle.pc = "idle" BY DEF Idle, ExecutionState
    <3>2. \/ exec' = [exec EXCEPT ![e] = Idle]
          \/ exec' = [exec EXCEPT ![e].pc = "job_error"]
          \/ exec' = [exec EXCEPT ![e].pc = "job_error", ![e].error = "transient"]
      BY <1>11 DEF ReleaseExecution, SettleExecution, Goes, Raises
    <3> QED BY <2>1, <3>1, <3>2 DEF ExecutionState
  <2>3. \/ UNCHANGED ledger
        \/ FailKey(exec[e].pub) \/ \E r \in Pub : CompleteKey(exec[e].pub, r)
    BY <1>11, <2>1 DEF ReleaseExecution, SettleExecution
  <2>4. ledger' \in [Keys -> Records] /\ \A j \in Keys : StoresPub(j)'
    <3>1. CASE UNCHANGED ledger BY <3>1 DEF TInv, TypeOK, StoresPub
    <3> QED BY <2>1, <2>3, <3>1, KeyFinished
  <2> QED BY <1>11, <2>2, <2>4 DEF ReleaseExecution, SettleExecution, TInv, TypeOK, RequestHasPub,
                                   tables, jobs, history, Fault
<1>12. CASE EndJob(e)
  <2>1. exec' \in [Executor -> ExecutionState] /\ \A f \in Executor : ExecutionHasPub(f)'
    BY <1>12 DEF EndJob, Running, Goes, Raises, Idle, ExecutionState
  <2> QED BY <1>12, <2>1 DEF EndJob, Running, TInv, TypeOK, RequestHasPub, StoresPub, tables, jobs, history, Fault
<1>13. CASE WorkerVanishes(e)
  <2>1. exec' \in [Executor -> ExecutionState] /\ \A f \in Executor : ExecutionHasPub(f)'
    BY <1>13 DEF WorkerVanishes, Running, Goes, Raises, Idle, ExecutionState
  <2> QED BY <1>13, <2>1 DEF WorkerVanishes, Running, TInv, TypeOK, RequestHasPub, StoresPub, tables, jobs, history, Fault
<1>14. CASE DeliveredAgain(e)
  <2>1. exec' \in [Executor -> ExecutionState] /\ \A f \in Executor : ExecutionHasPub(f)'
    BY <1>14 DEF DeliveredAgain, Running, Goes, Raises, Idle, ExecutionState
  <2> QED BY <1>14, <2>1 DEF DeliveredAgain, Running, TInv, TypeOK, RequestHasPub, StoresPub, tables, jobs, history, Fault
<1> QED BY <1>3, <1>4, <1>5, <1>6, <1>7, <1>8, <1>9, <1>10, <1>11, <1>12, <1>13, <1>14
       DEF Execution

LEMMA StepTyped ==
  ASSUME TInv, [Next]_vars
  PROVE  TInv'
<1>1. CASE UNCHANGED vars
  BY <1>1 DEF vars, tables, jobs, history, TInv, TypeOK, ExecutionHasPub, RequestHasPub, StoresPub
<1> QED BY <1>1, RequestTyped, ExecutionTyped DEF Next

\* Every table, request and execution stays well formed, and a key that is
\* completed stores a publication (complete_idempotency_key).
THEOREM TypeCorrect == Spec => []TypeOK
<1>1. TInv => TypeOK BY DEF TInv
<1> QED BY <1>1, InitTyped, StepTyped, PTL DEF Spec

-----------------------------------------------------------------------------
(* The key of a write. *)

RequestWrites(c) == client[c].pc \in {"create", "enqueue", "undo", "unwind", "complete"}
ExecutionWrites(e) == exec[e].pc \notin {"idle", "claim", "job_error"}

\* One request of a key is inside its write, and only while the row is in progress.
OneRequest ==
    \A c \in Client : RequestWrites(c) /\ client[c].key # None =>
        /\ ledger[client[c].key].status = "in_progress"
        /\ \A d \in Client : RequestWrites(d) /\ client[d].key = client[c].key => d = c

\* One execution of a publication is inside its write.
OneExecution ==
    \A e \in Executor : ExecutionWrites(e) =>
        /\ ledger[exec[e].pub].status = "in_progress"
        /\ \A f \in Executor : ExecutionWrites(f) /\ exec[f].pub = exec[e].pub => f = e

\* The callers of a key were given what its row stores, once it is completed.
SameAnswer(k) ==
    Given(k) = IF ledger[k].status = "completed" THEN {ledger[k].result} ELSE {}

KeyInv ==
    /\ TInv
    /\ OneRequest
    /\ OneExecution
    /\ \A k \in HeaderKey : SameAnswer(k)

LEMMA InitKeys == Init => KeyInv
<1>1. ASSUME Init PROVE KeyInv
  <2>1. /\ \A c \in Client : client[c].pc = "idle"
        /\ \A e \in Executor : exec[e].pc = "idle"
        /\ \A k \in Keys : ledger[k].status = "absent"
    BY <1>1 DEF Init, LedgerInit, NoRow, Outside
  <2>2. HeaderKey \subseteq Keys BY PublicationAssumption
  <2> QED BY <1>1, <2>1, <2>2, InitTyped
          DEF KeyInv, OneRequest, OneExecution, RequestWrites, ExecutionWrites, SameAnswer, Given
<1> QED BY <1>1

\* What a step does to a key.
Claims(k) ==
    /\ Open(k)
    /\ \E a : ledger' = [ledger EXCEPT ![k] = [status |-> "in_progress", args |-> a, result |-> None]]

Releases(k) ==
    /\ ledger[k].status = "in_progress"
    /\ ledger' = [ledger EXCEPT ![k].status = "failed", ![k].result = ledger[k].result]

Completes(k, r) ==
    /\ ledger[k].status = "in_progress"
    /\ ledger' = [ledger EXCEPT ![k].status = "completed", ![k].result = r]

\* What a step of a request does: it does not enter a write, unless it has no
\* key; or it enters by a claim; or it ends its write and finishes the key.
RequestPasses(c) ==
    /\ UNCHANGED ledger
    /\ RequestWrites(c)' /\ client'[c].key # None => RequestWrites(c) /\ client'[c].key = client[c].key
    /\ client'[c].pc = "answered" /\ client'[c].key # None =>
        /\ ledger[client'[c].key].status = "completed"
        /\ client'[c].pub = ledger[client'[c].key].result

RequestClaims(c) ==
    /\ ~RequestWrites(c) /\ RequestWrites(c)'
    /\ client'[c].key = client[c].key /\ client[c].key # None
    /\ Claims(client[c].key)

RequestEnds(c) ==
    /\ RequestWrites(c) /\ ~RequestWrites(c)' /\ client[c].key # None
    /\ \/ Releases(client[c].key) /\ client'[c].pc = "failed"
       \/ /\ client[c].pub \in Pub /\ Completes(client[c].key, client[c].pub)
          /\ client'[c].pc = "answered"
          /\ client'[c].pub = client[c].pub /\ client'[c].key = client[c].key

RequestStep(c) ==
    /\ client' = [client EXCEPT ![c] = client'[c]]
    /\ client[c].pc # "answered"
    /\ UNCHANGED exec
    /\ RequestPasses(c) \/ RequestClaims(c) \/ RequestEnds(c)

LEMMA RequestSteps ==
  ASSUME KeyInv, NEW c \in Client, Request(c)
  PROVE  RequestStep(c)
<1>1. /\ client \in [Client -> RequestState] /\ client[c] \in RequestState /\ RequestHasPub(c)
      /\ OneRequest
  BY DEF KeyInv, TInv, TypeOK
<1>2. /\ \A k \in HeaderKey \cup {None}, t \in Timing :
           Post(c, k, t) => client'[c].pc = "claim" /\ client' = [client EXCEPT ![c] = client'[c]]
  BY <1>1 DEF Post
<1>3. CASE \E k \in HeaderKey \cup {None}, t \in Timing : Post(c, k, t)
  <2>1. client[c].pc = "idle" /\ UNCHANGED <<ledger, exec>>
    BY <1>3 DEF Post, At
  <2> QED BY <1>2, <1>3, <2>1 DEF RequestStep, RequestPasses, RequestWrites
<1>4. CASE ClaimRequest(c)
  <2> DEFINE k == client[c].key  t == client[c].timing
  <2>1. client[c].pc = "claim" /\ UNCHANGED exec
    BY <1>4 DEF ClaimRequest, At
  <2>2. CASE k = None
    <3>1. client' = [client EXCEPT ![c].pc = "create"] /\ UNCHANGED ledger
      BY <1>4, <2>2 DEF ClaimRequest, ClientGoes
    <3>2. client'[c].pc = "create" /\ client'[c].key = None
      BY <1>1, <2>2, <3>1 DEF RequestState
    <3> QED BY <1>1, <2>1, <3>1, <3>2 DEF RequestStep, RequestPasses
  <2>3. CASE k # None /\ Open(k)
    <3>1. /\ client' = [client EXCEPT ![c].pc = "create"]
          /\ ledger' = [ledger EXCEPT ![k] = [status |-> "in_progress", args |-> t, result |-> None]]
      BY <1>4, <2>3 DEF ClaimRequest, Claim, ClaimOutcome
    <3>2. client'[c].pc = "create" /\ client'[c].key = k
      BY <1>1, <3>1 DEF RequestState
    <3> QED BY <1>1, <2>1, <2>3, <3>1, <3>2 DEF RequestStep, RequestClaims, RequestWrites, Claims
  <2>4. CASE k # None /\ ~Open(k)
    <3>1. UNCHANGED ledger
      BY <1>4, <2>4 DEF ClaimRequest, Claim, ClaimOutcome
    <3>2. \/ /\ ledger[k].status = "completed"
             /\ client' = [client EXCEPT ![c].pc = "answered", ![c].pub = ledger[k].result]
          \/ client' = [client EXCEPT ![c] = Outside("failed")]
      BY <1>4, <2>4 DEF ClaimRequest, ClaimOutcome
    <3> QED BY <1>1, <2>1, <3>1, <3>2 DEF RequestStep, RequestPasses, RequestWrites, Outside, RequestState
  <2> QED BY <2>2, <2>3, <2>4
<1>5. CASE CreatePublication(c) \/ EnqueueJob(c) \/ UndoPublication(c)
  <2>1. client[c].pc \in {"create", "enqueue", "undo"} /\ UNCHANGED <<ledger, exec>>
    BY <1>5 DEF CreatePublication, EnqueueJob, UndoPublication, At
  <2>2. /\ client' = [client EXCEPT ![c] = client'[c]]
        /\ client'[c].key = client[c].key /\ client'[c].pc \in {"enqueue", "undo", "unwind", "complete"}
    BY <1>1, <1>5 DEF CreatePublication, EnqueueJob, UndoPublication, ClientGoes, RequestState
  <2> QED BY <2>1, <2>2 DEF RequestStep, RequestPasses, RequestWrites
<1>6. CASE ReleaseRequest(c)
  <2>1. /\ client[c].pc = "unwind" /\ UNCHANGED exec
        /\ client' = [client EXCEPT ![c] = Outside("failed")]
    BY <1>6 DEF ReleaseRequest, At, Errs
  <2>2. client'[c].pc = "failed" /\ client' = [client EXCEPT ![c] = client'[c]]
    BY <1>1, <2>1 DEF Outside
  <2>3. UNCHANGED ledger \/ (client[c].key # None /\ FailKey(client[c].key))
    BY <1>6 DEF ReleaseRequest
  <2>4. client[c].key # None => ledger[client[c].key].status = "in_progress"
    BY <1>1, <2>1 DEF OneRequest, RequestWrites
  <2> QED BY <2>1, <2>2, <2>3, <2>4
          DEF RequestStep, RequestPasses, RequestEnds, RequestWrites, FailKey, Finish, Releases
<1>7. CASE CompleteRequest(c)
  <2>1. client[c].pc = "complete" /\ UNCHANGED exec /\ client[c].pub \in Pub
    BY <1>1, <1>7 DEF CompleteRequest, At, RequestHasPub
  <2>2. client[c].key # None => ledger[client[c].key].status = "in_progress"
    BY <1>1, <2>1 DEF OneRequest, RequestWrites
  <2>3. CASE ClientGoes(c, "answered")
    <3>1. /\ client' = [client EXCEPT ![c] = client'[c]]
          /\ client'[c].pc = "answered" /\ client'[c].key = client[c].key /\ client'[c].pub = client[c].pub
      BY <1>1, <2>3 DEF ClientGoes, RequestState
    <3>2. IF client[c].key = None THEN UNCHANGED ledger ELSE CompleteKey(client[c].key, client[c].pub)
      BY <1>1, <1>7, <2>3, <3>1 DEF CompleteRequest, Errs, Outside
    <3> QED BY <2>1, <2>2, <3>1, <3>2 DEF RequestStep, RequestPasses, RequestEnds, RequestWrites,
                                          CompleteKey, Finish, Completes
  <2>4. CASE Errs(c) /\ UNCHANGED ledger
    <3>1. client'[c].pc = "failed" /\ client' = [client EXCEPT ![c] = client'[c]]
      BY <1>1, <2>4 DEF Errs, Outside
    <3> QED BY <2>1, <2>4, <3>1 DEF RequestStep, RequestPasses, RequestWrites
  <2> QED BY <1>7, <2>3, <2>4 DEF CompleteRequest
<1>8. CASE ApiCrash(c)
  <2>1. /\ client[c].pc # "answered" /\ UNCHANGED <<ledger, exec>>
        /\ client' = [client EXCEPT ![c] = Outside("failed")]
    BY <1>8 DEF ApiCrash, Errs
  <2>2. client'[c].pc = "failed" /\ client' = [client EXCEPT ![c] = client'[c]]
    BY <1>1, <2>1 DEF Outside
  <2> QED BY <2>1, <2>2 DEF RequestStep, RequestPasses, RequestWrites
<1> QED BY <1>3, <1>4, <1>5, <1>6, <1>7, <1>8 DEF Request

\* The same for an execution.
ExecutionPasses(e) ==
    /\ UNCHANGED ledger
    /\ ExecutionWrites(e)' => ExecutionWrites(e) /\ exec'[e].pub = exec[e].pub

ExecutionClaims(e) ==
    /\ ~ExecutionWrites(e) /\ ExecutionWrites(e)'
    /\ exec[e].pub \in Pub /\ exec'[e].pub = exec[e].pub
    /\ Claims(exec[e].pub)

ExecutionEnds(e) ==
    /\ ExecutionWrites(e) /\ ~ExecutionWrites(e)'
    /\ Releases(exec[e].pub) \/ Completes(exec[e].pub, exec[e].pub)

ExecutionStep(e) ==
    /\ exec' = [exec EXCEPT ![e] = exec'[e]]
    /\ UNCHANGED client
    /\ ExecutionPasses(e) \/ ExecutionClaims(e) \/ ExecutionEnds(e)

LEMMA ExecutionSteps ==
  ASSUME KeyInv, NEW e \in Executor, Execution(e) \/ WorkerVanishes(e) \/ DeliveredAgain(e)
  PROVE  ExecutionStep(e)
<1>1. /\ exec \in [Executor -> ExecutionState] /\ exec[e] \in ExecutionState /\ ExecutionHasPub(e)
      /\ OneExecution
  BY DEF KeyInv, TInv, TypeOK
<1>2. CASE StartJob(e)
  <2>1. UNCHANGED <<ledger, client>> BY <1>2 DEF StartJob
  <2>2. \/ exec' = exec
        \/ \E p \in Pub : exec' = [exec EXCEPT ![e] = [Idle EXCEPT !.pc = "claim", !.pub = p]]
    BY <1>2 DEF StartJob
  <2>3. exec' = [exec EXCEPT ![e] = exec'[e]] /\ (exec'[e] = exec[e] \/ exec'[e].pc = "claim")
    BY <1>1, <2>2 DEF Idle
  <2> QED BY <2>1, <2>3 DEF ExecutionStep, ExecutionPasses, ExecutionWrites
<1>3. CASE ClaimExecution(e)
  <2> DEFINE p == exec[e].pub
  <2>1. exec[e].pc = "claim" /\ UNCHANGED client /\ p \in Pub
    BY <1>1, <1>3 DEF ClaimExecution, Running, ExecutionHasPub
  <2>2. CASE Open(p)
    <3>1. /\ exec' = [exec EXCEPT ![e].pc = "mark"]
          /\ ledger' = [ledger EXCEPT ![p] = [status |-> "in_progress", args |-> "execute", result |-> None]]
      BY <1>3, <2>2 DEF ClaimExecution, Claim, ClaimOutcome
    <3>2. exec'[e].pc = "mark" /\ exec'[e].pub = p BY <1>1, <3>1 DEF ExecutionState
    <3> QED BY <1>1, <2>1, <2>2, <3>1, <3>2 DEF ExecutionStep, ExecutionClaims, ExecutionWrites, Claims
  <2>3. CASE ~Open(p)
    <3>1. UNCHANGED ledger BY <1>3, <2>3 DEF ClaimExecution, Claim, ClaimOutcome
    <3>2. \/ exec' = [exec EXCEPT ![e] = Idle]
          \/ exec' = [exec EXCEPT ![e].pc = "job_error", ![e].error = "transient"]
      BY <1>3, <2>3 DEF ClaimExecution, ClaimOutcome
    <3> QED BY <1>1, <2>1, <3>1, <3>2
            DEF ExecutionStep, ExecutionPasses, ExecutionWrites, Idle, ExecutionState
  <2> QED BY <2>2, <2>3
<1>4. CASE \/ MarkRunning(e) \/ CallTool(e) \/ CallRest(e) \/ BookPublication(e) \/ BookContent(e)
           \/ BookCalendar(e) \/ BookFailure(e)
  <2>1. ExecutionWrites(e) /\ UNCHANGED <<ledger, client>>
    BY <1>4 DEF MarkRunning, CallTool, CallRest, BookPublication, BookContent, BookCalendar,
                BookFailure, Running, ExecutionWrites
  <2>2. \/ \E label : Goes(e, label)
        \/ \E r, label : Raises(e, r, label)
        \/ \E accepted, verdict : Called(e, accepted, verdict)
    <3>1. CASE MarkRunning(e) \/ BookFailure(e) BY <3>1 DEF MarkRunning, BookFailure
    <3>2. CASE CallTool(e) \/ CallRest(e) BY <3>2 DEF CallTool, CallRest
    <3>3. CASE BookPublication(e) \/ BookContent(e) \/ BookCalendar(e)
      BY <3>3 DEF BookPublication, BookContent, BookCalendar, BookFails
    <3> QED BY <1>4, <3>1, <3>2, <3>3
  <2>3. exec' = [exec EXCEPT ![e] = exec'[e]] /\ exec'[e].pub = exec[e].pub
    <3>1. ASSUME NEW label, Goes(e, label)
          PROVE  exec' = [exec EXCEPT ![e] = exec'[e]] /\ exec'[e].pub = exec[e].pub
      BY <1>1, <3>1 DEF Goes, ExecutionState
    <3>2. ASSUME NEW r, NEW label, Raises(e, r, label)
          PROVE  exec' = [exec EXCEPT ![e] = exec'[e]] /\ exec'[e].pub = exec[e].pub
      BY <1>1, <3>2 DEF Raises, ExecutionState
    <3>3. ASSUME NEW accepted, NEW verdict, Called(e, accepted, verdict)
          PROVE  exec' = [exec EXCEPT ![e] = exec'[e]] /\ exec'[e].pub = exec[e].pub
      <4>1. PICK r \in {None, "transient", "permanent"}, label \in {"book", "except"} :
              exec' = [exec EXCEPT ![e].accepted = accepted, ![e].error = r, ![e].pc = label]
        BY <3>3 DEF Called
      <4>2. exec' = [exec EXCEPT ![e] = exec'[e]]
        BY <1>1, <4>1
      <4>3. exec'[e].pub = exec[e].pub
        BY <1>1, <4>1 DEF ExecutionState
      <4> QED BY <4>2, <4>3
    <3> QED BY <2>2, <3>1, <3>2, <3>3
  <2> QED BY <2>1, <2>3 DEF ExecutionStep, ExecutionPasses
<1>5. CASE ReleaseExecution(e)
  <2>1. exec[e].pc = "unwind" /\ UNCHANGED client /\ exec' = [exec EXCEPT ![e].pc = "job_error"]
    BY <1>5 DEF ReleaseExecution, Running, Goes
  <2>2. exec'[e].pc = "job_error" /\ exec' = [exec EXCEPT ![e] = exec'[e]]
    BY <1>1, <2>1 DEF ExecutionState
  <2>3. ledger[exec[e].pub].status = "in_progress"
    BY <1>1, <2>1 DEF OneExecution, ExecutionWrites
  <2>4. UNCHANGED ledger \/ FailKey(exec[e].pub) BY <1>5 DEF ReleaseExecution
  <2> QED BY <2>1, <2>2, <2>3, <2>4 DEF ExecutionStep, ExecutionPasses, ExecutionEnds,
                                        ExecutionWrites, FailKey, Finish, Releases
<1>6. CASE SettleExecution(e)
  <2>1. exec[e].pc = "settle" /\ UNCHANGED client
    BY <1>6 DEF SettleExecution, Running
  <2>2. exec'[e].pc \in {"idle", "job_error"} /\ exec' = [exec EXCEPT ![e] = exec'[e]]
    BY <1>1, <1>6 DEF SettleExecution, Raises, Idle, ExecutionState
  <2>3. ledger[exec[e].pub].status = "in_progress"
    BY <1>1, <2>1 DEF OneExecution, ExecutionWrites
  <2>4. UNCHANGED ledger \/ CompleteKey(exec[e].pub, exec[e].pub) BY <1>6 DEF SettleExecution
  <2> QED BY <2>1, <2>2, <2>3, <2>4 DEF ExecutionStep, ExecutionPasses, ExecutionEnds,
                                        ExecutionWrites, CompleteKey, Finish, Completes
<1>7. CASE EndJob(e) \/ WorkerVanishes(e)
  <2>1. UNCHANGED <<ledger, client>> /\ exec' = [exec EXCEPT ![e] = Idle]
    BY <1>7 DEF EndJob, WorkerVanishes
  <2>2. exec'[e].pc = "idle" /\ exec' = [exec EXCEPT ![e] = exec'[e]]
    BY <1>1, <2>1 DEF Idle
  <2> QED BY <2>1, <2>2 DEF ExecutionStep, ExecutionPasses, ExecutionWrites
<1>8. CASE DeliveredAgain(e)
  <2>1. UNCHANGED <<ledger, client, exec>> BY <1>8 DEF DeliveredAgain
  <2> QED BY <1>1, <2>1 DEF ExecutionStep, ExecutionPasses, ExecutionWrites
<1> QED BY <1>2, <1>3, <1>4, <1>5, <1>6, <1>7, <1>8 DEF Execution

\* The row of a key after a step, and the other rows.
LEMMA KeyAfter ==
  ASSUME TInv, NEW k \in Keys
  PROVE  /\ Claims(k) => ledger'[k].status = "in_progress" /\ ledger[k].status \in {"absent", "failed"}
         /\ Releases(k) => ledger'[k].status = "failed"
         /\ \A r : Completes(k, r) => ledger'[k].status = "completed" /\ ledger'[k].result = r
         /\ Claims(k) \/ Releases(k) \/ (\E r : Completes(k, r)) =>
                \A j \in Keys : j # k => ledger'[j] = ledger[j]
BY DEF TInv, TypeOK, Records, Row, Claims, Open, Releases, Completes

\* Keys of requests and of publications are apart.
LEMMA KeysApart ==
  /\ HeaderKey \subseteq Keys /\ Pub \subseteq Keys /\ HeaderKey \cap Pub = {} /\ None \notin Keys
BY PublicationAssumption

\* A step of a request keeps its keys in order: those of executions it leaves
\* alone, and of its own it is the only writer.
LEMMA RequestKeepsKeys ==
  ASSUME KeyInv, NEW c \in Client, RequestStep(c), TInv'
  PROVE  KeyInv'
<1>1. /\ client \in [Client -> RequestState] /\ client' \in [Client -> RequestState]
      /\ client' = [client EXCEPT ![c] = client'[c]] /\ exec' = exec
      /\ \A d \in Client : client[d].key \in HeaderKey \cup {None}
      /\ \A d \in Client : client'[d].key \in HeaderKey \cup {None}
      /\ \A e \in Executor : ExecutionWrites(e) => exec[e].pub \in Pub
  BY DEF RequestStep, KeyInv, TInv, TypeOK, RequestState, ExecutionHasPub, ExecutionWrites
<1>2. \A d \in Client : d # c => client'[d] = client[d]
  BY <1>1
<1>3. /\ RequestClaims(c) => client[c].key \in HeaderKey
      /\ RequestEnds(c) => client[c].key \in HeaderKey
  BY <1>1 DEF RequestClaims, RequestEnds
<1>4. /\ UNCHANGED ledger \/ client[c].key \in HeaderKey
      /\ \A k \in Keys : k # client[c].key => ledger'[k] = ledger[k]
  BY <1>3, KeyAfter, KeysApart DEF RequestStep, RequestPasses, RequestClaims, RequestEnds, KeyInv
<1>5. \A p \in Pub : ledger'[p] = ledger[p]
  BY <1>4, KeysApart
<1>6. OneExecution'
  BY <1>1, <1>5 DEF KeyInv, OneExecution, ExecutionWrites
<1>7. OneRequest'
  <2>1. CASE RequestPasses(c)
    BY <1>1, <1>2, <2>1 DEF RequestPasses, KeyInv, OneRequest, RequestWrites
  <2>2. CASE RequestClaims(c)
    <3>1. \A d \in Client : RequestWrites(d) => client[d].key # client[c].key
      BY <1>1, <1>3, <2>2, KeyAfter, KeysApart DEF RequestClaims, KeyInv, OneRequest
    <3>2. ledger'[client[c].key].status = "in_progress"
      BY <1>3, <2>2, KeyAfter, KeysApart DEF RequestClaims, KeyInv
    <3> QED BY <1>1, <1>2, <1>4, <2>2, <3>1, <3>2, KeysApart
            DEF RequestClaims, KeyInv, OneRequest, RequestWrites
  <2>3. CASE RequestEnds(c)
    <3>1. \A d \in Client : d # c /\ RequestWrites(d) => client[d].key # client[c].key
      BY <2>3 DEF RequestEnds, KeyInv, OneRequest
    <3> QED BY <1>1, <1>2, <1>4, <2>3, <3>1, KeysApart
            DEF RequestEnds, KeyInv, OneRequest, RequestWrites
  <2> QED BY <2>1, <2>2, <2>3 DEF RequestStep
<1>8. ASSUME NEW k \in HeaderKey PROVE SameAnswer(k)'
  <2>1. SameAnswer(k) /\ k \in Keys /\ k # None BY KeysApart DEF KeyInv
  <2>2. client[c].pc # "answered" BY DEF RequestStep
  <2>3. CASE RequestPasses(c)
    <3>1. ledger' = ledger BY <2>3 DEF RequestPasses
    <3>2. Given(k)' = Given(k) \/ (ledger[k].status = "completed" /\ Given(k)' = Given(k) \cup {ledger[k].result})
      <4>1. CASE client'[c].pc = "answered" /\ client'[c].key = k
        BY <1>1, <1>2, <2>1, <2>2, <2>3, <4>1 DEF RequestPasses, Given
      <4>2. CASE ~(client'[c].pc = "answered" /\ client'[c].key = k)
        BY <1>1, <1>2, <2>2, <4>2 DEF Given
      <4> QED BY <4>1, <4>2
    <3> QED BY <2>1, <3>1, <3>2 DEF SameAnswer
  <2>4. CASE RequestClaims(c) \/ (RequestEnds(c) /\ Releases(client[c].key) /\ client'[c].pc = "failed")
    <3>1. client'[c].pc # "answered" BY <2>4 DEF RequestClaims, RequestWrites
    <3>2. Given(k)' = Given(k) BY <1>1, <1>2, <2>2, <3>1 DEF Given
    <3>3. k = client[c].key => ledger[k].status # "completed" /\ ledger'[k].status # "completed"
      BY <2>1, <2>4, KeyAfter DEF RequestClaims, Releases, KeyInv
    <3> QED BY <1>4, <2>1, <3>2, <3>3 DEF SameAnswer
  <2>5. CASE /\ RequestEnds(c) /\ Completes(client[c].key, client[c].pub)
             /\ client'[c].pc = "answered"
             /\ client'[c].pub = client[c].pub /\ client'[c].key = client[c].key
    <3>1. CASE k = client[c].key
      <4>1. Given(k) = {} BY <2>1, <2>5, <3>1 DEF SameAnswer, Completes
      <4>2. Given(k)' = {client[c].pub} BY <1>1, <1>2, <2>5, <3>1, <4>1 DEF Given
      <4>3. ledger'[k].status = "completed" /\ ledger'[k].result = client[c].pub
        BY <2>1, <2>5, <3>1, KeyAfter DEF KeyInv
      <4> QED BY <4>2, <4>3 DEF SameAnswer
    <3>2. CASE k # client[c].key
      <4>1. Given(k)' = Given(k) BY <1>1, <1>2, <2>2, <2>5, <3>2 DEF Given
      <4> QED BY <1>4, <2>1, <3>2, <4>1 DEF SameAnswer
    <3> QED BY <3>1, <3>2
  <2> QED BY <2>3, <2>4, <2>5 DEF RequestStep, RequestEnds
<1> QED BY <1>6, <1>7, <1>8 DEF KeyInv

\* A step of an execution does, too.
LEMMA ExecutionKeepsKeys ==
  ASSUME KeyInv, NEW e \in Executor, ExecutionStep(e), TInv'
  PROVE  KeyInv'
<1> DEFINE p == exec[e].pub
<1>1. /\ exec \in [Executor -> ExecutionState] /\ exec' \in [Executor -> ExecutionState]
      /\ exec' = [exec EXCEPT ![e] = exec'[e]] /\ client' = client
      /\ \A c \in Client : client[c].key \in HeaderKey \cup {None}
      /\ \A f \in Executor : ExecutionWrites(f) => exec[f].pub \in Pub
  BY DEF ExecutionStep, KeyInv, TInv, TypeOK, RequestState, ExecutionHasPub, ExecutionWrites
<1>2. \A f \in Executor : f # e => exec'[f] = exec[f]
  BY <1>1
<1>3. /\ ExecutionClaims(e) => p \in Pub
      /\ ExecutionEnds(e) => p \in Pub
  BY <1>1 DEF ExecutionClaims, ExecutionEnds
<1>4. /\ UNCHANGED ledger \/ p \in Pub
      /\ \A k \in Keys : k # p => ledger'[k] = ledger[k]
  BY <1>3, KeyAfter, KeysApart DEF ExecutionStep, ExecutionPasses, ExecutionClaims, ExecutionEnds, KeyInv
<1>5. \A k \in HeaderKey : ledger'[k] = ledger[k]
  BY <1>4, KeysApart
<1>6. OneRequest'
  BY <1>1, <1>5 DEF KeyInv, OneRequest, RequestWrites
<1>7. \A k \in HeaderKey : SameAnswer(k)'
  BY <1>1, <1>5 DEF KeyInv, SameAnswer, Given
<1>8. OneExecution'
  <2>1. CASE ExecutionPasses(e)
    BY <1>1, <1>2, <2>1 DEF ExecutionPasses, KeyInv, OneExecution, ExecutionWrites
  <2>2. CASE ExecutionClaims(e)
    <3>1. \A f \in Executor : ExecutionWrites(f) => exec[f].pub # p
      BY <1>1, <1>3, <2>2, KeyAfter, KeysApart DEF ExecutionClaims, KeyInv, OneExecution
    <3>2. ledger'[p].status = "in_progress"
      BY <1>3, <2>2, KeyAfter, KeysApart DEF ExecutionClaims, KeyInv
    <3> QED BY <1>1, <1>2, <1>4, <2>2, <3>1, <3>2, KeysApart
            DEF ExecutionClaims, KeyInv, OneExecution, ExecutionWrites
  <2>3. CASE ExecutionEnds(e)
    <3>1. \A f \in Executor : f # e /\ ExecutionWrites(f) => exec[f].pub # p
      BY <2>3 DEF ExecutionEnds, KeyInv, OneExecution
    <3> QED BY <1>1, <1>2, <1>4, <2>3, <3>1, KeysApart
            DEF ExecutionEnds, KeyInv, OneExecution, ExecutionWrites
  <2> QED BY <2>1, <2>2, <2>3 DEF ExecutionStep
<1> QED BY <1>6, <1>7, <1>8 DEF KeyInv

LEMMA StepKeepsKeys ==
  ASSUME KeyInv, [Next]_vars
  PROVE  KeyInv'
<1>1. TInv' BY StepTyped DEF KeyInv
<1>2. CASE UNCHANGED vars
  BY <1>1, <1>2 DEF vars, KeyInv, OneRequest, OneExecution, RequestWrites, ExecutionWrites, SameAnswer, Given
<1> QED BY <1>1, <1>2, RequestSteps, RequestKeepsKeys, ExecutionSteps, ExecutionKeepsKeys DEF Next

LEMMA AlwaysKeys == Spec => []KeyInv
BY InitKeys, StepKeepsKeys, PTL DEF Spec

-----------------------------------------------------------------------------
(* The promise of a key: both uses of the ledger implement WriteOnce. *)

MappedState(k) ==
    IF Open(k) THEN "open" ELSE IF ledger[k].status = "in_progress" THEN "held" ELSE "settled"

MappedAnswers(k) == IF k \in Pub /\ ledger[k].status = "completed" THEN {k} ELSE Given(k)

\* Who is inside the write of a key: requests for a header key, executions for a row.
WritersOf(k) ==
    /\ k \in HeaderKey => Writing(k) = {c \in Client : client[c].key = k /\ RequestWrites(c)}
    /\ k \in Pub => Writing(k) = {e \in Executor : exec[e].pub = k /\ ExecutionWrites(e)}

WritersKnown == \A k \in Keys : WritersOf(k)

LEMMA KnownWriters == TInv => WritersKnown
<1> SUFFICES ASSUME TInv, NEW k \in Keys PROVE WritersOf(k)
  BY DEF WritersKnown
<1>1. \A c \in Client : client[c].key \in HeaderKey \cup {None}
  BY DEF TInv, TypeOK, RequestState
<1>2. \A e \in Executor : ExecutionWrites(e) => exec[e].pub \in Pub
  BY DEF TInv, ExecutionHasPub, ExecutionWrites
<1> QED BY <1>1, <1>2, KeysApart DEF WritersOf, Writing, RequestWrites, ExecutionWrites

LEMMA KnownWritersNext == TInv' => WritersKnown'
BY KnownWriters, PTL

\* A set of at most one element is counted by whether it has one.
LEMMA CountOne ==
  ASSUME NEW S, \A x, y \in S : x = y
  PROVE  Cardinality(S) = IF S = {} THEN 0 ELSE 1
<1>1. CASE S = {}
  BY <1>1, FS_EmptySet
<1>2. CASE S # {}
  <2>1. PICK x \in S : TRUE BY <1>2
  <2>2. S = {x} BY <2>1
  <2>3. Cardinality({x}) = 1 BY FS_Singleton
  <2> QED BY <1>2, <2>2, <2>3
<1> QED BY <1>1, <1>2

LEMMA WritersCounted ==
  ASSUME KeyInv, NEW k \in Keys
  PROVE  /\ Cardinality(Writing(k)) = IF Writing(k) = {} THEN 0 ELSE 1
         /\ Writing(k) # {} => ledger[k].status = "in_progress"
<1>1. k \in HeaderKey \/ k \in Pub BY PublicationAssumption
<1>2. k # None BY KeysApart
<1>3. \A x, y \in Writing(k) : x = y
  BY <1>1, <1>2, KnownWriters DEF KeyInv, OneRequest, OneExecution, WritersKnown, WritersOf
<1>4. Writing(k) # {} => ledger[k].status = "in_progress"
  BY <1>1, <1>2, KnownWriters DEF KeyInv, OneRequest, OneExecution, WritersKnown, WritersOf
<1> QED BY <1>3, <1>4, CountOne

\* What the mapped variables are, for a key in order.
Counted(k) ==
    /\ Cardinality(Writing(k)) = IF Writing(k) = {} THEN 0 ELSE 1
    /\ Writing(k) # {} => ledger[k].status = "in_progress"
    /\ MappedAnswers(k) = IF ledger[k].status # "completed" THEN {}
                          ELSE IF k \in Pub THEN {k} ELSE {ledger[k].result}

AllCounted == \A k \in Keys : Counted(k)

LEMMA KeysCounted == KeyInv => AllCounted
<1> SUFFICES ASSUME KeyInv, NEW k \in Keys PROVE Counted(k)
  BY DEF AllCounted
<1>1. MappedAnswers(k) = IF ledger[k].status # "completed" THEN {}
                         ELSE IF k \in Pub THEN {k} ELSE {ledger[k].result}
  <2>1. CASE k \in Pub
    <3>1. \A c \in Client : client[c].key # k
      BY <2>1, KeysApart DEF KeyInv, TInv, TypeOK, RequestState
    <3> QED BY <2>1, <3>1 DEF MappedAnswers, Given
  <2>2. CASE k \in HeaderKey
    BY <2>2, KeysApart DEF MappedAnswers, KeyInv, SameAnswer
  <2> QED BY <2>1, <2>2, PublicationAssumption
<1> QED BY <1>1, WritersCounted DEF Counted

LEMMA KeysCountedNext == KeyInv' => AllCounted'
BY KeysCounted, PTL

\* The step of a key in WriteOnce, told by its row and whether it has a writer.
OthersKept(k) ==
    \A j \in Keys \ {k} : ledger'[j] = ledger[j] /\ (Writing(j)' = {} <=> Writing(j) = {})

\* A function that differs from another at one key is the other, changed there.
LEMMA ChangedAt ==
  ASSUME NEW S, NEW k \in S, NEW f, NEW g,
         f = [j \in S |-> f[j]], g = [j \in S |-> g[j]], \A j \in S \ {k} : g[j] = f[j]
  PROVE  g = [f EXCEPT ![k] = g[k]]
OBVIOUS

LEMMA KeyRefines ==
  ASSUME KeyInv, KeyInv', NEW k \in Keys, OthersKept(k)
  PROVE  /\ ledger'[k] = ledger[k] /\ (Writing(k)' = {} <=> Writing(k) = {})
                => UNCHANGED Once!onceVars
         /\ ledger'[k] = ledger[k] /\ Writing(k) # {} /\ Writing(k)' = {} => Once!Vanish(k)
         /\ Claims(k) /\ Writing(k)' # {} => Once!Begin(k)
         /\ Releases(k) /\ Writing(k) # {} /\ Writing(k)' = {} => Once!Abort(k)
         /\ \A r \in Pub : Completes(k, r) /\ (k \in Pub => r = k) /\ Writing(k) # {} /\ Writing(k)' = {}
                => Once!Settle(k)
<1> DEFINE St == [j \in Keys |-> IF Open(j) THEN "open"
                                 ELSE IF ledger[j].status = "in_progress" THEN "held" ELSE "settled"]
           Wr == [j \in Keys |-> Cardinality(Writing(j))]
           An == [j \in Keys |-> IF j \in Pub /\ ledger[j].status = "completed" THEN {j} ELSE Given(j)]
<1>1. \A j \in Keys : Counted(j) /\ Counted(j)'
  BY KeysCounted, KeysCountedNext DEF AllCounted
<1>2. \A j \in Keys \ {k} : St'[j] = St[j] /\ Wr'[j] = Wr[j] /\ An'[j] = An[j]
  <2> SUFFICES ASSUME NEW j \in Keys \ {k}
               PROVE  St'[j] = St[j] /\ Wr'[j] = Wr[j] /\ An'[j] = An[j]
    OBVIOUS
  <2>1. ledger'[j] = ledger[j] /\ (Writing(j)' = {} <=> Writing(j) = {})
    BY DEF OthersKept
  <2>2. St'[j] = St[j]
    BY <2>1 DEF Open
  <2>3. Wr'[j] = Wr[j]
    BY <1>1, <2>1 DEF Counted
  <2>4. An[j] = MappedAnswers(j) /\ An'[j] = MappedAnswers(j)'
    BY DEF MappedAnswers
  <2>5. An'[j] = An[j]
    BY <1>1, <2>1, <2>4 DEF Counted
  <2> QED BY <2>2, <2>3, <2>5
<1>3. ledger'[k] = ledger[k] => St'[k] = St[k] /\ An'[k] = An[k]
  BY <1>1 DEF Counted, MappedAnswers, Open
<1>4. Writing(k) = {} => Wr[k] = 0  BY <1>1 DEF Counted
<1>5. Writing(k) # {} => Wr[k] = 1 /\ St[k] = "held"  BY <1>1 DEF Counted, Open
<1>6. Writing(k)' = {} => Wr'[k] = 0  BY <1>1 DEF Counted
<1>7. Writing(k)' # {} => Wr'[k] = 1 /\ St'[k] = "held"  BY <1>1 DEF Counted, Open
<1>8. Claims(k) => St[k] = "open" /\ An[k] = {} /\ (Writing(k)' # {} => An'[k] = {})
  BY <1>1, KeyAfter DEF Claims, Open, Counted, MappedAnswers, KeyInv
<1>9. Releases(k) => St'[k] = "open" /\ An[k] = {} /\ An'[k] = {}
  BY <1>1, KeyAfter DEF Releases, Open, Counted, MappedAnswers, KeyInv
<1>10. ASSUME NEW r \in Pub, Completes(k, r), k \in Pub => r = k
       PROVE  St'[k] = "settled" /\ An'[k] = {r}
  <2>1. ledger'[k].status = "completed" /\ ledger'[k].result = r
    BY <1>10, KeyAfter DEF KeyInv
  <2>2. St'[k] = "settled"
    BY <2>1 DEF Open
  <2>3. An'[k] = MappedAnswers(k)'
    BY DEF MappedAnswers
  <2>4. MappedAnswers(k)' = {r}
    BY <1>1, <1>10, <2>1 DEF Counted
  <2> QED BY <2>2, <2>3, <2>4
<1>e. /\ St = [j \in Keys |-> St[j]] /\ St' = [j \in Keys |-> St'[j]]
      /\ Wr = [j \in Keys |-> Wr[j]] /\ Wr' = [j \in Keys |-> Wr'[j]]
      /\ An = [j \in Keys |-> An[j]] /\ An' = [j \in Keys |-> An'[j]]
  OBVIOUS
<1>11. /\ St' = [St EXCEPT ![k] = St'[k]]
       /\ Wr' = [Wr EXCEPT ![k] = Wr'[k]]
       /\ An' = [An EXCEPT ![k] = An'[k]]
  <2> HIDE DEF St, Wr, An
  <2>1. St' = [St EXCEPT ![k] = St'[k]]
    BY <1>2, <1>e, ChangedAt
  <2>2. Wr' = [Wr EXCEPT ![k] = Wr'[k]]
    BY <1>2, <1>e, ChangedAt
  <2>3. An' = [An EXCEPT ![k] = An'[k]]
    BY <1>2, <1>e, ChangedAt
  <2> QED BY <2>1, <2>2, <2>3
<1>12. St' = St /\ Wr' = Wr /\ An' = An => UNCHANGED Once!onceVars
  BY DEF Once!onceVars
<1>13. St[k] = "held" /\ Wr[k] = 1 /\ Wr' = [Wr EXCEPT ![k] = 0] /\ St' = St /\ An' = An => Once!Vanish(k)
  BY DEF Once!Vanish
<1>14. /\ St[k] = "open" /\ St' = [St EXCEPT ![k] = "held"] /\ Wr' = [Wr EXCEPT ![k] = 1] /\ An' = An
       => Once!Begin(k)
  BY DEF Once!Begin
<1>15. /\ St[k] = "held" /\ Wr[k] = 1
       /\ St' = [St EXCEPT ![k] = "open"] /\ Wr' = [Wr EXCEPT ![k] = 0] /\ An' = An
       => Once!Abort(k)
  BY DEF Once!Abort
<1>16. ASSUME NEW r \in Pub, St[k] = "held", Wr[k] = 1,
              St' = [St EXCEPT ![k] = "settled"], Wr' = [Wr EXCEPT ![k] = 0], An' = [An EXCEPT ![k] = {r}]
       PROVE  Once!Settle(k)
  BY <1>16 DEF Once!Settle
<1>17. [An EXCEPT ![k] = An[k]] = An
  OBVIOUS
<1>18. [St EXCEPT ![k] = St[k]] = St /\ [Wr EXCEPT ![k] = Wr[k]] = Wr
  OBVIOUS
<1> HIDE DEF St, Wr, An
<1>19. ASSUME ledger'[k] = ledger[k]
       PROVE  /\ (Writing(k)' = {} <=> Writing(k) = {}) => UNCHANGED Once!onceVars
              /\ Writing(k) # {} /\ Writing(k)' = {} => Once!Vanish(k)
  <2>1. St' = St /\ An' = An BY <1>3, <1>11, <1>17, <1>18, <1>19
  <2>2. (Writing(k)' = {} <=> Writing(k) = {}) => Wr' = Wr
    BY <1>4, <1>5, <1>6, <1>7, <1>11, <1>18
  <2>3. Writing(k) # {} /\ Writing(k)' = {} => Once!Vanish(k)
    BY <1>5, <1>6, <1>11, <1>13, <2>1
  <2> QED BY <1>12, <2>1, <2>2, <2>3
<1>20. Claims(k) /\ Writing(k)' # {} => Once!Begin(k)
  BY <1>7, <1>8, <1>11, <1>14, <1>17
<1>21. Releases(k) /\ Writing(k) # {} /\ Writing(k)' = {} => Once!Abort(k)
  BY <1>5, <1>6, <1>9, <1>11, <1>15, <1>17
<1>22. ASSUME NEW r \in Pub, Completes(k, r), k \in Pub => r = k, Writing(k) # {}, Writing(k)' = {}
       PROVE  Once!Settle(k)
  BY <1>5, <1>6, <1>10, <1>11, <1>16, <1>22
<1> QED BY <1>19, <1>20, <1>21, <1>22

LEMMA KeysStutter ==
  ASSUME KeyInv, KeyInv',
         \A j \in Keys : ledger'[j] = ledger[j] /\ (Writing(j)' = {} <=> Writing(j) = {})
  PROVE  UNCHANGED Once!onceVars
<1>1. CASE Keys = {}
  BY <1>1 DEF Once!onceVars
<1>2. CASE Keys # {}
  <2>1. PICK k \in Keys : TRUE BY <1>2
  <2>2. OthersKept(k) BY DEF OthersKept
  <2> QED BY <2>1, <2>2, KeyRefines
<1> QED BY <1>1, <1>2

\* A step of a request is a step of its key.
LEMMA RequestRefines ==
  ASSUME KeyInv, KeyInv', NEW c \in Client, RequestStep(c)
  PROVE  [Once!OnceNext]_(Once!onceVars)
<1>0. PICK k \in HeaderKey \cup {None} : k = client[c].key
  BY DEF KeyInv, TInv, TypeOK, RequestState
<1>1. /\ k \in HeaderKey \cup {None}
      /\ \A d \in Client : d # c => client'[d] = client[d]
      /\ exec' = exec
  BY <1>0 DEF RequestStep, KeyInv, TInv, TypeOK, RequestState
<1>2. \A j \in Keys : WritersOf(j) /\ WritersOf(j)'
  BY KnownWriters, KnownWritersNext DEF KeyInv, WritersKnown
<1>3. RequestWrites(c)' /\ client'[c].key # None => client'[c].key = k
  BY <1>0 DEF RequestStep, RequestPasses, RequestClaims, RequestEnds
<1>4. \A j \in Keys : j # k => Writing(j)' = Writing(j)
  <2>1. \A j \in Pub : Writing(j)' = Writing(j)
    BY <1>1, <1>2, KeysApart DEF WritersOf, ExecutionWrites
  <2>2. ASSUME NEW j \in HeaderKey, j # k PROVE Writing(j)' = Writing(j)
    <3>1. j # None /\ j \in Keys BY KeysApart
    <3>2. \A d \in Client : /\ client'[d].key = j /\ RequestWrites(d)'
                            <=> client[d].key = j /\ RequestWrites(d)
      BY <1>0, <1>1, <1>3, <2>2, <3>1 DEF RequestWrites
    <3> QED BY <1>2, <2>2, <3>1, <3>2 DEF WritersOf
  <2> QED BY <2>1, <2>2, PublicationAssumption
<1>5. \A j \in Keys : j # k => ledger'[j] = ledger[j]
  BY <1>0, <1>1, KeyAfter, KeysApart DEF RequestStep, RequestPasses, RequestClaims, RequestEnds, KeyInv
<1>6. CASE k = None
  <2>1. \A j \in Keys : j # k BY <1>6, KeysApart
  <2> QED BY <1>4, <1>5, <2>1, KeysStutter
<1>7. CASE k \in HeaderKey
  <2>1. k \in Keys /\ k \notin Pub /\ k # None BY <1>7, KeysApart
  <2>2. OthersKept(k) BY <1>4, <1>5 DEF OthersKept
  <2>3. /\ Writing(k) = {d \in Client : client[d].key = k /\ RequestWrites(d)}
        /\ Writing(k)' = {d \in Client : client'[d].key = k /\ RequestWrites(d)'}
    BY <1>2, <1>7, <2>1 DEF WritersOf
  <2>4. CASE RequestPasses(c)
    <3>1. ledger' = ledger BY <1>0, <2>4 DEF RequestPasses
    <3>2. Writing(k)' \subseteq Writing(k)
      BY <1>0, <1>1, <2>1, <2>3, <2>4 DEF RequestPasses, RequestWrites
    <3>3. \/ (Writing(k)' = {} <=> Writing(k) = {})
          \/ Writing(k) # {} /\ Writing(k)' = {}
      BY <3>2
    <3>4. UNCHANGED Once!onceVars \/ Once!Vanish(k)
      BY <2>1, <2>2, <3>1, <3>3, KeyRefines
    <3> QED BY <2>1, <3>4 DEF Once!OnceNext
  <2>5. CASE RequestClaims(c)
    <3>1. c \in Writing(k)' BY <1>0, <2>3, <2>5 DEF RequestClaims
    <3>2. Once!Begin(k) BY <1>0, <2>1, <2>2, <2>5, <3>1, KeyRefines DEF RequestClaims
    <3> QED BY <2>1, <3>2 DEF Once!OnceNext
  <2>6. CASE RequestEnds(c)
    <3>1. Writing(k) # {} BY <1>0, <2>3, <2>6 DEF RequestEnds
    <3>2. Writing(k)' = {}
      <4>1. \A d \in Client : d # c => ~(client[d].key = k /\ RequestWrites(d))
        BY <1>0, <2>1, <2>6 DEF RequestEnds, KeyInv, OneRequest
      <4>2. \A d \in Client : ~(client'[d].key = k /\ RequestWrites(d)')
        BY <1>0, <1>1, <2>6, <4>1 DEF RequestEnds, RequestWrites
      <4> QED BY <2>3, <4>2
    <3>3. Once!Abort(k) \/ Once!Settle(k)
      BY <1>0, <2>1, <2>2, <2>6, <3>1, <3>2, KeyRefines DEF RequestEnds
    <3> QED BY <2>1, <3>3 DEF Once!OnceNext
  <2> QED BY <1>0, <2>4, <2>5, <2>6 DEF RequestStep
<1> QED BY <1>1, <1>6, <1>7

\* A step of an execution is a step of its publication's key.
LEMMA ExecutionRefines ==
  ASSUME KeyInv, KeyInv', NEW e \in Executor, ExecutionStep(e)
  PROVE  [Once!OnceNext]_(Once!onceVars)
<1>0. PICK k \in Pub \cup {None} : k = exec[e].pub
  BY DEF KeyInv, TInv, TypeOK, ExecutionState
<1>1. /\ ExecutionWrites(e) => k \in Pub
      /\ \A f \in Executor : f # e => exec'[f] = exec[f]
      /\ client' = client
      /\ exec'[e] \in ExecutionState /\ (ExecutionWrites(e)' => exec'[e].pub \in Pub)
  BY <1>0 DEF ExecutionStep, KeyInv, TInv, TypeOK, ExecutionHasPub, ExecutionWrites
<1>2. \A j \in Keys : WritersOf(j) /\ WritersOf(j)'
  BY KnownWriters, KnownWritersNext DEF KeyInv, WritersKnown
<1>3. ExecutionWrites(e)' => exec'[e].pub = k
  BY <1>0 DEF ExecutionStep, ExecutionPasses, ExecutionClaims, ExecutionEnds
<1>4. \A j \in Keys : j # k => Writing(j)' = Writing(j)
  <2>1. \A j \in HeaderKey : Writing(j)' = Writing(j)
    BY <1>1, <1>2, KeysApart DEF WritersOf, RequestWrites
  <2>2. ASSUME NEW j \in Pub, j # k PROVE Writing(j)' = Writing(j)
    <3>1. \A f \in Executor : /\ exec'[f].pub = j /\ ExecutionWrites(f)'
                              <=> exec[f].pub = j /\ ExecutionWrites(f)
      BY <1>0, <1>1, <1>3, <2>2 DEF ExecutionWrites
    <3>2. /\ Writing(j) = {f \in Executor : exec[f].pub = j /\ ExecutionWrites(f)}
          /\ Writing(j)' = {f \in Executor : exec'[f].pub = j /\ ExecutionWrites(f)'}
      BY <1>2, <2>2, KeysApart DEF WritersOf
    <3> QED BY <3>1, <3>2
  <2> QED BY <2>1, <2>2, PublicationAssumption
<1>5. \A j \in Keys : j # k => ledger'[j] = ledger[j]
  BY <1>0, <1>1, KeyAfter, KeysApart
     DEF ExecutionStep, ExecutionPasses, ExecutionClaims, ExecutionEnds, KeyInv
<1>6. CASE k \notin Pub
  <2>1. ~ExecutionWrites(e) /\ ~ExecutionWrites(e)' /\ ledger' = ledger
    BY <1>0, <1>1, <1>3, <1>6 DEF ExecutionStep, ExecutionPasses, ExecutionClaims, ExecutionEnds
  <2>2. \A j \in Keys : Writing(j)' = Writing(j)
    <3>1. ASSUME NEW j \in Keys, j = k PROVE Writing(j)' = Writing(j)
      <4>1. j \in HeaderKey BY <1>6, <3>1, PublicationAssumption
      <4> QED BY <1>1, <1>2, <4>1 DEF WritersOf, RequestWrites
    <3> QED BY <1>4, <3>1
  <2> QED BY <2>1, <2>2, KeysStutter
<1>7. CASE k \in Pub
  <2>1. k \in Keys BY <1>7, KeysApart
  <2>2. OthersKept(k) BY <1>4, <1>5 DEF OthersKept
  <2>3. /\ Writing(k) = {f \in Executor : exec[f].pub = k /\ ExecutionWrites(f)}
        /\ Writing(k)' = {f \in Executor : exec'[f].pub = k /\ ExecutionWrites(f)'}
    BY <1>2, <1>7, <2>1 DEF WritersOf
  <2>4. CASE ExecutionPasses(e)
    <3>1. ledger' = ledger BY <1>0, <2>4 DEF ExecutionPasses
    <3>2. Writing(k)' \subseteq Writing(k)
      BY <1>0, <1>1, <2>3, <2>4 DEF ExecutionPasses, ExecutionWrites
    <3>3. \/ (Writing(k)' = {} <=> Writing(k) = {})
          \/ Writing(k) # {} /\ Writing(k)' = {}
      BY <3>2
    <3>4. UNCHANGED Once!onceVars \/ Once!Vanish(k)
      BY <2>1, <2>2, <3>1, <3>3, KeyRefines
    <3> QED BY <2>1, <3>4 DEF Once!OnceNext
  <2>5. CASE ExecutionClaims(e)
    <3>1. e \in Writing(k)' BY <1>0, <2>3, <2>5 DEF ExecutionClaims
    <3>2. Once!Begin(k) BY <1>0, <2>1, <2>2, <2>5, <3>1, KeyRefines DEF ExecutionClaims
    <3> QED BY <2>1, <3>2 DEF Once!OnceNext
  <2>6. CASE ExecutionEnds(e)
    <3>1. Writing(k) # {} BY <1>0, <2>3, <2>6 DEF ExecutionEnds
    <3>2. Writing(k)' = {}
      <4>1. \A f \in Executor : f # e => ~(exec[f].pub = k /\ ExecutionWrites(f))
        BY <1>0, <2>6 DEF ExecutionEnds, KeyInv, OneExecution
      <4>2. \A f \in Executor : ~(exec'[f].pub = k /\ ExecutionWrites(f)')
        BY <1>0, <1>1, <2>6, <4>1 DEF ExecutionEnds, ExecutionWrites
      <4> QED BY <2>3, <4>2
    <3>3. Once!Abort(k) \/ Once!Settle(k)
      BY <1>0, <1>7, <2>1, <2>2, <2>6, <3>1, <3>2, KeyRefines DEF ExecutionEnds
    <3> QED BY <2>1, <3>3 DEF Once!OnceNext
  <2> QED BY <1>0, <2>4, <2>5, <2>6 DEF ExecutionStep
<1> QED BY <1>6, <1>7

\* The client's key and the publication's own key are both keys in the sense of
\* WriteOnce: one writer at a time, no write after one succeeded, one answer for
\* every caller: KeepsThePromise (claim_idempotency_key, idempotent_write).
THEOREM KeepsPromise == Spec => KeepsThePromise
<1>1. Init => Once!OnceInit
  <2> SUFFICES ASSUME Init PROVE Once!OnceInit
    OBVIOUS
  <2>2. KeyInv BY InitKeys
  <2>3. \A k \in Keys : ledger[k].status = "absent" BY DEF Init, LedgerInit, NoRow
  <2>4. \A k \in Keys : Open(k) /\ Writing(k) = {} /\ MappedAnswers(k) = {} /\ Cardinality(Writing(k)) = 0
    BY <2>2, <2>3, KeysCounted DEF AllCounted, Counted, Open
  <2> QED BY <2>4 DEF Once!OnceInit, MappedAnswers
<1>2. ASSUME KeyInv, KeyInv', [Next]_vars
      PROVE  [Once!OnceNext]_(Once!onceVars)
  <2>1. CASE UNCHANGED vars
    <3>1. UNCHANGED <<ledger, client, exec>> BY <2>1 DEF vars
    <3>2. \A j \in Keys : Writing(j)' = Writing(j) BY <3>1 DEF Writing
    <3> QED BY <1>2, <3>1, <3>2, KeysStutter
  <2>2. ASSUME NEW c \in Client, Request(c) PROVE [Once!OnceNext]_(Once!onceVars)
    BY <1>2, <2>2, RequestSteps, RequestRefines
  <2>3. ASSUME NEW e \in Executor, Execution(e) \/ WorkerVanishes(e) \/ DeliveredAgain(e)
        PROVE  [Once!OnceNext]_(Once!onceVars)
    BY <1>2, <2>3, ExecutionSteps, ExecutionRefines
  <2> QED BY <1>2, <2>1, <2>2, <2>3 DEF Next
<1> QED BY <1>1, <1>2, AlwaysKeys, PTL DEF Spec, KeepsThePromise, Once!OnceSpec

-----------------------------------------------------------------------------
(* What the platform has. *)

\* The platform does not have p and no row says so, unless p was disowned.
Clean(p) == p \in disowned \/ (posts[p] = 0 /\ pubs[p].status \notin Posted)

\* Before the call there is no post; after it, what was accepted is remembered
\* until it is booked or disowned.
CallsClean(e) ==
    /\ exec[e].pc \in {"mark", "call", "rest", "unwind"} => Clean(exec[e].pub)
    /\ exec[e].pc = "except" => exec[e].accepted \/ Clean(exec[e].pub)
    /\ exec[e].pc \in {"book", "content", "calendar"} => exec[e].accepted
    /\ exec[e].pc = "book" => exec[e].pub \in disowned \/ pubs[exec[e].pub].status \notin Posted

\* A key that can be claimed has no post under it.
OpenIsClean(p) == Open(p) => Clean(p)

PostInv ==
    /\ KeyInv
    /\ \A e \in Executor : CallsClean(e)
    /\ \A p \in Pub : OpenIsClean(p)
    /\ PostedOnce

LEMMA InitPosts == Init => PostInv
<1>1. ASSUME Init PROVE PostInv
  <2>1. /\ \A e \in Executor : exec[e].pc = "idle"
        /\ \A p \in Pub : posts[p] = 0 /\ pubs[p].status = "none"
    BY <1>1 DEF Init, NoPublication
  <2> QED BY <1>1, <2>1, InitKeys DEF PostInv, CallsClean, OpenIsClean, Clean, Posted, PostedOnce
<1> QED BY <1>1

\* A request touches no publication's own key.
LEMMA RequestSparesPubs ==
  ASSUME KeyInv, NEW c \in Client, Request(c)
  PROVE  \A p \in Pub : ledger'[p] = ledger[p]
<1>1. RequestStep(c) BY RequestSteps
<1>2. client[c].key \in HeaderKey \cup {None}
  BY DEF KeyInv, TInv, TypeOK, RequestState
<1> QED BY <1>1, <1>2, KeyAfter, KeysApart
        DEF RequestStep, RequestPasses, RequestClaims, RequestEnds, KeyInv

\* A request posts nothing and books nothing as posted.
LEMMA RequestPosts ==
  ASSUME PostInv, KeyInv', NEW c \in Client, Request(c)
  PROVE  PostInv'
<1>1. UNCHANGED <<posts, exec, disowned>>
  BY DEF Request, Post, ClaimRequest, CreatePublication, EnqueueJob, UndoPublication, ReleaseRequest,
         CompleteRequest, ApiCrash, history
<1>2. \A p \in Pub : pubs'[p].status \in Posted => pubs[p].status \in Posted
  <2>1. pubs \in [Pub -> PubRow] BY DEF PostInv, KeyInv, TInv, TypeOK
  <2>2. \/ UNCHANGED pubs
        \/ \E q \in Pub : \E r :
              pubs' = [pubs EXCEPT ![q] = [status |-> "queued", key |-> r, timing |-> client[c].timing]]
        \/ SetStatus(client[c].pub, "failed")
    BY DEF Request, Post, ClaimRequest, CreatePublication, EnqueueJob, UndoPublication,
           ReleaseRequest, CompleteRequest, ApiCrash, tables
  <2>3. CASE UNCHANGED pubs BY <2>3
  <2>4. ASSUME NEW q \in Pub, NEW r,
               pubs' = [pubs EXCEPT ![q] = [status |-> "queued", key |-> r, timing |-> client[c].timing]]
        PROVE  \A p \in Pub : pubs'[p].status \in Posted => pubs[p].status \in Posted
    BY <2>1, <2>4 DEF Posted
  <2>5. CASE SetStatus(client[c].pub, "failed")
    BY <2>1, <2>5 DEF SetStatus, Posted, PubRow
  <2> QED BY <2>2, <2>3, <2>4, <2>5
<1>3. \A p \in Pub : ledger'[p] = ledger[p]
  BY RequestSparesPubs DEF PostInv
<1>4. \A p \in Pub : Clean(p) => Clean(p)'
  BY <1>1, <1>2 DEF Clean
<1>5. \A p \in Pub : OpenIsClean(p)'
  BY <1>3, <1>4 DEF PostInv, OpenIsClean, Open
<1>6. \A e \in Executor : CallsClean(e)'
  <2>1. \A e \in Executor : exec[e].pc # "idle" => exec[e].pub \in Pub
    BY DEF PostInv, KeyInv, TInv, ExecutionHasPub
  <2> QED BY <1>1, <1>2, <1>4, <2>1 DEF PostInv, CallsClean
<1> QED BY <1>1, <1>5, <1>6 DEF PostInv, PostedOnce

\* What is left to show of an execution's step on its publication p.
LEMMA ExecutionPosts ==
  ASSUME PostInv, KeyInv', NEW e \in Executor, NEW p \in Pub, exec[e].pub = p,
         \A f \in Executor \ {e} : exec'[f] = exec[f],
         \A q \in Pub \ {p} : posts'[q] = posts[q] /\ pubs'[q] = pubs[q] /\ ledger'[q] = ledger[q],
         disowned \subseteq disowned',
         ExecutionWrites(e) \/ UNCHANGED <<posts, pubs>>,
         CallsClean(e)', OpenIsClean(p)', posts'[p] > 1 => p \in disowned'
  PROVE  PostInv'
<1>1. \A q \in Pub \ {p} : Clean(q) => Clean(q)'
  BY DEF Clean
<1>2. \A q \in Pub \ {p} : OpenIsClean(q)'
  BY <1>1 DEF PostInv, OpenIsClean, Open
<1>3. PostedOnce'
  BY DEF PostInv, PostedOnce
<1>4. ASSUME NEW f \in Executor \ {e} PROVE CallsClean(f)'
  <2>1. CallsClean(f) BY DEF PostInv
  <2>2. CASE ~ExecutionWrites(f)
    BY <2>2 DEF ExecutionWrites, CallsClean
  <2>3. CASE ExecutionWrites(f) /\ exec[f].pub # p
    <3>1. exec[f].pub \in Pub \ {p}
      BY <2>3 DEF PostInv, KeyInv, TInv, ExecutionHasPub, ExecutionWrites
    <3> QED BY <1>1, <2>1, <3>1 DEF CallsClean
  <2>4. CASE ExecutionWrites(f) /\ exec[f].pub = p
    <3>1. ~ExecutionWrites(e) BY <2>4 DEF PostInv, KeyInv, OneExecution
    <3>2. UNCHANGED <<posts, pubs>> BY <3>1
    <3> QED BY <2>1, <2>4, <3>2 DEF CallsClean, Clean
  <2> QED BY <2>2, <2>3, <2>4
<1> QED BY <1>2, <1>3, <1>4 DEF PostInv

LEMMA ExecutionKeepsPosts ==
  ASSUME PostInv, KeyInv', NEW e \in Executor, Execution(e) \/ WorkerVanishes(e) \/ DeliveredAgain(e)
  PROVE  PostInv'
<1>1. /\ exec \in [Executor -> ExecutionState] /\ exec[e] \in ExecutionState /\ ExecutionHasPub(e)
      /\ pubs \in [Pub -> PubRow] /\ posts \in [Pub -> Nat] /\ CallsClean(e)
      /\ ledger \in [Keys -> Records] /\ Pub \subseteq Keys
  BY KeysApart DEF PostInv, KeyInv, TInv, TypeOK
<1>2. ExecutionStep(e)
  BY ExecutionSteps DEF PostInv
<1>3. \A f \in Executor \ {e} : exec'[f] = exec[f]
  BY <1>1, <1>2 DEF ExecutionStep
<1>4. \A p \in Pub : Open(p) => Clean(p)
  BY DEF PostInv, OpenIsClean
<1>5. CASE StartJob(e)
  <2>1. UNCHANGED <<ledger, posts, pubs, disowned>> BY <1>5 DEF StartJob, tables, history
  <2>2. exec[e].pc = "idle" /\ exec'[e].pc \in {"idle", "claim"}
    BY <1>1, <1>5 DEF StartJob, Running, Idle
  <2>3. \A p \in Pub : OpenIsClean(p)' BY <1>4, <2>1 DEF OpenIsClean, Open, Clean
  <2>4. \A f \in Executor : CallsClean(f)'
    BY <1>3, <2>1, <2>2 DEF PostInv, CallsClean, Clean
  <2> QED BY <2>1, <2>3, <2>4 DEF PostInv, PostedOnce
<1>6. ASSUME NEW p \in Pub, exec[e].pub = p, exec[e].pc # "idle"
      PROVE  PostInv'
  <2>1. PostedOnce BY DEF PostInv
  <2>2. CASE ClaimExecution(e)
    <3>1. UNCHANGED <<posts, pubs, disowned>> BY <2>2 DEF ClaimExecution, tables, history
    <3>2. \A q \in Pub \ {p} : ledger'[q] = ledger[q]
      BY <1>1, <1>6, <2>2 DEF ClaimExecution, Claim
    <3>3. (exec'[e].pc = "mark" /\ exec'[e].pub = p /\ Open(p)) \/ ~ExecutionWrites(e)'
      BY <1>1, <1>6, <2>2 DEF ClaimExecution, ClaimOutcome, ExecutionWrites, Idle, ExecutionState
    <3>4. CallsClean(e)'
      BY <1>4, <3>1, <3>3 DEF CallsClean, Clean, ExecutionWrites
    <3>5. Open(p)' => Open(p)
      BY <1>1, <1>6, <2>2 DEF ClaimExecution, Claim, Open, ClaimOutcome
    <3>6. OpenIsClean(p)' BY <1>4, <3>1, <3>5 DEF OpenIsClean, Clean
    <3> QED BY <1>3, <1>6, <2>1, <3>1, <3>2, <3>4, <3>6, ExecutionPosts DEF PostedOnce
  <2>3. CASE EndJob(e) \/ WorkerVanishes(e) \/ DeliveredAgain(e)
    <3>1. UNCHANGED <<ledger, posts, pubs, disowned>>
      BY <2>3 DEF EndJob, WorkerVanishes, DeliveredAgain, tables, history
    <3>2. exec'[e] = exec[e] \/ exec'[e].pc = "idle"
      BY <1>1, <2>3 DEF EndJob, WorkerVanishes, DeliveredAgain, Idle
    <3>3. CallsClean(e)' BY <1>1, <3>1, <3>2 DEF CallsClean, Clean
    <3>4. OpenIsClean(p)' BY <1>4, <3>1 DEF OpenIsClean, Open, Clean
    <3> QED BY <1>3, <1>6, <2>1, <3>1, <3>3, <3>4, ExecutionPosts DEF PostedOnce
  <2>4. ASSUME ExecutionWrites(e) PROVE ledger[p].status = "in_progress" /\ ~Open(p)
    BY <1>6, <2>4 DEF PostInv, KeyInv, OneExecution, Open
  <2>5. CASE MarkRunning(e)
    <3>1. /\ exec[e].pc = "mark" /\ UNCHANGED <<ledger, posts, disowned>>
          /\ SetStatus(p, "running") \/ UNCHANGED pubs
      BY <1>6, <2>5 DEF MarkRunning, Running, history
    <3>2. exec'[e].pub = p /\ exec'[e].pc \in {"call", "unwind"}
      BY <1>1, <1>6, <2>5 DEF MarkRunning, Goes, Raises, ExecutionState
    <3>3. ExecutionWrites(e) /\ Clean(p) BY <1>1, <1>6, <3>1 DEF CallsClean, ExecutionWrites
    <3>4. /\ \A q \in Pub \ {p} : pubs'[q] = pubs[q]
          /\ pubs'[p].status = "running" \/ pubs'[p] = pubs[p]
      BY <1>1, <3>1 DEF SetStatus, PubRow
    <3>5. Clean(p)' BY <3>1, <3>3, <3>4 DEF Clean, Posted
    <3>6. CallsClean(e)' BY <3>2, <3>5 DEF CallsClean
    <3>7. OpenIsClean(p)' BY <3>5 DEF OpenIsClean
    <3> QED BY <1>3, <1>6, <2>1, <3>1, <3>3, <3>4, <3>6, <3>7, ExecutionPosts DEF PostedOnce
  <2>6. CASE CallTool(e) \/ CallRest(e)
    <3>1. exec[e].pc \in {"call", "rest"} /\ UNCHANGED <<ledger, pubs, disowned>>
      BY <2>6 DEF CallTool, CallRest, Running, tables, history
    <3>2. ExecutionWrites(e) /\ Clean(p) BY <1>1, <1>6, <3>1 DEF CallsClean, ExecutionWrites
    <3>3. OpenIsClean(p)' BY <2>4, <3>1, <3>2 DEF OpenIsClean, Open
    <3>4. \/ Goes(e, "rest") /\ UNCHANGED posts
          \/ \E accepted \in BOOLEAN, verdict \in Verdict :
                Called(e, accepted, verdict) /\ (verdict = "ok" => accepted)
      BY <2>6 DEF CallTool, CallRest, Verdict
    <3>5. CASE Goes(e, "rest") /\ UNCHANGED posts
      <4>1. exec'[e].pc = "rest" /\ exec'[e].pub = p
        BY <1>1, <1>6, <3>5 DEF Goes, ExecutionState
      <4>2. CallsClean(e)' BY <3>1, <3>2, <3>5, <4>1 DEF CallsClean, Clean
      <4> QED BY <1>3, <1>6, <2>1, <3>1, <3>2, <3>3, <3>5, <4>2, ExecutionPosts DEF PostedOnce
    <3>6. ASSUME NEW accepted \in BOOLEAN, NEW verdict \in Verdict,
                 Called(e, accepted, verdict), verdict = "ok" => accepted
          PROVE  PostInv'
      <4>1. PICK r \in {None, "transient", "permanent"} :
              exec' = [exec EXCEPT ![e].accepted = accepted, ![e].error = r,
                                   ![e].pc = IF verdict = "ok" THEN "book" ELSE "except"]
        BY <3>6 DEF Called
      <4>2. PICK label \in {"book", "except"} :
              /\ exec' = [exec EXCEPT ![e].accepted = accepted, ![e].error = r, ![e].pc = label]
              /\ label = "book" => accepted
        BY <3>6, <4>1
      <4>3. exec'[e].pc = label /\ exec'[e].pub = p /\ exec'[e].accepted = accepted
        BY <1>1, <1>6, <4>2 DEF ExecutionState
      <4>4. /\ \A q \in Pub \ {p} : posts'[q] = posts[q]
            /\ posts'[p] = IF accepted THEN posts[p] + 1 ELSE posts[p]
        BY <1>1, <1>6, <3>6 DEF Called
      <4>5. CallsClean(e)'
        BY <3>1, <3>2, <4>2, <4>3, <4>4 DEF CallsClean, Clean
      <4>6. posts'[p] > 1 => p \in disowned'
        BY <1>1, <2>1, <3>1, <3>2, <4>4 DEF Clean, PostedOnce
      <4> QED BY <1>3, <1>6, <3>1, <3>2, <3>3, <4>4, <4>5, <4>6, ExecutionPosts
    <3> QED BY <3>4, <3>5, <3>6
  <2>7. CASE BookPublication(e) \/ BookContent(e) \/ BookCalendar(e)
    <3>1. /\ exec[e].pc \in {"book", "content", "calendar"} /\ UNCHANGED <<ledger, posts, disowned>>
          /\ SetStatus(p, FinalStatus(p)) \/ UNCHANGED pubs
      BY <1>6, <2>7 DEF BookPublication, BookContent, BookCalendar, Running, history, tables
    <3>2. ExecutionWrites(e) /\ exec[e].accepted BY <1>1, <3>1 DEF CallsClean, ExecutionWrites
    <3>3. OpenIsClean(p)' BY <2>4, <3>1, <3>2 DEF OpenIsClean, Open
    <3>4. \/ \E label \in {"content", "calendar", "settle"} : Goes(e, label)
          \/ \E r : Raises(e, r, "except")
      BY <2>7 DEF BookPublication, BookContent, BookCalendar, BookFails
    <3>5. exec'[e].pc \in {"content", "calendar", "settle", "except"} /\ exec'[e].accepted
      <4>1. ASSUME NEW label \in {"content", "calendar", "settle"}, Goes(e, label)
            PROVE  exec'[e].pc = label /\ exec'[e].accepted
        BY <1>1, <3>2, <4>1 DEF Goes, ExecutionState
      <4>2. ASSUME NEW r, Raises(e, r, "except")
            PROVE  exec'[e].pc = "except" /\ exec'[e].accepted
        BY <1>1, <3>2, <4>2 DEF Raises, ExecutionState
      <4> QED BY <3>4, <4>1, <4>2
    <3>6. CallsClean(e)' BY <3>5 DEF CallsClean
    <3>7. \A q \in Pub \ {p} : pubs'[q] = pubs[q] BY <1>1, <3>1 DEF SetStatus
    <3> QED BY <1>3, <1>6, <2>1, <3>1, <3>2, <3>3, <3>6, <3>7, ExecutionPosts DEF PostedOnce
  <2>8. CASE BookFailure(e)
    <3>1. /\ exec[e].pc = "except" /\ UNCHANGED <<ledger, posts>>
          /\ SetStatus(p, "failed") \/ UNCHANGED pubs
          /\ disowned' = IF exec[e].accepted THEN disowned \cup {p} ELSE disowned
          /\ exec' = [exec EXCEPT ![e].pc = "unwind"]
      BY <1>6, <2>8 DEF BookFailure, Running, Goes
    <3>2. exec'[e].pc = "unwind" /\ exec'[e].pub = p
      BY <1>1, <1>6, <3>1 DEF ExecutionState
    <3>3. /\ \A q \in Pub \ {p} : pubs'[q] = pubs[q]
          /\ pubs'[p].status = "failed" \/ pubs'[p] = pubs[p]
      BY <1>1, <3>1 DEF SetStatus, PubRow
    <3>4. Clean(p)'
      <4>1. CASE exec[e].accepted BY <3>1, <4>1 DEF Clean
      <4>2. CASE ~exec[e].accepted
        <5>1. Clean(p) BY <1>1, <1>6, <3>1, <4>2 DEF CallsClean
        <5> QED BY <3>1, <3>3, <4>2, <5>1 DEF Clean, Posted
      <4> QED BY <4>1, <4>2
    <3>5. CallsClean(e)' BY <3>2, <3>4 DEF CallsClean
    <3>6. OpenIsClean(p)' BY <3>4 DEF OpenIsClean
    <3>7. ExecutionWrites(e) /\ disowned \subseteq disowned' BY <3>1 DEF ExecutionWrites
    <3>8. posts'[p] > 1 => p \in disowned' BY <2>1, <3>1, <3>7 DEF PostedOnce
    <3> QED BY <1>3, <1>6, <3>1, <3>3, <3>5, <3>6, <3>7, <3>8, ExecutionPosts
  <2>9. CASE ReleaseExecution(e) \/ SettleExecution(e)
    <3>1. exec[e].pc \in {"unwind", "settle"} /\ UNCHANGED <<posts, pubs, disowned>>
      BY <2>9 DEF ReleaseExecution, SettleExecution, Running, tables, history
    <3>2. ExecutionWrites(e) BY <3>1 DEF ExecutionWrites
    <3>3. exec'[e].pc \in {"idle", "job_error"}
      BY <1>1, <2>9 DEF ReleaseExecution, SettleExecution, Goes, Raises, Idle, ExecutionState
    <3>4. CallsClean(e)' BY <3>3 DEF CallsClean
    <3>5. \A q \in Pub \ {p} : ledger'[q] = ledger[q]
      BY <1>1, <1>6, <2>9 DEF ReleaseExecution, SettleExecution, FailKey, CompleteKey, Finish
    <3>6. OpenIsClean(p)'
      <4>1. CASE ReleaseExecution(e)
        <5>1. Clean(p) BY <1>1, <1>6, <4>1 DEF ReleaseExecution, Running, CallsClean
        <5> QED BY <3>1, <5>1 DEF OpenIsClean, Clean
      <4>2. CASE SettleExecution(e)
        <5>1. UNCHANGED ledger \/ CompleteKey(p, p) BY <1>6, <4>2 DEF SettleExecution
        <5>2. ledger'[p].status \in {"in_progress", "completed"}
          BY <1>1, <2>4, <3>2, <5>1 DEF CompleteKey, Finish, Records, Row
        <5> QED BY <5>2 DEF OpenIsClean, Open
      <4> QED BY <2>9, <4>1, <4>2
    <3> QED BY <1>3, <1>6, <2>1, <3>1, <3>2, <3>4, <3>5, <3>6, ExecutionPosts DEF PostedOnce
  <2> QED BY <1>6, <2>2, <2>3, <2>5, <2>6, <2>7, <2>8, <2>9 DEF Execution, StartJob, Running
<1> QED BY <1>1, <1>5, <1>6 DEF ExecutionHasPub, Execution, WorkerVanishes, DeliveredAgain, Running,
        ClaimExecution, MarkRunning, CallTool, CallRest, BookPublication, BookContent, BookCalendar,
        BookFailure, ReleaseExecution, SettleExecution, EndJob

LEMMA StepKeepsPosts ==
  ASSUME PostInv, [Next]_vars
  PROVE  PostInv'
<1>1. KeyInv' BY StepKeepsKeys DEF PostInv
<1>2. CASE UNCHANGED vars
  <2>1. UNCHANGED <<ledger, pubs, posts, exec, disowned>> BY <1>2 DEF vars, tables, history
  <2> QED BY <1>1, <2>1 DEF PostInv, CallsClean, OpenIsClean, Clean, Open, PostedOnce
<1> QED BY <1>1, <1>2, RequestPosts, ExecutionKeepsPosts DEF Next

\* The platform has a publication at most once, through crashes, retries and
\* duplicate deliveries, unless an accepted post was booked as a failure:
\* PostedOnce (execute_publication).
THEOREM PostsOnce == Spec => []PostedOnce
<1>1. PostInv => PostedOnce BY DEF PostInv
<1> QED BY <1>1, InitPosts, StepKeepsPosts, PTL DEF Spec

-----------------------------------------------------------------------------
(* Rows and their jobs. *)

\* No job of p is queued or runs, and none has posted it.
Jobless(p) ==
    /\ deliveries[p] = 0 /\ posts[p] = 0
    /\ \A e \in Executor : exec[e].pc # "idle" => exec[e].pub # p

Making(c) == client[c].pc \in {"enqueue", "undo", "complete"}

\* A row not made yet has no job and no request.
NotMade(p) ==
    pubs[p].status = "none"
        => /\ Jobless(p) /\ pubs[p].key = None
           /\ \A c \in Client : Making(c) => client[c].pub # p

\* A request has a publication of its own, under its key, with no job until it
\* queued one.
OwnPublication(c) ==
    Making(c)
        => /\ \A d \in Client \ {c} : Making(d) => client[d].pub # client[c].pub
           /\ pubs[client[c].pub].key = client[c].key
           /\ client[c].pc = "enqueue" \/ (client[c].pc = "undo" /\ client[c].pub \notin misqueued)
                => Jobless(client[c].pub) /\ pubs[client[c].pub].status \notin Posted

\* A key under which a job was queued is not used for another publication.
KeyIsUsed(p) ==
    ~Jobless(p) /\ p \notin misqueued /\ pubs[p].key # None
        => /\ ~Open(pubs[p].key)
           /\ \A c \in Client :
                client[c].key = pubs[p].key => client[c].pc \notin {"create", "enqueue", "undo", "unwind"}

\* Of the publications of a key, at most one has a job that was queued well.
OneJob ==
    \A p, q \in Pub :
        p # q /\ pubs[p].key = pubs[q].key /\ pubs[p].key # None /\ ~Jobless(p) /\ ~Jobless(q)
            => {p, q} \cap misqueued # {}

RowInv ==
    /\ PostInv
    /\ \A p \in Pub : NotMade(p) /\ KeyIsUsed(p)
    /\ \A c \in Client : OwnPublication(c)
    /\ OneJob

LEMMA InitRows == Init => RowInv
<1>1. ASSUME Init PROVE RowInv
  <2>1. /\ \A c \in Client : client[c].pc = "idle"
        /\ \A e \in Executor : exec[e].pc = "idle"
        /\ \A p \in Pub : posts[p] = 0 /\ deliveries[p] = 0 /\ pubs[p].key = None
    BY <1>1 DEF Init, NoPublication, Outside
  <2> QED BY <1>1, <2>1, InitPosts DEF RowInv, NotMade, KeyIsUsed, OwnPublication, OneJob, Jobless, Making
<1> QED BY <1>1

\* An execution leaves a row without a job alone, and the keys of all.
LEMMA ExecutionRows ==
  ASSUME TInv, NEW e \in Executor, Execution(e) \/ WorkerVanishes(e) \/ DeliveredAgain(e),
         NEW p \in Pub
  PROVE  /\ Jobless(p) => Jobless(p)' /\ pubs'[p] = pubs[p]
         /\ pubs'[p].key = pubs[p].key
         /\ pubs'[p].status = "none" => pubs[p].status = "none"
<1>1. /\ exec \in [Executor -> ExecutionState] /\ exec[e] \in ExecutionState /\ ExecutionHasPub(e)
      /\ pubs \in [Pub -> PubRow] /\ posts \in [Pub -> Nat] /\ deliveries \in [Pub -> Nat]
  BY DEF TInv, TypeOK
<1>2. CASE StartJob(e)
  <2>1. PICK q \in Pub :
          /\ deliveries[q] > 0
          /\ deliveries' = [deliveries EXCEPT ![q] = @ - 1]
          /\ exec' = IF pubs[q].status \in Posted THEN exec
                     ELSE [exec EXCEPT ![e] = [Idle EXCEPT !.pc = "claim", !.pub = q]]
    BY <1>2 DEF StartJob
  <2>2. UNCHANGED <<posts, pubs>> BY <1>2 DEF StartJob, tables
  <2>3. Jobless(p) => p # q BY <2>1 DEF Jobless
  <2>4. [Idle EXCEPT !.pc = "claim", !.pub = q].pub = q BY DEF Idle
  <2>5. ASSUME Jobless(p) PROVE Jobless(p)'
    <3>1. deliveries'[p] = deliveries[p] BY <1>1, <2>1, <2>3, <2>5
    <3>2. \A f \in Executor : exec'[f].pc # "idle" => exec'[f].pub # p
      BY <1>1, <2>1, <2>3, <2>4, <2>5 DEF Jobless
    <3> QED BY <2>2, <2>5, <3>1, <3>2 DEF Jobless
  <2> QED BY <2>2, <2>5
<1>3. ASSUME exec[e].pc # "idle",
             \A q \in Pub : q # exec[e].pub =>
                posts'[q] = posts[q] /\ pubs'[q] = pubs[q] /\ deliveries'[q] = deliveries[q],
             exec' = [exec EXCEPT ![e] = exec'[e]],
             exec'[e].pc # "idle" => exec'[e].pub = exec[e].pub
      PROVE  Jobless(p) => Jobless(p)' /\ pubs'[p] = pubs[p]
  <2>1. Jobless(p) => exec[e].pub # p BY <1>3 DEF Jobless
  <2>2. \A f \in Executor : f # e => exec'[f] = exec[f] BY <1>1, <1>3
  <2> QED BY <1>3, <2>1, <2>2 DEF Jobless
<1>4. ASSUME SetStatus(exec[e].pub, "running") \/ SetStatus(exec[e].pub, "failed")
             \/ SetStatus(exec[e].pub, FinalStatus(exec[e].pub)) \/ UNCHANGED pubs
      PROVE  /\ \A q \in Pub : q # exec[e].pub => pubs'[q] = pubs[q]
             /\ pubs'[p].key = pubs[p].key
             /\ pubs'[p].status = "none" => pubs[p].status = "none"
  BY <1>1, <1>4 DEF SetStatus, FinalStatus, PubRow
<1>5. CASE \/ ClaimExecution(e) \/ MarkRunning(e) \/ BookPublication(e) \/ BookContent(e)
           \/ BookCalendar(e) \/ BookFailure(e) \/ ReleaseExecution(e) \/ SettleExecution(e)
  <2>1. exec[e].pc # "idle" /\ UNCHANGED <<posts, deliveries>>
    BY <1>5 DEF ClaimExecution, MarkRunning, BookPublication, BookContent, BookCalendar,
                BookFailure, ReleaseExecution, SettleExecution, Running, jobs
  <2>2. SetStatus(exec[e].pub, "running") \/ SetStatus(exec[e].pub, "failed")
        \/ SetStatus(exec[e].pub, FinalStatus(exec[e].pub)) \/ UNCHANGED pubs
    BY <1>5 DEF ClaimExecution, MarkRunning, BookPublication, BookContent, BookCalendar,
                BookFailure, ReleaseExecution, SettleExecution, tables
  <2>3. \/ exec' = [exec EXCEPT ![e] = Idle]
        \/ \E label : Goes(e, label)
        \/ \E r, label : Raises(e, r, label)
    <3>1. CASE ClaimExecution(e) BY <3>1 DEF ClaimExecution, Goes, Raises
    <3>2. CASE MarkRunning(e) \/ BookFailure(e) BY <3>2 DEF MarkRunning, BookFailure
    <3>3. CASE BookPublication(e) \/ BookContent(e) \/ BookCalendar(e)
      BY <3>3 DEF BookPublication, BookContent, BookCalendar, BookFails
    <3>4. CASE ReleaseExecution(e) \/ SettleExecution(e) BY <3>4 DEF ReleaseExecution, SettleExecution
    <3> QED BY <1>5, <3>1, <3>2, <3>3, <3>4
  <2>4. exec' = [exec EXCEPT ![e] = exec'[e]] /\ (exec'[e].pc # "idle" => exec'[e].pub = exec[e].pub)
    <3>1. CASE exec' = [exec EXCEPT ![e] = Idle] BY <1>1, <3>1 DEF Idle
    <3>2. CASE \E label : Goes(e, label) BY <1>1, <3>2 DEF Goes, ExecutionState
    <3>3. CASE \E r, label : Raises(e, r, label) BY <1>1, <3>3 DEF Raises, ExecutionState
    <3> QED BY <2>3, <3>1, <3>2, <3>3
  <2> QED BY <1>3, <1>4, <2>1, <2>2, <2>4
<1>6. CASE CallTool(e) \/ CallRest(e)
  <2>1. exec[e].pc # "idle" /\ UNCHANGED <<pubs, deliveries>>
    BY <1>6 DEF CallTool, CallRest, Running, jobs, tables
  <2>2. \/ Goes(e, "rest") /\ UNCHANGED posts
        \/ \E accepted \in BOOLEAN, verdict \in Verdict : Called(e, accepted, verdict)
    BY <1>6 DEF CallTool, CallRest, Verdict
  <2>3. CASE Goes(e, "rest") /\ UNCHANGED posts
    <3>1. exec' = [exec EXCEPT ![e] = exec'[e]] /\ exec'[e].pub = exec[e].pub
      BY <1>1, <2>3 DEF Goes, ExecutionState
    <3> QED BY <1>3, <2>1, <2>3, <3>1
  <2>4. ASSUME NEW accepted \in BOOLEAN, NEW verdict \in Verdict, Called(e, accepted, verdict)
        PROVE  Jobless(p) => Jobless(p)' /\ pubs'[p] = pubs[p]
    <3>1. PICK r \in {None, "transient", "permanent"}, label \in {"book", "except"} :
            exec' = [exec EXCEPT ![e].accepted = accepted, ![e].error = r, ![e].pc = label]
      BY <2>4 DEF Called
    <3>2. exec' = [exec EXCEPT ![e] = exec'[e]] BY <1>1, <3>1
    <3>3. exec'[e].pub = exec[e].pub BY <1>1, <3>1 DEF ExecutionState
    <3>4. \A q \in Pub : q # exec[e].pub => posts'[q] = posts[q]
      BY <1>1, <2>4 DEF Called
    <3> QED BY <1>3, <2>1, <3>2, <3>3, <3>4
  <2> QED BY <2>1, <2>2, <2>3, <2>4
<1>7. CASE EndJob(e) \/ WorkerVanishes(e) \/ DeliveredAgain(e)
  <2>1. exec[e].pc # "idle" /\ UNCHANGED <<posts, pubs>>
    BY <1>7 DEF EndJob, WorkerVanishes, DeliveredAgain, Running, tables
  <2>2. \A q \in Pub : q # exec[e].pub => deliveries'[q] = deliveries[q]
    BY <1>1, <1>7 DEF EndJob, WorkerVanishes, DeliveredAgain
  <2>3. exec' = [exec EXCEPT ![e] = exec'[e]] /\ (exec'[e].pc # "idle" => exec'[e].pub = exec[e].pub)
    BY <1>1, <1>7 DEF EndJob, WorkerVanishes, DeliveredAgain, Idle
  <2> QED BY <1>3, <2>1, <2>2, <2>3
<1> QED BY <1>2, <1>5, <1>6, <1>7 DEF Execution

LEMMA ExecutionKeepsRows ==
  ASSUME RowInv, PostInv', NEW e \in Executor, Execution(e) \/ WorkerVanishes(e) \/ DeliveredAgain(e)
  PROVE  RowInv'
<1>1. \A p \in Pub : /\ Jobless(p) => Jobless(p)' /\ pubs'[p] = pubs[p]
                     /\ pubs'[p].key = pubs[p].key
                     /\ pubs'[p].status = "none" => pubs[p].status = "none"
  BY ExecutionRows DEF RowInv, PostInv, KeyInv
<1>2. UNCHANGED <<client, misqueued>>
  BY DEF Execution, WorkerVanishes, DeliveredAgain, StartJob, ClaimExecution, MarkRunning, CallTool,
         CallRest, BookPublication, BookContent, BookCalendar, BookFailure, ReleaseExecution,
         SettleExecution, EndJob, history
<1>3. /\ \A k \in HeaderKey : ledger'[k] = ledger[k]
      /\ \A p \in Pub : pubs[p].key \in HeaderKey \cup {None}
  <2>1. ExecutionStep(e) BY ExecutionSteps DEF RowInv, PostInv
  <2>2. ExecutionClaims(e) \/ ExecutionEnds(e) => exec[e].pub \in Pub
    BY DEF RowInv, PostInv, KeyInv, TInv, ExecutionHasPub, ExecutionClaims, ExecutionEnds, ExecutionWrites
  <2> QED BY <2>1, <2>2, KeyAfter, KeysApart
          DEF ExecutionStep, ExecutionPasses, ExecutionClaims, ExecutionEnds, RowInv, PostInv, KeyInv,
              TInv, TypeOK, PubRow
<1>4. \A p \in Pub : NotMade(p)'
  BY <1>1, <1>2 DEF RowInv, NotMade, Making
<1>5. \A p \in Pub : KeyIsUsed(p)'
  BY <1>1, <1>2, <1>3 DEF RowInv, KeyIsUsed, Open
<1>6. \A c \in Client : OwnPublication(c)'
  <2>1. \A c \in Client : Making(c) => client[c].pub \in Pub
    BY DEF RowInv, PostInv, KeyInv, TInv, RequestHasPub, Making
  <2> QED BY <1>1, <1>2, <2>1 DEF RowInv, OwnPublication, Making
<1>7. OneJob'
  BY <1>1, <1>2 DEF RowInv, OneJob
<1> QED BY <1>4, <1>5, <1>6, <1>7 DEF RowInv

\* A request that neither makes a row nor queues its job keeps all rows in order.
LEMMA PlainRequestKeepsRows ==
  ASSUME RowInv, PostInv', NEW c \in Client, RequestStep(c),
         UNCHANGED <<exec, posts, deliveries, misqueued>>,
         \/ UNCHANGED pubs
         \/ Making(c) /\ ~Making(c)' /\ SetStatus(client[c].pub, "failed"),
         Making(c)' => Making(c) /\ client'[c] = [client[c] EXCEPT !.pc = client'[c].pc]
                       /\ client'[c].pc = "complete",
         client'[c].pc \in {"create", "unwind"} /\ client'[c].key # None =>
            \/ client[c].pc \in {"create", "enqueue", "undo", "unwind"} /\ client'[c].key = client[c].key
            \/ client'[c].key = client[c].key /\ Claims(client[c].key),
         RequestEnds(c) /\ Releases(client[c].key) => client[c].pc = "unwind"
  PROVE  RowInv'
<1>1. /\ client \in [Client -> RequestState] /\ client' = [client EXCEPT ![c] = client'[c]]
      /\ pubs \in [Pub -> PubRow]
      /\ client[c].key \in HeaderKey \cup {None}
  BY DEF RequestStep, RowInv, PostInv, KeyInv, TInv, TypeOK, RequestState
<1>2. \A d \in Client : d # c => client'[d] = client[d]
  BY <1>1
<1>3. \A p \in Pub : Jobless(p)' <=> Jobless(p)
  BY DEF Jobless
<1>4. \A p \in Pub : /\ pubs'[p].key = pubs[p].key
                     /\ pubs'[p].status = "none" => pubs[p].status = "none"
                     /\ pubs'[p].status \in Posted => pubs[p].status \in Posted
  BY <1>1 DEF SetStatus, PubRow, Posted
<1>5. \A d \in Client : Making(d)' => Making(d) /\ client'[d].pub = client[d].pub
                                      /\ client'[d].key = client[d].key
  BY <1>1, <1>2 DEF Making, RequestState
<1>6. \A d \in Client : Making(d) => client[d].pub \in Pub
  BY DEF RowInv, PostInv, KeyInv, TInv, RequestHasPub, Making
<1>7. \A p \in Pub : NotMade(p)'
  BY <1>3, <1>4, <1>5 DEF RowInv, NotMade
<1>8. ASSUME NEW d \in Client PROVE OwnPublication(d)'
  <2>1. OwnPublication(d) BY DEF RowInv
  <2>2. Making(d)' => client'[d].pc = client[d].pc \/ client'[d].pc = "complete"
    BY <1>2 DEF Making
  <2> QED BY <1>3, <1>4, <1>5, <1>6, <2>1, <2>2 DEF OwnPublication
<1>9. ASSUME NEW p \in Pub, ~Jobless(p)', p \notin misqueued', NEW k \in HeaderKey, k = pubs'[p].key
      PROVE  /\ ledger'[k].status \notin {"absent", "failed"}
             /\ \A d \in Client : client'[d].key = k
                    => client'[d].pc \notin {"create", "enqueue", "undo", "unwind"}
  <2>1. k = pubs[p].key BY <1>4, <1>9
  <2>2. /\ ~Open(k)
        /\ \A d \in Client : client[d].key = k => client[d].pc \notin {"create", "enqueue", "undo", "unwind"}
    BY <1>3, <1>9, <2>1, KeysApart DEF RowInv, KeyIsUsed
  <2>3. k \in Keys /\ k # None BY KeysApart
  <2>4. ledger'[k].status \notin {"absent", "failed"}
    <3>1. CASE client[c].key = k /\ Releases(k) /\ RequestEnds(c) BY <2>2, <3>1
    <3>2. CASE ledger'[k] = ledger[k] BY <2>2, <3>2 DEF Open
    <3>3. CASE client[c].key = k /\ Claims(k) BY <2>2, <3>3 DEF Claims
    <3>4. CASE client[c].key = k /\ \E r : Completes(k, r)
      BY <2>3, <3>4, KeyAfter DEF Open, RowInv, PostInv, KeyInv
    <3> QED BY <1>1, <2>3, <3>1, <3>2, <3>3, <3>4, KeyAfter, KeysApart
            DEF RequestStep, RequestPasses, RequestClaims, RequestEnds, RowInv, PostInv, KeyInv
  <2>5. ASSUME NEW d \in Client, client'[d].key = k
        PROVE  client'[d].pc \notin {"create", "enqueue", "undo", "unwind"}
    <3>1. CASE d # c BY <1>2, <2>2, <2>5, <3>1
    <3>2. CASE d = c
      <4>1. ~(client'[c].pc \in {"create", "unwind"})
        BY <2>2, <2>3, <2>5, <3>2 DEF Claims
      <4>2. client'[c].pc \notin {"enqueue", "undo"} BY DEF Making
      <4> QED BY <3>2, <4>1, <4>2
    <3> QED BY <3>1, <3>2
  <2> QED BY <2>1, <2>4, <2>5
<1>10. \A p \in Pub : KeyIsUsed(p)'
  <2>1. \A p \in Pub : pubs'[p].key \in HeaderKey \cup {None}
    BY <1>1, <1>4 DEF PubRow
  <2> QED BY <1>9, <2>1 DEF KeyIsUsed, Open
<1>11. OneJob'
  BY <1>3, <1>4 DEF RowInv, OneJob
<1> QED BY <1>7, <1>8, <1>10, <1>11 DEF RowInv

\* A new row has no job yet, and nobody else's request has it.
LEMMA CreateKeepsRows ==
  ASSUME RowInv, PostInv', NEW c \in Client, At(c, "create"),
         NEW p \in Pub, pubs[p].status = "none",
         pubs' = [pubs EXCEPT ![p] = [status |-> "queued", key |-> client[c].key,
                                      timing |-> client[c].timing]],
         client' = [client EXCEPT ![c].pc = "enqueue", ![c].pub = p],
         UNCHANGED <<ledger, exec, posts, deliveries, misqueued>>
  PROVE  RowInv'
<1>1. /\ client \in [Client -> RequestState] /\ client[c] \in RequestState /\ client[c].pc = "create"
      /\ pubs \in [Pub -> PubRow] /\ NotMade(p)
  BY DEF RowInv, PostInv, KeyInv, TInv, TypeOK, At
<1>2. /\ \A d \in Client : d # c => client'[d] = client[d]
      /\ client'[c].pc = "enqueue" /\ client'[c].pub = p /\ client'[c].key = client[c].key
  BY <1>1 DEF RequestState
<1>3. /\ \A q \in Pub : q # p => pubs'[q] = pubs[q]
      /\ pubs'[p].status = "queued" /\ pubs'[p].key = client[c].key
  BY <1>1
<1>4. /\ \A q \in Pub : Jobless(q)' <=> Jobless(q)
      /\ Jobless(p)
      /\ \A d \in Client : Making(d) => client[d].pub \in Pub /\ client[d].pub # p
  BY <1>1 DEF Jobless, NotMade, RowInv, PostInv, KeyInv, TInv, RequestHasPub, Making
<1>5. \A d \in Client : d # c => (Making(d)' <=> Making(d))
  BY <1>2 DEF Making
<1>6. ASSUME NEW q \in Pub PROVE NotMade(q)'
  <2>1. CASE q = p BY <1>3, <2>1 DEF NotMade
  <2>2. CASE q # p
    <3>1. NotMade(q) /\ pubs'[q] = pubs[q] /\ (Jobless(q)' <=> Jobless(q))
      BY <1>3, <1>4, <2>2 DEF RowInv
    <3>2. pubs[q].status = "none" => \A d \in Client : Making(d)' => client'[d].pub # q
      BY <1>2, <1>5, <2>2, <3>1 DEF NotMade
    <3> QED BY <3>1, <3>2 DEF NotMade
  <2> QED BY <2>1, <2>2
<1>7. \A d \in Client : OwnPublication(d)'
  <2>1. OwnPublication(c)'
    BY <1>2, <1>3, <1>4, <1>5 DEF OwnPublication, Posted
  <2>2. ASSUME NEW d \in Client, d # c PROVE OwnPublication(d)'
    <3>1. OwnPublication(d) BY DEF RowInv
    <3>2. Making(d)' => /\ Making(d) /\ client[d].pub \in Pub /\ client[d].pub # p
                        /\ pubs'[client[d].pub] = pubs[client[d].pub]
      BY <1>3, <1>4, <1>5, <2>2
    <3>3. Making(d) => (Jobless(client[d].pub) => \A q \in Pub : q = client[d].pub => Jobless(q)')
      BY <1>4
    <3>4. client'[d] = client[d] BY <1>2, <2>2
    <3>5. Making(d)' => \A x \in Client \ {d} : Making(x)' => client'[x].pub # client'[d].pub
      BY <1>2, <1>5, <3>1, <3>2, <3>4 DEF OwnPublication
    <3>6. Making(d)' => pubs'[client'[d].pub].key = client'[d].key
      BY <3>1, <3>2, <3>4 DEF OwnPublication
    <3>7. ASSUME Making(d)', \/ client'[d].pc = "enqueue"
                             \/ client'[d].pc = "undo" /\ client'[d].pub \notin misqueued'
          PROVE  Jobless(client[d].pub) /\ pubs'[client'[d].pub].status \notin Posted
      <4>1. \/ client[d].pc = "enqueue"
            \/ client[d].pc = "undo" /\ client[d].pub \notin misqueued
        <5>1. misqueued' = misqueued OBVIOUS
        <5>2. CASE client'[d].pc = "enqueue" BY <3>4, <5>2
        <5>3. CASE client'[d].pc = "undo" /\ client'[d].pub \notin misqueued' BY <3>4, <5>1, <5>3
        <5> QED BY <3>7, <5>2, <5>3
      <4>2. Making(d) BY <3>2, <3>7
      <4>3. Jobless(client[d].pub) BY <3>1, <4>1, <4>2 DEF OwnPublication
      <4>4. pubs[client[d].pub].status \notin Posted BY <3>1, <4>1, <4>2 DEF OwnPublication
      <4> QED BY <3>2, <3>4, <3>7, <4>3, <4>4
    <3> QED BY <3>2, <3>3, <3>4, <3>5, <3>6, <3>7 DEF OwnPublication
  <2> QED BY <2>1, <2>2
<1>8. \A q \in Pub : KeyIsUsed(q)'
  <2>1. \A q \in Pub : q # p => KeyIsUsed(q) BY DEF RowInv
  <2> QED BY <1>1, <1>2, <1>3, <1>4, <2>1 DEF KeyIsUsed, Open
<1>9. OneJob'
  BY <1>3, <1>4 DEF RowInv, OneJob
<1> QED BY <1>6, <1>7, <1>8, <1>9 DEF RowInv

\* A job is queued for the request's own row, the first of its key but for misqueued ones.
LEMMA EnqueueKeepsRows ==
  ASSUME RowInv, PostInv', NEW c \in Client, EnqueueJob(c)
  PROVE  RowInv'
<1>1. PICK p \in Pub : p = client[c].pub
  BY DEF EnqueueJob, At, RowInv, PostInv, KeyInv, TInv, RequestHasPub
<1>2. /\ client \in [Client -> RequestState] /\ client[c] \in RequestState /\ client[c].pc = "enqueue"
      /\ deliveries \in [Pub -> Nat] /\ pubs \in [Pub -> PubRow] /\ misqueued \subseteq Pub
      /\ UNCHANGED <<ledger, pubs, posts, exec>>
  BY DEF EnqueueJob, At, RowInv, PostInv, KeyInv, TInv, TypeOK, tables
<1>3. PICK label \in {"complete", "undo"} :
        /\ client' = [client EXCEPT ![c].pc = label]
        /\ \/ label = "undo" /\ UNCHANGED <<deliveries, misqueued>>
           \/ label = "complete" /\ deliveries' = [deliveries EXCEPT ![p] = @ + 1] /\ UNCHANGED misqueued
           \/ /\ label = "undo" /\ deliveries' = [deliveries EXCEPT ![p] = @ + 1]
              /\ misqueued' = misqueued \cup {p}
  BY <1>1 DEF EnqueueJob, ClientGoes
<1>4. /\ \A d \in Client : d # c => client'[d] = client[d]
      /\ client'[c].pc = label /\ client'[c].pub = p /\ client'[c].key = client[c].key
  BY <1>1, <1>2, <1>3 DEF RequestState
<1>5. \A q \in Pub : q # p => (Jobless(q)' <=> Jobless(q))
  BY <1>2, <1>3 DEF Jobless
<1>6. /\ misqueued \subseteq misqueued' /\ misqueued' \subseteq misqueued \cup {p}
      /\ label = "undo" /\ p \notin misqueued' => UNCHANGED deliveries
  BY <1>3
<1>7. /\ \A d \in Client \ {c} : Making(d) => client[d].pub # p
      /\ pubs[p].key = client[c].key /\ Jobless(p) /\ pubs[p].status \notin Posted
      /\ pubs[p].status # "none"
  BY <1>1, <1>2 DEF RowInv, OwnPublication, NotMade, Making
<1>8. /\ \A d \in Client : Making(d)' <=> Making(d)
      /\ \A d \in Client : client'[d].pub = client[d].pub /\ client'[d].key = client[d].key
      /\ \A d \in Client : Making(d) => client[d].pub \in Pub
  BY <1>1, <1>2, <1>4 DEF Making, RowInv, PostInv, KeyInv, TInv, RequestHasPub
<1>9. \A q \in Pub : NotMade(q)'
  BY <1>2, <1>5, <1>7, <1>8 DEF RowInv, NotMade
<1>10. \A d \in Client : OwnPublication(d)'
  <2>1. OwnPublication(c)'
    <3>1. client'[c].pc = "undo" /\ p \notin misqueued' => Jobless(p)'
      BY <1>2, <1>4, <1>6, <1>7 DEF Jobless
    <3> QED BY <1>1, <1>2, <1>4, <1>7, <1>8, <3>1 DEF OwnPublication
  <2>2. ASSUME NEW d \in Client, d # c PROVE OwnPublication(d)'
    <3>1. OwnPublication(d) BY DEF RowInv
    <3>2. Making(d) => client[d].pub \in Pub /\ client[d].pub # p BY <1>7, <1>8, <2>2
    <3>3. Making(d) => (Jobless(client[d].pub) => \A q \in Pub : q = client[d].pub => Jobless(q)')
      BY <1>5, <3>2
    <3>4. client'[d] = client[d] BY <1>4, <2>2
    <3> QED BY <1>2, <1>6, <1>8, <3>1, <3>2, <3>3, <3>4 DEF OwnPublication
  <2> QED BY <2>1, <2>2
<1>11. \A q \in Pub : q # p /\ pubs[q].key = client[c].key /\ pubs[q].key # None /\ ~Jobless(q)
         => q \in misqueued
  BY <1>2 DEF RowInv, KeyIsUsed
<1>12. ASSUME NEW q \in Pub PROVE KeyIsUsed(q)'
  <2>1. CASE q = p
    <3>1. CASE label = "undo"
      <4>1. Jobless(p)' \/ p \in misqueued' BY <1>2, <1>6, <1>7, <3>1 DEF Jobless
      <4> QED BY <2>1, <4>1 DEF KeyIsUsed
    <3>2. CASE label = "complete"
      <4>1. client[c].key # None =>
              /\ ledger[client[c].key].status = "in_progress"
              /\ \A d \in Client : RequestWrites(d) /\ client[d].key = client[c].key => d = c
        BY <1>2 DEF RowInv, PostInv, KeyInv, OneRequest, RequestWrites
      <4> QED BY <1>2, <1>4, <1>7, <2>1, <3>2, <4>1 DEF KeyIsUsed, Open, RequestWrites
    <3> QED BY <3>1, <3>2
  <2>2. CASE q # p
    <3>1. KeyIsUsed(q) BY DEF RowInv
    <3> QED BY <1>2, <1>4, <1>5, <1>6, <1>11, <2>2, <3>1 DEF KeyIsUsed, Open
  <2> QED BY <2>1, <2>2
<1>13. OneJob'
  BY <1>2, <1>5, <1>6, <1>7, <1>11 DEF RowInv, OneJob
<1> QED BY <1>9, <1>10, <1>12, <1>13 DEF RowInv

LEMMA RequestKeepsRows ==
  ASSUME RowInv, PostInv', NEW c \in Client, Request(c)
  PROVE  RowInv'
<1>1. RequestStep(c) BY RequestSteps DEF RowInv, PostInv
<1>2. /\ client \in [Client -> RequestState] /\ client[c] \in RequestState
      /\ OneRequest
  BY DEF RowInv, PostInv, KeyInv, TInv, TypeOK
<1>3. RequestEnds(c) /\ Releases(client[c].key) => client'[c].pc = "failed"
  BY KeyAfter, KeysApart, <1>2
     DEF RequestEnds, Completes, Releases, RowInv, PostInv, KeyInv, RequestState
<1>4. CASE \E k \in HeaderKey \cup {None}, t \in Timing : Post(c, k, t)
  <2>1. UNCHANGED <<ledger, exec, posts, deliveries, misqueued, pubs>> /\ client[c].pc = "idle"
    BY <1>4 DEF Post, At, tables, jobs, history
  <2>2. client'[c].pc = "claim" BY <1>2, <1>4 DEF Post
  <2> QED BY <1>1, <1>3, <2>1, <2>2, PlainRequestKeepsRows DEF Making
<1>5. CASE ClaimRequest(c)
  <2>1. UNCHANGED <<exec, posts, deliveries, misqueued, pubs>> /\ client[c].pc = "claim"
    BY <1>5 DEF ClaimRequest, At, tables, jobs, history
  <2>2. /\ client'[c].pc \in {"create", "answered", "failed"}
        /\ client'[c].pc = "create" => client'[c].key = client[c].key
    BY <1>2, <1>5 DEF ClaimRequest, ClientGoes, Outside, RequestState
  <2>3. client'[c].pc = "create" /\ client'[c].key # None => Claims(client[c].key)
    BY <1>1, <2>1, <2>2 DEF RequestStep, RequestPasses, RequestClaims, RequestEnds, RequestWrites
  <2>4. ~RequestEnds(c) BY <2>1 DEF RequestEnds, RequestWrites
  <2> QED BY <1>1, <2>1, <2>2, <2>3, <2>4, PlainRequestKeepsRows DEF Making
<1>6. CASE CreatePublication(c)
  <2>1. UNCHANGED <<ledger, exec, posts, deliveries, misqueued>> /\ At(c, "create")
    BY <1>6 DEF CreatePublication, jobs, history
  <2>2. ASSUME NEW p \in Pub, pubs[p].status = "none",
               pubs' = [pubs EXCEPT ![p] = [status |-> "queued", key |-> client[c].key,
                                            timing |-> client[c].timing]],
               client' = [client EXCEPT ![c].pc = "enqueue", ![c].pub = p]
        PROVE  RowInv'
    BY <2>1, <2>2, CreateKeepsRows
  <2>3. CASE ClientGoes(c, "unwind") /\ UNCHANGED pubs
    <3>1. client'[c].pc = "unwind" /\ client'[c].key = client[c].key /\ client[c].pc = "create"
      BY <1>2, <2>1, <2>3 DEF ClientGoes, RequestState, At
    <3> QED BY <1>1, <1>3, <2>1, <2>3, <3>1, PlainRequestKeepsRows DEF Making
  <2> QED BY <1>6, <2>2, <2>3 DEF CreatePublication
<1>7. CASE EnqueueJob(c)
  BY <1>7, EnqueueKeepsRows
<1>8. CASE UndoPublication(c)
  <2>1. /\ UNCHANGED <<ledger, exec, posts, deliveries, misqueued>> /\ client[c].pc = "undo"
        /\ SetStatus(client[c].pub, "failed") \/ UNCHANGED pubs
    BY <1>8 DEF UndoPublication, At, jobs, history
  <2>2. client'[c].pc = "unwind" /\ client'[c].key = client[c].key
    BY <1>2, <1>8 DEF UndoPublication, ClientGoes, RequestState
  <2> QED BY <1>1, <1>3, <2>1, <2>2, PlainRequestKeepsRows DEF Making
<1>9. CASE ReleaseRequest(c) \/ CompleteRequest(c) \/ ApiCrash(c)
  <2>1. UNCHANGED <<exec, posts, deliveries, misqueued, pubs>>
    BY <1>9 DEF ReleaseRequest, CompleteRequest, ApiCrash, tables, jobs, history
  <2>2. client'[c].pc \in {"answered", "failed"}
    BY <1>2, <1>9 DEF ReleaseRequest, CompleteRequest, ApiCrash, ClientGoes, Errs, Outside, RequestState
  <2>3. RequestEnds(c) /\ Releases(client[c].key) => client[c].pc = "unwind"
    <3>1. CASE ReleaseRequest(c) BY <3>1 DEF ReleaseRequest, At
    <3>2. CASE CompleteRequest(c)
      <4>1. UNCHANGED ledger \/ CompleteKey(client[c].key, client[c].pub)
        BY <3>2 DEF CompleteRequest
      <4>2. ASSUME RequestEnds(c), Releases(client[c].key) PROVE FALSE
        <5> DEFINE k == client[c].key
        <5>1. k \in Keys /\ TInv
          BY <1>2, <4>2, KeysApart DEF RequestEnds, RequestState, RowInv, PostInv, KeyInv
        <5>2. ledger[k].status = "in_progress" /\ ledger'[k].status = "failed"
          BY <4>2, <5>1, KeyAfter DEF Releases
        <5>3. ledger' = ledger \/ Completes(k, client[c].pub)
          BY <4>1 DEF CompleteKey, Finish, Completes
        <5>4. Completes(k, client[c].pub) => ledger'[k].status = "completed"
          BY <5>1, KeyAfter
        <5> QED BY <5>2, <5>3, <5>4
      <4> QED BY <4>2
    <3>3. CASE ApiCrash(c) 
      BY <1>2, <3>3, KeyAfter, KeysApart
         DEF ApiCrash, RequestEnds, RequestState, Releases, RowInv, PostInv, KeyInv
    <3> QED BY <1>9, <3>1, <3>2, <3>3
  <2> QED BY <1>1, <2>1, <2>2, <2>3, PlainRequestKeepsRows DEF Making
<1> QED BY <1>4, <1>5, <1>6, <1>7, <1>8, <1>9 DEF Request

LEMMA StepKeepsRows ==
  ASSUME RowInv, [Next]_vars
  PROVE  RowInv'
<1>1. PostInv' BY StepKeepsPosts DEF RowInv
<1>2. CASE UNCHANGED vars
  <2>1. UNCHANGED <<ledger, pubs, posts, deliveries, client, exec, misqueued>>
    BY <1>2 DEF vars, tables, jobs, history
  <2>2. \A p \in Pub : Jobless(p)' <=> Jobless(p) BY <2>1 DEF Jobless
  <2>3. \A c \in Client : Making(c) => client[c].pub \in Pub
    BY DEF RowInv, PostInv, KeyInv, TInv, RequestHasPub, Making
  <2> QED BY <1>1, <2>1, <2>2, <2>3
          DEF RowInv, NotMade, KeyIsUsed, OwnPublication, OneJob, Making, Open
<1> QED BY <1>1, <1>2, RequestKeepsRows, ExecutionKeepsRows DEF Next

LEMMA AlwaysRows == Spec => []RowInv
BY InitRows, StepKeepsRows, PTL DEF Spec

\* However often a request is retried under its key, one of the publications made
\* for it is posted, but for misqueued ones: KeyPostsOnce (create_and_enqueue).
THEOREM KeyPosts == Spec => []KeyPostsOnce
<1>1. RowInv => KeyPostsOnce
  <2> SUFFICES ASSUME RowInv PROVE KeyPostsOnce
    OBVIOUS
  <2>1. \A p \in Pub : posts[p] > 0 => ~Jobless(p) BY DEF Jobless
  <2> QED BY <2>1 DEF RowInv, OneJob, KeyPostsOnce
<1> QED BY <1>1, AlwaysRows, PTL

\* No late request or execution takes a posted publication back, unless its post
\* was disowned or its job misqueued: PostedStays (_enqueue_publication,
\* _execute_publication_once).
THEOREM PostedKept == Spec => PostedStays
<1>1. ASSUME RowInv, [Next]_vars, NEW p \in Pub, pubs[p].status \in Posted, pubs'[p].status # pubs[p].status
      PROVE  p \in disowned' \cup misqueued
  <2>1. pubs \in [Pub -> PubRow] BY <1>1 DEF RowInv, PostInv, KeyInv, TInv, TypeOK
  <2>2. ASSUME NEW c \in Client, Request(c) PROVE p \in disowned' \cup misqueued
    <3>1. CASE CreatePublication(c)
      BY <1>1, <2>1, <3>1 DEF CreatePublication, Posted
    <3>2. CASE UndoPublication(c)
      <4>1. client[c].pc = "undo" /\ SetStatus(client[c].pub, "failed")
        BY <1>1, <3>2 DEF UndoPublication, At
      <4>2. client[c].pub = p BY <1>1, <2>1, <4>1 DEF SetStatus
      <4>3. OwnPublication(c) BY <1>1 DEF RowInv
      <4> QED BY <1>1, <4>1, <4>2, <4>3 DEF OwnPublication, Making
    <3>3. CASE UNCHANGED pubs BY <1>1, <3>3
    <3> QED BY <2>2, <3>1, <3>2, <3>3 DEF Request, Post, ClaimRequest, EnqueueJob, ReleaseRequest,
                                          CompleteRequest, ApiCrash, tables
  <2>3. ASSUME NEW e \in Executor, Execution(e) \/ WorkerVanishes(e) \/ DeliveredAgain(e)
        PROVE  p \in disowned' \cup misqueued
    <3>1. CallsClean(e) BY <1>1 DEF RowInv, PostInv
    <3>2. CASE MarkRunning(e) \/ BookPublication(e)
      <4>1. /\ exec[e].pc \in {"mark", "book"} /\ disowned' = disowned
            /\ \E s : SetStatus(exec[e].pub, s)
        BY <1>1, <3>2 DEF MarkRunning, BookPublication, Running, history
      <4>2. exec[e].pub = p BY <1>1, <2>1, <4>1 DEF SetStatus
      <4> QED BY <1>1, <3>1, <4>1, <4>2 DEF CallsClean, Clean
    <3>3. CASE BookFailure(e)
      <4>1. /\ exec[e].pc = "except" /\ SetStatus(exec[e].pub, "failed")
            /\ disowned' = IF exec[e].accepted THEN disowned \cup {exec[e].pub} ELSE disowned
        BY <1>1, <3>3 DEF BookFailure, Running
      <4>2. exec[e].pub = p BY <1>1, <2>1, <4>1 DEF SetStatus
      <4> QED BY <1>1, <3>1, <4>1, <4>2 DEF CallsClean, Clean
    <3>4. CASE UNCHANGED pubs BY <1>1, <3>4
    <3> QED BY <2>3, <3>2, <3>3, <3>4
            DEF Execution, WorkerVanishes, DeliveredAgain, StartJob, ClaimExecution, CallTool, CallRest,
                BookContent, BookCalendar, ReleaseExecution, SettleExecution, EndJob, tables
  <2>4. CASE UNCHANGED vars BY <1>1, <2>4 DEF vars, tables
  <2> QED BY <1>1, <2>2, <2>3, <2>4 DEF Next
<1>2. ASSUME RowInv, [Next]_vars
      PROVE  \A p \in Pub : pubs[p].status \in Posted /\ pubs'[p].status # pubs[p].status
                => p \in disowned' \cup misqueued
  BY <1>1, <1>2
<1> QED BY <1>2, AlwaysRows, PTL DEF Spec, PostedStays

-----------------------------------------------------------------------------
(* The books. *)

\* What a row, its key and its calendar say of p at any time: a key is completed
\* only once its work is booked, and a key that can be claimed has no event.
RowBooked(p) ==
    /\ pubs[p].status = "none" => ledger[p].status # "completed"
    /\ pubs[p].status \in Posted => posts[p] > 0
    /\ posts[p] > 0 => \/ pubs[p].status \in Posted
                       \/ p \in disowned \cup misqueued
                       \/ ledger[p].status = "in_progress"
    /\ Open(p) => events[p] = 0 \/ p \in disowned
    /\ ledger[p].status = "completed" /\ pubs[p].timing = "later" => events[p] = 1 \/ p \in disowned

\* How far an execution has come with the books, one after another.
WorkBooked(e) ==
    LET p == exec[e].pub IN
    /\ exec[e].pc = "book" => posts[p] > 0
    /\ exec[e].pc \in {"content", "calendar", "settle"}
        => pubs[p].status \in Posted \/ p \in disowned \cup misqueued
    /\ ExecutionWrites(e) /\ exec[e].pc # "settle" => events[p] = 0 \/ p \in disowned
    /\ exec[e].pc = "settle" /\ pubs[p].timing = "later" => events[p] = 1 \/ p \in disowned

BooksInv ==
    /\ RowInv
    /\ \A p \in Pub : RowBooked(p)
    /\ \A e \in Executor : WorkBooked(e)

LEMMA InitBooks == Init => BooksInv
<1>1. ASSUME Init PROVE BooksInv
  <2>1. /\ \A e \in Executor : exec[e].pc = "idle"
        /\ \A p \in Pub : posts[p] = 0 /\ events[p] = 0 /\ pubs[p].status = "none"
        /\ \A k \in Keys : ledger[k].status = "absent"
    BY <1>1 DEF Init, NoPublication, LedgerInit, NoRow
  <2> QED BY <1>1, <2>1, InitRows, KeysApart
          DEF BooksInv, RowBooked, WorkBooked, ExecutionWrites, Posted
<1> QED BY <1>1

\* What a request does to a row: makes it, or takes back one that has no job or
\* whose job was misqueued.
LEMMA RequestRow ==
  ASSUME RowInv, NEW c \in Client, Request(c), NEW p \in Pub
  PROVE  \/ pubs'[p] = pubs[p]
         \/ pubs[p].status = "none" /\ pubs'[p].status = "queued" /\ Jobless(p)
         \/ /\ pubs'[p].status = "failed" /\ pubs'[p].timing = pubs[p].timing
            /\ Jobless(p) \/ p \in misqueued
<1>1. pubs \in [Pub -> PubRow] BY DEF RowInv, PostInv, KeyInv, TInv, TypeOK
<1>2. CASE UNCHANGED pubs BY <1>2
<1>3. CASE CreatePublication(c)
  <2>1. PICK q \in Pub :
          \/ /\ pubs[q].status = "none"
             /\ pubs' = [pubs EXCEPT ![q] = [status |-> "queued", key |-> client[c].key,
                                             timing |-> client[c].timing]]
          \/ UNCHANGED pubs
    BY <1>3 DEF CreatePublication
  <2>2. pubs[q].status = "none" => Jobless(q) BY DEF RowInv, NotMade
  <2> QED BY <1>1, <1>2, <2>1, <2>2
<1>4. CASE UndoPublication(c)
  <2>1. client[c].pc = "undo" /\ (SetStatus(client[c].pub, "failed") \/ UNCHANGED pubs)
    BY <1>4 DEF UndoPublication, At
  <2>2. client[c].pub = p => Jobless(p) \/ p \in misqueued
    BY <2>1 DEF RowInv, OwnPublication, Making
  <2> QED BY <1>1, <1>2, <2>1, <2>2 DEF SetStatus, PubRow
<1> QED BY <1>2, <1>3, <1>4 DEF Request, Post, ClaimRequest, EnqueueJob, ReleaseRequest,
        CompleteRequest, ApiCrash, tables

LEMMA RequestKeepsBooks ==
  ASSUME BooksInv, RowInv', NEW c \in Client, Request(c)
  PROVE  BooksInv'
<1>1. UNCHANGED <<posts, exec, disowned, events>> /\ misqueued \subseteq misqueued'
  BY DEF Request, Post, ClaimRequest, CreatePublication, EnqueueJob, UndoPublication, ReleaseRequest,
         CompleteRequest, ApiCrash, history, tables
<1>2. \A p \in Pub : ledger'[p] = ledger[p]
  BY RequestSparesPubs DEF BooksInv, RowInv, PostInv
<1>3. \A p \in Pub :
        \/ pubs'[p] = pubs[p]
        \/ pubs[p].status = "none" /\ pubs'[p].status = "queued" /\ Jobless(p)
        \/ /\ pubs'[p].status = "failed" /\ pubs'[p].timing = pubs[p].timing
           /\ Jobless(p) \/ p \in misqueued
  BY RequestRow DEF BooksInv
<1>4. ASSUME NEW p \in Pub PROVE RowBooked(p)'
  <2>1. RowBooked(p) BY DEF BooksInv
  <2>2. CASE pubs'[p] = pubs[p] BY <1>1, <1>2, <2>1, <2>2 DEF RowBooked, Open
  <2>3. CASE pubs[p].status = "none" /\ pubs'[p].status = "queued" /\ Jobless(p)
    <3>1. posts[p] = 0 BY <2>3 DEF Jobless
    <3> QED BY <1>1, <1>2, <2>1, <2>3, <3>1 DEF RowBooked, Open, Posted
  <2>4. CASE /\ pubs'[p].status = "failed" /\ pubs'[p].timing = pubs[p].timing
             /\ Jobless(p) \/ p \in misqueued
    <3>1. posts[p] = 0 \/ p \in misqueued' BY <1>1, <2>4 DEF Jobless
    <3> QED BY <1>1, <1>2, <2>1, <2>4, <3>1 DEF RowBooked, Open, Posted
  <2> QED BY <1>3, <2>2, <2>3, <2>4
<1>5. ASSUME NEW e \in Executor PROVE WorkBooked(e)'
  <2>1. WorkBooked(e) BY DEF BooksInv
  <2>2. CASE exec[e].pc = "idle"
    BY <1>1, <2>2 DEF WorkBooked, ExecutionWrites
  <2>3. CASE exec[e].pc # "idle"
    <3>1. PICK p \in Pub : exec[e].pub = p
      BY <2>3 DEF BooksInv, RowInv, PostInv, KeyInv, TInv, ExecutionHasPub
    <3>2. ~Jobless(p) BY <2>3, <3>1 DEF Jobless
    <3>3. pubs'[p].timing = pubs[p].timing /\ (pubs'[p] = pubs[p] \/ p \in misqueued)
      BY <1>3, <3>2
    <3> QED BY <1>1, <2>1, <3>1, <3>3 DEF WorkBooked, ExecutionWrites
  <2> QED BY <2>2, <2>3
<1> QED BY <1>4, <1>5 DEF BooksInv

\* What is left to show of an execution's step on its publication p.
LEMMA ExecutionBooks ==
  ASSUME BooksInv, RowInv', NEW e \in Executor, NEW p \in Pub, exec[e].pub = p,
         \A f \in Executor \ {e} : exec'[f] = exec[f],
         \A q \in Pub \ {p} : /\ posts'[q] = posts[q] /\ pubs'[q] = pubs[q]
                              /\ ledger'[q] = ledger[q] /\ events'[q] = events[q],
         disowned \subseteq disowned', UNCHANGED misqueued,
         ExecutionWrites(e) \/ UNCHANGED <<posts, pubs, events>>,
         RowBooked(p)', WorkBooked(e)'
  PROVE  BooksInv'
<1>1. ASSUME NEW q \in Pub, q # p PROVE RowBooked(q)'
  <2>1. RowBooked(q) BY DEF BooksInv
  <2>2. /\ posts'[q] = posts[q] /\ pubs'[q] = pubs[q]
        /\ ledger'[q] = ledger[q] /\ events'[q] = events[q]
    BY <1>1
  <2> QED BY <2>1, <2>2 DEF RowBooked, Open
<1>2. ASSUME NEW f \in Executor, f # e PROVE WorkBooked(f)'
  <2>1. WorkBooked(f) /\ exec'[f] = exec[f] BY <1>2 DEF BooksInv
  <2>2. CASE ~ExecutionWrites(f)
    BY <2>1, <2>2 DEF ExecutionWrites, WorkBooked
  <2>3. CASE ExecutionWrites(f) /\ exec[f].pub # p
    <3>1. PICK q \in Pub : q = exec[f].pub /\ q # p
      BY <2>3 DEF BooksInv, RowInv, PostInv, KeyInv, TInv, ExecutionHasPub, ExecutionWrites
    <3>2. posts'[q] = posts[q] /\ pubs'[q] = pubs[q] /\ events'[q] = events[q]
      BY <3>1
    <3> QED BY <2>1, <3>1, <3>2 DEF WorkBooked, ExecutionWrites
  <2>4. CASE ExecutionWrites(f) /\ exec[f].pub = p
    <3>1. ~ExecutionWrites(e)
      BY <1>2, <2>4 DEF BooksInv, RowInv, PostInv, KeyInv, OneExecution
    <3>2. UNCHANGED <<posts, pubs, events>> BY <3>1
    <3> QED BY <2>1, <3>2 DEF WorkBooked, ExecutionWrites
  <2> QED BY <2>2, <2>3, <2>4
<1> QED BY <1>1, <1>2 DEF BooksInv

LEMMA ExecutionKeepsBooks ==
  ASSUME BooksInv, RowInv', NEW e \in Executor, Execution(e) \/ WorkerVanishes(e) \/ DeliveredAgain(e)
  PROVE  BooksInv'
<1>1. /\ exec \in [Executor -> ExecutionState] /\ exec[e] \in ExecutionState /\ ExecutionHasPub(e)
      /\ pubs \in [Pub -> PubRow] /\ posts \in [Pub -> Nat] /\ events \in [Pub -> Nat] /\ CallsClean(e)
      /\ ledger \in [Keys -> Records] /\ Pub \subseteq Keys
  BY KeysApart DEF BooksInv, RowInv, PostInv, KeyInv, TInv, TypeOK
<1>2. ExecutionStep(e)
  BY ExecutionSteps DEF BooksInv, RowInv, PostInv
<1>3. \A f \in Executor \ {e} : exec'[f] = exec[f]
  BY <1>1, <1>2 DEF ExecutionStep
<1>4. UNCHANGED misqueued
  BY DEF Execution, WorkerVanishes, DeliveredAgain, StartJob, ClaimExecution, MarkRunning, CallTool,
         CallRest, BookPublication, BookContent, BookCalendar, BookFailure, ReleaseExecution,
         SettleExecution, EndJob, history
<1>5. CASE StartJob(e)
  <2>1. UNCHANGED <<ledger, posts, pubs, events, disowned>> BY <1>5 DEF StartJob, tables, history
  <2>2. exec[e].pc = "idle" /\ exec'[e].pc \in {"idle", "claim"}
    BY <1>1, <1>5 DEF StartJob, Running, Idle
  <2>3. \A p \in Pub : RowBooked(p)' BY <1>4, <2>1 DEF BooksInv, RowBooked, Open
  <2>4. WorkBooked(e)' BY <2>2 DEF WorkBooked, ExecutionWrites
  <2>5. ASSUME NEW f \in Executor, f # e PROVE WorkBooked(f)'
    <3>1. WorkBooked(f) /\ exec'[f] = exec[f] BY <1>3, <2>5 DEF BooksInv
    <3> QED BY <1>4, <2>1, <3>1 DEF WorkBooked, ExecutionWrites
  <2> QED BY <2>3, <2>4, <2>5 DEF BooksInv
<1>6. ASSUME NEW p \in Pub, exec[e].pub = p, exec[e].pc # "idle"
      PROVE  BooksInv'
  <2>1. RowBooked(p) /\ WorkBooked(e) BY DEF BooksInv
  <2>2. pubs[p].status # "none"
    BY <1>6 DEF BooksInv, RowInv, NotMade, Jobless
  <2>3. ExecutionWrites(e) => ledger[p].status = "in_progress"
    BY <1>6 DEF BooksInv, RowInv, PostInv, KeyInv, OneExecution
  <2>4. CASE ClaimExecution(e)
    <3>1. UNCHANGED <<posts, pubs, events, disowned>> BY <2>4 DEF ClaimExecution, tables, history
    <3>2. \A q \in Pub \ {p} : ledger'[q] = ledger[q]
      BY <1>1, <1>6, <2>4 DEF ClaimExecution, Claim
    <3>3. (exec'[e].pc = "mark" /\ exec'[e].pub = p /\ Open(p)) \/ ~ExecutionWrites(e)'
      BY <1>1, <1>6, <2>4 DEF ClaimExecution, ClaimOutcome, ExecutionWrites, Idle, ExecutionState
    <3>4. WorkBooked(e)'
      BY <2>1, <3>1, <3>3 DEF RowBooked, WorkBooked, ExecutionWrites
    <3>5. ledger'[p] = ledger[p] \/ ledger'[p].status = "in_progress"
      BY <1>1, <1>6, <2>4 DEF ClaimExecution, Claim
    <3>6. RowBooked(p)' BY <1>4, <2>1, <3>1, <3>5 DEF RowBooked, Open
    <3> QED BY <1>3, <1>4, <1>6, <3>1, <3>2, <3>4, <3>6, ExecutionBooks
  <2>5. CASE EndJob(e) \/ WorkerVanishes(e) \/ DeliveredAgain(e)
    <3>1. UNCHANGED <<ledger, posts, pubs, events, disowned>>
      BY <2>5 DEF EndJob, WorkerVanishes, DeliveredAgain, tables, history
    <3>2. exec'[e] = exec[e] \/ exec'[e].pc = "idle"
      BY <1>1, <2>5 DEF EndJob, WorkerVanishes, DeliveredAgain, Idle
    <3>3. WorkBooked(e)' BY <1>4, <2>1, <3>1, <3>2 DEF WorkBooked, ExecutionWrites
    <3>4. RowBooked(p)' BY <1>4, <2>1, <3>1 DEF RowBooked, Open
    <3> QED BY <1>3, <1>4, <1>6, <3>1, <3>3, <3>4, ExecutionBooks
  <2>6. CASE MarkRunning(e)
    <3>1. /\ exec[e].pc = "mark" /\ UNCHANGED <<ledger, posts, events, disowned>>
          /\ SetStatus(p, "running") \/ UNCHANGED pubs
      BY <1>6, <2>6 DEF MarkRunning, Running, history
    <3>2. exec'[e].pub = p /\ exec'[e].pc \in {"call", "unwind"}
      BY <1>1, <1>6, <2>6 DEF MarkRunning, Goes, Raises, ExecutionState
    <3>3. ExecutionWrites(e) /\ Clean(p) BY <1>1, <1>6, <3>1 DEF CallsClean, ExecutionWrites
    <3>4. /\ \A q \in Pub \ {p} : pubs'[q] = pubs[q]
          /\ pubs'[p].status = "running" \/ pubs'[p] = pubs[p]
      BY <1>1, <3>1 DEF SetStatus, PubRow
    <3>5. WorkBooked(e)'
      BY <1>6, <2>1, <3>1, <3>2 DEF WorkBooked, ExecutionWrites
    <3>6. RowBooked(p)'
      BY <1>4, <2>1, <2>3, <3>1, <3>3, <3>4 DEF RowBooked, Clean, Posted, Open
    <3> QED BY <1>3, <1>4, <1>6, <3>1, <3>3, <3>4, <3>5, <3>6, ExecutionBooks
  <2>7. CASE CallTool(e) \/ CallRest(e)
    <3>1. exec[e].pc \in {"call", "rest"} /\ UNCHANGED <<ledger, pubs, events, disowned>>
      BY <2>7 DEF CallTool, CallRest, Running, tables, history
    <3>2. ExecutionWrites(e) /\ Clean(p) BY <1>1, <1>6, <3>1 DEF CallsClean, ExecutionWrites
    <3>3. \/ Goes(e, "rest") /\ UNCHANGED posts
          \/ \E accepted \in BOOLEAN, verdict \in Verdict :
                Called(e, accepted, verdict) /\ (verdict = "ok" => accepted)
      BY <2>7 DEF CallTool, CallRest, Verdict
    <3>4. /\ exec'[e].pub = p /\ exec'[e].pc \in {"rest", "book", "except"}
          /\ \A q \in Pub \ {p} : posts'[q] = posts[q]
          /\ posts'[p] \in {posts[p], posts[p] + 1}
          /\ exec'[e].pc = "book" => posts'[p] = posts[p] + 1
      <4>1. CASE Goes(e, "rest") /\ UNCHANGED posts
        BY <1>1, <1>6, <4>1 DEF Goes, ExecutionState
      <4>2. ASSUME NEW accepted \in BOOLEAN, NEW verdict \in Verdict,
                   Called(e, accepted, verdict), verdict = "ok" => accepted
            PROVE  /\ exec'[e].pub = p /\ exec'[e].pc \in {"rest", "book", "except"}
                   /\ \A q \in Pub \ {p} : posts'[q] = posts[q]
                   /\ posts'[p] \in {posts[p], posts[p] + 1}
                   /\ exec'[e].pc = "book" => posts'[p] = posts[p] + 1
        <5>1. PICK r \in {None, "transient", "permanent"}, label \in {"book", "except"} :
                /\ exec' = [exec EXCEPT ![e].accepted = accepted, ![e].error = r, ![e].pc = label]
                /\ label = "book" => accepted
          BY <4>2 DEF Called
        <5>2. exec'[e].pc = label /\ exec'[e].pub = p
          BY <1>1, <1>6, <5>1 DEF ExecutionState
        <5>3. /\ \A q \in Pub \ {p} : posts'[q] = posts[q]
              /\ posts'[p] = IF accepted THEN posts[p] + 1 ELSE posts[p]
          BY <1>1, <1>6, <4>2 DEF Called
        <5> QED BY <5>1, <5>2, <5>3
      <4> QED BY <3>3, <4>1, <4>2
    <3>5. posts[p] \in Nat BY <1>1
    <3>6. WorkBooked(e)'
      BY <1>6, <2>1, <3>1, <3>4, <3>5 DEF WorkBooked, ExecutionWrites
    <3>7. RowBooked(p)'
      BY <1>4, <2>1, <2>3, <3>1, <3>2, <3>4, <3>5 DEF RowBooked, Open
    <3> QED BY <1>3, <1>4, <1>6, <3>1, <3>2, <3>4, <3>6, <3>7, ExecutionBooks
  <2>8. CASE BookPublication(e)
    <3>1. exec[e].pc = "book" /\ UNCHANGED <<ledger, posts, events, disowned>>
      BY <2>8 DEF BookPublication, Running, history
    <3>2. ExecutionWrites(e) /\ posts[p] > 0 BY <1>6, <2>1, <3>1 DEF WorkBooked, ExecutionWrites
    <3>3. \/ SetStatus(p, FinalStatus(p)) /\ Goes(e, "content")
          \/ UNCHANGED pubs /\ \E r : Raises(e, r, "except")
      BY <1>6, <2>8 DEF BookPublication, BookFails
    <3>4. /\ exec'[e].pub = p /\ \A q \in Pub \ {p} : pubs'[q] = pubs[q]
          /\ \/ /\ pubs'[p].status \in Posted /\ exec'[e].pc = "content"
                /\ pubs'[p].timing = pubs[p].timing
             \/ pubs'[p] = pubs[p] /\ exec'[e].pc = "except"
      <4>1. CASE SetStatus(p, FinalStatus(p)) /\ Goes(e, "content")
        <5>1. FinalStatus(p) \in Posted /\ exec'[e].pub = p /\ exec'[e].pc = "content"
          BY <1>1, <1>6, <4>1 DEF FinalStatus, Posted, Goes, ExecutionState
        <5>2. /\ \A q \in Pub \ {p} : pubs'[q] = pubs[q]
              /\ pubs'[p].status = FinalStatus(p) /\ pubs'[p].timing = pubs[p].timing
          BY <1>1, <4>1 DEF SetStatus, PubRow
        <5> QED BY <5>1, <5>2
      <4>2. CASE UNCHANGED pubs /\ \E r : Raises(e, r, "except")
        BY <1>1, <1>6, <4>2 DEF Raises, ExecutionState
      <4> QED BY <3>3, <4>1, <4>2
    <3>5. WorkBooked(e)'
      BY <1>6, <2>1, <3>1, <3>4 DEF WorkBooked, ExecutionWrites
    <3>6. RowBooked(p)'
      BY <1>4, <2>1, <2>2, <2>3, <3>1, <3>2, <3>4 DEF RowBooked, Open
    <3> QED BY <1>3, <1>4, <1>6, <3>1, <3>2, <3>4, <3>5, <3>6, ExecutionBooks
  <2>9. CASE BookContent(e) \/ BookCalendar(e)
    <3>1. /\ exec[e].pc \in {"content", "calendar"} /\ UNCHANGED <<ledger, posts, pubs, disowned>>
          /\ \A q \in Pub \ {p} : events'[q] = events[q]
      BY <1>1, <1>6, <2>9 DEF BookContent, BookCalendar, Running, history
    <3>2. ExecutionWrites(e) BY <3>1 DEF ExecutionWrites
    <3>3. /\ exec'[e].pub = p
          /\ \/ exec'[e].pc = "calendar" /\ UNCHANGED events
             \/ exec'[e].pc = "settle" /\ pubs[p].timing # "later" /\ UNCHANGED events
             \/ exec'[e].pc = "settle" /\ events'[p] = events[p] + 1
             \/ exec'[e].pc = "except" /\ UNCHANGED events
      <4>1. CASE BookContent(e)
        <5>1. UNCHANGED events /\ \/ Goes(e, "calendar")
                                  \/ Goes(e, "settle") /\ pubs[p].timing # "later"
                                  \/ \E r : Raises(e, r, "except")
          BY <1>6, <4>1 DEF BookContent, BookFails, FinalStatus
        <5> QED BY <1>1, <1>6, <5>1 DEF Goes, Raises, ExecutionState
      <4>2. CASE BookCalendar(e)
        <5>1. \/ events' = [events EXCEPT ![p] = @ + 1] /\ Goes(e, "settle")
              \/ UNCHANGED events /\ \E r : Raises(e, r, "except")
          BY <1>6, <4>2 DEF BookCalendar, BookFails
        <5> QED BY <1>1, <1>6, <5>1 DEF Goes, Raises, ExecutionState
      <4> QED BY <2>9, <4>1, <4>2
    <3>4. WorkBooked(e)'
      BY <1>4, <1>6, <2>1, <3>1, <3>3 DEF WorkBooked, ExecutionWrites
    <3>5. RowBooked(p)'
      BY <1>4, <2>1, <2>3, <3>1, <3>2 DEF RowBooked, Open
    <3> QED BY <1>3, <1>4, <1>6, <3>1, <3>2, <3>4, <3>5, ExecutionBooks
  <2>10. CASE BookFailure(e)
    <3>1. /\ exec[e].pc = "except" /\ UNCHANGED <<ledger, posts, events>>
          /\ SetStatus(p, "failed") \/ UNCHANGED pubs
          /\ disowned' = IF exec[e].accepted THEN disowned \cup {p} ELSE disowned
          /\ exec' = [exec EXCEPT ![e].pc = "unwind"]
      BY <1>6, <2>10 DEF BookFailure, Running, Goes
    <3>2. exec'[e].pc = "unwind" /\ exec'[e].pub = p
      BY <1>1, <1>6, <3>1 DEF ExecutionState
    <3>3. /\ \A q \in Pub \ {p} : pubs'[q] = pubs[q]
          /\ pubs'[p].status = "failed" \/ pubs'[p] = pubs[p]
      BY <1>1, <3>1 DEF SetStatus, PubRow
    <3>4. ExecutionWrites(e) /\ disowned \subseteq disowned' BY <3>1 DEF ExecutionWrites
    <3>5. WorkBooked(e)'
      BY <1>6, <2>1, <3>1, <3>2, <3>4 DEF WorkBooked, ExecutionWrites
    <3>6. RowBooked(p)'
      BY <1>4, <2>1, <2>3, <3>1, <3>3, <3>4 DEF RowBooked, Open, Posted
    <3> QED BY <1>3, <1>4, <1>6, <3>1, <3>3, <3>4, <3>5, <3>6, ExecutionBooks
  <2>11. CASE ReleaseExecution(e) \/ SettleExecution(e)
    <3>1. exec[e].pc \in {"unwind", "settle"} /\ UNCHANGED <<posts, pubs, events, disowned>>
      BY <2>11 DEF ReleaseExecution, SettleExecution, Running, tables, history
    <3>2. ExecutionWrites(e) BY <3>1 DEF ExecutionWrites
    <3>3. WorkBooked(e)'
      <4>1. exec'[e].pc \in {"idle", "job_error"}
        BY <1>1, <2>11 DEF ReleaseExecution, SettleExecution, Goes, Raises, Idle, ExecutionState
      <4> QED BY <4>1 DEF WorkBooked, ExecutionWrites
    <3>4. \A q \in Pub \ {p} : ledger'[q] = ledger[q]
      BY <1>1, <1>6, <2>11 DEF ReleaseExecution, SettleExecution, FailKey, CompleteKey, Finish
    <3>5. RowBooked(p)'
      <4>1. CASE UNCHANGED ledger BY <1>4, <2>1, <3>1, <4>1 DEF RowBooked, Open
      <4>2. CASE ReleaseExecution(e) /\ FailKey(p)
        <5>1. exec[e].pc = "unwind" BY <4>2 DEF ReleaseExecution, Running
        <5>2. Clean(p) /\ (events[p] = 0 \/ p \in disowned)
          BY <1>1, <1>6, <2>1, <5>1 DEF CallsClean, WorkBooked, ExecutionWrites
        <5>3. ledger'[p].status = "failed"
          BY <1>1, <2>3, <3>2, <4>2 DEF FailKey, Finish, Records, Row
        <5> QED BY <1>4, <2>1, <3>1, <5>2, <5>3 DEF RowBooked, Clean
      <4>3. CASE SettleExecution(e) /\ CompleteKey(p, p)
        <5>1. exec[e].pc = "settle" BY <4>3 DEF SettleExecution, Running
        <5>2. ledger'[p].status = "completed"
          BY <1>1, <2>3, <3>2, <4>3 DEF CompleteKey, Finish, Records, Row
        <5> QED BY <1>4, <1>6, <2>1, <2>2, <3>1, <5>1, <5>2 DEF RowBooked, WorkBooked, Open
      <4> QED BY <1>6, <2>11, <4>1, <4>2, <4>3 DEF ReleaseExecution, SettleExecution
    <3> QED BY <1>3, <1>4, <1>6, <3>1, <3>2, <3>3, <3>4, <3>5, ExecutionBooks
  <2> QED BY <1>6, <2>4, <2>5, <2>6, <2>7, <2>8, <2>9, <2>10, <2>11 DEF Execution, StartJob, Running
<1> QED BY <1>1, <1>5, <1>6 DEF ExecutionHasPub, Execution, WorkerVanishes, DeliveredAgain, Running,
        ClaimExecution, MarkRunning, CallTool, CallRest, BookPublication, BookContent, BookCalendar,
        BookFailure, ReleaseExecution, SettleExecution, EndJob

LEMMA StepKeepsBooks ==
  ASSUME BooksInv, [Next]_vars
  PROVE  BooksInv'
<1>1. RowInv' BY StepKeepsRows DEF BooksInv
<1>2. CASE UNCHANGED vars
  <2>1. UNCHANGED <<ledger, pubs, posts, events, exec, disowned, misqueued>>
    BY <1>2 DEF vars, tables, history
  <2> QED BY <1>1, <2>1 DEF BooksInv, RowBooked, WorkBooked, ExecutionWrites, Open
<1> QED BY <1>1, <1>2, RequestKeepsBooks, ExecutionKeepsBooks DEF Next

\* The books agree with the platform and the calendar once the work is done or
\* has failed, but for what was disowned or misqueued or left in progress:
\* BooksAgree (_execute_publication_once books them one after another).
THEOREM BooksAlwaysAgree == Spec => []BooksAgree
<1>1. BooksInv => BooksAgree
  BY DEF BooksInv, RowBooked, BooksAgree, AcceptedIsBooked, ScheduledOnce
<1> QED BY <1>1, InitBooks, StepKeepsBooks, PTL DEF Spec

=============================================================================
