----------------------------- MODULE Publication ----------------------------
(***************************************************************************)
(* Publishing to the platform: the HTTP request that creates a publication *)
(* and its job under the client's Idempotency-Key, the job executions that *)
(* call the platform under the publication's own key, and the platform,    *)
(* whose answer may be lost.  Jobs are delivered at least once and may run *)
(* twice at a time, as JobLease allows.                                    *)
(***************************************************************************)
EXTENDS IdempotencyLedger, Naturals, FiniteSets

CONSTANTS
    Client,             \* HTTP requests, retries of one another included
    Executor,           \* job executions at a time
    HeaderKey,          \* Idempotency-Key values
    MaxPublications,    \* bound on publication rows
    MaxAttempts,        \* starts of one job after which no retry is scheduled
    MaxFaults           \* bound on crashes, database errors and queue errors

Pub == 1..MaxPublications
Timing == {"now", "later"}      \* what the request payloads differ in

ASSUME PublicationAssumption ==
    /\ {MaxPublications, MaxAttempts, MaxFaults} \subseteq Nat
    /\ HeaderKey \cap Pub = {}
    /\ Keys = HeaderKey \cup Pub
    /\ None \notin Keys

VARIABLES
    pubs,       \* platform_publications
    events,     \* calendar events saved for each publication
    content,    \* status of the content that is published
    deliveries, \* deliveries of each publication's job in the queue
    attempts,   \* starts of that job
    posts,      \* times the platform accepted each publication
    client,     \* requests: where they are, key, payload, publication
    exec,       \* executions: where they are, publication, error, accepted
    disowned,   \* publications with an accepted post that was booked as a failure
    misqueued,  \* enqueues that raised although the queue took the job
    faults

tables == <<pubs, events, content>>
jobs == <<deliveries, attempts>>
history == <<disowned, misqueued>>
vars == <<ledger, tables, jobs, posts, client, exec, history, faults>>

Posted == {"completed", "scheduled"}
NoPublication == [status |-> "none", key |-> None, timing |-> None]

Outside(label) == [pc |-> label, key |-> None, timing |-> None, pub |-> None]

Init ==
    /\ LedgerInit
    /\ pubs = [p \in Pub |-> NoPublication]
    /\ events = [p \in Pub |-> 0]
    /\ content = "draft"
    /\ deliveries = [p \in Pub |-> 0]
    /\ attempts = [p \in Pub |-> 0]
    /\ posts = [p \in Pub |-> 0]
    /\ client = [c \in Client |-> Outside("idle")]
    /\ exec = [e \in Executor |-> [pc |-> "idle", pub |-> None, error |-> None, accepted |-> FALSE]]
    /\ disowned = {} /\ misqueued = {}
    /\ faults = 0

Fault == faults < MaxFaults /\ faults' = faults + 1

SetStatus(p, s) == pubs' = [pubs EXCEPT ![p].status = s]

-----------------------------------------------------------------------------
(* POST /publish and /schedule: idempotent_write around create_and_enqueue. *)

At(c, label) == client[c].pc = label
ClientGoes(c, label) == client' = [client EXCEPT ![c].pc = label]
\* The request ends with an error: 4xx, 5xx or a dead process.
Errs(c) == client' = [client EXCEPT ![c] = Outside("failed")]

Post(c, k, t) ==
    /\ At(c, "idle")
    /\ client' = [client EXCEPT ![c] = [pc |-> "claim", key |-> k, timing |-> t, pub |-> None]]
    /\ UNCHANGED <<ledger, tables, jobs, posts, exec, history, faults>>

ClaimRequest(c) ==
    LET k == client[c].key  t == client[c].timing IN
    /\ At(c, "claim")
    /\ IF k = None THEN ClientGoes(c, "create") /\ UNCHANGED ledger
       ELSE /\ Claim(k, t)
            /\ client' = IF ClaimOutcome(k, t) = "claimed" THEN [client EXCEPT ![c].pc = "create"]
                         ELSE IF ClaimOutcome(k, t) = "replay"
                         THEN [client EXCEPT ![c].pc = "answered", ![c].pub = ledger[k].result]
                         ELSE [client EXCEPT ![c] = Outside("failed")]
    /\ UNCHANGED <<tables, jobs, posts, exec, history, faults>>

\* create_publication_request, or one of its validation or database errors.
CreatePublication(c) ==
    /\ At(c, "create")
    /\ \/ \E p \in Pub :
            /\ pubs[p].status = "none"
            /\ \A q \in Pub : q < p => pubs[q].status # "none"
            /\ pubs' = [pubs EXCEPT ![p] = [status |-> "queued", key |-> client[c].key,
                                            timing |-> client[c].timing]]
            /\ client' = [client EXCEPT ![c].pc = "enqueue", ![c].pub = p]
            /\ UNCHANGED faults
       \/ Fault /\ ClientGoes(c, "unwind") /\ UNCHANGED pubs
    /\ UNCHANGED <<ledger, events, content, jobs, posts, exec, history>>

\* create_and_enqueue_job: done, refused (capacity, Redis), or an error
\* although the queue has the job.
EnqueueJob(c) ==
    LET p == client[c].pub IN
    /\ At(c, "enqueue")
    /\ \/ /\ deliveries' = [deliveries EXCEPT ![p] = @ + 1]
          /\ ClientGoes(c, "complete")
          /\ UNCHANGED <<misqueued, faults>>
       \/ Fault /\ ClientGoes(c, "undo") /\ UNCHANGED <<deliveries, misqueued>>
       \/ /\ Fault
          /\ deliveries' = [deliveries EXCEPT ![p] = @ + 1]
          /\ misqueued' = misqueued \cup {p}
          /\ ClientGoes(c, "undo")
    /\ UNCHANGED <<ledger, tables, attempts, posts, exec, disowned>>

\* The except branch marks the publication, whatever became of it, and raises.
UndoPublication(c) ==
    /\ At(c, "undo")
    /\ \/ SetStatus(client[c].pub, "failed") /\ UNCHANGED faults
       \/ Fault /\ UNCHANGED pubs
    /\ ClientGoes(c, "unwind")
    /\ UNCHANGED <<ledger, events, content, jobs, posts, exec, history>>

\* idempotent_write releases the key of a write that raised.
ReleaseRequest(c) ==
    /\ At(c, "unwind")
    /\ Errs(c)
    /\ \/ /\ IF client[c].key = None THEN UNCHANGED ledger ELSE FailKey(client[c].key)
          /\ UNCHANGED faults
       \/ Fault /\ client[c].key # None /\ UNCHANGED ledger
    /\ UNCHANGED <<tables, jobs, posts, exec, history>>

CompleteRequest(c) ==
    /\ At(c, "complete")
    /\ \/ /\ IF client[c].key = None THEN UNCHANGED ledger
             ELSE CompleteKey(client[c].key, client[c].pub)
          /\ ClientGoes(c, "answered")
          /\ UNCHANGED faults
       \/ Fault /\ client[c].key # None /\ Errs(c) /\ UNCHANGED ledger
    /\ UNCHANGED <<tables, jobs, posts, exec, history>>

ApiCrash(c) ==
    /\ client[c].pc \notin {"idle", "answered", "failed"}
    /\ Fault
    /\ Errs(c)
    /\ UNCHANGED <<ledger, tables, jobs, posts, exec, history>>

Request(c) ==
    \/ \E k \in HeaderKey \cup {None}, t \in Timing : Post(c, k, t)
    \/ ClaimRequest(c) \/ CreatePublication(c) \/ EnqueueJob(c) \/ UndoPublication(c)
    \/ ReleaseRequest(c) \/ CompleteRequest(c) \/ ApiCrash(c)

-----------------------------------------------------------------------------
(* The job: execute_publication, inside idempotent_write_async.            *)

Running(e, label) == exec[e].pc = label
Goes(e, label) == exec' = [exec EXCEPT ![e].pc = label]
Idle == [pc |-> "idle", pub |-> None, error |-> None, accepted |-> FALSE]
Raises(e, error, label) == exec' = [exec EXCEPT ![e].pc = label, ![e].error = error]

\* A delivery starts the job and reads the publication: a posted one is done.
StartJob(e) ==
    /\ Running(e, "idle")
    /\ \E p \in Pub :
        /\ deliveries[p] > 0
        /\ deliveries' = [deliveries EXCEPT ![p] = @ - 1]
        /\ attempts' = [attempts EXCEPT ![p] = @ + 1]
        /\ exec' = IF pubs[p].status \in Posted THEN exec
                   ELSE [exec EXCEPT ![e] = [Idle EXCEPT !.pc = "claim", !.pub = p]]
    /\ UNCHANGED <<ledger, tables, posts, client, history, faults>>

\* Mutant: the claim is inside the try, so a refused one marks the publication.
ClaimExecutionBooked(e) ==
    LET p == exec[e].pub IN
    /\ Running(e, "claim")
    /\ Claim(p, "execute")
    /\ exec' = IF ClaimOutcome(p, "execute") = "claimed" THEN [exec EXCEPT ![e].pc = "mark"]
               ELSE IF ClaimOutcome(p, "execute") = "replay" THEN [exec EXCEPT ![e] = Idle]
               ELSE [exec EXCEPT ![e].pc = "except", ![e].error = "transient"]
    /\ UNCHANGED <<tables, jobs, posts, client, history, faults>>

\* A key that is in flight is an error like any other to the job.
ClaimExecution(e) ==
    LET p == exec[e].pub IN
    /\ Running(e, "claim")
    /\ Claim(p, "execute")
    /\ exec' = IF ClaimOutcome(p, "execute") = "claimed" THEN [exec EXCEPT ![e].pc = "mark"]
               ELSE IF ClaimOutcome(p, "execute") = "replay" THEN [exec EXCEPT ![e] = Idle]
               ELSE [exec EXCEPT ![e].pc = "job_error", ![e].error = "transient"]
    /\ UNCHANGED <<tables, jobs, posts, client, history, faults>>

MarkRunning(e) ==
    /\ Running(e, "mark")
    /\ \/ SetStatus(exec[e].pub, "running") /\ Goes(e, "call") /\ UNCHANGED faults
       \/ Fault /\ UNCHANGED pubs /\ \E r \in {"transient", "permanent"} : Raises(e, r, "unwind")
    /\ UNCHANGED <<ledger, events, content, jobs, posts, client, history>>

\* What a publish call can come to, over MCP or REST: the platform may accept
\* it, and the answer may say so, say nothing, or say it failed.
Verdict == {"ok", "unknown", "error"}

Called(e, accepted, verdict) ==
    LET p == exec[e].pub IN
    /\ posts' = [posts EXCEPT ![p] = IF accepted THEN @ + 1 ELSE @]
    /\ \E r \in IF verdict = "error" THEN {"transient", "permanent"} ELSE {"permanent"} :
        exec' = [exec EXCEPT ![e].accepted = accepted,
                             ![e].error = IF verdict = "ok" THEN None ELSE r,
                             ![e].pc = IF verdict = "ok" THEN "book" ELSE "except"]

\* Mutant: the fallback is tried after every error, as for a read.
CallToolFallback(e) ==
    /\ Running(e, "call")
    /\ \/ Goes(e, "rest") /\ UNCHANGED <<posts, faults>>
       \/ Called(e, TRUE, "ok") /\ UNCHANGED faults
       \/ /\ Fault
          /\ posts' = [posts EXCEPT ![exec[e].pub] = @ + 1]
          /\ Goes(e, "rest")
    /\ UNCHANGED <<ledger, tables, jobs, client, history>>

\* A call that failed before the request was sent, or that the server declined,
\* goes to the REST fallback; an ambiguous one after that does not.
CallTool(e) ==
    /\ Running(e, "call")
    /\ \/ Goes(e, "rest") /\ UNCHANGED <<posts, faults>>
       \/ Called(e, TRUE, "ok") /\ UNCHANGED faults
       \/ \E accepted \in BOOLEAN : Called(e, accepted, "unknown") /\ Fault
       \* isError: the tool ran and reported a failure.
       \/ \E accepted \in BOOLEAN : Called(e, accepted, "error") /\ Fault
    /\ UNCHANGED <<ledger, tables, jobs, client, history>>

\* The same over the HTTP API: a readable error body is its verdict.
CallRest(e) ==
    /\ Running(e, "rest")
    /\ \/ Called(e, TRUE, "ok") /\ UNCHANGED faults
       \/ \E accepted \in BOOLEAN : Called(e, accepted, "unknown") /\ Fault
       \/ \E accepted \in BOOLEAN : Called(e, accepted, "error") /\ Fault
    /\ UNCHANGED <<ledger, tables, jobs, client, history>>

FinalStatus(p) == IF pubs[p].timing = "later" THEN "scheduled" ELSE "completed"

\* Mutant: the bookkeeping is outside the try whose except marks the publication.
BookFailsUnbooked(e) == Fault /\ \E r \in {"transient", "permanent"} : Raises(e, r, "unwind")

BookFails(e) == Fault /\ \E r \in {"transient", "permanent"} : Raises(e, r, "except")

\* The publication, its content and the calendar are booked one after another.
BookPublication(e) ==
    /\ Running(e, "book")
    /\ \/ SetStatus(exec[e].pub, FinalStatus(exec[e].pub)) /\ Goes(e, "content") /\ UNCHANGED faults
       \/ BookFails(e) /\ UNCHANGED pubs
    /\ UNCHANGED <<ledger, events, content, jobs, posts, client, history>>

BookContent(e) ==
    LET final == FinalStatus(exec[e].pub) IN
    /\ Running(e, "content")
    /\ \/ /\ content' = IF final = "scheduled" THEN "scheduled" ELSE "published"
          /\ Goes(e, IF final = "scheduled" THEN "calendar" ELSE "settle")
          /\ UNCHANGED faults
       \/ BookFails(e) /\ UNCHANGED content
    /\ UNCHANGED <<ledger, pubs, events, jobs, posts, client, history>>

BookCalendar(e) ==
    /\ Running(e, "calendar")
    /\ \/ events' = [events EXCEPT ![exec[e].pub] = @ + 1] /\ Goes(e, "settle") /\ UNCHANGED faults
       \/ BookFails(e) /\ UNCHANGED events
    /\ UNCHANGED <<ledger, pubs, content, jobs, posts, client, history>>

\* except Exception: the publication failed, whatever the platform has.
BookFailure(e) ==
    LET p == exec[e].pub IN
    /\ Running(e, "except")
    /\ \/ SetStatus(p, "failed") /\ UNCHANGED faults
       \/ Fault /\ UNCHANGED pubs
    /\ disowned' = IF exec[e].accepted THEN disowned \cup {p} ELSE disowned
    /\ Goes(e, "unwind")
    /\ UNCHANGED <<ledger, events, content, jobs, posts, client, misqueued>>

ReleaseExecution(e) ==
    /\ Running(e, "unwind")
    /\ \/ FailKey(exec[e].pub) /\ UNCHANGED faults
       \/ Fault /\ UNCHANGED ledger
    /\ Goes(e, "job_error")
    /\ UNCHANGED <<tables, jobs, posts, client, history>>

SettleExecution(e) ==
    /\ Running(e, "settle")
    /\ \/ CompleteKey(exec[e].pub, exec[e].pub) /\ exec' = [exec EXCEPT ![e] = Idle] /\ UNCHANGED faults
       \/ Fault /\ UNCHANGED ledger /\ Raises(e, "transient", "job_error")
    /\ UNCHANGED <<tables, jobs, posts, client, history>>

\* The runner schedules a retry of a transient error while the budget lasts.
EndJob(e) ==
    LET p == exec[e].pub IN
    /\ Running(e, "job_error")
    /\ exec' = [exec EXCEPT ![e] = Idle]
    /\ deliveries' = IF exec[e].error = "transient" /\ attempts[p] < MaxAttempts
                     THEN [deliveries EXCEPT ![p] = @ + 1] ELSE deliveries
    /\ UNCHANGED <<ledger, tables, attempts, posts, client, history, faults>>

\* A worker dies, or its task is cancelled, which no except Exception sees; the
\* reaper may deliver the job again.
WorkerVanishes(e) ==
    LET p == exec[e].pub IN
    /\ ~Running(e, "idle")
    /\ Fault
    /\ exec' = [exec EXCEPT ![e] = Idle]
    /\ \E n \in {0, 1} : deliveries' = [deliveries EXCEPT ![p] = @ + n]
    /\ UNCHANGED <<ledger, tables, attempts, posts, client, history>>

\* A lease runs out under a live worker: the job is delivered a second time.
DeliveredAgain(e) ==
    /\ ~Running(e, "idle")
    /\ Fault
    /\ deliveries' = [deliveries EXCEPT ![exec[e].pub] = @ + 1]
    /\ UNCHANGED <<ledger, tables, attempts, posts, client, exec, history>>

Execution(e) ==
    \/ StartJob(e) \/ ClaimExecution(e) \/ MarkRunning(e) \/ CallTool(e) \/ CallRest(e)
    \/ BookPublication(e) \/ BookContent(e) \/ BookCalendar(e) \/ BookFailure(e)
    \/ ReleaseExecution(e) \/ SettleExecution(e) \/ EndJob(e)

Next ==
    \/ \E c \in Client : Request(c)
    \/ \E e \in Executor : Execution(e) \/ WorkerVanishes(e) \/ DeliveredAgain(e)

Spec == Init /\ [][Next]_vars

-----------------------------------------------------------------------------
Records == Row(Timing \cup {"execute"}, Pub)
PubRow == [status : {"none", "queued", "running", "failed"} \cup Posted,
           key : HeaderKey \cup {None}, timing : Timing \cup {None}]
RequestState == [pc : {"idle", "claim", "create", "enqueue", "undo", "unwind", "complete",
                       "answered", "failed"},
                 key : HeaderKey \cup {None}, timing : Timing \cup {None}, pub : Pub \cup {None}]
ExecutionState == [pc : {"idle", "claim", "mark", "call", "rest", "book", "content", "calendar",
                         "except", "unwind", "settle", "job_error"},
                   pub : Pub \cup {None}, error : {None, "transient", "permanent"},
                   accepted : BOOLEAN]

\* Every variable has its type.
TypeOK ==
    /\ ledger \in [Keys -> Records]
    /\ pubs \in [Pub -> PubRow]
    /\ events \in [Pub -> Nat] /\ content \in {"draft", "published", "scheduled"}
    /\ deliveries \in [Pub -> Nat] /\ attempts \in [Pub -> Nat] /\ posts \in [Pub -> Nat]
    /\ client \in [Client -> RequestState]
    /\ exec \in [Executor -> ExecutionState]
    /\ disowned \subseteq Pub /\ misqueued \subseteq Pub
    /\ faults \in Nat

\* The platform has a publication at most once, through crashes, retries and
\* duplicate deliveries, unless its accepted post was booked as a failure, by a
\* database error or because the answer was lost or wrong
\* (idempotent_write_async around _execute_publication_once).
PostedOnce == \A p \in Pub : posts[p] > 1 => p \in disowned

\* However often a request is retried under its key, one of the publications
\* made for it is posted; only an enqueue that raised after the queue took the
\* job can add another (_enqueue_publication).
KeyPostsOnce ==
    \A p, q \in Pub :
        p # q /\ pubs[p].key = pubs[q].key /\ pubs[p].key # None /\ posts[p] > 0 /\ posts[q] > 0
            => {p, q} \cap misqueued # {}

\* Nobody works on a publication.
Unattended(p) == \A e \in Executor : exec[e].pub # p

\* An accepted post is booked as posted once nobody works on it, unless it was
\* booked as a failure or its key was left in progress for a person to look at;
\* and nothing is booked that was not posted.
AcceptedIsBooked ==
    \A p \in Pub \ misqueued :
        /\ pubs[p].status \in Posted => posts[p] > 0
        /\ posts[p] > 0 /\ Unattended(p)
            => \/ pubs[p].status \in Posted
               \/ p \in disowned
               \/ ledger[p].status = "in_progress"

\* A scheduled publication that is done has exactly one calendar event.
ScheduledOnce ==
    \A p \in Pub : ledger[p].status = "completed" /\ pubs[p].timing = "later" /\ p \notin disowned
        => events[p] = 1

\* The books agree with the platform and the calendar once the work is done or
\* has failed (_execute_publication_once books them one after another).
BooksAgree == AcceptedIsBooked /\ ScheduledOnce

\* A posted publication is never taken back by a late request or execution,
\* unless the books could not be kept.
PostedStays ==
    [][\A p \in Pub : pubs[p].status \in Posted /\ pubs'[p].status # pubs[p].status
        => p \in disowned' \cup misqueued]_vars

\* Both uses of the ledger keep the promise of a key: one writer, no write after
\* one succeeded, and one result for every caller.
Writing(k) ==
    {c \in Client : client[c].key = k /\ client[c].pc \in {"create", "enqueue", "undo", "unwind", "complete"}}
        \cup {e \in Executor : exec[e].pub = k /\ exec[e].pc \notin {"idle", "claim", "job_error"}}

Given(k) ==
    {client[c].pub : c \in {c \in Client : client[c].key = k /\ client[c].pc = "answered"}}

Once == INSTANCE WriteOnce WITH
    Results <- Pub,
    state <- [k \in Keys |-> IF Open(k) THEN "open"
                             ELSE IF ledger[k].status = "in_progress" THEN "held" ELSE "settled"],
    writers <- [k \in Keys |-> Cardinality(Writing(k))],
    answers <- [k \in Keys |-> IF k \in Pub /\ ledger[k].status = "completed" THEN {k} ELSE Given(k)]

KeepsThePromise == Once!OnceSpec
=============================================================================
