--------------------------- MODULE RunEventStream ---------------------------
(***************************************************************************)
(* Watching a pipeline run: the event table, the notification hub of an    *)
(* API process, the SSE generator of stream_pipeline_run and the browser's *)
(* reconnecting reader.  The table is written as RunEventLog promises,     *)
(* which PipelineRun is shown to implement.                                *)
(***************************************************************************)
EXTENDS Naturals, Sequences, FiniteSetsExt

CONSTANTS
    Watcher,        \* browsers watching the run, each with one stream at a time
    PageSize,       \* rows one read returns (100 in the code)
    MaxRetries,     \* opts.maxRetries of the reader
    NotifyEnabled,  \* SSE_NOTIFY_ENABLED
    MaxEvents,      \* bound on the log
    MaxBreaks,      \* bound on connections lost or refused
    MaxOutages      \* bound on listener connections lost

ASSUME StreamAssumption ==
    /\ PageSize \in Nat \ {0}
    /\ {MaxRetries, MaxEvents, MaxBreaks, MaxOutages} \subseteq Nat
    /\ NotifyEnabled \in BOOLEAN

VARIABLES
    phase, tail, saved,     \* the run as RunEventLog sees it
    log,        \* agent_run_events of the run, by seq
    lapsed,     \* the worker is gone and the run lease has run out
    listener,   \* the hub's thread: "off", "catchup" after LISTEN, "loop" when healthy
    link,       \* the database session of the listener is alive
    pending,    \* notifications the session has not read yet
    scheduled,  \* streams whose event will be set by call_soon_threadsafe
    woken,      \* the asyncio.Event of each stream
    pc,         \* where each stream's generator is
    last,       \* last_seq of the stream
    upto,       \* seq of the last row of the page it holds
    full,       \* the page has PageSize rows
    openedAt,   \* length of the log when the stream opened
    reader,     \* the browser's connection state
    cursor,     \* its lastSeq
    attempt,    \* its reconnect attempts
    got,        \* seqs it has applied
    breaks, outages

logVars == <<phase, tail, saved, log, lapsed>>
hubVars == <<listener, link, pending, outages>>
localVars == <<last, upto, full, openedAt>>
streamVars == <<pc, localVars>>
readerVars == <<reader, cursor, attempt, got>>
vars == <<logVars, hubVars, scheduled, woken, streamVars, readerVars, breaks>>

Log == INSTANCE RunEventLog

Terminal == {"run_complete", "run_failed", "run_cancelled"}
Superseded(s) == log[s] \in Terminal /\ s < Len(log) /\ log[s + 1] = "run_resumed"
Subscribers == {w \in Watcher : pc[w] # "none"}

Init ==
    /\ Log!LogInit
    /\ log = <<>> /\ lapsed = FALSE
    /\ listener = "off" /\ link = FALSE /\ pending = 0
    /\ scheduled = {}
    /\ woken = [w \in Watcher |-> FALSE]
    /\ pc = [w \in Watcher |-> "none"]
    /\ last = [w \in Watcher |-> 0]
    /\ upto = [w \in Watcher |-> 0]
    /\ full = [w \in Watcher |-> FALSE]
    /\ openedAt = [w \in Watcher |-> 0]
    /\ reader = [w \in Watcher |-> "idle"]
    /\ cursor = [w \in Watcher |-> 0]
    /\ attempt = [w \in Watcher |-> 0]
    /\ got = [w \in Watcher |-> {}]
    /\ breaks = 0 /\ outages = 0

-----------------------------------------------------------------------------
(* The table.  The notification is part of the transaction that inserts    *)
(* the event, so a listening session has it at the commit.                 *)

Notify == pending' = IF link THEN pending + 1 ELSE pending

Record ==
    /\ log' = Append(log, tail')
    /\ Notify
    /\ UNCHANGED <<listener, link, outages>>

OpenRun == Log!Open /\ UNCHANGED <<log, lapsed, hubVars>>

\* A live worker reports progress, or the run ends or is cancelled.
WriteEvent ==
    /\ Len(log) < MaxEvents
    /\ \/ Log!Progress /\ ~lapsed /\ UNCHANGED lapsed
       \/ \E p \in {"completed", "failed"} : Log!End(p) /\ ~lapsed /\ UNCHANGED lapsed
       \/ Log!End("cancelled") /\ lapsed' = FALSE
       \/ Log!Reopen /\ UNCHANGED lapsed
    /\ Record

WorkerLost ==
    /\ phase = "running" /\ ~lapsed
    /\ Len(log) < MaxEvents
    /\ lapsed' = TRUE
    /\ UNCHANGED <<phase, tail, saved, log, hubVars>>

\* fail_expired_run: a no-op unless the run is running on a lapsed lease.
FailExpiredRun ==
    IF lapsed /\ phase = "running"
    THEN /\ Log!End("failed")
         /\ lapsed' = FALSE
         /\ Record
    ELSE UNCHANGED <<logVars, hubVars>>

\* GET /runs and /runs/{id} check the lease too.
ReadRun == lapsed /\ phase = "running" /\ FailExpiredRun

Table ==
    /\ OpenRun \/ WriteEvent \/ WorkerLost \/ ReadRun
    /\ UNCHANGED <<scheduled, woken, streamVars, readerVars, breaks>>

-----------------------------------------------------------------------------
(* The hub's listener thread.                                              *)

Publish == scheduled' = scheduled \cup Subscribers

\* The thread starts with the first stream of the process.
Listen ==
    /\ NotifyEnabled
    /\ listener = "off"
    /\ \E w \in Watcher : reader[w] # "idle"
    /\ listener' = "catchup" /\ link' = TRUE /\ pending' = 0
    /\ UNCHANGED <<outages, scheduled>>

WakeAll ==
    /\ listener = "catchup" /\ link
    /\ listener' = "loop"
    /\ Publish
    /\ UNCHANGED <<link, pending, outages>>

HandleNotification ==
    /\ listener = "loop" /\ pending > 0
    /\ pending' = pending - 1
    /\ Publish
    /\ UNCHANGED <<listener, link, outages>>

LoseLink ==
    /\ link
    /\ outages < MaxOutages
    /\ outages' = outages + 1
    /\ link' = FALSE /\ pending' = 0
    /\ UNCHANGED <<listener, scheduled>>

NoticeOutage ==
    /\ listener # "off" /\ ~link
    /\ listener' = "off"
    /\ UNCHANGED <<link, pending, outages, scheduled>>

Hub ==
    /\ Listen \/ WakeAll \/ HandleNotification \/ LoseLink \/ NoticeOutage
    /\ UNCHANGED <<logVars, woken, streamVars, readerVars, breaks>>

SetWoken(w) ==
    /\ w \in scheduled
    /\ scheduled' = scheduled \ {w}
    /\ woken' = [woken EXCEPT ![w] = TRUE]
    /\ UNCHANGED <<logVars, hubVars, streamVars, readerVars, breaks>>

-----------------------------------------------------------------------------
(* The generator of one stream.                                            *)

Goto(w, label) == pc' = [pc EXCEPT ![w] = label]

\* The generator is gone with its locals, and its event is unsubscribed.
EndStream(w) ==
    /\ Goto(w, "none")
    /\ last' = [last EXCEPT ![w] = 0]
    /\ upto' = [upto EXCEPT ![w] = 0]
    /\ full' = [full EXCEPT ![w] = FALSE]
    /\ openedAt' = [openedAt EXCEPT ![w] = 0]
    /\ woken' = [woken EXCEPT ![w] = FALSE]
    /\ scheduled' = scheduled \ {w}

ClearWoken(w) ==
    /\ pc[w] \in {"start", "head"}
    /\ woken' = [woken EXCEPT ![w] = FALSE]
    /\ Goto(w, "expire")
    /\ UNCHANGED <<logVars, hubVars, scheduled, localVars, readerVars, breaks>>

\* Mutant: the loop leaves expiry to the reaper.
NoExpiryCheck(w) ==
    /\ pc[w] = "expire"
    /\ Goto(w, "read")
    /\ UNCHANGED <<logVars, hubVars, scheduled, woken, localVars, readerVars, breaks>>

CheckExpiry(w) ==
    /\ pc[w] = "expire"
    /\ FailExpiredRun
    /\ Goto(w, "read")
    /\ UNCHANGED <<scheduled, woken, localVars, readerVars, breaks>>

ReadPage(w) ==
    /\ pc[w] = "read"
    /\ upto' = [upto EXCEPT ![w] = Min({last[w] + PageSize, Len(log)})]
    /\ full' = [full EXCEPT ![w] = last[w] + PageSize <= Len(log)]
    /\ Goto(w, "page")
    /\ UNCHANGED <<logVars, hubVars, scheduled, woken, last, openedAt, readerVars, breaks>>

\* Mutant: last_seq jumps to the end of the page before its rows are sent.
TakeLastEvent(w) ==
    /\ pc[w] = "page" /\ last[w] < upto[w]
    /\ last' = [last EXCEPT ![w] = upto[w]]
    /\ Goto(w, IF Superseded(upto[w]) THEN "page" ELSE "send")
    /\ UNCHANGED <<logVars, hubVars, scheduled, woken, upto, full, openedAt, readerVars, breaks>>

\* Mutant: the successor of a terminal event is sought in the page only.
TakeEventWithinPage(w) ==
    LET s == last[w] + 1 IN
    /\ pc[w] = "page" /\ s <= upto[w]
    /\ last' = [last EXCEPT ![w] = s]
    /\ Goto(w, IF Superseded(s) /\ s < upto[w] THEN "page" ELSE "send")
    /\ UNCHANGED <<logVars, hubVars, scheduled, woken, upto, full, openedAt, readerVars, breaks>>

\* The next row of the page.  A terminal event is looked at with its successor,
\* queried for when the page ends here, and skipped when a resume followed it.
TakeEvent(w) ==
    LET s == last[w] + 1 IN
    /\ pc[w] = "page" /\ s <= upto[w]
    /\ last' = [last EXCEPT ![w] = s]
    /\ Goto(w, IF Superseded(s) THEN "page" ELSE "send")
    /\ UNCHANGED <<logVars, hubVars, scheduled, woken, upto, full, openedAt, readerVars, breaks>>

\* The reader applies a row once, moves its cursor and hangs up on a terminal one.
Apply(w, s) ==
    /\ IF s <= cursor[w] THEN UNCHANGED <<cursor, got, reader>>
       ELSE /\ cursor' = [cursor EXCEPT ![w] = s]
            /\ got' = [got EXCEPT ![w] = @ \cup {s}]
            /\ reader' = [reader EXCEPT ![w] = IF log[s] \in Terminal THEN "finished" ELSE @]
    /\ UNCHANGED attempt

SendEvent(w) ==
    /\ pc[w] = "send"
    /\ Apply(w, last[w])
    /\ IF log[last[w]] \in Terminal THEN EndStream(w)
       ELSE Goto(w, "page") /\ UNCHANGED <<woken, scheduled, localVars>>
    /\ UNCHANGED <<logVars, hubVars, breaks>>

\* Mutant: the event is cleared after the read.
PageDoneThenClear(w) ==
    /\ pc[w] = "page" /\ last[w] = upto[w]
    /\ Goto(w, IF full[w] THEN "head" ELSE "wait")
    /\ woken' = [woken EXCEPT ![w] = FALSE]
    /\ UNCHANGED <<logVars, hubVars, scheduled, localVars, readerVars, breaks>>

\* A full page means more rows are waiting: no sleep.
PageDone(w) ==
    /\ pc[w] = "page" /\ last[w] = upto[w]
    /\ Goto(w, IF full[w] THEN "head" ELSE "wait")
    /\ UNCHANGED <<logVars, hubVars, scheduled, woken, localVars, readerVars, breaks>>

\* Mutant: the wait has no timeout.
WakeWhenSet(w) ==
    /\ pc[w] = "wait" /\ woken[w]
    /\ Goto(w, "head")
    /\ UNCHANGED <<logVars, hubVars, scheduled, woken, localVars, readerVars, breaks>>

\* hub.wait returns when the event is set or the poll interval is over.
Wake(w) ==
    /\ pc[w] = "wait"
    /\ Goto(w, "head")
    /\ UNCHANGED <<logVars, hubVars, scheduled, woken, localVars, readerVars, breaks>>

-----------------------------------------------------------------------------
(* The reader in the browser.                                              *)

\* scheduleReconnect: the next attempt, or giving up.
ScheduleReconnect(w) ==
    IF attempt[w] >= MaxRetries
    THEN reader' = [reader EXCEPT ![w] = "closed"] /\ UNCHANGED attempt
    ELSE /\ reader' = [reader EXCEPT ![w] = "reconnecting"]
         /\ attempt' = [attempt EXCEPT ![w] = @ + 1]

\* The request reaches the API, which answers hello at once; it starts after
\* the reader's cursor.
OpenStream(w, from) ==
    /\ pc[w] = "none"
    /\ Goto(w, "start")
    /\ last' = [last EXCEPT ![w] = from]
    /\ upto' = [upto EXCEPT ![w] = from]
    /\ full' = [full EXCEPT ![w] = FALSE]
    /\ openedAt' = [openedAt EXCEPT ![w] = Len(log)]
    /\ reader' = [reader EXCEPT ![w] = "open"]
    /\ attempt' = [attempt EXCEPT ![w] = 0]
    /\ UNCHANGED <<logVars, hubVars, scheduled, woken, breaks>>

Subscribe(w) ==
    /\ phase # "none"
    /\ reader[w] = "idle"
    /\ OpenStream(w, 0)
    /\ UNCHANGED <<cursor, got>>

Reconnect(w) ==
    /\ reader[w] = "reconnecting"
    /\ OpenStream(w, cursor[w])
    /\ UNCHANGED <<cursor, got>>

\* A refused connection is an error before any activity.
ConnectRefused(w) ==
    /\ reader[w] = "reconnecting"
    /\ breaks < MaxBreaks
    /\ breaks' = breaks + 1
    /\ ScheduleReconnect(w)
    /\ UNCHANGED <<logVars, hubVars, scheduled, woken, streamVars, cursor, got>>

\* The connection is lost with whatever was sent on it last, or the stream
\* reached SSE_STREAM_TIMEOUT_SECONDS, which a first pass never does.
ConnectionEnds(w) ==
    /\ reader[w] = "open"
    /\ \/ pc[w] = "head" /\ UNCHANGED breaks
       \/ pc[w] # "none" /\ breaks < MaxBreaks /\ breaks' = breaks + 1
    /\ EndStream(w)
    /\ ScheduleReconnect(w)
    /\ UNCHANGED <<logVars, hubVars, cursor, got>>

\* The user's reconnect, and the one after the run was resumed: the cursor stays.
Resume(w) ==
    /\ reader[w] = "closed" \/ (reader[w] = "finished" /\ phase = "running")
    /\ OpenStream(w, cursor[w])
    /\ UNCHANGED <<cursor, got>>

-----------------------------------------------------------------------------
Stream(w) ==
    \/ ClearWoken(w) \/ CheckExpiry(w) \/ ReadPage(w) \/ TakeEvent(w)
    \/ SendEvent(w) \/ PageDone(w) \/ Wake(w)

Next ==
    \/ Table
    \/ Hub
    \/ \E w \in Watcher :
        \/ SetWoken(w) \/ Stream(w)
        \/ Subscribe(w) \/ Reconnect(w) \/ ConnectRefused(w) \/ ConnectionEnds(w)
        \/ Resume(w)

Spec == Init /\ [][Next]_vars

\* The event loop runs every stream, hub.wait ends by itself, and a scheduled
\* reconnect fires.  Nothing is assumed of the listener.
FairSpec ==
    /\ Spec
    /\ \A w \in Watcher : WF_vars(Stream(w)) /\ WF_vars(Reconnect(w))

-----------------------------------------------------------------------------
\* Every variable has its type.
TypeOK ==
    /\ Log!LogTypeOK
    /\ log \in Seq(Terminal \cup {"progress", "run_resumed"})
    /\ lapsed \in BOOLEAN
    /\ listener \in {"off", "catchup", "loop"} /\ link \in BOOLEAN /\ pending \in Nat
    /\ scheduled \subseteq Watcher
    /\ woken \in [Watcher -> BOOLEAN]
    /\ pc \in [Watcher -> {"none", "start", "head", "expire", "read", "page", "send", "wait"}]
    /\ last \in [Watcher -> Nat] /\ upto \in [Watcher -> Nat] /\ openedAt \in [Watcher -> Nat]
    /\ full \in [Watcher -> BOOLEAN]
    /\ reader \in [Watcher -> {"idle", "open", "reconnecting", "closed", "finished"}]
    /\ cursor \in [Watcher -> Nat] /\ attempt \in [Watcher -> Nat]
    /\ got \in [Watcher -> SUBSET Nat]
    /\ breaks \in Nat /\ outages \in Nat

\* A browser has applied every event up to its cursor, except failures that a
\* resume had made history: whatever pages, lost connections and reconnects
\* lie in between (the replay of stream_pipeline_run and the reader's cursor).
NothingMissed ==
    \A w \in Watcher : \A s \in 1..cursor[w] : s \in got[w] \/ Superseded(s)

\* A stream that sleeps on a working listener has read the whole table, or its
\* wake-up is on its way: no notification falls between its read and its wait
\* (subscribe before the first read, clear before every read, wake all after LISTEN).
NoLostWakeup ==
    \A w \in Watcher :
        pc[w] = "wait" /\ link /\ listener = "loop" /\ pending = 0
            /\ w \notin scheduled /\ ~woken[w]
        => last[w] = Len(log)

\* A browser never hangs up on a failure that was already resumed when its
\* stream opened, wherever the pages end.
HangsUpOnNews ==
    [][\A w \in Watcher :
        reader[w] = "open" /\ reader'[w] = "finished" => cursor'[w] >= openedAt[w]]_vars

\* Everybody still attached to a run that completed or was cancelled is let go
\* by a terminal event, with or without notifications, unless their reconnect
\* attempts ran out.
EveryWatcherTold ==
    \A w \in Watcher :
        (reader[w] \in {"open", "reconnecting"} /\ phase \in {"completed", "cancelled"})
            ~> reader[w] \in {"finished", "closed"}

\* A watched run whose worker vanished becomes a failure without a reaper: the
\* streams themselves check the lease.
WatchedRunsEnd ==
    \A w \in Watcher : (reader[w] = "open" /\ lapsed)
            ~> (~lapsed \/ reader[w] \in {"closed", "finished"})
=============================================================================
