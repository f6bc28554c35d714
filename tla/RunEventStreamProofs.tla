------------------------ MODULE RunEventStreamProofs ------------------------
(***************************************************************************)
(* Theorems about RunEventStream, for any number of watchers, any page     *)
(* size and any number of events, broken connections and listener outages. *)
(***************************************************************************)
EXTENDS RunEventStream, TLAPS

Events == Terminal \cup {"progress", "run_resumed"}
StreamPCs == {"none", "start", "head", "expire", "read", "page", "send", "wait"}
ReaderStates == {"idle", "open", "reconnecting", "closed", "finished"}

LEMMA MinOfTwo ==
  ASSUME NEW a \in Nat, NEW b \in Nat
  PROVE  Min({a, b}) \in Nat /\ Min({a, b}) <= b /\ (a > b => Min({a, b}) = b)
<1>1. PICK m \in {a, b} : m <= a /\ m <= b
  OBVIOUS
<1>2. \E x \in {a, b} : \A y \in {a, b} : x <= y
  BY <1>1
<1>3. Min({a, b}) \in {a, b} /\ \A y \in {a, b} : Min({a, b}) <= y
  BY <1>2 DEF Min
<1> QED BY <1>3

-----------------------------------------------------------------------------
(* The log.  What the table does to it, whoever calls. *)

\* One event is appended, the one that the step of the run calls for, and the listening
\* session hears of it.
Recorded ==
    /\ phase # "none"
    /\ log' = Append(log, tail')
    /\ tail' \in Events
    /\ phase' = "running" => \/ phase = "running" /\ tail' = "progress"
                             \/ phase # "running" /\ tail' = "run_resumed"
    /\ phase' # "running" => phase = "running" /\ tail' \in Terminal
    /\ phase' \in {"running", "completed", "failed", "cancelled"}
    /\ saved' \in BOOLEAN /\ lapsed' \in BOOLEAN
    /\ Notify /\ UNCHANGED <<listener, link, outages>>

\* The log stays as it is.
Quiet ==
    /\ UNCHANGED <<log, tail, saved, hubVars>>
    /\ lapsed' \in BOOLEAN
    /\ phase' \in {phase, "running"}
    /\ phase' # phase => phase = "none"

LEMMA EndsRecord ==
  ASSUME NEW p \in {"completed", "failed", "cancelled"}, Log!End(p), Record, lapsed' \in BOOLEAN
  PROVE  Recorded
BY DEF Log!End, Log!EndEvent, Record, Recorded, Events, Terminal

LEMMA ExpiryRecords ==
  ASSUME TypeOK, FailExpiredRun
  PROVE  Recorded \/ UNCHANGED <<logVars, hubVars>>
BY EndsRecord DEF FailExpiredRun

LEMMA TableRecords ==
  ASSUME TypeOK, Table
  PROVE  Recorded \/ Quiet
<1>1. CASE OpenRun
  BY <1>1 DEF OpenRun, Log!Open, Quiet, TypeOK
<1>2. CASE WriteEvent
  <2>1. CASE Log!Progress /\ UNCHANGED lapsed
    BY <1>2, <2>1 DEF WriteEvent, Log!Progress, Record, Recorded, Events, TypeOK, Log!LogTypeOK
  <2>2. CASE Log!Reopen /\ UNCHANGED lapsed
    BY <1>2, <2>2 DEF WriteEvent, Log!Reopen, Record, Recorded, Events, TypeOK, Log!LogTypeOK
  <2> QED BY <1>2, <2>1, <2>2, EndsRecord DEF WriteEvent, TypeOK
<1>3. CASE WorkerLost
  BY <1>3 DEF WorkerLost, Quiet
<1>4. CASE ReadRun
  BY <1>4, ExpiryRecords DEF ReadRun, FailExpiredRun, Quiet, logVars, TypeOK
<1> QED BY <1>1, <1>2, <1>3, <1>4 DEF Table

\* The log is only ever longer, and who appends to it knows how the last attempt ended.
LogFits ==
    /\ phase = "none" => log = <<>>
    /\ phase = "running" => log = <<>> \/ log[Len(log)] \notin Terminal
    /\ \A s \in 1 .. Len(log) - 1 : log[s] \in Terminal => log[s + 1] = "run_resumed"

LogGrows == Len(log') >= Len(log) /\ \A s \in 1 .. Len(log) : log'[s] = log[s]

LEMMA RecordedFits ==
  ASSUME TypeOK, LogFits, Recorded \/ Quiet \/ UNCHANGED <<logVars, hubVars>>
  PROVE  LogFits' /\ LogGrows
<1>a. log \in Seq(Events) /\ Len(log) \in Nat
  BY DEF TypeOK, Events
<1>1. CASE Recorded
  <2>1. /\ Len(log') = Len(log) + 1 /\ log'[Len(log) + 1] = tail'
        /\ \A s \in 1 .. Len(log) : log'[s] = log[s]
    BY <1>a, <1>1 DEF Recorded
  <2>2. phase' = "running" => tail' \notin Terminal
    BY <1>1 DEF Recorded, Terminal
  <2>3. log # <<>> /\ log[Len(log)] \in Terminal => tail' = "run_resumed"
    BY <1>1 DEF Recorded, LogFits
  <2>4. ASSUME NEW s \in 1 .. Len(log), log'[s] \in Terminal PROVE log'[s + 1] = "run_resumed"
    <3>1. CASE s = Len(log)
      BY <1>a, <2>1, <2>3, <2>4, <3>1
    <3>2. CASE s # Len(log)
      BY <1>a, <2>1, <2>4, <3>2 DEF LogFits
    <3> QED BY <3>1, <3>2
  <2> QED BY <1>a, <1>1, <2>1, <2>2, <2>4 DEF LogFits, LogGrows, Recorded
<1>2. CASE Quiet
  BY <1>a, <1>2 DEF Quiet, LogFits, LogGrows
<1>3. CASE UNCHANGED <<logVars, hubVars>>
  BY <1>a, <1>3 DEF LogFits, LogGrows, logVars
<1> QED BY <1>1, <1>2, <1>3

LEMMA RecordedTyped ==
  ASSUME TypeOK, Recorded \/ Quiet \/ UNCHANGED <<logVars, hubVars>>
  PROVE  /\ Log!LogTypeOK' /\ log' \in Seq(Events) /\ lapsed' \in BOOLEAN
         /\ listener' \in {"off", "catchup", "loop"} /\ link' \in BOOLEAN /\ pending' \in Nat
         /\ outages' \in Nat
<1>a. log \in Seq(Events)
  BY DEF TypeOK, Events
<1>b. Events \subseteq {"none", "progress", "run_resumed"} \cup {Log!EndEvent[p] : p \in Log!Ended}
  BY DEF Events, Terminal, Log!EndEvent, Log!Ended
<1>c. Log!Ended = {"completed", "failed", "cancelled"}
  BY DEF Log!EndEvent, Log!Ended
<1>1. CASE Recorded
  <2>1. log' \in Seq(Events)
    BY <1>a, <1>1 DEF Recorded
  <2> QED BY <1>1, <1>b, <1>c, <2>1 DEF Recorded, Notify, TypeOK, Log!LogTypeOK
<1>2. CASE Quiet
  BY <1>a, <1>2 DEF Quiet, TypeOK, Log!LogTypeOK, hubVars
<1>3. CASE UNCHANGED <<logVars, hubVars>>
  BY <1>a, <1>3 DEF TypeOK, Log!LogTypeOK, hubVars, logVars
<1> QED BY <1>1, <1>2, <1>3

-----------------------------------------------------------------------------
(* Types. *)

\* What one watcher does between two looks at the table.
Local(w) ==
    \/ ClearWoken(w) \/ ReadPage(w) \/ TakeEvent(w) \/ SendEvent(w) \/ PageDone(w) \/ Wake(w)
    \/ Subscribe(w) \/ Reconnect(w) \/ ConnectRefused(w) \/ ConnectionEnds(w) \/ Resume(w)
    \/ SetWoken(w)

LEMMA EndTyped ==
  ASSUME TypeOK, NEW w \in Watcher, EndStream(w)
  PROVE  /\ pc' \in [Watcher -> StreamPCs] /\ last' \in [Watcher -> Nat] /\ upto' \in [Watcher -> Nat]
         /\ openedAt' \in [Watcher -> Nat] /\ full' \in [Watcher -> BOOLEAN]
         /\ woken' \in [Watcher -> BOOLEAN] /\ scheduled' \subseteq Watcher
BY DEF TypeOK, EndStream, Goto, StreamPCs

LEMMA LocalTyped ==
  ASSUME TypeOK, NEW w \in Watcher, Local(w)
  PROVE  TypeOK'
<1>a. /\ pc \in [Watcher -> StreamPCs] /\ last \in [Watcher -> Nat] /\ upto \in [Watcher -> Nat]
      /\ openedAt \in [Watcher -> Nat] /\ full \in [Watcher -> BOOLEAN]
      /\ reader \in [Watcher -> ReaderStates] /\ cursor \in [Watcher -> Nat]
      /\ attempt \in [Watcher -> Nat] /\ got \in [Watcher -> SUBSET Nat]
      /\ woken \in [Watcher -> BOOLEAN] /\ scheduled \subseteq Watcher /\ breaks \in Nat
      /\ Len(log) \in Nat /\ PageSize \in Nat
  <2>1. Len(log) \in Nat /\ PageSize \in Nat
    BY StreamAssumption DEF TypeOK
  <2> QED BY <2>1 DEF TypeOK, StreamPCs, ReaderStates
<1>b. UNCHANGED <<logVars, hubVars>>
  BY DEF Local, ClearWoken, ReadPage, TakeEvent, SendEvent, PageDone, Wake, Subscribe, Reconnect,
         ConnectRefused, ConnectionEnds, Resume, SetWoken, OpenStream
<1>c. ASSUME /\ pc' \in [Watcher -> StreamPCs] /\ last' \in [Watcher -> Nat] /\ upto' \in [Watcher -> Nat]
             /\ openedAt' \in [Watcher -> Nat] /\ full' \in [Watcher -> BOOLEAN]
             /\ reader' \in [Watcher -> ReaderStates] /\ cursor' \in [Watcher -> Nat]
             /\ attempt' \in [Watcher -> Nat] /\ got' \in [Watcher -> SUBSET Nat]
             /\ woken' \in [Watcher -> BOOLEAN] /\ scheduled' \subseteq Watcher /\ breaks' \in Nat
      PROVE  TypeOK'
  BY <1>b, <1>c, RecordedTyped DEF TypeOK, StreamPCs, ReaderStates, Events
<1>1. CASE ClearWoken(w) \/ PageDone(w) \/ Wake(w) \/ SetWoken(w)
  BY <1>a, <1>c, <1>1 DEF ClearWoken, PageDone, Wake, SetWoken, Goto, localVars, readerVars, streamVars,
     StreamPCs
<1>2. CASE ReadPage(w)
  <2>1. Min({last[w] + PageSize, Len(log)}) \in Nat
    <3>1. last[w] + PageSize \in Nat
      BY <1>a
    <3> QED BY <1>a, <3>1, MinOfTwo
  <2> QED BY <1>a, <1>c, <1>2, <2>1 DEF ReadPage, Goto, readerVars, StreamPCs
<1>3. CASE TakeEvent(w)
  <2>1. /\ last' = [last EXCEPT ![w] = last[w] + 1]
        /\ pc' = [pc EXCEPT ![w] = IF Superseded(last[w] + 1) THEN "page" ELSE "send"]
        /\ UNCHANGED <<scheduled, woken, upto, full, openedAt, readerVars, breaks>>
    BY <1>3 DEF TakeEvent, Goto
  <2> QED BY <1>a, <1>c, <2>1 DEF readerVars, StreamPCs
<1>4. CASE SendEvent(w)
  <2>1. /\ cursor' \in [Watcher -> Nat] /\ got' \in [Watcher -> SUBSET Nat]
        /\ reader' \in [Watcher -> ReaderStates] /\ attempt' \in [Watcher -> Nat]
    <3>1. Apply(w, last[w]) /\ UNCHANGED attempt
      BY <1>4 DEF SendEvent, Apply
    <3>2. CASE UNCHANGED <<cursor, got, reader>>
      BY <1>a, <3>1, <3>2
    <3>3. CASE last[w] > cursor[w]
      <4>1. /\ cursor' = [cursor EXCEPT ![w] = last[w]]
            /\ got' = [got EXCEPT ![w] = got[w] \cup {last[w]}]
            /\ reader' = [reader EXCEPT ![w] = IF log[last[w]] \in Terminal THEN "finished" ELSE reader[w]]
        BY <1>a, <3>1, <3>3 DEF Apply
      <4>2. cursor' \in [Watcher -> Nat] /\ got' \in [Watcher -> SUBSET Nat]
        BY <1>a, <4>1
      <4>3. reader' \in [Watcher -> ReaderStates]
        BY <1>a, <4>1 DEF ReaderStates
      <4> QED BY <1>a, <3>1, <4>2, <4>3
    <3> QED BY <1>a, <3>1, <3>2, <3>3 DEF Apply
  <2>2. UNCHANGED breaks
    BY <1>4 DEF SendEvent
  <2>3. CASE EndStream(w)
    BY <1>a, <1>c, <2>1, <2>2, <2>3, EndTyped
  <2>4. CASE Goto(w, "page") /\ UNCHANGED <<woken, scheduled, localVars>>
    BY <1>a, <1>c, <2>1, <2>2, <2>4 DEF Goto, localVars, StreamPCs
  <2> QED BY <1>4, <2>3, <2>4 DEF SendEvent
<1>5. CASE Subscribe(w) \/ Reconnect(w) \/ Resume(w)
  <2>1. PICK from \in Nat : OpenStream(w, from)
    BY <1>a, <1>5 DEF Subscribe, Reconnect, Resume
  <2>2. UNCHANGED <<cursor, got>>
    BY <1>5 DEF Subscribe, Reconnect, Resume
  <2> QED BY <1>a, <1>c, <2>1, <2>2 DEF OpenStream, Goto, StreamPCs, ReaderStates
<1>6. CASE ConnectRefused(w) \/ ConnectionEnds(w)
  <2>1. reader' \in [Watcher -> ReaderStates] /\ attempt' \in [Watcher -> Nat]
    <3>1. ScheduleReconnect(w)
      BY <1>6 DEF ConnectRefused, ConnectionEnds
    <3>2. CASE attempt[w] >= MaxRetries
      BY <1>a, <3>1, <3>2 DEF ScheduleReconnect, ReaderStates
    <3>3. CASE ~(attempt[w] >= MaxRetries)
      <4>1. /\ reader' = [reader EXCEPT ![w] = "reconnecting"]
            /\ attempt' = [attempt EXCEPT ![w] = attempt[w] + 1]
        BY <3>1, <3>3 DEF ScheduleReconnect
      <4>2. attempt[w] + 1 \in Nat
        BY <1>a
      <4> QED BY <1>a, <4>1, <4>2 DEF ReaderStates
    <3> QED BY <3>2, <3>3
  <2>2. UNCHANGED <<cursor, got>> /\ breaks' \in Nat
    BY <1>a, <1>6 DEF ConnectRefused, ConnectionEnds
  <2>3. EndStream(w) \/ UNCHANGED <<scheduled, woken, streamVars>>
    BY <1>6 DEF ConnectRefused, ConnectionEnds
  <2>4. CASE EndStream(w)
    BY <1>a, <1>c, <2>1, <2>2, <2>4, EndTyped
  <2>5. CASE UNCHANGED <<scheduled, woken, streamVars>>
    BY <1>a, <1>c, <2>1, <2>2, <2>5 DEF streamVars, localVars
  <2> QED BY <2>3, <2>4, <2>5
<1> QED BY <1>1, <1>2, <1>3, <1>4, <1>5, <1>6 DEF Local

LEMMA NextSplit ==
  ASSUME [Next]_vars
  PROVE  \/ Table \/ Hub \/ UNCHANGED vars
         \/ \E w \in Watcher : Local(w) \/ CheckExpiry(w)
BY DEF Next, Stream, Local

LEMMA InitTyped ==
  ASSUME Init
  PROVE  TypeOK /\ LogFits
<1>1. Log!LogTypeOK /\ phase = "none" /\ log = <<>>
  BY DEF Init, Log!LogInit, Log!LogTypeOK
<1>2. LogFits
  BY <1>1 DEF LogFits
<1>3. /\ log \in Seq(Events) /\ scheduled = {} /\ breaks = 0 /\ outages = 0 /\ pending = 0
      /\ lapsed = FALSE /\ link = FALSE /\ listener = "off"
  BY DEF Init
<1>4. /\ woken \in [Watcher -> BOOLEAN] /\ pc \in [Watcher -> StreamPCs] /\ last \in [Watcher -> Nat]
      /\ upto \in [Watcher -> Nat] /\ openedAt \in [Watcher -> Nat] /\ full \in [Watcher -> BOOLEAN]
      /\ reader \in [Watcher -> ReaderStates] /\ cursor \in [Watcher -> Nat]
      /\ attempt \in [Watcher -> Nat] /\ got \in [Watcher -> SUBSET Nat]
  BY DEF Init, StreamPCs, ReaderStates
<1> QED BY <1>1, <1>2, <1>3, <1>4 DEF TypeOK, Events, StreamPCs, ReaderStates

LEMMA NextTyped ==
  ASSUME TypeOK, LogFits, [Next]_vars
  PROVE  TypeOK' /\ LogFits'
<1>1. CASE UNCHANGED vars
  <2>1. UNCHANGED <<logVars, hubVars>>
    BY <1>1 DEF vars
  <2> QED BY <1>1, <2>1, RecordedFits, RecordedTyped
      DEF vars, streamVars, localVars, readerVars, TypeOK, Events
<1>2. CASE Table
  <2>1. Recorded \/ Quiet
    BY <1>2, TableRecords
  <2> QED BY <1>2, <2>1, RecordedFits, RecordedTyped
      DEF Table, streamVars, localVars, readerVars, TypeOK, Events
<1>3. CASE Hub
  <2>0. /\ scheduled \subseteq Watcher /\ Subscribers \subseteq Watcher /\ outages \in Nat /\ pending \in Nat
        /\ link \in BOOLEAN /\ listener \in {"off", "catchup", "loop"}
    BY DEF TypeOK, Subscribers
  <2>1. /\ UNCHANGED <<logVars, woken, streamVars, readerVars, breaks>>
        /\ scheduled' \subseteq Watcher /\ outages' \in Nat /\ pending' \in Nat /\ link' \in BOOLEAN
        /\ listener' \in {"off", "catchup", "loop"}
    <3>1. CASE Listen
      BY <1>3, <2>0, <3>1 DEF Hub, Listen
    <3>2. CASE WakeAll
      BY <1>3, <2>0, <3>2 DEF Hub, WakeAll, Publish
    <3>3. CASE HandleNotification
      BY <1>3, <2>0, <3>3 DEF Hub, HandleNotification, Publish
    <3>4. CASE LoseLink
      <4>1. UNCHANGED <<logVars, woken, streamVars, readerVars, breaks, listener, scheduled>>
        BY <1>3, <3>4 DEF Hub, LoseLink
      <4>2. outages' = outages + 1 /\ link' = FALSE /\ pending' = 0
        BY <3>4 DEF LoseLink
      <4>3. outages' \in Nat /\ pending' \in Nat
        BY <2>0, <4>2
      <4>4. listener' = listener /\ scheduled' = scheduled
        BY <4>1
      <4> QED BY <2>0, <4>1, <4>2, <4>3, <4>4, Zenon
    <3>5. CASE NoticeOutage
      BY <1>3, <2>0, <3>5 DEF Hub, NoticeOutage
    <3> QED BY <1>3, <3>1, <3>2, <3>3, <3>4, <3>5 DEF Hub
  <2>2. LogFits'
    BY <2>1 DEF logVars, LogFits
  <2> QED BY <2>1, <2>2 DEF logVars, streamVars, localVars, readerVars, TypeOK, Log!LogTypeOK
<1>4. ASSUME NEW w \in Watcher, Local(w) PROVE TypeOK' /\ LogFits'
  <2>1. UNCHANGED <<logVars, hubVars>>
    BY <1>4 DEF Local, ClearWoken, ReadPage, TakeEvent, SendEvent, PageDone, Wake, Subscribe,
       Reconnect, ConnectRefused, ConnectionEnds, Resume, SetWoken, OpenStream
  <2> QED BY <1>4, <2>1, LocalTyped, RecordedFits
<1>5. ASSUME NEW w \in Watcher, CheckExpiry(w) PROVE TypeOK' /\ LogFits'
  <2>1. Recorded \/ UNCHANGED <<logVars, hubVars>>
    BY <1>5, ExpiryRecords DEF CheckExpiry
  <2>2. pc' \in [Watcher -> StreamPCs]
    BY <1>5 DEF CheckExpiry, Goto, TypeOK, StreamPCs
  <2> QED BY <1>5, <2>1, <2>2, RecordedFits, RecordedTyped
      DEF CheckExpiry, localVars, readerVars, TypeOK, Events, StreamPCs
<1> QED BY <1>1, <1>2, <1>3, <1>4, <1>5, NextSplit

LEMMA TypeAndLog == Spec => [](TypeOK /\ LogFits)
<1>1. Init => TypeOK /\ LogFits
  BY InitTyped
<1>2. TypeOK /\ LogFits /\ [Next]_vars => (TypeOK /\ LogFits)'
  BY NextTyped
<1> QED BY <1>1, <1>2, PTL DEF Spec

(* Every variable of the log, the hub, the streams and the readers keeps its type.         *)
THEOREM TypeCorrect == Spec => []TypeOK
BY TypeAndLog, PTL

-----------------------------------------------------------------------------
(* What a stream and its reader know of the table. *)

\* Positions lie in the log.
InLog(w) ==
    /\ last[w] <= Len(log) /\ upto[w] <= Len(log) /\ cursor[w] <= Len(log) /\ openedAt[w] <= Len(log)
    /\ pc[w] = "send" => last[w] > 0

\* Up to the cursor, and up to the stream's position but for the row it is about to send,
\* every event was applied or is a failure that a resume followed.
Covered(w) ==
    /\ \A s \in 1 .. cursor[w] : s \in got[w] \/ Superseded(s)
    /\ \A s \in 1 .. last[w] : s \in got[w] \/ Superseded(s) \/ (pc[w] = "send" /\ s = last[w])

\* A terminal event on its way to the browser is younger than its stream.
NewsOnly(w) ==
    pc[w] = "send" /\ log[last[w]] \in Terminal => last[w] >= openedAt[w]

\* Something will wake the stream, or the hub is about to wake everybody.
Alert(w) ==
    w \in scheduled \/ woken[w] \/ ~link \/ listener # "loop" \/ pending > 0

\* What the stream has not read yet, it will be told of.
WillKnow(w) ==
    /\ pc[w] = "wait" => last[w] = Len(log) \/ Alert(w)
    /\ pc[w] \in {"page", "send"} => upto[w] = Len(log) \/ full[w] \/ Alert(w)

Watched(w) == InLog(w) /\ Covered(w) /\ NewsOnly(w) /\ WillKnow(w)

StreamInv == TypeOK /\ LogFits /\ \A w \in Watcher : Watched(w)

LEMMA SupersededStays ==
  ASSUME TypeOK, TypeOK', LogGrows, NEW s \in 1 .. Len(log), Superseded(s)
  PROVE  Superseded(s)'
<1>1. Len(log) \in Nat /\ Len(log') \in Nat
  BY DEF TypeOK
<1>2. s < Len(log) /\ s + 1 \in 1 .. Len(log)
  BY <1>1 DEF Superseded
<1> QED BY <1>1, <1>2 DEF Superseded, LogGrows

\* A step in the table keeps what a watcher knows, wherever its generator is.
LEMMA TableKeeps ==
  ASSUME StreamInv, TypeOK', Recorded \/ Quiet \/ UNCHANGED <<logVars, hubVars>>, NEW w \in Watcher,
         pc'[w] = pc[w] \/ (pc[w] = "expire" /\ pc'[w] = "read"),
         UNCHANGED <<scheduled, woken, localVars, readerVars>>
  PROVE  Watched(w)'
<1>a. Len(log) \in Nat /\ Len(log') \in Nat /\ last[w] \in Nat /\ upto[w] \in Nat /\ cursor[w] \in Nat
      /\ openedAt[w] \in Nat /\ pending \in Nat
  BY DEF StreamInv, TypeOK
<1>b. LogGrows
  BY RecordedFits DEF StreamInv
<1>c. InLog(w) /\ Covered(w) /\ NewsOnly(w) /\ WillKnow(w)
  BY DEF StreamInv, Watched
<1>d. UNCHANGED <<last, upto, full, openedAt, cursor, got, scheduled, woken>>
  BY DEF localVars, readerVars
<1>1. InLog(w)'
  BY <1>a, <1>b, <1>c, <1>d DEF InLog, LogGrows
<1>2. Covered(w)'
  <2>1. \A s \in 1 .. Len(log) : Superseded(s) => Superseded(s)'
    BY <1>b, SupersededStays DEF StreamInv
  <2>2. \A s \in 1 .. cursor[w] : s \in got[w] \/ Superseded(s)'
    BY <1>a, <1>c, <2>1 DEF Covered, InLog
  <2>3. \A s \in 1 .. last[w] : s \in got[w] \/ Superseded(s)' \/ (pc'[w] = "send" /\ s = last[w])
    <3>1. CASE pc'[w] = pc[w]
      BY <1>a, <1>c, <2>1, <3>1 DEF Covered, InLog
    <3>2. CASE pc'[w] # pc[w]
      <4>1. pc[w] # "send"
        BY <3>2
      <4> QED BY <1>a, <1>c, <2>1, <4>1 DEF Covered, InLog
    <3> QED BY <3>1, <3>2
  <2> QED BY <1>d, <2>2, <2>3 DEF Covered
<1>3. NewsOnly(w)'
  <2>1. pc[w] = "send" => log'[last[w]] = log[last[w]]
    BY <1>a, <1>b, <1>c DEF InLog, LogGrows
  <2> QED BY <1>c, <1>d, <2>1 DEF NewsOnly
<1>4. WillKnow(w)'
  <2>1. CASE Recorded
    <3>1. ~link' \/ pending' > 0
      BY <1>a, <2>1 DEF Recorded, Notify
    <3> QED BY <3>1 DEF WillKnow, Alert
  <2>2. CASE UNCHANGED <<log, hubVars>>
    BY <1>c, <1>d, <2>2 DEF WillKnow, Alert, hubVars
  <2> QED BY <2>1, <2>2 DEF Quiet, logVars
<1> QED BY <1>1, <1>2, <1>3, <1>4 DEF Watched

\* So does a step of the hub: who is told is put on the schedule before the count goes down.
LEMMA HubKeeps ==
  ASSUME StreamInv, TypeOK', Hub, NEW w \in Watcher
  PROVE  Watched(w)'
<1>a. InLog(w) /\ Covered(w) /\ NewsOnly(w) /\ WillKnow(w)
  BY DEF StreamInv, Watched
<1>b. UNCHANGED <<log, pc, last, upto, full, openedAt, cursor, got, woken>>
  BY DEF Hub, logVars, streamVars, localVars, readerVars
<1>1. InLog(w)' /\ Covered(w)' /\ NewsOnly(w)'
  BY <1>a, <1>b DEF InLog, Covered, NewsOnly, Superseded
<1>2. WillKnow(w)'
  <2>1. CASE Listen \/ LoseLink \/ NoticeOutage
    <3>1. listener' # "loop" \/ ~link'
      BY <2>1 DEF Listen, LoseLink, NoticeOutage
    <3> QED BY <3>1 DEF WillKnow, Alert
  <2>2. CASE WakeAll \/ HandleNotification
    <3>1. pc[w] # "none" => w \in scheduled'
      BY <2>2 DEF WakeAll, HandleNotification, Publish, Subscribers
    <3> QED BY <1>b, <3>1 DEF WillKnow, Alert
  <2> QED BY <2>1, <2>2 DEF Hub
<1> QED BY <1>1, <1>2 DEF Watched

\* A watcher's own step touches no other watcher.
LEMMA OthersKeep ==
  ASSUME StreamInv, NEW v \in Watcher, Local(v), NEW w \in Watcher, w # v
  PROVE  /\ UNCHANGED <<log, hubVars, pc[w], last[w], upto[w], full[w], openedAt[w], cursor[w], got[w], woken[w]>>
         /\ w \in scheduled => w \in scheduled'
         /\ UNCHANGED reader[w]
<1>a. /\ pc \in [Watcher -> StreamPCs] /\ last \in [Watcher -> Nat] /\ upto \in [Watcher -> Nat]
      /\ openedAt \in [Watcher -> Nat] /\ full \in [Watcher -> BOOLEAN]
      /\ reader \in [Watcher -> ReaderStates] /\ cursor \in [Watcher -> Nat]
      /\ got \in [Watcher -> SUBSET Nat] /\ woken \in [Watcher -> BOOLEAN]
  BY DEF StreamInv, TypeOK, StreamPCs, ReaderStates
<1>1. CASE ClearWoken(v) \/ PageDone(v) \/ Wake(v) \/ SetWoken(v)
  BY <1>a, <1>1 DEF ClearWoken, PageDone, Wake, SetWoken, Goto, logVars, localVars, readerVars, streamVars
<1>2. CASE ReadPage(v) \/ TakeEvent(v)
  BY <1>a, <1>2 DEF ReadPage, TakeEvent, Goto, logVars, readerVars
<1>3. CASE SendEvent(v)
  <2>1. UNCHANGED <<logVars, hubVars>> /\ Apply(v, last[v])
    BY <1>3 DEF SendEvent
  <2>2. UNCHANGED <<cursor[w], got[w], reader[w]>>
    BY <1>a, <2>1 DEF Apply
  <2>3. CASE EndStream(v)
    BY <1>a, <2>1, <2>2, <2>3 DEF EndStream, Goto, logVars
  <2>4. CASE Goto(v, "page") /\ UNCHANGED <<woken, scheduled, localVars>>
    BY <1>a, <2>1, <2>2, <2>4 DEF Goto, localVars, logVars
  <2> QED BY <1>3, <2>3, <2>4 DEF SendEvent
<1>4. CASE Subscribe(v) \/ Reconnect(v) \/ Resume(v)
  <2>1. PICK from : OpenStream(v, from)
    BY <1>4 DEF Subscribe, Reconnect, Resume
  <2>2. UNCHANGED <<cursor, got>>
    BY <1>4 DEF Subscribe, Reconnect, Resume
  <2> QED BY <1>a, <2>1, <2>2 DEF OpenStream, Goto, logVars
<1>5. CASE ConnectRefused(v) \/ ConnectionEnds(v)
  <2>1. UNCHANGED reader[w]
    BY <1>a, <1>5 DEF ConnectRefused, ConnectionEnds, ScheduleReconnect
  <2>2. UNCHANGED <<logVars, hubVars, cursor, got>>
    BY <1>5 DEF ConnectRefused, ConnectionEnds
  <2>3. CASE EndStream(v)
    BY <1>a, <2>1, <2>2, <2>3 DEF EndStream, Goto, logVars
  <2>4. CASE UNCHANGED <<scheduled, woken, streamVars>>
    BY <2>1, <2>2, <2>4 DEF logVars, streamVars, localVars
  <2> QED BY <1>5, <2>3, <2>4 DEF ConnectRefused, ConnectionEnds
<1> QED BY <1>1, <1>2, <1>3, <1>4, <1>5 DEF Local

\* A step of the watcher itself.
LEMMA OwnKeeps ==
  ASSUME StreamInv, NEW w \in Watcher, Local(w)
  PROVE  Watched(w)'
<1>a. /\ pc \in [Watcher -> StreamPCs] /\ last \in [Watcher -> Nat] /\ upto \in [Watcher -> Nat]
      /\ openedAt \in [Watcher -> Nat] /\ full \in [Watcher -> BOOLEAN]
      /\ reader \in [Watcher -> ReaderStates] /\ cursor \in [Watcher -> Nat]
      /\ got \in [Watcher -> SUBSET Nat] /\ woken \in [Watcher -> BOOLEAN]
      /\ Len(log) \in Nat /\ PageSize \in Nat \ {0}
  BY StreamAssumption DEF StreamInv, TypeOK, StreamPCs, ReaderStates
<1>b. InLog(w) /\ Covered(w) /\ NewsOnly(w) /\ WillKnow(w)
  BY DEF StreamInv, Watched
<1>c. UNCHANGED <<log, listener, link, pending>>
  BY DEF Local, ClearWoken, ReadPage, TakeEvent, SendEvent, PageDone, Wake, Subscribe, Reconnect,
         ConnectRefused, ConnectionEnds, Resume, SetWoken, OpenStream, logVars, hubVars
<1>1. CASE ClearWoken(w) \/ Wake(w)
  <2>1. pc'[w] \in {"expire", "head"} /\ UNCHANGED <<last, upto, full, openedAt, cursor, got>>
    BY <1>a, <1>1 DEF ClearWoken, Wake, Goto, localVars, readerVars
  <2>2. pc[w] # "send"
    BY <1>1 DEF ClearWoken, Wake
  <2> QED BY <1>a, <1>b, <1>c, <2>1, <2>2 DEF Watched, InLog, Covered, NewsOnly, WillKnow, Superseded
<1>2. CASE SetWoken(w)
  <2>1. woken'[w] /\ UNCHANGED <<pc, last, upto, full, openedAt, cursor, got>>
    BY <1>a, <1>2 DEF SetWoken, streamVars, localVars, readerVars
  <2> QED BY <1>b, <1>c, <2>1 DEF Watched, InLog, Covered, NewsOnly, WillKnow, Superseded, Alert
<1>3. CASE ReadPage(w)
  <2>1. /\ last[w] + PageSize \in Nat
        /\ upto'[w] = Min({last[w] + PageSize, Len(log)})
        /\ full'[w] = (last[w] + PageSize <= Len(log))
        /\ pc[w] = "read" /\ pc'[w] = "page" /\ UNCHANGED <<last, openedAt, cursor, got>>
    BY <1>a, <1>3 DEF ReadPage, Goto, readerVars
  <2>2. upto'[w] <= Len(log) /\ (full'[w] \/ upto'[w] = Len(log))
    <3>1. upto'[w] <= Len(log) /\ (last[w] + PageSize > Len(log) => upto'[w] = Len(log))
      BY <1>a, <2>1, MinOfTwo
    <3>2. last[w] + PageSize > Len(log) \/ last[w] + PageSize <= Len(log)
      BY <1>a, <2>1
    <3>3. last[w] + PageSize <= Len(log) => full'[w]
      BY <2>1
    <3> QED BY <3>1, <3>2, <3>3
  <2> QED BY <1>a, <1>b, <1>c, <2>1, <2>2 DEF Watched, InLog, Covered, NewsOnly, WillKnow, Superseded
<1>4. CASE TakeEvent(w)
  <2> DEFINE s == last[w] + 1
  <2>1. /\ pc[w] = "page" /\ s <= upto[w] /\ last'[w] = s
        /\ pc'[w] = IF Superseded(s) THEN "page" ELSE "send"
        /\ UNCHANGED <<scheduled, woken, upto, full, openedAt, cursor, got>>
    BY <1>a, <1>4 DEF TakeEvent, Goto, readerVars
  <2>2. s \in 1 .. Len(log)
    BY <1>a, <1>b, <2>1 DEF InLog
  <2>3. InLog(w)'
    BY <1>a, <1>b, <1>c, <2>1, <2>2 DEF InLog
  <2>4. Covered(w)'
    <3>1. \A t : Superseded(t)' <=> Superseded(t)
      BY <1>c DEF Superseded
    <3>2. \A t \in 1 .. s : t \in got[w] \/ Superseded(t) \/ (pc'[w] = "send" /\ t = s)
      BY <1>a, <1>b, <2>1 DEF Covered
    <3> QED BY <1>b, <2>1, <3>1, <3>2 DEF Covered
  <2>5. NewsOnly(w)'
    <3>1. CASE log[s] \in Terminal /\ ~Superseded(s)
      <4>1. s = Len(log)
        BY <1>a, <2>2, <3>1 DEF StreamInv, LogFits, Superseded
      <4> QED BY <1>a, <1>b, <1>c, <2>1, <4>1 DEF NewsOnly, InLog
    <3>2. CASE ~(log[s] \in Terminal /\ ~Superseded(s))
      BY <1>c, <2>1, <3>2 DEF NewsOnly
    <3> QED BY <3>1, <3>2
  <2>6. WillKnow(w)'
    BY <1>b, <1>c, <2>1 DEF WillKnow, Alert
  <2> QED BY <2>3, <2>4, <2>5, <2>6 DEF Watched
<1>5. CASE SendEvent(w)
  <2>1. /\ pc[w] = "send" /\ Apply(w, last[w])
        /\ EndStream(w) \/ (Goto(w, "page") /\ UNCHANGED <<woken, scheduled, localVars>>)
    BY <1>5 DEF SendEvent
  <2>2. /\ got[w] \subseteq got'[w] /\ cursor'[w] \in Nat
        /\ cursor'[w] = cursor[w] \/ (cursor'[w] = last[w] /\ last[w] \in got'[w])
    <3>1. CASE last[w] <= cursor[w]
      BY <1>a, <2>1, <3>1 DEF Apply
    <3>2. CASE ~(last[w] <= cursor[w])
      <4>1. cursor' = [cursor EXCEPT ![w] = last[w]] /\ got' = [got EXCEPT ![w] = got[w] \cup {last[w]}]
        BY <2>1, <3>2 DEF Apply
      <4> QED BY <1>a, <4>1
    <3> QED BY <3>1, <3>2
  <2>3. last[w] <= cursor[w] \/ last[w] \in got'[w]
    BY <1>a, <2>1 DEF Apply
  <2>4. \/ last'[w] = 0 /\ pc'[w] = "none" /\ upto'[w] = 0 /\ openedAt'[w] = 0
        \/ pc'[w] = "page" /\ UNCHANGED <<last, upto, full, openedAt, woken, scheduled>>
    <3>1. CASE EndStream(w)
      BY <1>a, <3>1 DEF EndStream, Goto
    <3>2. CASE Goto(w, "page") /\ UNCHANGED <<woken, scheduled, localVars>>
      BY <1>a, <3>2 DEF Goto, localVars
    <3> QED BY <2>1, <3>1, <3>2
  <2>5. InLog(w)'
    BY <1>a, <1>b, <1>c, <2>2, <2>4 DEF InLog
  <2>6. Covered(w)'
    <3>1. \A t : Superseded(t)' <=> Superseded(t)
      BY <1>c DEF Superseded
    <3>2. \A t \in 1 .. last[w] : t \in got'[w] \/ Superseded(t)
      BY <1>a, <1>b, <2>2, <2>3 DEF Covered
    <3>3. \A t \in 1 .. cursor'[w] : t \in got'[w] \/ Superseded(t)
      BY <1>a, <1>b, <2>2, <3>2 DEF Covered
    <3>4. \A t \in 1 .. last'[w] : t \in got'[w] \/ Superseded(t)
      BY <1>a, <2>4, <3>2
    <3> QED BY <3>1, <3>3, <3>4 DEF Covered
  <2>7. NewsOnly(w)'
    BY <2>4 DEF NewsOnly
  <2>8. WillKnow(w)'
    BY <1>b, <1>c, <2>1, <2>4 DEF WillKnow, Alert
  <2> QED BY <2>5, <2>6, <2>7, <2>8 DEF Watched
<1>6. CASE PageDone(w)
  <2>1. /\ pc[w] = "page" /\ last[w] = upto[w]
        /\ pc'[w] = IF full[w] THEN "head" ELSE "wait"
        /\ UNCHANGED <<scheduled, woken, last, upto, full, openedAt, cursor, got>>
    BY <1>a, <1>6 DEF PageDone, Goto, localVars, readerVars
  <2>2. InLog(w)' /\ Covered(w)' /\ NewsOnly(w)'
    BY <1>b, <1>c, <2>1 DEF InLog, Covered, NewsOnly, Superseded
  <2>3. WillKnow(w)'
    BY <1>b, <1>c, <2>1 DEF WillKnow, Alert
  <2> QED BY <2>2, <2>3 DEF Watched
<1>7. CASE Subscribe(w) \/ Reconnect(w) \/ Resume(w)
  <2>1. PICK from \in {0, cursor[w]} : OpenStream(w, from)
    BY <1>7 DEF Subscribe, Reconnect, Resume
  <2>2. /\ pc'[w] = "start" /\ last'[w] = from /\ upto'[w] = from /\ openedAt'[w] = Len(log)
        /\ UNCHANGED <<cursor, got>>
    BY <1>a, <1>7, <2>1 DEF Subscribe, Reconnect, Resume, OpenStream, Goto
  <2>3. InLog(w)' /\ Covered(w)'
    BY <1>a, <1>b, <1>c, <2>2 DEF InLog, Covered, Superseded
  <2> QED BY <2>2, <2>3 DEF Watched, NewsOnly, WillKnow
<1>8. CASE ConnectRefused(w)
  <2>1. UNCHANGED <<scheduled, woken, pc, last, upto, full, openedAt, cursor, got>>
    BY <1>8 DEF ConnectRefused, streamVars, localVars
  <2> QED BY <1>b, <1>c, <2>1 DEF Watched, InLog, Covered, NewsOnly, WillKnow, Superseded, Alert
<1>9. CASE ConnectionEnds(w)
  <2>1. /\ pc'[w] = "none" /\ last'[w] = 0 /\ upto'[w] = 0 /\ openedAt'[w] = 0
        /\ UNCHANGED <<cursor, got>>
    BY <1>a, <1>9 DEF ConnectionEnds, EndStream, Goto
  <2>2. InLog(w)' /\ Covered(w)'
    BY <1>a, <1>b, <1>c, <2>1 DEF InLog, Covered, Superseded
  <2> QED BY <2>1, <2>2 DEF Watched, NewsOnly, WillKnow
<1> QED BY <1>1, <1>2, <1>3, <1>4, <1>5, <1>6, <1>7, <1>8, <1>9 DEF Local

LEMMA StreamInvariant == Spec => []StreamInv
<1>1. Init => StreamInv
  <2> SUFFICES ASSUME Init PROVE StreamInv
    OBVIOUS
  <2>1. TypeOK /\ LogFits
    BY InitTyped
  <2>2. \A w \in Watcher : last[w] = 0 /\ upto[w] = 0 /\ openedAt[w] = 0 /\ cursor[w] = 0 /\ pc[w] = "none"
    BY DEF Init
  <2>3. Len(log) \in Nat
    BY <2>1 DEF TypeOK
  <2> QED BY <2>1, <2>2, <2>3 DEF StreamInv, Watched, InLog, Covered, NewsOnly, WillKnow
<1>2. StreamInv /\ [Next]_vars => StreamInv'
  <2> SUFFICES ASSUME StreamInv, [Next]_vars PROVE StreamInv'
    OBVIOUS
  <2>1. TypeOK' /\ LogFits'
    BY NextTyped DEF StreamInv
  <2>2. ASSUME NEW w \in Watcher PROVE Watched(w)'
    <3>1. CASE Table
      <4>1. Recorded \/ Quiet
        BY <3>1, TableRecords DEF StreamInv
      <4>2. UNCHANGED <<pc, scheduled, woken, localVars, readerVars>>
        BY <3>1 DEF Table, streamVars
      <4> QED BY <2>1, <4>1, <4>2, TableKeeps
    <3>2. CASE Hub
      BY <2>1, <3>2, HubKeeps
    <3>3. CASE UNCHANGED vars
      BY <2>1, <3>3, TableKeeps DEF vars, streamVars
    <3>4. ASSUME NEW v \in Watcher, Local(v) PROVE Watched(w)'
      <4>1. CASE w = v
        BY <3>4, <4>1, OwnKeeps
      <4>2. CASE w # v
        <5>1. /\ UNCHANGED <<log, hubVars, pc[w], last[w], upto[w], full[w], openedAt[w], cursor[w], got[w],
                             woken[w]>>
              /\ w \in scheduled => w \in scheduled'
          BY <3>4, <4>2, OthersKeep
        <5>2. InLog(w) /\ Covered(w) /\ NewsOnly(w) /\ WillKnow(w)
          BY DEF StreamInv, Watched
        <5> QED BY <5>1, <5>2 DEF Watched, InLog, Covered, NewsOnly, WillKnow, Superseded, Alert, hubVars
      <4> QED BY <4>1, <4>2
    <3>5. ASSUME NEW v \in Watcher, CheckExpiry(v) PROVE Watched(w)'
      <4>1. Recorded \/ UNCHANGED <<logVars, hubVars>>
        BY <3>5, ExpiryRecords DEF CheckExpiry, StreamInv
      <4>2. /\ pc'[w] = pc[w] \/ (pc[w] = "expire" /\ pc'[w] = "read")
            /\ UNCHANGED <<scheduled, woken, localVars, readerVars>>
        BY <3>5 DEF CheckExpiry, Goto, StreamInv, TypeOK
      <4> QED BY <2>1, <4>1, <4>2, TableKeeps
    <3> QED BY <3>1, <3>2, <3>3, <3>4, <3>5, NextSplit
  <2> QED BY <2>1, <2>2 DEF StreamInv
<1> QED BY <1>1, <1>2, PTL DEF Spec

(* A browser has applied every event up to its cursor, except failures that a resume had   *)
(* made history, whatever pages, lost connections and reconnects lie in between.           *)
THEOREM WatchersMissNothing == Spec => []NothingMissed
<1>1. StreamInv => NothingMissed
  BY DEF StreamInv, Watched, Covered, NothingMissed
<1> QED BY <1>1, StreamInvariant, PTL

(* A stream that sleeps on a working listener has read the whole table, or its wake-up is  *)
(* on its way: subscribe, clear, read and wait lose no notification between them.          *)
THEOREM WakeupsArrive == Spec => []NoLostWakeup
<1>1. StreamInv => NoLostWakeup
  BY DEF StreamInv, Watched, WillKnow, Alert, NoLostWakeup
<1> QED BY <1>1, StreamInvariant, PTL

(* A browser never hangs up on a failure that was already resumed when its stream opened,  *)
(* wherever the pages end.                                                                 *)
THEOREM HangUpsAreNews == Spec => HangsUpOnNews
<1>1. ASSUME StreamInv, [Next]_vars, NEW w \in Watcher, reader[w] = "open", reader'[w] = "finished"
      PROVE  cursor'[w] >= openedAt[w]
  <2>1. PICK v \in Watcher : Local(v)
    BY <1>1, NextSplit DEF Table, Hub, CheckExpiry, readerVars, vars
  <2>2. w = v
    BY <1>1, <2>1, OthersKeep
  <2>3. SendEvent(w)
    BY <1>1, <2>1, <2>2 DEF Local, ClearWoken, ReadPage, TakeEvent, PageDone, Wake, Subscribe, Reconnect,
       ConnectRefused, ConnectionEnds, Resume, SetWoken, OpenStream, ScheduleReconnect, readerVars,
       StreamInv, TypeOK
  <2>4. pc[w] = "send" /\ log[last[w]] \in Terminal /\ cursor'[w] = last[w]
    BY <1>1, <2>3 DEF SendEvent, Apply, StreamInv, TypeOK
  <2> QED BY <1>1, <2>4 DEF StreamInv, Watched, NewsOnly
<1>2. StreamInv /\ [Next]_vars =>
        [\A w \in Watcher : reader[w] = "open" /\ reader'[w] = "finished" => cursor'[w] >= openedAt[w]]_vars
  BY <1>1
<1> QED BY <1>2, StreamInvariant, PTL DEF Spec, HangsUpOnNews

=============================================================================
