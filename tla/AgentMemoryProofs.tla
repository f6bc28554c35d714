-------------------------- MODULE AgentMemoryProofs -------------------------
(***************************************************************************)
(* Theorems about AgentMemory, for any number of processes, requests and   *)
(* threads, any size of the prompt cache and any number of crashes.        *)
(***************************************************************************)
EXTENDS AgentMemory, FiniteSetTheorems, WellFoundedInduction, TLAPS

Steps == {"idle", "acquire", "write", "bump", "epoch", "snapshot", "keep", "served", "drop",
          "drop_meta"}
Ops == Mutations \cup {"refresh", "turn", None}
Kept == [edition : Nat, day : 0 .. 1]
Metas == [epoch : Nat, day : 0 .. 1]

\* A request is about what its step works on.
Staged ==
    \A c \in Caller :
        /\ pc[c] \in {"epoch", "snapshot", "keep", "served"} =>
             on[c] \in Proc /\ thread[c] \in Thread /\ op[c] = "turn"
        /\ pc[c] \in {"drop", "drop_meta"} => on[c] \in Proc /\ op[c] = "refresh"
        /\ pc[c] = "drop_meta" => seen[c].key \in Thread
        /\ pc[c] = "bump" => op[c] = "refresh"
        /\ pc[c] = "acquire" => op[c] \in Mutations \cup {"refresh"}
        /\ pc[c] = "write" => op[c] \in Mutations

\* Who writes holds the lock, and has read what is still in the file.
Exclusive ==
    \A c \in Caller :
        /\ pc[c] \in {"write", "bump"} => lock = c
        /\ pc[c] = "write" /\ op[c] \notin Saves => seen[c].memory = memory

\* No refresh covers a write that has not happened.
CoversThePast ==
    /\ \A t \in Thread : refreshed[t] <= edition
    /\ \A c \in Caller : op[c] = "refresh" => seen[c].edition <= edition

\* A prompt of d writes, dated e, shows what the refreshes of t promise, or its date tells.
Telling(d, e, t) ==
    e <= SnapshotEpoch(t) /\ (d >= refreshed[t] \/ e < SnapshotEpoch(t))

\* A prompt kept with its date tells when it is out of date.
KeptTell ==
    \A p \in Proc, t \in Thread :
        prompts[p][t] # None /\ metas[p][t] # None
        => /\ prompts[p][t].day = metas[p][t].day
           /\ Telling(prompts[p][t].edition, metas[p][t].epoch, t)

\* So does the prompt a turn is building; and the turn owes its caller no more than it had.
TurnsTell ==
    \A c \in Caller :
        /\ pc[c] = "epoch" => due[c].edition <= refreshed[thread[c]] /\ due[c].day <= day
        /\ pc[c] = "snapshot" =>
             /\ due[c].edition <= refreshed[thread[c]] /\ due[c].day <= seen[c].day
             /\ seen[c].epoch <= SnapshotEpoch(thread[c])
        /\ pc[c] = "keep" => ShowsCurrent(c) /\ Telling(seen[c].edition, seen[c].epoch, thread[c])
        /\ pc[c] = "served" /\ seen[c].dated => ShowsCurrent(c)

MemoryInv == TypeOK /\ Staged /\ Exclusive /\ CoversThePast /\ KeptTell /\ TurnsTell

-----------------------------------------------------------------------------
(* Epochs. *)

LEMMA MaxOfTwo ==
  ASSUME NEW a \in Nat, NEW b \in Nat
  PROVE  Max({a, b}) \in {a, b} /\ Max({a, b}) >= a /\ Max({a, b}) >= b
<1>1. PICK m \in {a, b} : m >= a /\ m >= b
  OBVIOUS
<1>2. \E x \in {a, b} : \A y \in {a, b} : x >= y
  BY <1>1
<1> QED BY <1>2 DEF Max

\* A finite set of natural numbers has a greatest element: a smallest subset without one
\* would have one with an element taken out.
LEMMA HasMax ==
  ASSUME NEW S \in SUBSET Nat, IsFiniteSet(S), S # {}
  PROVE  Max(S) \in S /\ \A y \in S : Max(S) >= y
<1> DEFINE Topped(X) == \E x \in X : \A y \in X : x >= y
           Bad == {X \in SUBSET S : X # {} /\ ~Topped(X)}
<1>1. IsWellFoundedOn(StrictSubsetOrdering(S), FiniteSubsetsOf(S))
  BY FS_StrictSubsetOrderingWellFounded
<1>2. Bad \subseteq FiniteSubsetsOf(S)
  BY FS_FiniteSubsetsOfFinite
<1>3. Bad = {}
  <2> SUFFICES ASSUME Bad # {} PROVE FALSE
    OBVIOUS
  <2>1. PICK X \in Bad : \A Y \in Bad : <<Y, X>> \notin StrictSubsetOrdering(S)
    <3> HIDE DEF Bad
    <3> QED BY <1>1, <1>2, WFMin
  <2>2. PICK x \in X : TRUE
    BY <2>1
  <2>3. X \ {x} \notin Bad
    BY <2>1, <2>2 DEF StrictSubsetOrdering
  <2>4. CASE X = {x}
    BY <2>1, <2>2, <2>4
  <2>5. CASE X # {x}
    <3>1. X \ {x} # {} /\ X \ {x} \in SUBSET S /\ X \in SUBSET Nat
      BY <2>1, <2>2, <2>5
    <3>2. PICK m \in X \ {x} : \A y \in X \ {x} : m >= y
      BY <2>3, <3>1
    <3>3. (\A y \in X : m >= y) \/ (\A y \in X : x >= y)
      BY <2>2, <3>1, <3>2
    <3> QED BY <2>1, <2>2, <3>2, <3>3
  <2> QED BY <2>4, <2>5
<1>4. \E x \in S : \A y \in S : x >= y
  BY <1>3
<1> QED BY <1>4 DEF Max

LEMMA EpochTyped ==
  ASSUME TypeOK, NEW t \in Thread
  PROVE  SnapshotEpoch(t) \in Nat
<1>1. epochs.all \in Nat /\ epochs.threads[t] \in Nat
  BY DEF TypeOK
<1> QED BY <1>1, MaxOfTwo DEF SnapshotEpoch

Highest == Max({epochs.all} \cup {epochs.threads[u] : u \in Thread})

LEMMA HighestIsHigh ==
  ASSUME TypeOK
  PROVE  Highest \in Nat /\ Highest >= epochs.all /\ \A t \in Thread : Highest >= epochs.threads[t]
<1> DEFINE All == {epochs.all} \cup {epochs.threads[u] : u \in Thread}
<1>a. epochs \in [all : Nat, threads : [Thread -> Nat]]
  BY DEF TypeOK
<1>1. IsFiniteSet({epochs.threads[u] : u \in Thread})
  <2> DEFINE f == [u \in Thread |-> epochs.threads[u]]
  <2>1. f \in Surjection(Thread, {epochs.threads[u] : u \in Thread})
    BY DEF Surjection
  <2> QED BY <2>1, FS_Surjection, ThreadAssumption
<1>2. All \in SUBSET Nat /\ All # {}
  BY <1>a
<1>3. IsFiniteSet(All)
  BY <1>1, FS_Union, FS_Singleton
<1>4. Max(All) \in All /\ \A y \in All : Max(All) >= y
  BY <1>2, <1>3, HasMax
<1>5. \A t \in Thread : epochs.threads[t] \in All
  OBVIOUS
<1> QED BY <1>2, <1>4, <1>5 DEF Highest

LEMMA BumpTyped ==
  ASSUME TypeOK, NEW c \in Caller, BumpSnapshotEpoch(c)
  PROVE  /\ epochs' = IF thread[c] = None
                      THEN [all |-> 1 + Highest, threads |-> [u \in Thread |-> 0]]
                      ELSE [epochs EXCEPT !.threads[thread[c]] = 1 + Highest]
         /\ epochs' \in [all : Nat, threads : [Thread -> Nat]]
         /\ \A t \in Thread : refreshed'[t] = IF thread[c] \in {None, t}
                                             THEN Max({refreshed[t], seen[c].edition}) ELSE refreshed[t]
         /\ \A t \in Thread :
              /\ Max({refreshed[t], seen[c].edition}) \in {refreshed[t], seen[c].edition}
              /\ Max({refreshed[t], seen[c].edition}) >= refreshed[t]
         /\ refreshed' \in [Thread -> Nat]
<1>1. epochs' = IF thread[c] = None
                THEN [all |-> 1 + Highest, threads |-> [u \in Thread |-> 0]]
                ELSE [epochs EXCEPT !.threads[thread[c]] = 1 + Highest]
  BY DEF BumpSnapshotEpoch, Highest
<1>2. refreshed' = [u \in Thread |->
             IF u \in {v \in Thread : thread[c] \in {None, v}}
             THEN Max({refreshed[u], seen[c].edition}) ELSE refreshed[u]]
  BY DEF BumpSnapshotEpoch
<1>3. 1 + Highest \in Nat
  BY HighestIsHigh
<1>4. ASSUME NEW t \in Thread
      PROVE  /\ Max({refreshed[t], seen[c].edition}) \in {refreshed[t], seen[c].edition}
             /\ Max({refreshed[t], seen[c].edition}) >= refreshed[t]
             /\ Max({refreshed[t], seen[c].edition}) \in Nat
             /\ refreshed[t] \in Nat
  <2>1. refreshed[t] \in Nat /\ seen[c].edition \in Nat
    BY DEF TypeOK, Sights
  <2> QED BY <2>1, MaxOfTwo
<1>5. epochs' \in [all : Nat, threads : [Thread -> Nat]]
  BY <1>1, <1>3 DEF TypeOK
<1>6. refreshed' \in [Thread -> Nat]
  BY <1>2, <1>4
<1> QED BY <1>1, <1>2, <1>4, <1>5, <1>6

\* A bump puts the threads it covers ahead of every epoch there was, and leaves the others
\* where they are.
LEMMA BumpsAhead ==
  ASSUME TypeOK, NEW c \in Caller, BumpSnapshotEpoch(c), NEW t \in Thread
  PROVE  IF thread[c] \in {None, t}
         THEN /\ SnapshotEpoch(t)' > SnapshotEpoch(t)
              /\ refreshed'[t] \in {refreshed[t], seen[c].edition} /\ refreshed'[t] >= refreshed[t]
         ELSE SnapshotEpoch(t)' = SnapshotEpoch(t) /\ refreshed'[t] = refreshed[t]
<1> DEFINE next == 1 + Highest
<1>a. epochs \in [all : Nat, threads : [Thread -> Nat]]
  BY DEF TypeOK
<1>1. next \in Nat /\ next > epochs.all /\ next > epochs.threads[t]
  BY <1>a, HighestIsHigh
<1>2. SnapshotEpoch(t) \in Nat /\ next > SnapshotEpoch(t)
  <2>1. SnapshotEpoch(t) \in {epochs.all, epochs.threads[t]}
    BY <1>a, MaxOfTwo DEF SnapshotEpoch
  <2> QED BY <1>1, <2>1, EpochTyped
<1>3. thread[c] \in {None, t} =>
        refreshed'[t] \in {refreshed[t], seen[c].edition} /\ refreshed'[t] >= refreshed[t]
  <2>1. thread[c] \in {None, t} => refreshed'[t] = Max({refreshed[t], seen[c].edition})
    BY BumpTyped
  <2>2. /\ Max({refreshed[t], seen[c].edition}) \in {refreshed[t], seen[c].edition}
        /\ Max({refreshed[t], seen[c].edition}) >= refreshed[t]
    BY BumpTyped
  <2> QED BY <2>1, <2>2
<1>4. epochs' = IF thread[c] = None
                THEN [all |-> next, threads |-> [u \in Thread |-> 0]]
                ELSE [epochs EXCEPT !.threads[thread[c]] = next]
  BY BumpTyped
<1> HIDE DEF next
<1>5. SnapshotEpoch(t)' = Max({epochs'.all, epochs'.threads[t]})
  BY DEF SnapshotEpoch
<1>6. CASE thread[c] = None
  <2>1. epochs'.all = next /\ epochs'.threads[t] = 0
    BY <1>4, <1>6
  <2>2. Max({next, 0}) >= next /\ Max({next, 0}) \in {next, 0}
    BY <1>1, MaxOfTwo
  <2>3. SnapshotEpoch(t)' = Max({next, 0})
    BY <1>5, <2>1
  <2> QED BY <1>1, <1>2, <1>3, <1>6, <2>2, <2>3
<1>7. CASE thread[c] = t /\ thread[c] # None
  <2>1. epochs'.all = epochs.all /\ epochs'.threads[t] = next
    BY <1>a, <1>4, <1>7
  <2>2. Max({epochs.all, next}) >= next /\ Max({epochs.all, next}) \in {epochs.all, next}
    BY <1>a, <1>1, MaxOfTwo
  <2>3. SnapshotEpoch(t)' = Max({epochs.all, next})
    BY <1>5, <2>1
  <2> QED BY <1>a, <1>1, <1>2, <1>3, <1>7, <2>2, <2>3
<1>8. CASE thread[c] \notin {None, t}
  <2>1. epochs'.all = epochs.all /\ epochs'.threads[t] = epochs.threads[t]
    BY <1>a, <1>4, <1>8
  <2>2. refreshed'[t] = refreshed[t]
    BY <1>8, BumpTyped
  <2> QED BY <1>5, <1>8, <2>1, <2>2 DEF SnapshotEpoch
<1> QED BY <1>6, <1>7, <1>8

-----------------------------------------------------------------------------
(* Types. *)

LEMMA BlankTyped == Blank \in Sights
BY DEF Blank, Sights

CallersTyped ==
    /\ on \in [Caller -> Proc \cup {None}] /\ op \in [Caller -> Ops] /\ pc \in [Caller -> Steps]
    /\ thread \in [Caller -> Thread \cup {None}]
    /\ seen \in [Caller -> Sights] /\ due \in [Caller -> Sights]

RestTyped ==
    /\ memory \subseteq Nat /\ edition \in Nat /\ refreshed \in [Thread -> Nat]
    /\ epochs \in [all : Nat, threads : [Thread -> Nat]]
    /\ lock \in Caller \cup {None} /\ day \in 0 .. 1
    /\ prompts \in [Proc -> [Thread -> Kept \cup {None}]]
    /\ metas \in [Proc -> [Thread -> Metas \cup {None}]]
    /\ refreshes \in Nat /\ turns \in Nat /\ crashes \in Nat

LEMMA TypeParts == TypeOK <=> CallersTyped /\ RestTyped
BY DEF TypeOK, CallersTyped, RestTyped, Ops, Steps, Kept, Metas

LEMMA TypeWhole == CallersTyped' /\ RestTyped' => TypeOK'
BY DEF TypeOK, CallersTyped, RestTyped, Ops, Steps, Kept, Metas

LEMMA ReturnTyped ==
  ASSUME TypeOK, NEW c \in Caller, Return(c)
  PROVE  CallersTyped'
BY TypeParts, BlankTyped DEF CallersTyped, Return, Go, Ops, Steps

LEMMA BeginTyped ==
  ASSUME TypeOK, NEW c \in Caller, NEW p \in Proc, NEW request \in Ops, NEW t \in Thread \cup {None},
         NEW step \in Steps, NEW what \in Sights, Begin(c, p, request, t, step, what),
         due' \in [Caller -> Sights], refreshes' \in Nat, turns' \in Nat, crashes' \in Nat
  PROVE  TypeOK'
<1>1. CallersTyped'
  BY TypeParts DEF CallersTyped, Begin, Go
<1>2. RestTyped'
  BY TypeParts DEF RestTyped, Begin, store
<1> QED BY <1>1, <1>2, TypeWhole

\* The requests that only move on, and perhaps learn something.
LEMMA SeenTyped ==
  ASSUME TypeOK, NEW c \in Caller, NEW step \in Steps, Go(c, step), seen' \in [Caller -> Sights],
         UNCHANGED <<on, op, thread, due>>
  PROVE  CallersTyped'
BY TypeParts DEF CallersTyped, Go

LEMMA PutTyped ==
  ASSUME TypeOK, Staged, NEW c \in Caller, pc[c] = "keep", NEW oldest,
         NEW S, NEW cache \in [Proc -> [Thread -> S \cup {None}]], NEW entry \in S
  PROVE  Put(cache, c, entry, oldest) \in [Proc -> [Thread -> S \cup {None}]]
BY DEF Staged, Put

LEMMA PutAt ==
  ASSUME NEW c \in Caller, NEW oldest, NEW entry, NEW p \in Proc, NEW t \in Thread,
         NEW cache, DOMAIN cache = Proc
  PROVE  Put(cache, c, entry, oldest)[p][t] =
             IF p # on[c] THEN cache[p][t]
             ELSE IF t = thread[c] THEN entry ELSE IF t = oldest THEN None ELSE cache[p][t]
<1> DEFINE row == [u \in Thread |-> IF u = thread[c] THEN entry ELSE IF u = oldest THEN None ELSE cache[on[c]][u]]
<1>1. Put(cache, c, entry, oldest) = [cache EXCEPT ![on[c]] = row]
  BY DEF Put
<1>2. row[t] = IF t = thread[c] THEN entry ELSE IF t = oldest THEN None ELSE cache[on[c]][t]
  OBVIOUS
<1> HIDE DEF row
<1>3. CASE p = on[c]
  BY <1>1, <1>2, <1>3
<1>4. CASE p # on[c]
  BY <1>1, <1>4
<1> QED BY <1>3, <1>4

LEMMA HandleTyped ==
  ASSUME TypeOK, Staged, NEW c \in Caller, Handle(c)
  PROVE  TypeOK'
<1>a. CallersTyped /\ RestTyped
  BY TypeParts
<1>b. seen[c] \in Sights
  BY <1>a DEF CallersTyped
<1>1. CASE BeginMutation(c)
  <2>1. PICK p \in Proc, request \in Mutations :
          Begin(c, p, request, None, "acquire", [Blank EXCEPT !.memory = memory])
    BY <1>1 DEF BeginMutation
  <2>2. [Blank EXCEPT !.memory = memory] \in Sights
    <3>1. memory \in SUBSET Nat
      BY <1>a DEF RestTyped
    <3> QED BY <3>1, BlankTyped DEF Sights
  <2>3. request \in Ops /\ "acquire" \in Steps
    BY DEF Ops, Steps
  <2>4. UNCHANGED <<due, refreshes, turns, crashes>>
    BY <1>1 DEF BeginMutation, counts
  <2> QED BY <1>a, <2>1, <2>2, <2>3, <2>4, BeginTyped DEF CallersTyped, RestTyped
<1>2. CASE BeginRefresh(c)
  <2>1. PICK p \in Proc, t \in Thread \cup {None} :
          Begin(c, p, "refresh", t, "drop",
             [Blank EXCEPT !.edition = edition,
                           !.todo = {u \in Thread : prompts[p][u] # None /\ t \in {None, u}}])
    BY <1>2 DEF BeginRefresh
  <2> DEFINE todo == {u \in Thread : prompts[p][u] # None /\ t \in {None, u}}
             what == [Blank EXCEPT !.edition = edition, !.todo = todo]
  <2>2. what \in Sights
    <3>1. todo \in SUBSET Thread /\ edition \in Nat
      BY <1>a DEF RestTyped
    <3> HIDE DEF todo
    <3> QED BY <3>1, BlankTyped DEF Sights
  <2>3. "refresh" \in Ops /\ "drop" \in Steps
    BY DEF Ops, Steps
  <2>4. UNCHANGED <<due, turns, crashes>> /\ refreshes' \in Nat
    BY <1>2, <1>a DEF BeginRefresh, RestTyped
  <2> HIDE DEF what
  <2> QED BY <1>a, <2>1, <2>2, <2>3, <2>4, BeginTyped DEF CallersTyped, RestTyped, what
<1>3. CASE BeginTurn(c)
  <2>1. PICK p \in Proc, t \in Thread :
          /\ Begin(c, p, "turn", t, "epoch", Blank)
          /\ due' = [due EXCEPT ![c] = [Blank EXCEPT !.edition = refreshed[t], !.day = day]]
    BY <1>3 DEF BeginTurn
  <2>2. [Blank EXCEPT !.edition = refreshed[t], !.day = day] \in Sights
    <3>1. refreshed[t] \in Nat /\ day \in 0 .. 1
      BY <1>a DEF RestTyped
    <3> QED BY <3>1, BlankTyped DEF Sights
  <2>3. "turn" \in Ops /\ "epoch" \in Steps
    BY DEF Ops, Steps
  <2>4. UNCHANGED <<refreshes, crashes>> /\ turns' \in Nat
    BY <1>3, <1>a DEF BeginTurn, RestTyped
  <2>5. due' \in [Caller -> Sights]
    BY <1>a, <2>1, <2>2 DEF CallersTyped
  <2> QED BY <1>a, <2>1, <2>3, <2>4, <2>5, BeginTyped, BlankTyped DEF RestTyped
<1>4. CASE Acquire(c)
  <2>1. seen' \in [Caller -> Sights]
    <3>1. [seen[c] EXCEPT !.memory = IF op[c] \in Saves THEN seen[c].memory ELSE memory] \in Sights
      BY <1>a, <1>b DEF RestTyped, Sights
    <3>2. seen' = [seen EXCEPT ![c] = [seen[c] EXCEPT
                      !.memory = IF op[c] \in Saves THEN seen[c].memory ELSE memory]]
      BY <1>4, <1>a DEF Acquire, CallersTyped
    <3> QED BY <1>a, <3>1, <3>2 DEF CallersTyped
  <2>2. \E step \in Steps : Go(c, step)
    BY <1>4 DEF Acquire, Steps
  <2>3. CallersTyped'
    BY <1>4, <2>1, <2>2, SeenTyped DEF Acquire
  <2>4. RestTyped'
    BY <1>a, <1>4 DEF RestTyped, Acquire, store, counts
  <2> QED BY <2>3, <2>4, TypeWhole
<1>5. CASE LockTimesOut(c) \/ EndTurn(c)
  <2>1. CallersTyped'
    BY <1>5, ReturnTyped DEF LockTimesOut, EndTurn
  <2>2. RestTyped'
    BY <1>a, <1>5 DEF RestTyped, LockTimesOut, EndTurn, store, counts
  <2> QED BY <2>1, <2>2, TypeWhole
<1>6. CASE WriteMemory(c)
  <2>1. CallersTyped'
    BY <1>6, ReturnTyped DEF WriteMemory
  <2>2. op[c] \in Mutations
    BY <1>6 DEF WriteMemory, Staged
  <2>3. Results(c) \subseteq SUBSET Nat
    BY <1>a, <1>b, <2>2 DEF Results, New, Saves, Mutations, RestTyped, Sights
  <2>4. memory' \subseteq Nat /\ edition' \in Nat
    <3>1. memory \subseteq Nat /\ edition \in Nat
      BY <1>a DEF RestTyped
    <3>2. CASE memory' \in Results(c) /\ edition' = edition + 1
      BY <2>3, <3>1, <3>2
    <3>3. CASE UNCHANGED <<memory, edition>>
      BY <3>1, <3>3
    <3> QED BY <1>6, <3>2, <3>3 DEF WriteMemory, New
  <2>5. RestTyped'
    BY <1>a, <1>6, <2>4 DEF RestTyped, WriteMemory, counts
  <2> QED BY <2>1, <2>5, TypeWhole
<1>7. CASE ReadEpoch(c)
  <2>1. on[c] \in Proc /\ thread[c] \in Thread
    BY <1>7 DEF ReadEpoch, Staged
  <2> DEFINE cached == prompts[on[c]][thread[c]]
             dated == metas[on[c]][thread[c]] # None
             reused == [Blank EXCEPT !.edition = cached.edition, !.day = cached.day, !.dated = dated]
             begun == [Blank EXCEPT !.epoch = SnapshotEpoch(thread[c]), !.day = day]
  <2>2. \/ cached # None /\ seen' = [seen EXCEPT ![c] = reused] /\ Go(c, "served")
        \/ seen' = [seen EXCEPT ![c] = begun] /\ Go(c, "snapshot")
    BY <1>7 DEF ReadEpoch
  <2>3. cached \in Kept \cup {None}
    BY <1>a, <2>1 DEF RestTyped
  <2>4. cached # None => reused \in Sights
    BY <2>3 DEF Kept, Sights, Blank
  <2>5. begun \in Sights
    BY <1>a, <2>1, EpochTyped DEF RestTyped, Sights, Blank
  <2> HIDE DEF cached, reused, begun
  <2>6. seen' \in [Caller -> Sights]
    BY <1>a, <2>2, <2>4, <2>5 DEF CallersTyped
  <2>7. \E step \in Steps : Go(c, step)
    BY <2>2 DEF Steps
  <2>8. CallersTyped'
    BY <1>7, <2>6, <2>7, SeenTyped DEF ReadEpoch
  <2>9. RestTyped'
    BY <1>a, <1>7 DEF RestTyped, ReadEpoch, store, counts
  <2> QED BY <2>8, <2>9, TypeWhole
<1>8. CASE TakeSnapshot(c)
  <2>1. seen' \in [Caller -> Sights]
    <3>1. [seen[c] EXCEPT !.edition = edition] \in Sights
      BY <1>a, <1>b DEF RestTyped, Sights
    <3> QED BY <1>a, <1>8, <3>1 DEF TakeSnapshot, CallersTyped
  <2>2. CallersTyped'
    BY <1>8, <2>1, SeenTyped DEF TakeSnapshot, Steps
  <2>3. RestTyped'
    BY <1>a, <1>8 DEF RestTyped, TakeSnapshot, store, counts
  <2> QED BY <2>2, <2>3, TypeWhole
<1>9. CASE KeepPrompt(c)
  <2>1. PICK oldest \in Crowding(c) :
         /\ prompts' = Put(prompts, c, [edition |-> seen[c].edition, day |-> seen[c].day], oldest)
         /\ metas' = Put(metas, c, [epoch |-> seen[c].epoch, day |-> seen[c].day], oldest)
    BY <1>9 DEF KeepPrompt
  <2>2. /\ [edition |-> seen[c].edition, day |-> seen[c].day] \in Kept
        /\ [epoch |-> seen[c].epoch, day |-> seen[c].day] \in Metas
    BY <1>b DEF Sights, Kept, Metas
  <2>3. pc[c] = "keep"
    BY <1>9 DEF KeepPrompt
  <2>4. prompts' \in [Proc -> [Thread -> Kept \cup {None}]]
    BY <1>a, <2>1, <2>2, <2>3, PutTyped DEF RestTyped
  <2>5. metas' \in [Proc -> [Thread -> Metas \cup {None}]]
    BY <1>a, <2>1, <2>2, <2>3, PutTyped DEF RestTyped
  <2>6. RestTyped'
    BY <1>a, <1>9, <2>4, <2>5 DEF RestTyped, KeepPrompt, store, counts
  <2>7. CallersTyped'
    BY <1>a, <1>9, SeenTyped DEF KeepPrompt, Steps, CallersTyped
  <2> QED BY <2>6, <2>7, TypeWhole
<1>10. CASE DropPrompt(c)
  <2>1. on[c] \in Proc
    BY <1>10 DEF DropPrompt, Staged
  <2>2. CASE Go(c, "acquire") /\ UNCHANGED <<prompts, seen>>
    <3>1. CallersTyped'
      BY <1>a, <1>10, <2>2, SeenTyped DEF DropPrompt, Steps, CallersTyped
    <3> QED BY <1>a, <1>10, <2>2, <3>1, TypeWhole DEF RestTyped, DropPrompt, store, counts
  <2>3. CASE \E t \in seen[c].todo :
               /\ prompts' = [prompts EXCEPT ![on[c]][t] = None]
               /\ seen' = [seen EXCEPT ![c].todo = @ \ {t}, ![c].key = t]
               /\ Go(c, "drop_meta")
    <3>1. PICK t \in seen[c].todo :
               /\ prompts' = [prompts EXCEPT ![on[c]][t] = None]
               /\ seen' = [seen EXCEPT ![c].todo = @ \ {t}, ![c].key = t]
               /\ Go(c, "drop_meta")
      BY <2>3
    <3>2. t \in Thread
      BY <1>b DEF Sights
    <3>3. prompts' \in [Proc -> [Thread -> Kept \cup {None}]]
      BY <1>a, <2>1, <3>1, <3>2 DEF RestTyped
    <3>4. [seen[c] EXCEPT !.todo = seen[c].todo \ {t}, !.key = t] \in Sights
      BY <1>b, <3>2 DEF Sights
    <3>5. seen' = [seen EXCEPT ![c] = [seen[c] EXCEPT !.todo = seen[c].todo \ {t}, !.key = t]]
      BY <1>a, <1>b, <3>1 DEF CallersTyped, Sights
    <3>6. seen' \in [Caller -> Sights]
      BY <1>a, <3>4, <3>5 DEF CallersTyped
    <3>7. CallersTyped'
      BY <1>10, <3>1, <3>6, SeenTyped DEF DropPrompt, Steps
    <3> QED BY <1>a, <1>10, <3>3, <3>7, TypeWhole DEF RestTyped, DropPrompt, store, counts
  <2> QED BY <1>10, <2>2, <2>3 DEF DropPrompt
<1>11. CASE DropMeta(c)
  <2>1. on[c] \in Proc /\ seen[c].key \in Thread
    BY <1>11 DEF DropMeta, Staged
  <2>2. metas' \in [Proc -> [Thread -> Metas \cup {None}]]
    BY <1>a, <1>11, <2>1 DEF DropMeta, RestTyped
  <2>3. CallersTyped'
    BY <1>a, <1>11, SeenTyped DEF DropMeta, Steps, CallersTyped
  <2> QED BY <1>a, <1>11, <2>2, <2>3, TypeWhole DEF RestTyped, DropMeta, store, counts
<1>12. CASE BumpSnapshotEpoch(c)
  <2>1. CallersTyped'
    BY <1>12, ReturnTyped DEF BumpSnapshotEpoch
  <2>2. epochs' \in [all : Nat, threads : [Thread -> Nat]] /\ refreshed' \in [Thread -> Nat]
    BY <1>12, BumpTyped
  <2> QED BY <1>a, <1>12, <2>1, <2>2, TypeWhole DEF RestTyped, BumpSnapshotEpoch, counts
<1> QED BY <1>1, <1>2, <1>3, <1>4, <1>5, <1>6, <1>7, <1>8, <1>9, <1>10, <1>11, <1>12 DEF Handle

LEMMA CrashTyped ==
  ASSUME TypeOK, NEW p \in Proc, Crash(p)
  PROVE  TypeOK'
<1>a. CallersTyped /\ RestTyped
  BY TypeParts
<1>1. on' \in [Caller -> Proc \cup {None}] /\ op' \in [Caller -> Ops] /\ pc' \in [Caller -> Steps]
  BY <1>a DEF Crash, CallersTyped, Ops, Steps
<1>2. thread' \in [Caller -> Thread \cup {None}] /\ seen' \in [Caller -> Sights] /\ due' \in [Caller -> Sights]
  BY <1>a, BlankTyped DEF Crash, CallersTyped
<1>3. NoPrompts \in [Thread -> Kept \cup {None}] /\ NoPrompts \in [Thread -> Metas \cup {None}]
  BY DEF NoPrompts
<1>4. prompts' \in [Proc -> [Thread -> Kept \cup {None}]] /\ metas' \in [Proc -> [Thread -> Metas \cup {None}]]
  BY <1>a, <1>3 DEF Crash, RestTyped
<1>5. crashes' \in Nat /\ lock' \in Caller \cup {None}
  BY <1>a DEF Crash, RestTyped
<1>6. RestTyped'
  BY <1>a, <1>4, <1>5 DEF Crash, RestTyped, store
<1>7. CallersTyped'
  BY <1>1, <1>2 DEF CallersTyped
<1> QED BY <1>6, <1>7, TypeWhole

LEMMA InitTyped ==
  ASSUME Init
  PROVE  TypeOK
<1>1. CallersTyped
  BY BlankTyped DEF Init, CallersTyped, Ops, Steps
<1>2. /\ prompts \in [Proc -> [Thread -> Kept \cup {None}]]
      /\ metas \in [Proc -> [Thread -> Metas \cup {None}]]
  BY DEF Init, NoPrompts
<1>3. epochs \in [all : Nat, threads : [Thread -> Nat]] /\ refreshed \in [Thread -> Nat]
  BY DEF Init
<1>4. RestTyped
  BY <1>2, <1>3 DEF Init, RestTyped
<1> QED BY <1>1, <1>4, TypeParts

LEMMA NextTyped ==
  ASSUME TypeOK, Staged, [Next]_vars
  PROVE  TypeOK'
<1>1. CASE \E c \in Caller : Handle(c)
  BY <1>1, HandleTyped
<1>2. CASE NextDay
  BY <1>2, TypeParts, TypeWhole DEF NextDay, CallersTyped, RestTyped, store, callers, counts
<1>3. CASE \E p \in Proc : Crash(p)
  BY <1>3, CrashTyped
<1>4. CASE UNCHANGED vars
  BY <1>4, TypeParts, TypeWhole DEF vars, CallersTyped, RestTyped, store, callers, counts
<1> QED BY <1>1, <1>2, <1>3, <1>4 DEF Next

-----------------------------------------------------------------------------
(* The lock. *)

\* A step of one request leaves the others where they are.
LEMMA OthersKeep ==
  ASSUME TypeOK, NEW c \in Caller, Handle(c), NEW d \in Caller, d # c
  PROVE  UNCHANGED <<on[d], op[d], pc[d], thread[d], seen[d], due[d]>>
<1>a. CallersTyped
  BY TypeParts
<1>1. CASE BeginMutation(c) \/ BeginRefresh(c) \/ BeginTurn(c)
  <2>1. \E p, request, t, step, what : Begin(c, p, request, t, step, what)
    BY <1>1 DEF BeginMutation, BeginRefresh, BeginTurn
  <2>2. UNCHANGED <<on[d], op[d], pc[d], thread[d], seen[d]>>
    BY <1>a, <2>1 DEF Begin, Go, CallersTyped
  <2>3. due'[d] = due[d]
    BY <1>a, <1>1 DEF BeginMutation, BeginRefresh, BeginTurn, CallersTyped
  <2> QED BY <2>2, <2>3
<1>2. CASE Return(c)
  BY <1>a, <1>2 DEF Return, Go, CallersTyped
<1>3. CASE Acquire(c) \/ TakeSnapshot(c) \/ KeepPrompt(c) \/ DropMeta(c)
  BY <1>a, <1>3 DEF Acquire, TakeSnapshot, KeepPrompt, DropMeta, Go, CallersTyped
<1>4. CASE ReadEpoch(c) \/ DropPrompt(c)
  BY <1>a, <1>4 DEF ReadEpoch, DropPrompt, Go, CallersTyped
<1> QED BY <1>1, <1>2, <1>3, <1>4 DEF Handle, LockTimesOut, WriteMemory, EndTurn, BumpSnapshotEpoch

\* Nobody else touches the file or the lock of the request that holds it.
LEMMA HolderRules ==
  ASSUME TypeOK, Exclusive, NEW c \in Caller, Handle(c), NEW d \in Caller, d # c, lock = d
  PROVE  UNCHANGED <<lock, memory>>
<1>1. lock # None
  BY NoneAssumption
<1>2. pc[c] \notin {"write", "bump"}
  BY DEF Exclusive
<1> QED BY <1>1, <1>2 DEF Handle, BeginMutation, BeginRefresh, BeginTurn, Begin, Acquire, LockTimesOut,
        WriteMemory, ReadEpoch, TakeSnapshot, KeepPrompt, EndTurn, DropPrompt, DropMeta,
        BumpSnapshotEpoch, store

LEMMA LocksNext ==
  ASSUME TypeOK, Staged, Exclusive, [Next]_vars
  PROVE  Staged' /\ Exclusive'
<1>a. CallersTyped
  BY TypeParts
<1> DEFINE StagedAt(d) ==
        /\ pc[d] \in {"epoch", "snapshot", "keep", "served"} =>
             on[d] \in Proc /\ thread[d] \in Thread /\ op[d] = "turn"
        /\ pc[d] \in {"drop", "drop_meta"} => on[d] \in Proc /\ op[d] = "refresh"
        /\ pc[d] = "drop_meta" => seen[d].key \in Thread
        /\ pc[d] = "bump" => op[d] = "refresh"
        /\ pc[d] = "acquire" => op[d] \in Mutations \cup {"refresh"}
        /\ pc[d] = "write" => op[d] \in Mutations
    ExclusiveAt(d) ==
        /\ pc[d] \in {"write", "bump"} => lock = d
        /\ pc[d] = "write" /\ op[d] \notin Saves => seen[d].memory = memory
<1>b. \A d \in Caller : StagedAt(d) /\ ExclusiveAt(d)
  BY DEF Staged, Exclusive
<1>1. ASSUME NEW c \in Caller, Handle(c) PROVE StagedAt(c)' /\ ExclusiveAt(c)'
  <2>1. CASE BeginMutation(c) \/ BeginRefresh(c) \/ BeginTurn(c)
    <3>1. \/ pc'[c] = "acquire" /\ op'[c] \in Mutations
          \/ pc'[c] = "drop" /\ op'[c] = "refresh" /\ on'[c] \in Proc
          \/ pc'[c] = "epoch" /\ on'[c] \in Proc /\ thread'[c] \in Thread /\ op'[c] = "turn"
      BY <1>a, <2>1 DEF BeginMutation, BeginRefresh, BeginTurn, Begin, Go, CallersTyped
    <3> QED BY <3>1
  <2>2. CASE Return(c)
    BY <1>a, <2>2 DEF Return, Go, CallersTyped
  <2>3. CASE Acquire(c)
    <3>1. /\ pc[c] = "acquire" /\ pc'[c] = IF op[c] = "refresh" THEN "bump" ELSE "write"
          /\ lock' = c /\ UNCHANGED <<memory, on, op>>
      BY <1>a, <2>3 DEF Acquire, Go, CallersTyped, store
    <3>2. seen'[c].memory = IF op[c] \in Saves THEN seen[c].memory ELSE memory
      BY <1>a, <2>3 DEF Acquire, CallersTyped, Sights
    <3> QED BY <1>b, <3>1, <3>2
  <2>4. CASE TakeSnapshot(c) \/ KeepPrompt(c) \/ ReadEpoch(c)
    <3>1. pc'[c] \in {"snapshot", "keep", "served"} /\ UNCHANGED <<on, op, thread>>
      BY <1>a, <2>4 DEF TakeSnapshot, KeepPrompt, ReadEpoch, Go, CallersTyped
    <3>2. pc[c] \in {"snapshot", "keep", "epoch"}
      BY <2>4 DEF TakeSnapshot, KeepPrompt, ReadEpoch
    <3> QED BY <1>b, <3>1, <3>2
  <2>5. CASE DropMeta(c)
    <3>1. pc[c] = "drop_meta" /\ pc'[c] = "drop" /\ UNCHANGED <<on, op>>
      BY <1>a, <2>5 DEF DropMeta, Go, CallersTyped
    <3> QED BY <1>b, <3>1
  <2>6. CASE DropPrompt(c)
    <3>a. c \in DOMAIN pc /\ c \in DOMAIN seen /\ "key" \in DOMAIN seen[c]
      BY <1>a DEF CallersTyped, Sights
    <3>b. \/ pc' = [pc EXCEPT ![c] = "acquire"]
          \/ \E left : \E t \in seen[c].todo :
               /\ pc' = [pc EXCEPT ![c] = "drop_meta"]
               /\ seen' = [seen EXCEPT ![c].todo = left, ![c].key = t]
      BY <2>6 DEF DropPrompt, Go
    <3>c. ASSUME NEW t, NEW left, seen' = [seen EXCEPT ![c].todo = left, ![c].key = t]
          PROVE  seen'[c].key = t
      BY <3>a, <3>c
    <3>1. /\ pc[c] = "drop" /\ UNCHANGED <<on, op>>
          /\ pc'[c] = "acquire" \/ (pc'[c] = "drop_meta" /\ seen'[c].key \in seen[c].todo)
      BY <2>6, <3>a, <3>b, <3>c DEF DropPrompt
    <3>2. seen[c].todo \subseteq Thread
      BY <1>a DEF CallersTyped, Sights
    <3> QED BY <1>b, <3>1, <3>2
  <2> QED BY <1>1, <2>1, <2>2, <2>3, <2>4, <2>5, <2>6
      DEF Handle, LockTimesOut, WriteMemory, EndTurn, BumpSnapshotEpoch
<1>2. ASSUME NEW c \in Caller, Handle(c), NEW d \in Caller, d # c PROVE StagedAt(d)' /\ ExclusiveAt(d)'
  <2>1. UNCHANGED <<on[d], op[d], pc[d], thread[d], seen[d]>>
    BY <1>2, OthersKeep
  <2>2. lock = d => UNCHANGED <<lock, memory>>
    BY <1>2, HolderRules
  <2> QED BY <1>b, <2>1, <2>2
<1>3. ASSUME NEW p \in Proc, Crash(p), NEW d \in Caller PROVE StagedAt(d)' /\ ExclusiveAt(d)'
  <2>1. CASE on[d] = p
    <3>1. pc'[d] = "idle"
      BY <1>3, <2>1 DEF Crash
    <3> QED BY <3>1
  <2>2. CASE on[d] # p
    <3>1. UNCHANGED <<on[d], op[d], pc[d], thread[d], seen[d], memory>>
      BY <1>3, <2>2 DEF Crash, store
    <3>2. lock = d => lock' = lock
      BY <1>3, <2>2 DEF Crash
    <3> QED BY <1>b, <3>1, <3>2
  <2> QED BY <2>1, <2>2
<1>4. ASSUME NextDay \/ UNCHANGED vars, NEW d \in Caller PROVE StagedAt(d)' /\ ExclusiveAt(d)'
  BY <1>b, <1>4 DEF NextDay, vars, store, callers
<1>5. \A d \in Caller : StagedAt(d)' /\ ExclusiveAt(d)'
  BY <1>1, <1>2, <1>3, <1>4 DEF Next
<1> QED BY <1>5 DEF Staged, Exclusive

-----------------------------------------------------------------------------
(* What a refresh promises. *)

\* The file, the promises and the epochs only move on, and a promise only with its epoch.
LEMMA StoreMoves ==
  ASSUME MemoryInv, [Next]_vars, NEW t \in Thread
  PROVE  /\ edition \in Nat /\ edition' \in Nat /\ edition' >= edition
         /\ refreshed[t] \in Nat /\ refreshed'[t] \in Nat
         /\ refreshed'[t] >= refreshed[t] /\ refreshed'[t] <= edition'
         /\ SnapshotEpoch(t) \in Nat /\ SnapshotEpoch(t)' \in Nat
         /\ \/ SnapshotEpoch(t)' = SnapshotEpoch(t) /\ refreshed'[t] = refreshed[t]
            \/ SnapshotEpoch(t)' > SnapshotEpoch(t)
         /\ day \in 0 .. 1 /\ day' \in 0 .. 1 /\ day' >= day
<1>a. TypeOK /\ Staged /\ CoversThePast
  BY DEF MemoryInv
<1>b. RestTyped /\ RestTyped'
  <2>1. TypeOK'
    BY <1>a, NextTyped
  <2> QED BY <1>a, <2>1, TypeParts DEF RestTyped, TypeOK, Kept, Metas
<1>1. /\ edition \in Nat /\ edition' \in Nat /\ refreshed[t] \in Nat /\ refreshed'[t] \in Nat
      /\ day \in 0 .. 1 /\ day' \in 0 .. 1 /\ epochs'.all \in Nat /\ epochs'.threads[t] \in Nat
  BY <1>b DEF RestTyped
<1>2. SnapshotEpoch(t) \in Nat /\ SnapshotEpoch(t)' \in Nat
  BY <1>a, <1>1, EpochTyped, MaxOfTwo DEF SnapshotEpoch
<1>3. refreshed[t] <= edition
  BY <1>a DEF CoversThePast
<1>4. ASSUME NEW c \in Caller, BumpSnapshotEpoch(c)
      PROVE  /\ edition' = edition /\ refreshed'[t] >= refreshed[t] /\ refreshed'[t] <= edition /\ day' = day
             /\ \/ SnapshotEpoch(t)' = SnapshotEpoch(t) /\ refreshed'[t] = refreshed[t]
                \/ SnapshotEpoch(t)' > SnapshotEpoch(t)
  <2>1. UNCHANGED <<edition, day>> /\ pc[c] = "bump"
    BY <1>4 DEF BumpSnapshotEpoch
  <2>2. seen[c].edition <= edition
    BY <1>a, <2>1 DEF Staged, CoversThePast
  <2>3. IF thread[c] \in {None, t}
         THEN /\ SnapshotEpoch(t)' > SnapshotEpoch(t)
              /\ refreshed'[t] \in {refreshed[t], seen[c].edition} /\ refreshed'[t] >= refreshed[t]
         ELSE SnapshotEpoch(t)' = SnapshotEpoch(t) /\ refreshed'[t] = refreshed[t]
    BY <1>a, <1>4, BumpsAhead
  <2> QED BY <1>1, <1>3, <2>1, <2>2, <2>3
<1>5. ASSUME ~\E c \in Caller : BumpSnapshotEpoch(c)
      PROVE  UNCHANGED <<epochs, refreshed>> /\ edition' >= edition /\ day' >= day
  <2>1. CASE \E c \in Caller : WriteMemory(c)
    BY <1>1, <2>1 DEF WriteMemory, New
  <2>2. CASE NextDay
    BY <1>1, <2>2 DEF NextDay, store
  <2>3. CASE UNCHANGED <<store, day>>
    BY <1>1, <2>3 DEF store
  <2>4. CASE \E c \in Caller : Handle(c)
    <3>1. ASSUME NEW c \in Caller, Handle(c), ~WriteMemory(c) PROVE UNCHANGED <<store, day>>
      BY <1>5, <3>1 DEF Handle, BeginMutation, BeginRefresh, BeginTurn, Begin, Acquire, LockTimesOut,
         ReadEpoch, TakeSnapshot, KeepPrompt, EndTurn, DropPrompt, DropMeta
    <3> QED BY <2>1, <2>3, <2>4, <3>1
  <2> QED BY <2>2, <2>3, <2>4 DEF Next, Crash, vars
<1>6. CASE \E c \in Caller : BumpSnapshotEpoch(c)
  BY <1>1, <1>2, <1>4, <1>6
<1>7. CASE ~\E c \in Caller : BumpSnapshotEpoch(c)
  <2>1. SnapshotEpoch(t)' = SnapshotEpoch(t)
    BY <1>5, <1>7 DEF SnapshotEpoch
  <2> QED BY <1>1, <1>2, <1>3, <1>5, <1>7, <2>1
<1> QED BY <1>6, <1>7

LEMMA TellingStays ==
  ASSUME MemoryInv, [Next]_vars, NEW t \in Thread, NEW d \in Nat, NEW e \in Nat, Telling(d, e, t)
  PROVE  Telling(d, e, t)'
BY StoreMoves DEF Telling

LEMMA CoversNext ==
  ASSUME MemoryInv, [Next]_vars
  PROVE  CoversThePast'
<1>a. TypeOK /\ Staged /\ CoversThePast /\ CallersTyped
  BY TypeParts DEF MemoryInv
<1>b. edition \in Nat /\ edition' \in Nat /\ edition' >= edition
  <2>1. CASE \E c \in Caller : WriteMemory(c)
    BY <1>a, <2>1 DEF WriteMemory, New, TypeOK
  <2>2. CASE UNCHANGED edition
    BY <1>a, <2>2 DEF TypeOK
  <2>3. ASSUME NEW c \in Caller, Handle(c), ~WriteMemory(c) PROVE UNCHANGED edition
    BY <2>3 DEF Handle, BeginMutation, BeginRefresh, BeginTurn, Begin, Acquire, LockTimesOut,
       ReadEpoch, TakeSnapshot, KeepPrompt, EndTurn, DropPrompt, DropMeta, BumpSnapshotEpoch, store
  <2> QED BY <2>1, <2>2, <2>3 DEF Next, NextDay, Crash, vars, store
<1>1. \A t \in Thread : refreshed'[t] <= edition'
  BY StoreMoves
<1>2. ASSUME NEW c \in Caller, op'[c] = "refresh" PROVE seen'[c].edition <= edition'
  <2>1. CASE op[c] = "refresh" /\ seen'[c].edition = seen[c].edition
    <3>1. seen[c].edition \in Nat /\ seen[c].edition <= edition
      BY <1>a, <2>1 DEF CoversThePast, CallersTyped, Sights
    <3> QED BY <1>b, <2>1, <3>1
  <2>2. CASE BeginRefresh(c)
    <3>1. seen'[c].edition = edition /\ edition' = edition
      BY <1>a, <2>2 DEF BeginRefresh, Begin, store, CallersTyped, Blank
    <3> QED BY <1>b, <3>1
  <2>3. CASE Handle(c) /\ ~BeginRefresh(c)
    <3>1. CASE BeginMutation(c) \/ BeginTurn(c)
      BY <1>2, <1>a, <3>1 DEF BeginMutation, BeginTurn, Begin, CallersTyped, Mutations
    <3>2. CASE Return(c)
      <4>1. op'[c] = None /\ seen'[c] = Blank
        BY <1>a, <3>2 DEF Return, CallersTyped
      <4> QED BY <1>b, <4>1 DEF Blank
    <3>3. CASE Acquire(c) \/ DropPrompt(c) \/ DropMeta(c) \/ KeepPrompt(c)
      <4>1. op' = op
        BY <3>3 DEF Acquire, DropPrompt, DropMeta, KeepPrompt
      <4>2. /\ c \in DOMAIN seen
            /\ DOMAIN seen[c] = {"memory", "edition", "epoch", "day", "dated", "todo", "key"}
        BY <1>a DEF CallersTyped, Sights
      <4>3. CASE Acquire(c)
        <5>1. \E m : seen' = [seen EXCEPT ![c].memory = m]
          BY <4>3 DEF Acquire
        <5>2. seen'[c].edition = seen[c].edition  BY <4>2, <5>1
        <5> QED BY <1>2, <2>1, <4>1, <5>2
      <4>4. CASE DropPrompt(c)
        <5>1. \/ UNCHANGED seen
              \/ \E left, t : seen' = [seen EXCEPT ![c].todo = left, ![c].key = t]
          BY <4>4 DEF DropPrompt
        <5>2. seen'[c].edition = seen[c].edition  BY <4>2, <5>1
        <5> QED BY <1>2, <2>1, <4>1, <5>2
      <4>5. CASE DropMeta(c) \/ KeepPrompt(c)
        <5>1. seen' = seen  BY <4>5 DEF DropMeta, KeepPrompt
        <5> QED BY <1>2, <2>1, <4>1, <5>1
      <4> QED BY <3>3, <4>3, <4>4, <4>5
    <3>4. CASE TakeSnapshot(c)
      <4>1. seen'[c].edition = edition /\ edition' = edition
        BY <1>a, <3>4 DEF TakeSnapshot, CallersTyped, Sights, store
      <4> QED BY <1>b, <4>1
    <3>5. CASE ReadEpoch(c)
      <4>1. op[c] = "refresh" /\ pc[c] = "epoch"
        BY <1>2, <3>5 DEF ReadEpoch
      <4> QED BY <1>a, <4>1 DEF Staged
    <3> QED BY <2>3, <3>1, <3>2, <3>3, <3>4, <3>5
        DEF Handle, LockTimesOut, WriteMemory, EndTurn, BumpSnapshotEpoch
  <2>4. CASE \E b \in Caller \ {c} : Handle(b)
    <3>1. UNCHANGED <<op[c], seen[c]>>
      BY <1>a, <2>4, OthersKeep
    <3> QED BY <1>2, <2>1, <3>1
  <2>5. CASE NextDay \/ UNCHANGED vars
    BY <1>2, <2>1, <2>5 DEF NextDay, vars, callers
  <2>6. CASE \E p \in Proc : Crash(p)
    <3>1. seen'[c] = Blank \/ UNCHANGED <<op[c], seen[c]>>
      BY <1>a, <2>6 DEF Crash, CallersTyped
    <3> QED BY <1>2, <1>b, <2>1, <3>1 DEF Blank
  <2> QED BY <2>2, <2>3, <2>4, <2>5, <2>6 DEF Next
<1> QED BY <1>1, <1>2 DEF CoversThePast

\* What becomes of a prompt and its date in one step: they are kept together, or dropped,
\* or built by a turn.
LEMMA KeptMoves ==
  ASSUME MemoryInv, [Next]_vars, NEW p \in Proc, NEW t \in Thread
  PROVE  \/ prompts'[p][t] \in {None, prompts[p][t]} /\ metas'[p][t] \in {None, metas[p][t]}
         \/ \E c \in Caller :
              /\ pc[c] = "keep" /\ thread[c] = t
              /\ prompts'[p][t] = [edition |-> seen[c].edition, day |-> seen[c].day]
              /\ metas'[p][t] = [epoch |-> seen[c].epoch, day |-> seen[c].day]
<1>a. TypeOK /\ Staged /\ CallersTyped /\ RestTyped
  BY TypeParts DEF MemoryInv
<1>1. ASSUME NEW c \in Caller, KeepPrompt(c)
      PROVE  \/ prompts'[p][t] \in {None, prompts[p][t]} /\ metas'[p][t] \in {None, metas[p][t]}
             \/ /\ pc[c] = "keep" /\ thread[c] = t
                /\ prompts'[p][t] = [edition |-> seen[c].edition, day |-> seen[c].day]
                /\ metas'[p][t] = [epoch |-> seen[c].epoch, day |-> seen[c].day]
  <2> DEFINE prompt == [edition |-> seen[c].edition, day |-> seen[c].day]
             meta == [epoch |-> seen[c].epoch, day |-> seen[c].day]
  <2>1. PICK oldest : prompts' = Put(prompts, c, prompt, oldest) /\ metas' = Put(metas, c, meta, oldest)
    BY <1>1 DEF KeepPrompt
  <2>2. pc[c] = "keep" /\ seen[c] \in Sights
    BY <1>1, <1>a DEF KeepPrompt, CallersTyped
  <2> HIDE DEF prompt, meta
  <2>4. DOMAIN prompts = Proc /\ DOMAIN metas = Proc
    BY <1>a DEF RestTyped
  <2>5. prompts'[p][t] = IF p # on[c] THEN prompts[p][t]
             ELSE IF t = thread[c] THEN prompt ELSE IF t = oldest THEN None ELSE prompts[p][t]
    BY <2>1, <2>4, PutAt
  <2>6. metas'[p][t] = IF p # on[c] THEN metas[p][t]
             ELSE IF t = thread[c] THEN meta ELSE IF t = oldest THEN None ELSE metas[p][t]
    BY <2>1, <2>4, PutAt
  <2> QED BY <2>2, <2>5, <2>6 DEF prompt, meta
<1>2. ASSUME NEW c \in Caller, DropPrompt(c) \/ DropMeta(c)
      PROVE  prompts'[p][t] \in {None, prompts[p][t]} /\ metas'[p][t] \in {None, metas[p][t]}
  <2>1. CASE DropMeta(c)
    <3>1. /\ prompts' = prompts
          /\ metas' = [metas EXCEPT ![on[c]][seen[c].key] = None]
      BY <2>1 DEF DropMeta
    <3> QED BY <1>a, <3>1 DEF RestTyped
  <2>2. CASE DropPrompt(c)
    <3>1. /\ metas' = metas
          /\ prompts' = prompts \/ \E u : prompts' = [prompts EXCEPT ![on[c]][u] = None]
      BY <2>2 DEF DropPrompt
    <3>2. ASSUME NEW u, prompts' = [prompts EXCEPT ![on[c]] = [prompts[on[c]] EXCEPT ![u] = None]]
          PROVE  prompts'[p][t] \in {None, prompts[p][t]}
      <4>1. prompts[p] \in [Thread -> Kept \cup {None}] /\ prompts \in [Proc -> [Thread -> Kept \cup {None}]]
        BY <1>a DEF RestTyped
      <4>2. CASE p = on[c]
        <5>1. prompts'[p] = [prompts[p] EXCEPT ![u] = None]
          BY <3>2, <4>1, <4>2
        <5> QED BY <4>1, <5>1
      <4>3. CASE p # on[c]
        BY <3>2, <4>1, <4>3
      <4> QED BY <4>2, <4>3
    <3> QED BY <3>1, <3>2
  <2> QED BY <1>2, <2>1, <2>2
<1>3. ASSUME NEW q \in Proc, Crash(q)
      PROVE  prompts'[p][t] \in {None, prompts[p][t]} /\ metas'[p][t] \in {None, metas[p][t]}
  BY <1>3, <1>a DEF Crash, RestTyped, NoPrompts
<1>4. ASSUME NEW c \in Caller, Handle(c), ~KeepPrompt(c), ~DropPrompt(c), ~DropMeta(c)
      PROVE  UNCHANGED <<prompts, metas>>
  BY <1>4 DEF Handle, BeginMutation, BeginRefresh, BeginTurn, Begin, Acquire, LockTimesOut, WriteMemory,
     ReadEpoch, TakeSnapshot, EndTurn, BumpSnapshotEpoch
<1>5. NextDay \/ UNCHANGED vars => UNCHANGED <<prompts, metas>>
  BY DEF NextDay, vars
<1> QED BY <1>1, <1>2, <1>3, <1>4, <1>5 DEF Next

LEMMA KeptNext ==
  ASSUME MemoryInv, [Next]_vars
  PROVE  KeptTell'
<1> SUFFICES ASSUME NEW p \in Proc, NEW t \in Thread, prompts'[p][t] # None, metas'[p][t] # None
             PROVE  \E d \in Nat, e \in Nat :
                      /\ prompts'[p][t].day = metas'[p][t].day
                      /\ prompts'[p][t].edition = d /\ metas'[p][t].epoch = e /\ Telling(d, e, t)'
  BY DEF KeptTell, Telling, SnapshotEpoch
<1>a. TypeOK /\ Staged /\ CallersTyped /\ RestTyped
  BY TypeParts DEF MemoryInv
<1>1. PICK d \in Nat, e \in Nat :
        /\ prompts'[p][t].day = metas'[p][t].day
        /\ prompts'[p][t].edition = d /\ metas'[p][t].epoch = e /\ Telling(d, e, t)
  <2>1. CASE prompts'[p][t] = prompts[p][t] /\ metas'[p][t] = metas[p][t]
    <3>1. prompts[p][t] \in Kept /\ metas[p][t] \in Metas
      BY <1>a, <2>1 DEF RestTyped
    <3>2. /\ prompts[p][t].day = metas[p][t].day
          /\ Telling(prompts[p][t].edition, metas[p][t].epoch, t)
      BY <2>1 DEF MemoryInv, KeptTell
    <3> QED BY <2>1, <3>1, <3>2 DEF Kept, Metas
  <2>2. ASSUME NEW c \in Caller, pc[c] = "keep", thread[c] = t,
               prompts'[p][t] = [edition |-> seen[c].edition, day |-> seen[c].day],
               metas'[p][t] = [epoch |-> seen[c].epoch, day |-> seen[c].day]
        PROVE  \E d \in Nat, e \in Nat :
                 /\ prompts'[p][t].day = metas'[p][t].day
                 /\ prompts'[p][t].edition = d /\ metas'[p][t].epoch = e /\ Telling(d, e, t)
    <3>1. seen[c].edition \in Nat /\ seen[c].epoch \in Nat
      BY <1>a DEF CallersTyped, Sights
    <3>2. Telling(seen[c].edition, seen[c].epoch, t)
      BY <2>2 DEF MemoryInv, TurnsTell
    <3> QED BY <2>2, <3>1, <3>2
  <2> QED BY <2>1, <2>2, KeptMoves
<1>2. Telling(d, e, t)'
  BY <1>1, TellingStays
<1> QED BY <1>1, <1>2

LEMMA TurnsNext ==
  ASSUME MemoryInv, [Next]_vars
  PROVE  TurnsTell'
<1>a. TypeOK /\ Staged /\ CallersTyped /\ RestTyped
  BY TypeParts DEF MemoryInv
<1> DEFINE TurnAt(d) ==
        /\ pc[d] = "epoch" => due[d].edition <= refreshed[thread[d]] /\ due[d].day <= day
        /\ pc[d] = "snapshot" =>
             /\ due[d].edition <= refreshed[thread[d]] /\ due[d].day <= seen[d].day
             /\ seen[d].epoch <= SnapshotEpoch(thread[d])
        /\ pc[d] = "keep" => ShowsCurrent(d) /\ Telling(seen[d].edition, seen[d].epoch, thread[d])
        /\ pc[d] = "served" /\ seen[d].dated => ShowsCurrent(d)
<1>b. \A d \in Caller : TurnAt(d)
  BY DEF MemoryInv, TurnsTell
<1>c. \A d \in Caller : /\ seen[d].edition \in Nat /\ seen[d].epoch \in Nat /\ seen[d].day \in 0 .. 1
                        /\ due[d].edition \in Nat /\ due[d].day \in 0 .. 1
  BY <1>a DEF CallersTyped, Sights
<1>1. ASSUME NEW d \in Caller, UNCHANGED <<pc[d], thread[d], seen[d], due[d]>> PROVE TurnAt(d)'
  <2>1. CASE pc[d] \notin {"epoch", "snapshot", "keep", "served"}
    BY <1>1, <2>1
  <2>2. CASE pc[d] = "epoch"
    <3>1. thread[d] \in Thread
      BY <1>a, <2>2 DEF Staged
    <3>2. PICK t \in Thread : t = thread[d]
      BY <3>1
    <3> QED BY <1>1, <1>b, <1>c, <2>2, <3>2, StoreMoves
  <2>3. CASE pc[d] = "snapshot"
    <3>1. thread[d] \in Thread
      BY <1>a, <2>3 DEF Staged
    <3>2. PICK t \in Thread : t = thread[d]
      BY <3>1
    <3>3. due[d].edition <= refreshed'[t] /\ seen[d].epoch <= SnapshotEpoch(t)'
      BY <1>b, <1>c, <2>3, <3>2, StoreMoves
    <3> QED BY <1>1, <1>b, <2>3, <3>2, <3>3 DEF SnapshotEpoch
  <2>4. CASE pc[d] = "keep"
    <3>1. thread[d] \in Thread
      BY <1>a, <2>4 DEF Staged
    <3>2. PICK t \in Thread, e \in Nat, n \in Nat :
            t = thread[d] /\ e = seen[d].epoch /\ n = seen[d].edition
      BY <1>c, <3>1
    <3>3. Telling(n, e, t)'
      BY <1>b, <2>4, <3>2, TellingStays
    <3> QED BY <1>1, <1>b, <2>4, <3>2, <3>3 DEF Telling, ShowsCurrent, SnapshotEpoch
  <2>5. CASE pc[d] = "served"
    BY <1>1, <1>b, <2>5 DEF ShowsCurrent
  <2> QED BY <2>1, <2>2, <2>3, <2>4, <2>5
<1>2. ASSUME NEW c \in Caller, Handle(c) PROVE TurnAt(c)'
  <2>1. CASE pc'[c] \notin {"epoch", "snapshot", "keep", "served"}
    BY <2>1
  <2>2. CASE BeginMutation(c) \/ BeginRefresh(c) \/ Return(c) \/ Acquire(c) \/ DropPrompt(c) \/ DropMeta(c)
    <3>1. pc'[c] \in {"acquire", "drop", "idle", "bump", "write", "drop_meta"}
      BY <1>a, <2>2 DEF BeginMutation, BeginRefresh, Begin, Return, Acquire, DropPrompt, DropMeta, Go,
         CallersTyped
    <3> QED BY <2>1, <3>1
  <2>3. CASE BeginTurn(c)
    <3>1. PICK t \in Thread :
            /\ pc'[c] = "epoch" /\ thread'[c] = t /\ UNCHANGED <<refreshed, day>>
            /\ due'[c].edition = refreshed[t] /\ due'[c].day = day
      BY <1>a, <2>3 DEF BeginTurn, Begin, Go, CallersTyped, Blank, store
    <3>2. refreshed[t] \in Nat /\ day \in 0 .. 1
      BY <1>a DEF RestTyped
    <3> QED BY <3>1, <3>2
  <2>4. CASE ReadEpoch(c)
    <3>1. PICK p \in Proc, t \in Thread : p = on[c] /\ t = thread[c] /\ pc[c] = "epoch"
      BY <1>a, <2>4 DEF ReadEpoch, Staged
    <3>2. UNCHANGED <<store, day, thread, due>>
      BY <2>4 DEF ReadEpoch
    <3>3. due[c].edition <= refreshed[t] /\ due[c].day <= day
      BY <1>b, <3>1
    <3>4. CASE /\ prompts[p][t] # None
               /\ metas[p][t] = None \/ (metas[p][t].day = day /\ metas[p][t].epoch >= SnapshotEpoch(t))
               /\ pc'[c] = "served" /\ seen'[c].dated = (metas[p][t] # None)
               /\ seen'[c].edition = prompts[p][t].edition /\ seen'[c].day = prompts[p][t].day
      <4>1. CASE metas[p][t] = None
        BY <3>4, <4>1
      <4>2. CASE metas[p][t] # None
        <5>1. /\ prompts[p][t].edition \in Nat /\ metas[p][t].epoch \in Nat
              /\ SnapshotEpoch(t) \in Nat /\ refreshed[t] \in Nat /\ day \in 0 .. 1
          BY <1>a, <3>4, <4>2, EpochTyped DEF RestTyped, Kept, Metas
        <5>2. /\ prompts[p][t].day = metas[p][t].day
              /\ Telling(prompts[p][t].edition, metas[p][t].epoch, t)
          BY <3>4, <4>2 DEF MemoryInv, KeptTell
        <5>3. prompts[p][t].edition >= refreshed[t] /\ prompts[p][t].day = day
          BY <3>4, <4>2, <5>1, <5>2 DEF Telling
        <5>4. seen'[c].edition >= due[c].edition /\ seen'[c].day >= due[c].day
          BY <1>c, <3>3, <3>4, <5>1, <5>3
        <5> QED BY <3>2, <3>4, <5>4 DEF ShowsCurrent
      <4> QED BY <4>1, <4>2
    <3>5. CASE pc'[c] = "snapshot" /\ seen'[c].epoch = SnapshotEpoch(t) /\ seen'[c].day = day
      <4>1. SnapshotEpoch(t) \in Nat
        BY <1>a, EpochTyped
      <4>2. UNCHANGED <<epochs, refreshed>>
        BY <3>2 DEF store
      <4> QED BY <3>1, <3>2, <3>3, <3>5, <4>1, <4>2 DEF SnapshotEpoch
    <3>6. CASE /\ prompts[p][t] # None
               /\ metas[p][t] = None \/ (metas[p][t].day = day /\ metas[p][t].epoch >= SnapshotEpoch(t))
      <4>1. /\ Go(c, "served")
            /\ seen' = [seen EXCEPT ![c] = [Blank EXCEPT !.edition = prompts[p][t].edition,
                                                         !.day = prompts[p][t].day,
                                                         !.dated = metas[p][t] # None]]
        BY <2>4, <3>1, <3>6 DEF ReadEpoch
      <4>2. /\ pc'[c] = "served" /\ seen'[c].dated = (metas[p][t] # None)
            /\ seen'[c].edition = prompts[p][t].edition /\ seen'[c].day = prompts[p][t].day
        BY <1>a, <4>1 DEF Go, CallersTyped, Blank
      <4> QED BY <3>4, <3>6, <4>2
    <3>7. CASE ~(/\ prompts[p][t] # None
                 /\ metas[p][t] = None \/ (metas[p][t].day = day /\ metas[p][t].epoch >= SnapshotEpoch(t)))
      <4>1. /\ Go(c, "snapshot")
            /\ seen' = [seen EXCEPT ![c] = [Blank EXCEPT !.epoch = SnapshotEpoch(t), !.day = day]]
        BY <2>4, <3>1, <3>7 DEF ReadEpoch
      <4>2. pc'[c] = "snapshot" /\ seen'[c].epoch = SnapshotEpoch(t) /\ seen'[c].day = day
        BY <1>a, <4>1 DEF Go, CallersTyped, Blank
      <4> QED BY <3>5, <4>2
    <3> QED BY <3>6, <3>7
  <2>5. CASE TakeSnapshot(c)
    <3>1. PICK t \in Thread : t = thread[c] /\ pc[c] = "snapshot"
      BY <1>a, <2>5 DEF TakeSnapshot, Staged
    <3>2. /\ pc'[c] = "keep" /\ UNCHANGED <<store, day, thread, due>>
          /\ seen'[c].edition = edition /\ seen'[c].epoch = seen[c].epoch /\ seen'[c].day = seen[c].day
      BY <1>a, <2>5 DEF TakeSnapshot, Go, CallersTyped, Sights
    <3>3. refreshed[t] <= edition /\ refreshed[t] \in Nat /\ edition \in Nat
      BY <1>a DEF MemoryInv, CoversThePast, RestTyped
    <3>4. /\ due[c].edition <= refreshed[t] /\ due[c].day <= seen[c].day
          /\ seen[c].epoch <= SnapshotEpoch(t)
      BY <1>b, <3>1
    <3>5. edition >= due[c].edition /\ edition >= refreshed[t]
      BY <1>c, <3>3, <3>4
    <3>6. ShowsCurrent(c)'
      BY <1>c, <3>2, <3>4, <3>5 DEF ShowsCurrent
    <3>7. Telling(seen[c].edition, seen[c].epoch, thread[c])'
      BY <3>1, <3>2, <3>4, <3>5 DEF Telling, SnapshotEpoch, store
    <3> QED BY <3>2, <3>6, <3>7
  <2>6. CASE KeepPrompt(c)
    <3>1. pc[c] = "keep" /\ pc'[c] = "served" /\ UNCHANGED <<seen, due>>
      BY <1>a, <2>6 DEF KeepPrompt, Go, CallersTyped
    <3> QED BY <1>b, <3>1 DEF ShowsCurrent
  <2> QED BY <1>2, <2>2, <2>3, <2>4, <2>5, <2>6
      DEF Handle, LockTimesOut, WriteMemory, EndTurn, BumpSnapshotEpoch
<1>3. ASSUME NEW c \in Caller, Handle(c), NEW d \in Caller, d # c PROVE TurnAt(d)'
  <2>1. UNCHANGED <<pc[d], thread[d], seen[d], due[d]>>
    BY <1>a, <1>3, OthersKeep
  <2> QED BY <1>1, <2>1
<1>4. ASSUME NEW p \in Proc, Crash(p), NEW d \in Caller PROVE TurnAt(d)'
  <2>1. pc'[d] = "idle" \/ UNCHANGED <<pc[d], thread[d], seen[d], due[d]>>
    BY <1>a, <1>4 DEF Crash, CallersTyped
  <2> QED BY <1>1, <2>1
<1>5. ASSUME NextDay \/ UNCHANGED vars, NEW d \in Caller PROVE TurnAt(d)'
  <2>1. UNCHANGED <<pc[d], thread[d], seen[d], due[d]>>
    BY <1>5 DEF NextDay, vars, callers
  <2> QED BY <1>1, <2>1
<1>6. \A d \in Caller : TurnAt(d)'
  BY <1>2, <1>3, <1>4, <1>5 DEF Next
<1> QED BY <1>6 DEF TurnsTell

-----------------------------------------------------------------------------

LEMMA MemoryInvariant == Spec => []MemoryInv
<1>1. Init => MemoryInv
  <2> SUFFICES ASSUME Init PROVE MemoryInv
    OBVIOUS
  <2>1. TypeOK
    BY InitTyped
  <2>2. \A c \in Caller : pc[c] = "idle" /\ op[c] = None /\ seen[c].edition = 0
    BY DEF Init, Blank
  <2>3. \A p \in Proc, t \in Thread : prompts[p][t] = None
    BY DEF Init, NoPrompts
  <2>4. edition = 0 /\ \A t \in Thread : refreshed[t] = 0
    BY DEF Init
  <2> QED BY <2>1, <2>2, <2>3, <2>4 DEF MemoryInv, Staged, Exclusive, CoversThePast, KeptTell, TurnsTell
<1>2. MemoryInv /\ [Next]_vars => MemoryInv'
  <2> SUFFICES ASSUME MemoryInv, [Next]_vars PROVE MemoryInv'
    OBVIOUS
  <2>1. TypeOK' /\ Staged' /\ Exclusive'
    BY NextTyped, LocksNext DEF MemoryInv
  <2> QED BY <2>1, CoversNext, KeptNext, TurnsNext DEF MemoryInv
<1> QED BY <1>1, <1>2, PTL DEF Spec

(* Every variable of the store, the caches and the requests keeps its type.                *)
THEOREM TypeCorrect == Spec => []TypeOK
<1>1. MemoryInv => TypeOK
  BY DEF MemoryInv
<1> QED BY <1>1, MemoryInvariant, PTL

(* A turn that begins after a refresh of its thread has returned is shown everything       *)
(* written before the refresh, in whatever process it runs, unless the prompt it reuses    *)
(* has lost its date.                                                                      *)
THEOREM DatedPromptsStayCurrent == Spec => []DatedPromptsAreCurrent
<1>1. MemoryInv => DatedPromptsAreCurrent
  BY DEF MemoryInv, TurnsTell, DatedPromptsAreCurrent
<1> QED BY <1>1, MemoryInvariant, PTL

(* No entry leaves the memory file unless the request that takes it out had read it, or    *)
(* overwrites the file without an etag.                                                    *)
THEOREM EntriesSurvive == Spec => NoEntryLost
<1>1. ASSUME MemoryInv, [Next]_vars, NEW e \in memory \ memory'
      PROVE  \E c \in Caller :
               pc[c] = "write" /\ pc'[c] = "idle" /\ (e \in seen[c].memory \/ op[c] = "overwrite")
  <2>a. TypeOK /\ Staged /\ Exclusive /\ CallersTyped
    BY <1>1, TypeParts DEF MemoryInv
  <2>1. PICK c \in Caller : WriteMemory(c)
    <3>1. ASSUME NEW c \in Caller, Handle(c), ~WriteMemory(c) PROVE memory' = memory
      BY <3>1 DEF Handle, BeginMutation, BeginRefresh, BeginTurn, Begin, Acquire, LockTimesOut,
         ReadEpoch, TakeSnapshot, KeepPrompt, EndTurn, DropPrompt, DropMeta, BumpSnapshotEpoch, store
    <3> QED BY <1>1, <3>1 DEF Next, NextDay, Crash, vars, store
  <2>2. pc[c] = "write" /\ pc'[c] = "idle"
    BY <2>a, <2>1 DEF WriteMemory, Return, Go, CallersTyped
  <2>3. op[c] \in Mutations /\ (op[c] \notin Saves => seen[c].memory = memory)
    BY <2>a, <2>2 DEF Staged, Exclusive
  <2>4. EtagMatches(c)
    BY <1>1, <2>1 DEF WriteMemory
  <2>5. op[c] = "overwrite" \/ seen[c].memory = memory
    BY <2>3, <2>4 DEF EtagMatches, Mutations, Saves
  <2> QED BY <1>1, <2>2, <2>5
<1>2. MemoryInv /\ [Next]_vars =>
        [\A e \in memory \ memory' :
          \E c \in Caller :
             pc[c] = "write" /\ pc'[c] = "idle" /\ (e \in seen[c].memory \/ op[c] = "overwrite")]_memory
  BY <1>1
<1> QED BY <1>2, MemoryInvariant, PTL DEF Spec, NoEntryLost

=============================================================================
