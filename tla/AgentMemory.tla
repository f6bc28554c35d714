---------------------------- MODULE AgentMemory -----------------------------
(***************************************************************************)
(* The memory file of one workspace and the system prompts built from it.  *)
(* Several API processes write the file under an operating-system lock     *)
(* (FileMemory) and each keeps its own cache of the prompt it built for a  *)
(* thread (_FROZEN_PROMPTS).  A refresh drops the prompts of its process   *)
(* and raises an epoch in a file, by which the other processes notice.     *)
(*                                                                         *)
(* Chat turns build prompts on the event loop of their process, one at a   *)
(* time; memory and refresh requests run in worker threads beside it.  An  *)
(* entry is named by the number of the write that made it; a prompt is the *)
(* number of writes the file had seen when it was read.                    *)
(***************************************************************************)
EXTENDS Integers, FiniteSets, FiniteSetsExt

CONSTANTS
    Proc,               \* API processes
    Caller,             \* requests at a time
    Thread,             \* chat threads of the workspace
    None,
    Limit,              \* MEMORY_MD_LIMIT, in entries
    MaxFrozen,          \* _MAX_FROZEN_PROMPTS
    MaxWrites, MaxRefreshes, MaxTurns, MaxCrashes       \* bounds

ASSUME BoundsAssumption ==
    /\ Limit \in Nat \ {0} /\ MaxFrozen \in Nat \ {0}
    /\ MaxWrites \in Nat /\ MaxRefreshes \in Nat /\ MaxTurns \in Nat /\ MaxCrashes \in Nat
ASSUME ThreadAssumption == IsFiniteSet(Thread)
ASSUME NoneAssumption == None \notin Proc \cup Caller \cup Thread

Mutations == {"add", "replace", "remove", "save", "overwrite"}

VARIABLES
    memory,             \* MEMORY.md: its entries
    epochs,             \* .snapshot_epoch
    lock,               \* who holds the directory's lock
    day,                \* datetime.now().date()
    prompts, metas,     \* of each process: _FROZEN_PROMPTS and _FROZEN_PROMPT_META
    on, op, pc,         \* of each caller: its process, its request and its next step
    thread,             \* the thread its request is about; None for all of them
    seen,               \* what it has read
    due,                \* history: the oldest prompt it may be shown
    edition, refreshed, \* history: writes so far; those a refresh of the thread has covered
    refreshes, turns, crashes

store == <<memory, epochs, edition, refreshed>>
callers == <<on, op, pc, thread, seen, due>>
counts == <<refreshes, turns, crashes>>
vars == <<store, lock, day, prompts, metas, callers, counts>>

NoPrompts == [t \in Thread |-> None]
Blank == [memory |-> {}, edition |-> 0, epoch |-> 0, day |-> 0, dated |-> TRUE,
          todo |-> {}, key |-> None]

Init ==
    /\ memory = {} /\ epochs = [all |-> 0, threads |-> [t \in Thread |-> 0]]
    /\ lock = None /\ day = 0
    /\ prompts = [p \in Proc |-> NoPrompts]
    /\ metas = [p \in Proc |-> NoPrompts]
    /\ on = [c \in Caller |-> None]
    /\ op = [c \in Caller |-> None]
    /\ pc = [c \in Caller |-> "idle"]
    /\ thread = [c \in Caller |-> None]
    /\ seen = [c \in Caller |-> Blank]
    /\ due = [c \in Caller |-> Blank]
    /\ edition = 0 /\ refreshed = [t \in Thread |-> 0]
    /\ refreshes = 0 /\ turns = 0 /\ crashes = 0

-----------------------------------------------------------------------------
(* Requests come and go. *)

Go(c, step) == pc' = [pc EXCEPT ![c] = step]

Begin(c, p, request, t, step, what) ==
    /\ pc[c] = "idle"
    /\ Go(c, step)
    /\ on' = [on EXCEPT ![c] = p]
    /\ op' = [op EXCEPT ![c] = request]
    /\ thread' = [thread EXCEPT ![c] = t]
    /\ seen' = [seen EXCEPT ![c] = what]
    /\ UNCHANGED <<store, lock, day, prompts, metas>>

\* The caller is free again; its request leaves nothing.
Return(c) ==
    /\ Go(c, "idle")
    /\ on' = [on EXCEPT ![c] = None]
    /\ op' = [op EXCEPT ![c] = None]
    /\ thread' = [thread EXCEPT ![c] = None]
    /\ seen' = [seen EXCEPT ![c] = Blank]
    /\ due' = [due EXCEPT ![c] = Blank]

\* A memory tool of a chat turn, or PUT /memory by an editor that had loaded the file.
BeginMutation(c) ==
    /\ edition < MaxWrites
    /\ \E p \in Proc, request \in Mutations :
         Begin(c, p, request, None, "acquire", [Blank EXCEPT !.memory = memory])
    /\ UNCHANGED <<due, counts>>

\* POST /memory/refresh-snapshot lists the prompts of its process.
BeginRefresh(c) ==
    /\ refreshes < MaxRefreshes
    /\ refreshes' = refreshes + 1
    /\ \E p \in Proc, t \in Thread \cup {None} :
         Begin(c, p, "refresh", t, "drop",
             [Blank EXCEPT !.edition = edition,
                           !.todo = {u \in Thread : prompts[p][u] # None /\ t \in {None, u}}])
    /\ UNCHANGED <<due, turns, crashes>>

\* One chat turn at a time builds or fetches its prompt on the event loop of a process.
BeginTurn(c) ==
    /\ turns < MaxTurns
    /\ turns' = turns + 1
    /\ \E p \in {q \in Proc : \A d \in Caller : ~(on[d] = q /\ op[d] = "turn")}, t \in Thread :
         /\ Begin(c, p, "turn", t, "epoch", Blank)
         /\ due' = [due EXCEPT ![c] = [Blank EXCEPT !.edition = refreshed[t], !.day = day]]
    /\ UNCHANGED <<refreshes, crashes>>

-----------------------------------------------------------------------------
(* FileMemory: writers. *)

\* Mutant: the file is read before the lock is held.
AcquireLate(c) ==
    /\ pc[c] = "acquire"
    /\ lock = None /\ lock' = c
    /\ Go(c, IF op[c] = "refresh" THEN "bump" ELSE "write")
    /\ UNCHANGED <<store, day, prompts, metas, on, op, thread, seen, due, counts>>

\* Requests that write what their editor had loaded: with its etag, or without one.
Saves == {"save", "overwrite"}

\* _exclusive, and the read that the write derives from.  A save keeps the content its editor
\* loaded, to compare its etag.
Acquire(c) ==
    /\ pc[c] = "acquire"
    /\ lock = None /\ lock' = c
    /\ Go(c, IF op[c] = "refresh" THEN "bump" ELSE "write")
    /\ seen' = [seen EXCEPT ![c].memory = IF op[c] \in Saves THEN @ ELSE memory]
    /\ UNCHANGED <<store, day, prompts, metas, on, op, thread, due, counts>>

\* Another writer kept the lock for _LOCK_TIMEOUT_SECONDS.
LockTimesOut(c) ==
    /\ pc[c] = "acquire"
    /\ lock # None
    /\ Return(c)
    /\ UNCHANGED <<store, lock, day, prompts, metas, counts>>

New == edition + 1

\* What the request makes of the content it read; at most one entry goes.
Results(c) ==
    CASE op[c] = "add"     -> {seen[c].memory \cup {New}}
      [] op[c] = "replace" -> {(seen[c].memory \ {e}) \cup {New} : e \in seen[c].memory}
      [] op[c] = "remove"  -> {seen[c].memory \ {e} : e \in seen[c].memory}
      [] op[c] \in Saves   -> {kept \cup {New} : kept \in SUBSET seen[c].memory}

\* A save that brings an etag is refused when the file is not the one its editor loaded.
EtagMatches(c) == op[c] = "save" => memory = seen[c].memory

\* The file is replaced in one step; or the limit, the etag or a missing or ambiguous old
\* text refuses the write.
WriteMemory(c) ==
    /\ pc[c] = "write"
    /\ \/ /\ EtagMatches(c)
          /\ memory' \in {m \in Results(c) : Cardinality(m) <= Limit}
          /\ edition' = New
       \/ UNCHANGED <<memory, edition>>
    /\ lock' = None
    /\ Return(c)
    /\ UNCHANGED <<epochs, refreshed, day, prompts, metas, counts>>

-----------------------------------------------------------------------------
(* Frozen prompts. *)

\* The epoch that counts for a thread.
SnapshotEpoch(t) == Max({epochs.all, epochs.threads[t]})

\* The epoch is read first; a prompt of today, built at that epoch or later, is reused.
\* A prompt without a meta entry is taken as it is.
ReadEpoch(c) ==
    /\ pc[c] = "epoch"
    /\ LET p == on[c]
           t == thread[c]
           cached == prompts[p][t]
           meta == metas[p][t]
       IN  IF cached # None
              /\ (meta = None \/ (meta.day = day /\ meta.epoch >= SnapshotEpoch(t)))
           THEN seen' = [seen EXCEPT ![c] = [Blank EXCEPT !.edition = cached.edition,
                                                          !.day = cached.day,
                                                          !.dated = meta # None]]
                /\ Go(c, "served")
           ELSE seen' = [seen EXCEPT ![c] = [Blank EXCEPT !.epoch = SnapshotEpoch(t), !.day = day]]
                /\ Go(c, "snapshot")
    /\ UNCHANGED <<store, lock, day, prompts, metas, on, op, thread, due, counts>>

\* snapshot(): the file as it is now.
TakeSnapshot(c) ==
    /\ pc[c] = "snapshot"
    /\ seen' = [seen EXCEPT ![c].edition = edition]
    /\ Go(c, "keep")
    /\ UNCHANGED <<store, lock, day, prompts, metas, on, op, thread, due, counts>>

\* The cache of process p once caller c has put entry in it, in place of what is at `oldest`.
Put(cache, c, entry, oldest) ==
    [cache EXCEPT ![on[c]] =
        [t \in Thread |-> IF t = thread[c] THEN entry ELSE IF t = oldest THEN None ELSE @[t]]]

\* The threads of which one must make room for caller c's.
Crowding(c) ==
    LET kept == {t \in Thread : prompts[on[c]][t] # None}
    IN  IF thread[c] \notin kept /\ Cardinality(kept) >= MaxFrozen THEN kept ELSE {None}

\* Mutant: the epoch of a prompt is read when it is kept.
KeepPromptAsNew(c) ==
    /\ pc[c] = "keep"
    /\ \E oldest \in Crowding(c) :
         /\ prompts' = Put(prompts, c, [edition |-> seen[c].edition, day |-> seen[c].day], oldest)
         /\ metas' = Put(metas, c, [epoch |-> SnapshotEpoch(thread[c]), day |-> seen[c].day], oldest)
    /\ Go(c, "served")
    /\ UNCHANGED <<store, lock, day, on, op, thread, seen, due, counts>>

\* The prompt is kept, at the cost of another thread's when the cache is full.
KeepPrompt(c) ==
    /\ pc[c] = "keep"
    /\ \E oldest \in Crowding(c) :
         /\ prompts' = Put(prompts, c, [edition |-> seen[c].edition, day |-> seen[c].day], oldest)
         /\ metas' = Put(metas, c, [epoch |-> seen[c].epoch, day |-> seen[c].day], oldest)
    /\ Go(c, "served")
    /\ UNCHANGED <<store, lock, day, on, op, thread, seen, due, counts>>

\* The model is called with the prompt.
EndTurn(c) ==
    /\ pc[c] = "served"
    /\ Return(c)
    /\ UNCHANGED <<store, lock, day, prompts, metas, counts>>

\* invalidate_frozen pops the prompt of a listed thread ...
DropPrompt(c) ==
    /\ pc[c] = "drop"
    /\ \/ /\ seen[c].todo = {}
          /\ Go(c, "acquire")
          /\ UNCHANGED <<prompts, seen>>
       \/ \E t \in seen[c].todo :
            /\ prompts' = [prompts EXCEPT ![on[c]][t] = None]
            /\ seen' = [seen EXCEPT ![c].todo = @ \ {t}, ![c].key = t]
            /\ Go(c, "drop_meta")
    /\ UNCHANGED <<store, lock, day, metas, on, op, thread, due, counts>>

\* ... and then its meta entry: two steps, beside the event loop.
DropMeta(c) ==
    /\ pc[c] = "drop_meta"
    /\ metas' = [metas EXCEPT ![on[c]][seen[c].key] = None]
    /\ Go(c, "drop")
    /\ UNCHANGED <<store, lock, day, prompts, on, op, thread, seen, due, counts>>

\* bump_snapshot_epoch, under the lock.
BumpSnapshotEpoch(c) ==
    /\ pc[c] = "bump"
    /\ LET next == 1 + Max({epochs.all} \cup {epochs.threads[t] : t \in Thread})
           covered == {t \in Thread : thread[c] \in {None, t}}
       IN  /\ epochs' = IF thread[c] = None
                        THEN [all |-> next, threads |-> [t \in Thread |-> 0]]
                        ELSE [epochs EXCEPT !.threads[thread[c]] = next]
           /\ refreshed' = [t \in Thread |->
                  IF t \in covered THEN Max({refreshed[t], seen[c].edition}) ELSE refreshed[t]]
    /\ lock' = None
    /\ Return(c)
    /\ UNCHANGED <<memory, edition, day, prompts, metas, counts>>

-----------------------------------------------------------------------------

\* Midnight.
NextDay == day = 0 /\ day' = 1 /\ UNCHANGED <<store, lock, prompts, metas, callers, counts>>

\* A process dies: its requests, its cache and its hold on the lock go with it.
Crash(p) ==
    /\ crashes < MaxCrashes
    /\ crashes' = crashes + 1
    /\ LET Lost(f, blank) == [c \in Caller |-> IF on[c] = p THEN blank ELSE f[c]]
       IN  /\ on' = Lost(on, None) /\ op' = Lost(op, None) /\ pc' = Lost(pc, "idle")
           /\ thread' = Lost(thread, None) /\ seen' = Lost(seen, Blank) /\ due' = Lost(due, Blank)
    /\ lock' = IF lock # None /\ on[lock] = p THEN None ELSE lock
    /\ prompts' = [prompts EXCEPT ![p] = NoPrompts]
    /\ metas' = [metas EXCEPT ![p] = NoPrompts]
    /\ UNCHANGED <<store, day, refreshes, turns>>

Handle(c) ==
    \/ BeginMutation(c) \/ Acquire(c) \/ LockTimesOut(c) \/ WriteMemory(c)
    \/ BeginTurn(c) \/ ReadEpoch(c) \/ TakeSnapshot(c) \/ KeepPrompt(c) \/ EndTurn(c)
    \/ BeginRefresh(c) \/ DropPrompt(c) \/ DropMeta(c) \/ BumpSnapshotEpoch(c)

Next == (\E c \in Caller : Handle(c)) \/ NextDay \/ (\E p \in Proc : Crash(p))

Spec == Init /\ [][Next]_vars

-----------------------------------------------------------------------------
(* Properties. *)

\* What a request holds; Blank is one of these.
Sights == [memory : SUBSET Nat, edition : Nat, epoch : Nat, day : 0 .. 1, dated : BOOLEAN,
           todo : SUBSET Thread, key : Thread \cup {None}]

\* Every variable has its type.
TypeOK ==
    /\ memory \subseteq Nat /\ edition \in Nat /\ refreshed \in [Thread -> Nat]
    /\ epochs \in [all : Nat, threads : [Thread -> Nat]]
    /\ lock \in Caller \cup {None} /\ day \in 0 .. 1
    /\ prompts \in [Proc -> [Thread -> [edition : Nat, day : 0 .. 1] \cup {None}]]
    /\ metas \in [Proc -> [Thread -> [epoch : Nat, day : 0 .. 1] \cup {None}]]
    /\ on \in [Caller -> Proc \cup {None}]
    /\ op \in [Caller -> Mutations \cup {"refresh", "turn", None}]
    /\ pc \in [Caller -> {"idle", "acquire", "write", "bump", "epoch", "snapshot", "keep",
                          "served", "drop", "drop_meta"}]
    /\ thread \in [Caller -> Thread \cup {None}]
    /\ seen \in [Caller -> Sights] /\ due \in [Caller -> Sights]
    /\ refreshes \in Nat /\ turns \in Nat /\ crashes \in Nat

\* No entry leaves the memory file unless the request that takes it out had read it: of two
\* writers in two processes neither undoes what the other has just saved, and an editor that
\* sends its etag overwrites only what was on the screen ("taken around the write alone, two concurrent adds
\* both start from the same content and one entry is lost").
NoEntryLost ==
    [][\A e \in memory \ memory' :
          \E c \in Caller :
             pc[c] = "write" /\ pc'[c] = "idle" /\ (e \in seen[c].memory \/ op[c] = "overwrite")]_memory

\* A turn that begins after a refresh of its thread has returned is shown a prompt of today
\* that has everything written before the refresh began, in whatever process it runs.
ShowsCurrent(c) == seen[c].edition >= due[c].edition /\ seen[c].day >= due[c].day

\* It holds of every prompt that is kept with its epoch.
DatedPromptsAreCurrent == \A c \in Caller : pc[c] = "served" /\ seen[c].dated => ShowsCurrent(c)

\* bump_snapshot_epoch: "Record an explicit snapshot refresh so all Gunicorn workers drop stale
\* frozen prompts."
PromptsAreCurrent == \A c \in Caller : pc[c] = "served" => ShowsCurrent(c)
=============================================================================
