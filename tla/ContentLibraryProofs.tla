------------------------ MODULE ContentLibraryProofs ------------------------
(***************************************************************************)
(* Theorems about ContentLibrary, for any number of concurrent requests,   *)
(* any media limit and any number of failing transactions.                 *)
(***************************************************************************)
EXTENDS ContentLibrary, TLAPS, FiniteSetTheorems

-----------------------------------------------------------------------------
(* Types. *)

\* The request that is about to commit holds the lock, and what it read under it still
\* stands.
Locked ==
    \A r \in Request :
        /\ pc[r] = "commit" <=> holder = r
        /\ pc[r] = "commit" => /\ content # None
                               /\ seen[r].assets = assets
                               /\ seen[r].readings = readings

TInv == TypeOK /\ Locked /\ IsFiniteSet(assets) /\ IsFiniteSet(readings)

SeenStates == [content : ContentRows \cup {None}, writes : Nat,
               assets : SUBSET AssetRows, readings : SUBSET Request]
Events == [by : Request \cup {None}, status : {"planned", "scheduled"}]

\* A finite set of natural numbers has a greatest element: a smallest subset without one
\* would have one with an element taken out.
LEMMA HasMax ==
  ASSUME NEW S \in SUBSET Nat, IsFiniteSet(S), S # {}
  PROVE  Max(S) \in S /\ \A y \in S : Max(S) >= y
<1> DEFINE Topped(X) == \E x \in X : \A y \in X : x >= y
           Bad == {X \in SUBSET S : X # {} /\ ~Topped(X)}
<1>1. IsWellFoundedOn(StrictSubsetOrdering(S), FiniteSubsetsOf(S))
  BY FS_StrictSubsetOrderingWellFounded
<1>2. Bad \subseteq FiniteSubsetsOf(S)
  BY FS_FiniteSubsetsOfFinite
<1>3. Bad = {}
  <2> SUFFICES ASSUME Bad # {} PROVE FALSE
    OBVIOUS
  <2>1. PICK X \in Bad : \A Y \in Bad : <<Y, X>> \notin StrictSubsetOrdering(S)
    <3> HIDE DEF Bad
    <3> QED BY <1>1, <1>2, WFMin
  <2>2. PICK x \in X : TRUE
    BY <2>1
  <2>3. X \ {x} \notin Bad
    BY <2>1, <2>2 DEF StrictSubsetOrdering
  <2>4. CASE X = {x}
    BY <2>1, <2>2, <2>4
  <2>5. CASE X # {x}
    <3>1. X \ {x} # {} /\ X \ {x} \in SUBSET S /\ X \in SUBSET Nat
      BY <2>1, <2>2, <2>5
    <3>2. PICK m \in X \ {x} : \A y \in X \ {x} : m >= y
      BY <2>3, <3>1
    <3>3. (\A y \in X : m >= y) \/ (\A y \in X : x >= y)
      BY <2>2, <3>1, <3>2
    <3> QED BY <2>1, <2>2, <3>2, <3>3
  <2> QED BY <2>4, <2>5
<1>4. \E x \in S : \A y \in S : x >= y
  BY <1>3
<1> QED BY <1>4 DEF Max

\* The next order is a number and greater than any order that was counted.
LEMMA NextOrderIsNew ==
  ASSUME NEW r \in Request, seen[r].assets \subseteq AssetRows, IsFiniteSet(seen[r].assets)
  PROVE  NextOrder(r) \in Nat \ {0} /\ \A a \in seen[r].assets : NextOrder(r) > a.order
<1> DEFINE Orders == {a.order : a \in seen[r].assets}
<1>1. IsFiniteSet(Orders)
  <2> DEFINE f == [a \in seen[r].assets |-> a.order]
  <2>1. f \in Surjection(seen[r].assets, Orders)
    BY DEF Surjection
  <2> QED BY <2>1, FS_Surjection
<1>2. Orders \subseteq Nat /\ \A a \in seen[r].assets : a.order \in Orders
  BY DEF AssetRows
<1>3. NextOrder(r) = 1 + Max({0} \cup Orders)
  BY DEF NextOrder
<1> HIDE DEF Orders
<1>4. IsFiniteSet({0} \cup Orders)
  BY <1>1, FS_Singleton, FS_Union
<1>5. {0} \cup Orders \in SUBSET Nat /\ {0} \cup Orders # {}
  BY <1>2
<1>6. Max({0} \cup Orders) \in Nat /\ \A y \in {0} \cup Orders : Max({0} \cup Orders) >= y
  BY <1>4, <1>5, HasMax
<1>7. PICK m \in Nat : m = Max({0} \cup Orders)
  BY <1>6
<1>8. ASSUME NEW a \in seen[r].assets PROVE a.order \in Nat /\ m >= a.order
  BY <1>2, <1>6, <1>7
<1>9. NextOrder(r) = 1 + m
  BY <1>3, <1>7
<1> HIDE DEF NextOrder
<1>10. NextOrder(r) \in Nat \ {0}
  BY <1>9
<1>11. ASSUME NEW a \in seen[r].assets PROVE NextOrder(r) > a.order
  BY <1>8, <1>9
<1> QED BY <1>10, <1>11

\* What a request has seen keeps its type when it reads the content row or the child rows.
LEMMA SeenUpdated ==
  ASSUME NEW v \in SeenStates, NEW c \in ContentRows \cup {None}, NEW w \in Nat
  PROVE  [v EXCEPT !.content = c, !.writes = w] \in SeenStates
BY DEF SeenStates

LEMMA SeenLocked ==
  ASSUME NEW v \in SeenStates, NEW a \in SUBSET AssetRows, NEW b \in SUBSET Request
  PROVE  [v EXCEPT !.assets = a, !.readings = b] \in SeenStates
BY DEF SeenStates

LEMMA Responded ==
  ASSUME TInv, NEW r \in Request, Respond(r)
  PROVE  /\ seen' \in [Request -> SeenStates] /\ pc' \in [Request -> PCs]
         /\ pc'[r] = "done" /\ \A s \in Request \ {r} : pc'[s] = pc[s] /\ seen'[s] = seen[s]
BY DEF TInv, TypeOK, SeenStates, Respond, Go, Nothing, PCs

\* A step of r that is not a commit and takes no lock keeps what the lock protects.
LEMMA LockKept ==
  ASSUME TInv, NEW r \in Request, UNCHANGED <<holder, assets, readings>>,
         UNCHANGED content \/ (holder = None /\ (content # None => content' # None)),
         pc[r] # "commit", pc'[r] # "commit",
         \A s \in Request \ {r} : pc'[s] = pc[s] /\ seen'[s] = seen[s]
  PROVE  Locked'
BY NoneAssumption DEF TInv, Locked

\* What a step of r does to the content row: nothing, a rewrite that keeps the text or is an
\* accepted edit, or the deletion.
LEMMA ContentWritten ==
  ASSUME TInv, NEW r \in Request, Serve(r)
  PROVE  \/ UNCHANGED <<content, now, writes>>
         \/ /\ content # None /\ content' \in ContentRows /\ Rewrite(content')
            /\ \/ content'.text = content.text /\ content'.updated_at = Now
               \/ /\ pc[r] = "commit" /\ kind[r] = "edit" /\ Current(r)
                  /\ content'.text = r /\ content'.updated_at = Later(content.updated_at)
         \/ DeleteContent(r) /\ pc[r] = "commit"
<1>1. CASE Commit(r) /\ ~DeleteContent(r)
  <2>a. /\ pc[r] = "commit" /\ content # None /\ content \in ContentRows
        /\ now \in Nat
    BY <1>1 DEF TInv, TypeOK, Locked, Commit
  <2>b. Now \in Nat /\ Later(content.updated_at) \in Nat
    BY <2>a DEF Now, Later, ContentRows
  <2>1. CASE EditContent(r)
    <3>1. CASE ~Current(r)
      BY <2>1, <3>1 DEF EditContent
    <3>2. CASE Current(r)
      <4> DEFINE new == [text |-> r, status |-> content.status, version |-> content.version + 1,
                         updated_at |-> Later(content.updated_at)]
      <4>1. new \in ContentRows /\ new.text = r /\ new.updated_at = Later(content.updated_at)
        BY <2>a, <2>b DEF ContentRows
      <4>2. Rewrite(new) /\ kind[r] = "edit"
        BY <2>1, <3>2 DEF EditContent
      <4> HIDE DEF new
      <4> QED BY <2>a, <3>2, <4>1, <4>2 DEF Rewrite
    <3> QED BY <3>1, <3>2
  <2>2. CASE ArchiveContent(r) \/ RestoreContent(r)
    <3>1. ASSUME NEW s \in {"archived", "draft"}, Rewrite([content EXCEPT !.status = s, !.updated_at = Now])
          PROVE  content' \in ContentRows /\ content'.text = content.text /\ content'.updated_at = Now
      BY <2>a, <2>b, <3>1 DEF Rewrite, ContentRows
    <3> QED BY <2>a, <2>2, <3>1 DEF ArchiveContent, RestoreContent, Rewrite
  <2> QED BY <1>1, <2>1, <2>2 DEF Commit, SaveMediaAsset, DeleteMediaAsset, RecordContentMetrics
<1>2. CASE UpdateContent(r) /\ content # None
  <2>1. PICK s \in {"refined", "published", "scheduled"} :
          Rewrite([content EXCEPT !.status = s, !.updated_at = Now])
    BY <1>2 DEF UpdateContent
  <2>2. content \in ContentRows /\ Now \in Nat
    BY <1>2 DEF TInv, TypeOK, Now
  <2>3. content' \in ContentRows /\ content'.text = content.text /\ content'.updated_at = Now
    BY <2>1, <2>2 DEF Rewrite, ContentRows
  <2> QED BY <1>2, <2>1, <2>3 DEF Rewrite
<1> QED BY <1>1, <1>2
    DEF Serve, Commit, UpdateContent, Arrive, Lock, Rollback, SaveCalendarEvent, UpdateCalendarEvent,
        DeleteCalendarEvent, MakeDirectory, OpenFile, CopyChunks, CleanUp, UnlinkFile, RemoveFiles,
        RemoveDirectory, row

\* The row keeps its type, and only the deletion takes it away.
LEMMA ContentTyped ==
  ASSUME TInv, NEW r \in Request, Serve(r)
  PROVE  /\ content' \in ContentRows \cup {None} /\ now' \in Nat /\ writes' \in Nat
         /\ content # None => content' # None \/ (DeleteContent(r) /\ pc[r] = "commit")
         /\ content = None => content' = None
BY ContentWritten, NoneAssumption DEF TInv, TypeOK, Locked, Rewrite, Now, DeleteContent

LEMMA CommitTyped ==
  ASSUME TInv, NEW r \in Request, Commit(r)
  PROVE  TInv'
<1>b. /\ pc \in [Request -> PCs] /\ seen \in [Request -> SeenStates]
      /\ now \in Nat /\ writes \in Nat /\ None \notin Request
  BY NoneAssumption DEF TInv, TypeOK, SeenStates
<1>1. holder = r /\ holder' = None /\ UNCHANGED <<files, dir, kind, faults>>
  BY DEF Commit, Release, TInv, Locked
<1>2. \A s \in Request \ {r} : pc[s] # "commit"
  BY <1>1 DEF TInv, Locked
<1>4. content' \in ContentRows \cup {None} /\ now' \in Nat /\ writes' \in Nat
  BY ContentTyped DEF Serve
<1>5. assets' \subseteq AssetRows /\ IsFiniteSet(assets')
  <2>0. assets \subseteq AssetRows /\ IsFiniteSet(assets)
    BY DEF TInv, TypeOK, AssetRows
  <2>1. CASE SaveMediaAsset(r)
    <3>1. seen[r].assets = assets
      BY DEF TInv, Locked, Commit
    <3>2. [file |-> r, order |-> NextOrder(r)] \in AssetRows
      BY <2>0, <3>1, NextOrderIsNew DEF AssetRows
    <3>3. IsFiniteSet(assets \cup {[file |-> r, order |-> NextOrder(r)]})
      BY <2>0, FS_AddElement
    <3> QED BY <2>0, <2>1, <3>2, <3>3 DEF SaveMediaAsset
  <2>2. CASE DeleteMediaAsset(r)
    <3>1. ASSUME NEW a PROVE IsFiniteSet(assets \ {a})
      BY <2>0, FS_RemoveElement
    <3> QED BY <2>0, <2>2, <3>1 DEF DeleteMediaAsset
  <2>3. CASE DeleteContent(r)
    BY <2>3, FS_EmptySet DEF DeleteContent
  <2> QED BY <2>0, <2>1, <2>2, <2>3
      DEF Commit, EditContent, ArchiveContent, RestoreContent, RecordContentMetrics
<1>6. readings' \subseteq Request /\ IsFiniteSet(readings')
  <2>0. readings \subseteq Request /\ IsFiniteSet(readings)
    BY DEF TInv, TypeOK
  <2>1. CASE RecordContentMetrics(r)
    <3>1. IsFiniteSet(readings \ seen[r].readings)
      BY <2>0, FS_Difference
    <3>2. IsFiniteSet((readings \ seen[r].readings) \cup {r})
      BY <3>1, FS_AddElement
    <3> QED BY <2>0, <2>1, <3>2 DEF RecordContentMetrics
  <2>2. CASE DeleteContent(r)
    BY <2>2, FS_EmptySet DEF DeleteContent
  <2> QED BY <2>0, <2>1, <2>2
      DEF Commit, EditContent, ArchiveContent, RestoreContent, SaveMediaAsset, DeleteMediaAsset
<1>7. events' \subseteq Events
  BY DEF TInv, TypeOK, Events, Commit, EditContent, ArchiveContent, RestoreContent, DeleteContent,
         SaveMediaAsset, DeleteMediaAsset, RecordContentMetrics
<1>8. /\ pc' \in [Request -> PCs]
      /\ pc'[r] # "commit" /\ \A s \in Request \ {r} : pc'[s] = pc[s]
  BY <1>b DEF Commit, EditContent, ArchiveContent, RestoreContent, DeleteContent, SaveMediaAsset,
         DeleteMediaAsset, RecordContentMetrics, Respond, Go, PCs
<1>9. seen' \in [Request -> SeenStates]
  <2>1. CASE UNCHANGED seen
    BY <2>1 DEF TInv, TypeOK, SeenStates
  <2>2. CASE Respond(r)
    BY <2>2, Responded
  <2>3. ASSUME NEW a \in seen[r].assets, seen' = [seen EXCEPT ![r].assets = {a}] PROVE seen' \in [Request -> SeenStates]
    <3>1. {a} \in SUBSET AssetRows
      BY <1>b DEF SeenStates
    <3> QED BY <2>3, <3>1 DEF TInv, TypeOK, SeenStates
  <2> QED BY <2>1, <2>2, <2>3
      DEF Commit, EditContent, ArchiveContent, RestoreContent, DeleteContent, SaveMediaAsset,
          DeleteMediaAsset, RecordContentMetrics
<1>10. Locked'
  BY <1>b, <1>1, <1>2, <1>8 DEF Locked
<1> QED
  <2>1. TypeOK'
    BY <1>b, <1>1, <1>4, <1>5, <1>6, <1>7, <1>8, <1>9 DEF TInv, TypeOK, SeenStates, Events
  <2> QED BY <1>5, <1>6, <1>9, <1>10, <2>1 DEF TInv

LEMMA LockTyped ==
  ASSUME TInv, NEW r \in Request, Lock(r)
  PROVE  TInv'
<1>1. CASE content = None
  <2>1. seen' \in [Request -> SeenStates]
    BY <1>1, Responded DEF Lock, TInv, TypeOK, SeenStates
  <2>2. Locked'
    BY <1>1, LockKept DEF Lock, Respond, Go, TInv, TypeOK, SeenStates, row
  <2> QED BY <1>1, <2>1, <2>2 DEF Lock, Respond, Go, TInv, TypeOK, SeenStates, PCs, row
<1>2. CASE content # None
  <2>1. assets \in SUBSET AssetRows /\ readings \in SUBSET Request
    BY DEF TInv, TypeOK, AssetRows
  <2>2. /\ holder = None /\ holder' = r /\ UNCHANGED row
        /\ seen' = [seen EXCEPT ![r].assets = assets, ![r].readings = readings]
        /\ pc' = [pc EXCEPT ![r] = "commit"]
        /\ UNCHANGED <<files, dir, now, kind, writes, faults>>
    BY <1>2 DEF Lock, Go
  <2>3. seen' \in [Request -> SeenStates]
    <3>1. seen \in [Request -> SeenStates]
      BY DEF TInv, TypeOK, SeenStates
    <3>2. [seen[r] EXCEPT !.assets = assets, !.readings = readings] \in SeenStates
      BY <2>1, <3>1, SeenLocked
    <3>3. seen' = [seen EXCEPT ![r] = [seen[r] EXCEPT !.assets = assets, !.readings = readings]]
      BY <2>2
    <3> QED BY <3>1, <3>2, <3>3
  <2>4. \A s \in Request : pc[s] # "commit"
    BY <2>2, NoneAssumption DEF TInv, Locked
  <2>5. Locked'
    BY <1>2, <2>2, <2>4 DEF TInv, TypeOK, SeenStates, Locked, row
  <2> QED BY <2>2, <2>3, <2>5 DEF TInv, TypeOK, SeenStates, PCs, row
<1> QED BY <1>1, <1>2

LEMMA OtherTyped ==
  ASSUME TInv, NEW r \in Request,
         \/ Arrive(r) \/ Rollback(r)
         \/ SaveCalendarEvent(r) \/ UpdateCalendarEvent(r) \/ DeleteCalendarEvent(r)
         \/ MakeDirectory(r) \/ OpenFile(r) \/ CopyChunks(r) \/ CleanUp(r)
         \/ UnlinkFile(r) \/ RemoveFiles(r) \/ RemoveDirectory(r)
  PROVE  TInv'
<1>a. pc \in [Request -> PCs]
      /\ seen \in [Request -> SeenStates] /\ None \notin Request
  BY NoneAssumption DEF TInv, TypeOK, SeenStates, SeenStates
<1>b. UNCHANGED <<content, assets, readings, now, writes>>
  BY DEF Arrive, Rollback, SaveCalendarEvent, UpdateCalendarEvent, DeleteCalendarEvent, MakeDirectory,
         OpenFile, CopyChunks, CleanUp, UnlinkFile, RemoveFiles, RemoveDirectory, row
<1>1. CASE Arrive(r)
  <2>1. content \in ContentRows \cup {None}
    BY DEF TInv, TypeOK, ContentRows
  <2>2. seen' \in [Request -> SeenStates]
    <3>1. seen' = [seen EXCEPT ![r].content = content, ![r].writes = writes] /\ writes \in Nat
      BY <1>1 DEF Arrive, TInv, TypeOK
    <3>2. [seen[r] EXCEPT !.content = content, !.writes = writes] \in SeenStates
      BY <1>a, <2>1, <3>1, SeenUpdated
    <3>3. seen' = [seen EXCEPT ![r] = [seen[r] EXCEPT !.content = content, !.writes = writes]]
      BY <1>a, <3>1 DEF SeenStates
    <3> QED BY <1>a, <3>2, <3>3
  <2>3. /\ pc[r] = "idle" /\ pc'[r] # "commit" /\ UNCHANGED holder
        /\ \A s \in Request \ {r} : pc'[s] = pc[s] /\ seen'[s] = seen[s]
    BY <1>a, <1>1 DEF Arrive, Go
  <2>4. Locked'
    BY <1>b, <2>3, LockKept
  <2> QED BY <1>a, <1>1, <2>2, <2>4 DEF Arrive, Go, TInv, TypeOK, SeenStates, PCs, row, Kinds
<1>2. CASE Rollback(r)
  <2>1. seen' \in [Request -> SeenStates]
    BY <1>2, Responded DEF Rollback, TInv, TypeOK, SeenStates
  <2>2. /\ holder = r /\ holder' = None /\ pc'[r] # "commit"
        /\ \A s \in Request \ {r} : pc'[s] = pc[s]
    BY <1>a, <1>2 DEF Rollback, Release, Go, Respond, TInv, Locked
  <2>3. Locked'
    BY <1>a, <2>2 DEF TInv, Locked
  <2>4. pc' \in [Request -> PCs] /\ faults' \in 0 .. MaxFaults /\ UNCHANGED <<row, files, dir, now, kind, writes>>
    BY <1>a, <1>2, BoundsAssumption DEF Rollback, Go, Respond, TInv, TypeOK, PCs
  <2> QED BY <2>1, <2>2, <2>3, <2>4 DEF TInv, TypeOK, SeenStates, row
<1>3. CASE ~Arrive(r) /\ ~Rollback(r)
  <2>1. /\ Respond(r) \/ UNCHANGED seen
        /\ UNCHANGED holder /\ pc[r] # "commit" /\ pc'[r] # "commit"
        /\ \A s \in Request \ {r} : pc'[s] = pc[s]
    BY <1>a, <1>3
    DEF SaveCalendarEvent, UpdateCalendarEvent, DeleteCalendarEvent, MakeDirectory, OpenFile,
        CopyChunks, CleanUp, UnlinkFile, RemoveFiles, RemoveDirectory, Go, Respond
  <2>2. seen' \in [Request -> SeenStates] /\ \A s \in Request \ {r} : seen'[s] = seen[s]
    BY <1>a, <2>1, Responded DEF Respond, TInv, TypeOK, SeenStates
  <2>3. Locked'
    BY <1>b, <2>1, <2>2, LockKept
  <2>4. events' \subseteq Events
    BY <1>3 DEF SaveCalendarEvent, UpdateCalendarEvent, DeleteCalendarEvent, MakeDirectory, OpenFile,
        CopyChunks, CleanUp, UnlinkFile, RemoveFiles, RemoveDirectory, LocalEvents, Events, TInv, TypeOK, row
  <2>5. files' \subseteq Request /\ dir' \in BOOLEAN /\ UNCHANGED <<kind, faults>>
    BY <1>3 DEF SaveCalendarEvent, UpdateCalendarEvent, DeleteCalendarEvent, MakeDirectory, OpenFile,
        CopyChunks, CleanUp, UnlinkFile, RemoveFiles, RemoveDirectory, TInv, TypeOK
  <2>6. pc' \in [Request -> PCs]
    BY <1>a, <1>3 DEF SaveCalendarEvent, UpdateCalendarEvent, DeleteCalendarEvent, MakeDirectory,
        OpenFile, CopyChunks, CleanUp, UnlinkFile, RemoveFiles, RemoveDirectory, Go, Respond, PCs
  <2> QED BY <1>b, <2>1, <2>2, <2>3, <2>4, <2>5, <2>6 DEF TInv, TypeOK, SeenStates, Events
<1> QED BY <1>1, <1>2, <1>3

LEMMA StatusTyped ==
  ASSUME TInv, NEW r \in Request, UpdateContent(r)
  PROVE  TInv'
<1>1. /\ holder = None /\ UNCHANGED <<assets, readings, events, files, dir, holder, kind, faults>>
      /\ pc[r] # "commit" /\ Respond(r)
  BY DEF UpdateContent
<1>2. /\ now' \in Nat /\ writes' \in Nat /\ content' \in ContentRows \cup {None}
      /\ content # None => content' # None
  BY <1>1, ContentTyped DEF Serve
<1>3. Locked'
  BY <1>1, <1>2, LockKept, Responded
<1> QED BY <1>1, <1>2, <1>3, Responded DEF TInv, TypeOK, SeenStates

LEMMA TypeInvariant == Spec => []TInv
<1>1. Init => TInv
  <2> SUFFICES ASSUME Init PROVE TInv
    OBVIOUS
  <2>1. content \in ContentRows
    BY DEF Init, ContentRows
  <2>2. Nothing \in SeenStates
    BY DEF Nothing, SeenStates
  <2>3. Locked
    BY NoneAssumption DEF Init, Locked
  <2>4. pc \in [Request -> PCs] /\ seen \in [Request -> SeenStates] /\ kind \in [Request -> Kinds \cup {"idle"}]
    BY <2>2 DEF Init, PCs
  <2>5. TypeOK
    <3>1. /\ assets = {} /\ readings = {} /\ files = {} /\ dir = FALSE /\ holder = None
          /\ now = 0 /\ writes = 0 /\ faults \in 0 .. MaxFaults
      BY BoundsAssumption DEF Init
    <3>2. events \subseteq Events
      BY DEF Init, Events
    <3> QED BY <2>1, <2>4, <3>1, <3>2 DEF TypeOK, SeenStates, Events
  <2> QED BY <2>3, <2>5, FS_EmptySet DEF Init, TInv
<1>2. TInv /\ [Next]_vars => TInv'
  <2> SUFFICES ASSUME TInv, [Next]_vars PROVE TInv'
    OBVIOUS
  <2>1. CASE UNCHANGED vars
    BY <2>1 DEF vars, row, TInv, TypeOK, Locked
  <2> QED BY <2>1, CommitTyped, LockTyped, OtherTyped, StatusTyped DEF Next, Serve
<1> QED BY <1>1, <1>2, PTL DEF Spec

(* Every row, file, clock and request of the library keeps its type, and what a           *)
(* transaction read under the row lock is what it commits on.                             *)
THEOREM TypeCorrect == Spec => []TypeOK
<1>1. TInv => TypeOK
  BY DEF TInv
<1> QED BY <1>1, TypeInvariant, PTL

-----------------------------------------------------------------------------
(* The rows. *)

\* Nothing written without the lock, and nothing rolled back, adds an asset or a reading.
LEMMA OnlyCommitAdds ==
  ASSUME NEW r \in Request, Serve(r), ~Commit(r)
  PROVE  UNCHANGED <<assets, readings>>
BY DEF Serve, Arrive, Lock, Rollback, UpdateContent, SaveCalendarEvent, UpdateCalendarEvent,
       DeleteCalendarEvent, MakeDirectory, OpenFile, CopyChunks, CleanUp, UnlinkFile, RemoveFiles,
       RemoveDirectory, row

\* RowsAgree: the media limit, the orders of the assets and the one reading of a platform hold
\* although every writer counts first and writes later, and no child outlives the content.
THEOREM RowsAlwaysAgree == Spec => []RowsAgree
<1>1. Init => RowsAgree
  BY BoundsAssumption, FS_EmptySet, NoneAssumption DEF Init, RowsAgree, ContentRows
<1>2. TInv /\ RowsAgree /\ [Next]_vars => RowsAgree'
  <2> SUFFICES ASSUME TInv, RowsAgree, [Next]_vars PROVE RowsAgree'
    OBVIOUS
  <2>a. /\ IsFiniteSet(assets) /\ IsFiniteSet(readings) /\ MediaLimit \in Nat \ {0}
        /\ Cardinality(assets) \in Nat /\ Cardinality(assets) <= MediaLimit
        /\ assets \subseteq AssetRows
    BY BoundsAssumption, FS_CardinalityType DEF TInv, TypeOK, RowsAgree
  <2>1. CASE UNCHANGED vars
    BY <2>1 DEF vars, row, RowsAgree
  <2>2. ASSUME NEW r \in Request, Serve(r), ~Commit(r) PROVE RowsAgree'
    <3>1. UNCHANGED <<assets, readings>>
      BY <2>2, OnlyCommitAdds
    <3>2. content' = None => content = None /\ events' = {}
      <4>1. content # None \/ events = {}
        BY DEF RowsAgree
      <4>2. content # None => content' # None
        <5>1. pc[r] = "commit" => Rollback(r) /\ UNCHANGED content
          BY <2>2
          DEF Serve, Arrive, Lock, Rollback, UpdateContent, SaveCalendarEvent, UpdateCalendarEvent,
              DeleteCalendarEvent, MakeDirectory, OpenFile, CopyChunks, CleanUp, UnlinkFile,
              RemoveFiles, RemoveDirectory, row
        <5> QED BY <2>2, <5>1, ContentTyped
      <4>3. events = {} /\ content = None => events' = {}
        BY <2>2
        DEF Serve, Arrive, Lock, Rollback, UpdateContent, SaveCalendarEvent, UpdateCalendarEvent,
            DeleteCalendarEvent, MakeDirectory, OpenFile, CopyChunks, CleanUp, UnlinkFile,
            RemoveFiles, RemoveDirectory, LocalEvents, row
      <4> QED BY <4>1, <4>2, <4>3
    <3> QED BY <3>1, <3>2 DEF RowsAgree
  <2>3. ASSUME NEW r \in Request, Commit(r) PROVE RowsAgree'
    <3>a. content # None /\ seen[r].assets = assets /\ seen[r].readings = readings
      BY <2>3 DEF TInv, Locked, Commit
    <3>1. CASE SaveMediaAsset(r)
      <4>1. CASE UNCHANGED assets
        BY <3>1, <3>a, <4>1 DEF SaveMediaAsset, RowsAgree
      <4>2. CASE /\ Cardinality(assets) < MediaLimit
                 /\ assets' = assets \cup {[file |-> r, order |-> NextOrder(r)]}
        <5>1. Cardinality(assets') <= MediaLimit
          <6> DEFINE new == [file |-> r, order |-> NextOrder(r)]
          <6>1. Cardinality(assets \cup {new}) = IF new \in assets THEN Cardinality(assets)
                                                                  ELSE Cardinality(assets) + 1
            <7> HIDE DEF new
            <7> QED BY <2>a, FS_AddElement
          <6> QED BY <2>a, <4>2, <6>1
        <5>2. NextOrder(r) \in Nat \ {0} /\ \A a \in assets : NextOrder(r) > a.order
          BY <2>a, <3>a, NextOrderIsNew
        <5>3. \A a, b \in assets' : a.order = b.order => a = b
          BY <2>a, <4>2, <5>2 DEF RowsAgree, AssetRows
        <5> QED BY <3>1, <3>a, <5>1, <5>3 DEF SaveMediaAsset, RowsAgree
      <4> QED BY <2>a, <3>1, <3>a, <4>1, <4>2 DEF SaveMediaAsset
    <3>2. CASE DeleteMediaAsset(r)
      <4>1. CASE UNCHANGED assets
        BY <3>2, <3>a, <4>1 DEF DeleteMediaAsset, RowsAgree
      <4>2. ASSUME NEW a \in assets, assets' = assets \ {a} PROVE RowsAgree'
        <5>1. Cardinality(assets') <= MediaLimit
          <6>1. Cardinality(assets \ {a}) = Cardinality(assets) - 1
            BY <2>a, FS_RemoveElement
          <6> QED BY <2>a, <4>2, <6>1
        <5> QED BY <3>2, <3>a, <4>2, <5>1 DEF DeleteMediaAsset, RowsAgree
      <4> QED BY <3>2, <3>a, <4>1, <4>2 DEF DeleteMediaAsset
    <3>3. CASE RecordContentMetrics(r)
      <4>1. readings' = {r}
        BY <3>3, <3>a DEF RecordContentMetrics
      <4>2. Cardinality(readings') = 1
        BY <4>1, FS_Singleton
      <4>3. UNCHANGED <<content, assets, events>>
        BY <3>3 DEF RecordContentMetrics
      <4> QED BY <3>a, <4>2, <4>3 DEF RowsAgree
    <3>4. CASE DeleteContent(r)
      BY <2>a, <3>4, FS_EmptySet DEF DeleteContent, RowsAgree
    <3>5. CASE EditContent(r) \/ ArchiveContent(r) \/ RestoreContent(r)
      <4>1. content' # None
        BY <2>3, <3>5, <3>a, ContentTyped DEF Serve, EditContent, ArchiveContent, RestoreContent, DeleteContent
      <4> QED BY <3>5, <3>a, <4>1 DEF EditContent, ArchiveContent, RestoreContent, RowsAgree
    <3> QED BY <2>3, <3>1, <3>2, <3>3, <3>4, <3>5 DEF Commit
  <2> QED BY <2>1, <2>2, <2>3 DEF Next
<1> QED BY <1>1, <1>2, TypeInvariant, PTL DEF Spec

-----------------------------------------------------------------------------
(* Edits. *)

\* Only an upload is between making its directory and its clean-up, and the files go only
\* once the content is gone.
RoutesFit ==
    \A r \in Request :
        /\ pc[r] \in {"mkdir", "open", "copy", "clean_up"} => kind[r] = "upload"
        /\ pc[r] \in {"list_files", "rmdir"} => content = None

LEMMA RoutesAreFit == Spec => []RoutesFit
<1>1. Init => RoutesFit
  BY DEF Init, RoutesFit
<1>2. TInv /\ RoutesFit /\ [Next]_vars => RoutesFit'
  <2> SUFFICES ASSUME TInv, RoutesFit, [Next]_vars PROVE RoutesFit'
    OBVIOUS
  <2>1. CASE UNCHANGED vars
    BY <2>1 DEF vars, row, RoutesFit
  <2>2. ASSUME NEW r \in Request, Serve(r) PROVE RoutesFit'
    <3>a. pc \in [Request -> PCs] /\ kind \in [Request -> Kinds \cup {"idle"}]
      BY DEF TInv, TypeOK
    <3>1. content = None => content' = None
      BY <2>2, ContentTyped
    <3>2. \A s \in Request \ {r} : pc'[s] = pc[s] /\ kind'[s] = kind[s]
      BY <2>2, <3>a
      DEF Serve, Arrive, Lock, Commit, EditContent, ArchiveContent, RestoreContent, DeleteContent,
          SaveMediaAsset, DeleteMediaAsset, RecordContentMetrics, Rollback, UpdateContent,
          SaveCalendarEvent, UpdateCalendarEvent, DeleteCalendarEvent, MakeDirectory, OpenFile,
          CopyChunks, CleanUp, UnlinkFile, RemoveFiles, RemoveDirectory, Respond, Go
    <3>3. CASE Arrive(r)
      BY <3>1, <3>2, <3>3, <3>a DEF Arrive, Go, RoutesFit
    <3>4. CASE Lock(r) \/ Rollback(r) \/ Commit(r)
      <4>1. UNCHANGED kind
        BY <3>4 DEF Lock, Rollback, Commit
      <4>2. pc'[r] \in {"clean_up", "mkdir", "open", "copy"} => kind[r] = "upload"
        BY <3>4, <3>a
        DEF Lock, Commit, EditContent, ArchiveContent, RestoreContent, DeleteContent,
            SaveMediaAsset, DeleteMediaAsset, RecordContentMetrics, Rollback, Respond, Go
      <4>3. pc'[r] \in {"list_files", "rmdir"} => content' = None
        BY <3>4, <3>a
        DEF Lock, Commit, EditContent, ArchiveContent, RestoreContent, DeleteContent, Rewrite,
            SaveMediaAsset, DeleteMediaAsset, RecordContentMetrics, Rollback, Respond, Go
      <4> QED BY <3>1, <3>2, <4>1, <4>2, <4>3 DEF RoutesFit
    <3>5. CASE ~Arrive(r) /\ ~(Lock(r) \/ Rollback(r) \/ Commit(r))
      <4>1. /\ pc'[r] \in {"mkdir", "open", "copy", "clean_up"} => pc[r] \in {"mkdir", "open", "copy", "clean_up"}
            /\ pc'[r] \in {"list_files", "rmdir"} => pc[r] \in {"list_files", "rmdir"}
            /\ UNCHANGED kind
        BY <2>2, <3>5, <3>a
        DEF Serve, UpdateContent, SaveCalendarEvent, UpdateCalendarEvent, DeleteCalendarEvent,
            MakeDirectory, OpenFile, CopyChunks, CleanUp, UnlinkFile, RemoveFiles, RemoveDirectory,
            Respond, Go
      <4> QED BY <3>1, <3>2, <4>1 DEF RoutesFit
    <3> QED BY <3>3, <3>4, <3>5
  <2> QED BY <2>1, <2>2 DEF Next
<1> QED BY <1>1, <1>2, TypeInvariant, PTL DEF Spec

\* The clock and the history count the same writes, and the row carries the last of them.
TokenIsLast == writes = now /\ (content # None => content.updated_at = now)

\* An editor holds the token of the write that was the last when it loaded the draft.
EditorsKnow ==
    \A r \in Request : kind[r] = "edit" /\ pc[r] \in {"lock", "commit"}
        => seen[r].content # None /\ seen[r].content.updated_at = seen[r].writes


LEMMA TokensFit == Spec => [](TokenIsLast /\ EditorsKnow)
<1>1. Init => TokenIsLast /\ EditorsKnow
  BY DEF Init, TokenIsLast, EditorsKnow
<1>2. TInv /\ RoutesFit /\ TokenIsLast /\ EditorsKnow /\ [Next]_vars => (TokenIsLast /\ EditorsKnow)'
  <2> SUFFICES ASSUME TInv, RoutesFit, TokenIsLast, EditorsKnow, [Next]_vars
               PROVE  TokenIsLast' /\ EditorsKnow'
    OBVIOUS
  <2>1. CASE UNCHANGED vars
    BY <2>1 DEF vars, row, TokenIsLast, EditorsKnow
  <2>2. ASSUME NEW r \in Request, Serve(r) PROVE TokenIsLast'
    <3>1. now \in Nat /\ content \in ContentRows \cup {None}
      BY DEF TInv, TypeOK
    <3>2. content # None => Later(content.updated_at) = Now
      BY <3>1 DEF TokenIsLast, Later, Now
    <3> QED BY <2>2, <3>1, <3>2, ContentWritten DEF TokenIsLast, Rewrite, Now, DeleteContent
  <2>3. ASSUME NEW r \in Request, Serve(r) PROVE EditorsKnow'
    <3>a. pc \in [Request -> PCs] /\ seen \in [Request -> SeenStates] /\ kind \in [Request -> Kinds \cup {"idle"}]
      BY DEF TInv, TypeOK, SeenStates
    <3>1. CASE Arrive(r)
      <4>1. /\ content # None /\ seen'[r].content = content /\ seen'[r].writes = writes
            /\ \A s \in Request \ {r} : pc'[s] = pc[s] /\ seen'[s] = seen[s] /\ kind'[s] = kind[s]
        BY <3>a, <3>1 DEF Arrive, Go, SeenStates
      <4> QED BY <4>1 DEF TokenIsLast, EditorsKnow
    <3>2. CASE Lock(r)
      <4>1. /\ pc[r] = "lock" /\ UNCHANGED kind
            /\ pc'[r] = "commit" => /\ seen'[r].content = seen[r].content
                                    /\ seen'[r].writes = seen[r].writes
            /\ pc'[r] \in {"clean_up", "done", "commit"}
            /\ \A s \in Request \ {r} : pc'[s] = pc[s] /\ seen'[s] = seen[s]
        BY <3>a, <3>2 DEF Lock, Respond, Go, SeenStates
      <4> QED BY <4>1 DEF EditorsKnow
    <3>3. CASE ~Arrive(r) /\ ~Lock(r)
      <4>1. /\ UNCHANGED kind
            /\ pc'[r] = "lock" => pc[r] = "copy" /\ UNCHANGED seen
            /\ pc'[r] # "commit"
            /\ \A s \in Request \ {r} : pc'[s] = pc[s] /\ seen'[s] = seen[s]
        BY <2>3, <3>a, <3>3
        DEF Serve, Commit, EditContent, ArchiveContent, RestoreContent, DeleteContent, SaveMediaAsset,
            DeleteMediaAsset, RecordContentMetrics, Rollback, UpdateContent, SaveCalendarEvent,
            UpdateCalendarEvent, DeleteCalendarEvent, MakeDirectory, OpenFile, CopyChunks, CleanUp,
            UnlinkFile, RemoveFiles, RemoveDirectory, Respond, Go
      <4> QED BY <4>1 DEF EditorsKnow, RoutesFit
    <3> QED BY <3>1, <3>2, <3>3
  <2> QED BY <2>1, <2>2, <2>3 DEF Next
<1> QED BY <1>1, <1>2, TypeInvariant, RoutesAreFit, PTL DEF Spec

\* NoLostEdit: the token of an accepted edit is that of the last write, so nothing was written
\* since its author loaded the draft.
THEOREM EditsAreCurrent == Spec => NoLostEdit
<1>1. TInv /\ TokenIsLast /\ EditorsKnow /\ [Next]_vars
        => [\A r \in Request :
              content' # content /\ content' # None /\ content'.text = r /\ content.text # r
                  => writes = seen[r].writes]_vars
  <2> SUFFICES ASSUME TInv, TokenIsLast, EditorsKnow, NEW s \in Request, Serve(s), NEW r \in Request,
                      content' # content, content' # None, content'.text = r, content.text # r
               PROVE  writes = seen[r].writes
    BY DEF Next
  <2>1. content # None /\ pc[s] = "commit" /\ kind[s] = "edit" /\ Current(s) /\ content'.text = s
    BY ContentWritten DEF DeleteContent, Rewrite
  <2> QED BY <2>1 DEF Current, TokenIsLast, EditorsKnow
<1> QED BY <1>1, TypeInvariant, TokensFit, PTL DEF Spec, NoLostEdit

-----------------------------------------------------------------------------
(* Files. *)

\* Who wrote an asset, still there or found by a request, is done; no two share a file.
WritersDone ==
    /\ \A a \in assets : pc[a.file] = "done"
    /\ \A r \in Request : \A a \in seen[r].assets : pc[a.file] = "done"
    /\ \A a, b \in assets : a.file = b.file => a = b

\* An upload that has its file keeps it as long as the content is there, and the file an
\* unlink is about to take belongs to no asset.
Uploading(r) == kind[r] = "upload" /\ pc[r] \in {"copy", "lock", "commit"}
HandsOff ==
    /\ \A r \in Request : Uploading(r) /\ content # None => r \in files
    /\ \A r \in Request : pc[r] = "unlink" =>
          \A a \in seen[r].assets, b \in assets : a.file # b.file

\* Every asset has its file; every other file is in the hands of a request.
FilesAccounted ==
    /\ \A a \in assets : a.file \in files
    /\ \A f \in files :
         \/ \E a \in assets : a.file = f
         \/ Uploading(f) \/ pc[f] = "clean_up"
         \/ \E r \in Request : pc[r] = "unlink" /\ \E a \in seen[r].assets : a.file = f
         \/ \E r \in Request : pc[r] = "list_files"

FilesInv == WritersDone /\ HandsOff /\ FilesAccounted

\* A step that changes no asset and no file, and gives r no file to answer for.
LEMMA HandsOffKept ==
  ASSUME TInv, FilesInv, NEW r \in Request, UNCHANGED <<assets, files>>,
         content = None => content' = None,
         \A s \in Request \ {r} : pc'[s] = pc[s] /\ kind'[s] = kind[s] /\ seen'[s] = seen[s],
         pc[r] # "done",
         seen'[r].assets \in {seen[r].assets, assets, {}},
         pc[r] \notin {"unlink", "list_files"}, pc'[r] # "unlink",
         Uploading(r)' => Uploading(r),
         Uploading(r) \/ pc[r] = "clean_up" => Uploading(r)' \/ pc'[r] = "clean_up"
  PROVE  FilesInv'
<1>1. WritersDone'
  BY DEF FilesInv, WritersDone, TInv, TypeOK, AssetRows
<1>2. HandsOff'
  BY DEF FilesInv, HandsOff, Uploading
<1>3. FilesAccounted'
  BY DEF FilesInv, FilesAccounted, Uploading, TInv, TypeOK
<1> QED BY <1>1, <1>2, <1>3 DEF FilesInv

LEMMA CommitKeepsFiles ==
  ASSUME TInv, RowsAgree, FilesInv, NEW r \in Request, Commit(r)
  PROVE  FilesInv'
<1>a. /\ pc \in [Request -> PCs] /\ seen \in [Request -> SeenStates]
      /\ assets \subseteq AssetRows /\ files \subseteq Request
      /\ pc[r] = "commit" /\ UNCHANGED <<kind, files>>
      /\ seen[r].assets = assets /\ content # None
  BY DEF TInv, TypeOK, SeenStates, Commit, Locked
<1>b. content = None => content' = None
  BY ContentTyped DEF Serve
<1>1. CASE EditContent(r) \/ ArchiveContent(r) \/ RestoreContent(r) \/ RecordContentMetrics(r)
  <2>1. kind[r] # "upload" /\ Respond(r) /\ UNCHANGED assets
    BY <1>1 DEF EditContent, ArchiveContent, RestoreContent, RecordContentMetrics
  <2>2. seen'[r].assets = {} /\ pc'[r] = "done"
        /\ \A s \in Request \ {r} : pc'[s] = pc[s] /\ seen'[s] = seen[s]
    BY <1>a, <2>1 DEF Respond, Go, Nothing, SeenStates
  <2> QED BY <1>a, <1>b, <2>1, <2>2, HandsOffKept DEF Uploading
<1>2. CASE SaveMediaAsset(r)
  <2>1. CASE UNCHANGED <<seen, assets>> /\ Go(r, "clean_up")
    <3>1. pc'[r] = "clean_up" /\ \A s \in Request \ {r} : pc'[s] = pc[s]
      BY <1>a, <2>1 DEF Go
    <3> QED BY <1>a, <1>b, <2>1, <3>1, HandsOffKept DEF Uploading
  <2>2. CASE assets' = assets \cup {[file |-> r, order |-> NextOrder(r)]} /\ Respond(r)
    <3>1. PICK a : a = [file |-> r, order |-> NextOrder(r)]
      OBVIOUS
    <3>2. assets' = assets \cup {a} /\ a.file = r
      BY <2>2, <3>1
    <3>3. /\ pc'[r] = "done" /\ seen'[r].assets = {}
          /\ \A s \in Request \ {r} : pc'[s] = pc[s] /\ seen'[s] = seen[s]
      BY <1>a, <2>2 DEF Respond, Go, Nothing, SeenStates
    <3>4. r \in files
      BY <1>2, <1>a DEF SaveMediaAsset, FilesInv, HandsOff, Uploading
    <3>5. \A b \in assets : b.file \in Request /\ b.file # r
      BY <1>a DEF FilesInv, WritersDone, AssetRows
    <3>6. \A s \in Request : \A b \in seen[s].assets : b.file \in Request /\ b.file # r /\ pc[b.file] = "done"
      BY <1>a DEF FilesInv, WritersDone, AssetRows, SeenStates
    <3>7. WritersDone'
      BY <3>2, <3>3, <3>5, <3>6 DEF FilesInv, WritersDone
    <3>8. HandsOff'
      BY <1>a, <1>b, <3>2, <3>3, <3>6 DEF FilesInv, HandsOff, Uploading
    <3>9. FilesAccounted'
      BY <1>a, <3>2, <3>3, <3>4 DEF FilesInv, FilesAccounted, Uploading
    <3> QED BY <3>7, <3>8, <3>9 DEF FilesInv
  <2> QED BY <1>2, <2>1, <2>2 DEF SaveMediaAsset
<1>3. CASE DeleteMediaAsset(r)
  <2>0. kind[r] # "upload"
    BY <1>3 DEF DeleteMediaAsset
  <2>1. CASE Respond(r) /\ UNCHANGED assets
    <3>1. seen'[r].assets = {} /\ pc'[r] = "done"
          /\ \A s \in Request \ {r} : pc'[s] = pc[s] /\ seen'[s] = seen[s]
      BY <1>a, <2>1 DEF Respond, Go, Nothing, SeenStates
    <3> QED BY <1>a, <1>b, <2>0, <2>1, <3>1, HandsOffKept DEF Uploading
  <2>2. ASSUME NEW a \in assets, assets' = assets \ {a}, seen' = [seen EXCEPT ![r].assets = {a}],
               Go(r, "unlink")
        PROVE  FilesInv'
    <3>1. /\ pc'[r] = "unlink" /\ seen'[r].assets = {a}
          /\ \A s \in Request \ {r} : pc'[s] = pc[s] /\ seen'[s] = seen[s]
      BY <1>a, <2>2 DEF Go, SeenStates
    <3>2. WritersDone'
      <4>1. \A b \in assets : b.file \in Request /\ pc[b.file] = "done" /\ pc'[b.file] = "done"
        BY <1>a, <3>1 DEF FilesInv, WritersDone, AssetRows
      <4>2. \A s \in Request : \A b \in seen[s].assets : pc'[b.file] = "done"
        BY <1>a, <3>1 DEF FilesInv, WritersDone, AssetRows, SeenStates
      <4> QED BY <2>2, <3>1, <4>1, <4>2 DEF FilesInv, WritersDone
    <3>3. HandsOff'
      BY <1>a, <1>b, <2>0, <2>2, <3>1 DEF FilesInv, HandsOff, WritersDone, Uploading
    <3>4. FilesAccounted'
      BY <1>a, <2>0, <2>2, <3>1 DEF FilesInv, FilesAccounted, Uploading
    <3> QED BY <3>2, <3>3, <3>4 DEF FilesInv
  <2> QED BY <1>a, <1>3, <2>1, <2>2 DEF DeleteMediaAsset
<1>4. CASE DeleteContent(r)
  <2>1. /\ content' = None /\ assets' = {} /\ pc'[r] = "list_files" /\ UNCHANGED seen
        /\ \A s \in Request \ {r} : pc'[s] = pc[s]
    BY <1>a, <1>4 DEF DeleteContent, Rewrite, Go
  <2>2. WritersDone'
    BY <1>a, <2>1 DEF FilesInv, WritersDone, SeenStates, AssetRows
  <2>3. HandsOff'
    BY <2>1 DEF HandsOff
  <2>4. FilesAccounted'
    BY <2>1 DEF FilesAccounted
  <2> QED BY <2>2, <2>3, <2>4 DEF FilesInv
<1> QED BY <1>1, <1>2, <1>3, <1>4 DEF Commit

LEMMA FileStepKeepsFiles ==
  ASSUME TInv, RowsAgree, RoutesFit, FilesInv, NEW r \in Request,
         OpenFile(r) \/ CleanUp(r) \/ UnlinkFile(r) \/ RemoveFiles(r) \/ RemoveDirectory(r)
  PROVE  FilesInv'
<1>a. /\ pc \in [Request -> PCs] /\ seen \in [Request -> SeenStates]
      /\ assets \subseteq AssetRows /\ files \subseteq Request
      /\ UNCHANGED <<content, assets, kind>>
      /\ content = None => assets = {}
  BY DEF TInv, TypeOK, SeenStates, OpenFile, CleanUp, UnlinkFile, RemoveFiles, RemoveDirectory, row,
         RowsAgree
<1>b. \A s \in Request : \A a \in seen[s].assets : a.file \in Request /\ pc[a.file] = "done"
  BY <1>a DEF FilesInv, WritersDone, SeenStates, AssetRows
<1>c. \A a \in assets : a.file \in Request /\ pc[a.file] = "done"
  BY <1>a DEF FilesInv, WritersDone, AssetRows
<1>d. ASSUME \A s \in Request \ {r} : pc'[s] = pc[s], pc[r] # "done",
             \A s \in Request : seen'[s].assets \subseteq seen[s].assets
      PROVE  WritersDone'
  BY <1>a, <1>b, <1>c, <1>d DEF FilesInv, WritersDone
<1>1. CASE OpenFile(r)
  <2>0. /\ pc[r] = "open" /\ kind[r] = "upload" /\ UNCHANGED seen
        /\ \A s \in Request \ {r} : pc'[s] = pc[s]
    BY <1>a, <1>1 DEF OpenFile, Go, RoutesFit
  <2>1. CASE files' = files \cup {r} /\ pc'[r] = "copy"
    <3>1. HandsOff'
      BY <1>a, <2>0, <2>1 DEF FilesInv, HandsOff, Uploading
    <3>2. FilesAccounted'
      BY <1>a, <2>0, <2>1 DEF FilesInv, FilesAccounted, Uploading
    <3> QED BY <1>d, <2>0, <3>1, <3>2 DEF FilesInv
  <2>2. CASE UNCHANGED files /\ pc'[r] = "clean_up"
    BY <1>a, <2>0, <2>2, HandsOffKept DEF Uploading
  <2> QED BY <1>a, <1>1, <2>1, <2>2 DEF OpenFile, Go
<1>2. CASE CleanUp(r)
  <2>1. /\ pc[r] = "clean_up" /\ pc'[r] = "done" /\ seen'[r].assets = {} /\ files' = files \ {r}
        /\ \A s \in Request \ {r} : pc'[s] = pc[s] /\ seen'[s] = seen[s]
    BY <1>a, <1>2 DEF CleanUp, Respond, Go, Nothing, SeenStates
  <2>2. HandsOff'
    BY <1>a, <2>1 DEF FilesInv, HandsOff, Uploading
  <2>3. FilesAccounted'
    BY <1>a, <1>c, <2>1 DEF FilesInv, FilesAccounted, Uploading
  <2> QED BY <1>d, <2>1, <2>2, <2>3 DEF FilesInv
<1>3. CASE UnlinkFile(r)
  <2>1. /\ pc[r] = "unlink" /\ pc'[r] = "done" /\ seen'[r].assets = {}
        /\ files' = files \ {a.file : a \in seen[r].assets}
        /\ \A s \in Request \ {r} : pc'[s] = pc[s] /\ seen'[s] = seen[s]
    BY <1>a, <1>3 DEF UnlinkFile, Respond, Go, Nothing, SeenStates
  <2>2. HandsOff'
    BY <1>a, <1>b, <2>1 DEF FilesInv, HandsOff, Uploading
  <2>3. FilesAccounted'
    <3>1. \A a \in assets : a.file \in files'
      BY <1>a, <2>1 DEF FilesInv, FilesAccounted, HandsOff
    <3> QED BY <1>a, <2>1, <3>1 DEF FilesInv, FilesAccounted, Uploading
  <2> QED BY <1>d, <2>1, <2>2, <2>3 DEF FilesInv
<1>4. CASE RemoveFiles(r)
  <2>1. /\ content = None /\ pc[r] = "list_files" /\ pc'[r] = "rmdir" /\ UNCHANGED seen /\ files' = {}
        /\ \A s \in Request \ {r} : pc'[s] = pc[s]
    BY <1>a, <1>4 DEF RemoveFiles, Go, RoutesFit
  <2>2. HandsOff'
    BY <1>a, <2>1 DEF HandsOff
  <2>3. FilesAccounted'
    BY <1>a, <2>1 DEF FilesAccounted
  <2> QED BY <1>d, <2>1, <2>2, <2>3 DEF FilesInv
<1>5. CASE RemoveDirectory(r)
  <2>1. /\ content = None /\ pc[r] = "rmdir" /\ pc'[r] = "done" /\ seen'[r].assets = {}
        /\ files' = files \ {a.file : a \in seen[r].assets}
        /\ \A s \in Request \ {r} : pc'[s] = pc[s] /\ seen'[s] = seen[s]
    BY <1>a, <1>5 DEF RemoveDirectory, Respond, Go, Nothing, SeenStates, RoutesFit
  <2>2. HandsOff'
    BY <1>a, <2>1 DEF HandsOff
  <2>3. FilesAccounted'
    BY <1>a, <2>1 DEF FilesInv, FilesAccounted, Uploading
  <2> QED BY <1>d, <2>1, <2>2, <2>3 DEF FilesInv
<1> QED BY <1>1, <1>2, <1>3, <1>4, <1>5

LEMMA OtherStepKeepsFiles ==
  ASSUME TInv, RowsAgree, RoutesFit, FilesInv, NEW r \in Request,
         \/ Arrive(r) \/ Lock(r) \/ Rollback(r) \/ UpdateContent(r) \/ SaveCalendarEvent(r)
         \/ UpdateCalendarEvent(r) \/ DeleteCalendarEvent(r) \/ MakeDirectory(r) \/ CopyChunks(r)
  PROVE  FilesInv'
<1>a. /\ pc \in [Request -> PCs] /\ seen \in [Request -> SeenStates]
      /\ kind \in [Request -> Kinds \cup {"idle"}]
      /\ UNCHANGED <<assets, files>>
  BY DEF TInv, TypeOK, SeenStates, Arrive, Lock, Rollback, UpdateContent, SaveCalendarEvent,
         UpdateCalendarEvent, DeleteCalendarEvent, MakeDirectory, CopyChunks, row
<1>b. content = None => content' = None
  BY ContentTyped DEF Serve
<1>c. \A s \in Request \ {r} : pc'[s] = pc[s] /\ kind'[s] = kind[s] /\ seen'[s] = seen[s]
  BY <1>a
  DEF Arrive, Lock, Rollback, UpdateContent, SaveCalendarEvent, UpdateCalendarEvent,
      DeleteCalendarEvent, MakeDirectory, CopyChunks, Respond, Go
<1>d. seen'[r].assets \in {seen[r].assets, assets, {}}
  BY <1>a
  DEF Arrive, Lock, Rollback, UpdateContent, SaveCalendarEvent, UpdateCalendarEvent,
      DeleteCalendarEvent, MakeDirectory, CopyChunks, Respond, Nothing, SeenStates
<1>e. pc[r] \notin {"done", "unlink", "list_files"} /\ pc'[r] # "unlink"
  BY <1>a
  DEF Arrive, Lock, Rollback, UpdateContent, SaveCalendarEvent, UpdateCalendarEvent,
      DeleteCalendarEvent, MakeDirectory, CopyChunks, Respond, Go
<1>f. Uploading(r)' => Uploading(r)
  BY <1>a
  DEF Arrive, Lock, Rollback, UpdateContent, SaveCalendarEvent, UpdateCalendarEvent,
      DeleteCalendarEvent, MakeDirectory, CopyChunks, Respond, Go, Uploading
<1>g. Uploading(r) \/ pc[r] = "clean_up" => Uploading(r)' \/ pc'[r] = "clean_up"
  BY <1>a
  DEF Arrive, Lock, Rollback, UpdateContent, SaveCalendarEvent, UpdateCalendarEvent,
      DeleteCalendarEvent, MakeDirectory, CopyChunks, Respond, Go, Uploading
<1> QED BY <1>a, <1>b, <1>c, <1>d, <1>e, <1>f, <1>g, HandsOffKept

\* FilesMatchRows: once no request is under way, the media directory holds the files of the
\* assets and no others, whichever uploads failed, raced the deletion of their content or met a
\* deletion of an asset.
THEOREM FilesAlwaysMatch == Spec => []FilesMatchRows
<1>1. Init => FilesInv
  BY DEF Init, Nothing, FilesInv, WritersDone, HandsOff, FilesAccounted, Uploading
<1>2. TInv /\ RowsAgree /\ RoutesFit /\ FilesInv /\ [Next]_vars => FilesInv'
  <2> SUFFICES ASSUME TInv, RowsAgree, RoutesFit, FilesInv, [Next]_vars PROVE FilesInv'
    OBVIOUS
  <2>1. CASE UNCHANGED vars
    BY <2>1 DEF vars, row, FilesInv, WritersDone, HandsOff, FilesAccounted, Uploading
  <2> QED BY <2>1, CommitKeepsFiles, FileStepKeepsFiles, OtherStepKeepsFiles DEF Next, Serve
<1>3. TInv /\ FilesInv => FilesMatchRows
  <2> SUFFICES ASSUME TInv, FilesInv, \A r \in Request : pc[r] \in {"idle", "done"}
               PROVE  files = {a.file : a \in assets}
    BY DEF FilesMatchRows
  <2>1. files \subseteq Request
    BY DEF TInv, TypeOK
  <2>2. \A f \in files : \E a \in assets : a.file = f
    BY <2>1 DEF FilesInv, FilesAccounted, Uploading
  <2>3. \A a \in assets : a.file \in files
    BY DEF FilesInv, FilesAccounted
  <2> QED BY <2>2, <2>3
<1> QED BY <1>1, <1>2, <1>3, TypeInvariant, RowsAlwaysAgree, RoutesAreFit, PTL DEF Spec
=============================================================================
