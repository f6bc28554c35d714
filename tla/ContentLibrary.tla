--------------------------- MODULE ContentLibrary ---------------------------
(***************************************************************************)
(* One content item of a workspace: its row, the rows that hang from it    *)
(* (media assets, metric readings, calendar events) and the files of its   *)
(* media directory, under concurrent requests of the library's routes and  *)
(* the status writes of the jobs (refine, publish).                        *)
(*                                                                         *)
(* A transaction that takes the row lock of the content (with_for_update)  *)
(* is two steps, what it reads under the lock and what it commits, so that *)
(* the lock is what orders them.  A write without the lock waits for it,   *)
(* as an UPDATE of the row or an INSERT that references it does.           *)
(*                                                                         *)
(* Texts are named by the request that wrote them, files, rows and events  *)
(* by the request that made them; all assets are of one media type.        *)
(***************************************************************************)
EXTENDS Integers, FiniteSets, FiniteSetsExt

CONSTANTS
    Request,            \* concurrent requests
    None,
    MediaLimit,         \* MEDIA_MAX_IMAGE_COUNT (1 for videos)
    MaxFaults           \* bound: faults in a behaviour

ContentRows == [text : Request \cup {None}, version : Nat \ {0}, updated_at : Nat,
                status : {"draft", "archived", "refined", "published", "scheduled"}]
AssetRows == [file : Request, order : Nat \ {0}]

ASSUME BoundsAssumption == MediaLimit \in Nat \ {0} /\ MaxFaults \in Nat
ASSUME NoneAssumption == None \notin Request /\ None \notin ContentRows

Kinds == {"edit", "archive", "restore", "delete", "upload", "delete_media", "metrics",
          "status", "plan_event", "edit_event", "delete_event"}

PCs == {"idle", "mkdir", "open", "copy", "lock", "commit", "write", "event",
        "clean_up", "unlink", "list_files", "rmdir", "done"}

VARIABLES
    content,            \* the row in contents, or None
    assets,             \* its rows in media_assets
    readings,           \* its rows in content_metrics, of one platform
    events,             \* its rows in calendar_events
    files, dir,         \* the files of the media directory, and whether it exists
    holder,             \* the request whose transaction holds the row lock
    now,                \* datetime.now()
    kind, pc, seen,     \* of each request: its route, its next step, what it read
    writes,             \* history: commits that changed the content row
    faults              \* faults so far

row == <<content, assets, readings, events>>
vars == <<row, files, dir, holder, now, kind, pc, seen, writes, faults>>

Nothing == [content |-> None, writes |-> 0, assets |-> {}, readings |-> {}]

\* A draft with one event that a platform has scheduled.
Init ==
    /\ content = [text |-> None, status |-> "draft", version |-> 1, updated_at |-> 0]
    /\ assets = {} /\ readings = {}
    /\ events = {[by |-> None, status |-> "scheduled"]}
    /\ files = {} /\ dir = FALSE
    /\ holder = None
    /\ now = 0
    /\ kind = [r \in Request |-> "idle"]
    /\ pc = [r \in Request |-> "idle"]
    /\ seen = [r \in Request |-> Nothing]
    /\ writes = 0 /\ faults = 0

Go(r, step) == pc' = [pc EXCEPT ![r] = step]
Respond(r) == Go(r, "done") /\ seen' = [seen EXCEPT ![r] = Nothing]

-----------------------------------------------------------------------------
(* Arrival.  What a route reads before its transaction. *)

\* A route is called; an editor works on the content as it was loaded before.
Arrive(r) ==
    /\ pc[r] = "idle"
    /\ content # None
    /\ \E k \in Kinds :
         /\ kind' = [kind EXCEPT ![r] = k]
         /\ Go(r, CASE k = "upload"                          -> "mkdir"
                    [] k \in {"status", "plan_event"}         -> "write"
                    [] k \in {"edit_event", "delete_event"}   -> "event"
                    [] OTHER                                  -> "lock")
    /\ seen' = [seen EXCEPT ![r].content = content, ![r].writes = writes]
    /\ UNCHANGED <<row, files, dir, holder, now, writes, faults>>

-----------------------------------------------------------------------------
(* Transactions under the row lock. *)

\* Mutant: uploads count without the lock.
LockForOthers(r) ==
    /\ pc[r] = "lock"
    /\ kind[r] = "upload" \/ holder = None
    /\ IF content = None
       THEN /\ IF kind[r] = "upload" THEN Go(r, "clean_up") /\ UNCHANGED seen ELSE Respond(r)
            /\ UNCHANGED holder
       ELSE /\ holder' = IF kind[r] = "upload" THEN holder ELSE r
            /\ seen' = [seen EXCEPT ![r].assets = assets, ![r].readings = readings]
            /\ Go(r, "commit")
    /\ UNCHANGED <<row, files, dir, now, kind, writes, faults>>

\* SELECT ... FOR UPDATE of the content, then the reads the transaction decides on.
Lock(r) ==
    /\ pc[r] = "lock"
    /\ holder = None
    /\ IF content = None
       THEN /\ IF kind[r] = "upload" THEN Go(r, "clean_up") /\ UNCHANGED seen ELSE Respond(r)
            /\ UNCHANGED holder
       ELSE /\ holder' = r
            /\ seen' = [seen EXCEPT ![r].assets = assets, ![r].readings = readings]
            /\ Go(r, "commit")
    /\ UNCHANGED <<row, files, dir, now, kind, writes, faults>>

Release(r) == holder' = IF holder = r THEN None ELSE holder

\* The clock moves on between two transactions.
Now == now + 1

\* One microsecond past the token it replaces, whatever the clock says.
Later(token) == IF Now > token + 1 THEN Now ELSE token + 1

Rewrite(new) == content' = new /\ now' = Now /\ writes' = writes + 1

\* Mutant: the editor's token is not compared.
CurrentAlways(r) == TRUE

\* The draft is as the editor loaded it.
Current(r) == content.updated_at = seen[r].content.updated_at

EditContent(r) ==
    /\ kind[r] = "edit"
    /\ IF Current(r)
       THEN Rewrite([text |-> r, status |-> content.status, version |-> content.version + 1,
                     updated_at |-> Later(content.updated_at)])
       ELSE UNCHANGED <<content, now, writes>>
    /\ Respond(r)
    /\ UNCHANGED <<assets, readings, events>>

ArchiveContent(r) ==
    /\ kind[r] = "archive"
    /\ Rewrite([content EXCEPT !.status = "archived", !.updated_at = Now])
    /\ Respond(r)
    /\ UNCHANGED <<assets, readings, events>>

RestoreContent(r) ==
    /\ kind[r] = "restore"
    /\ IF content.status = "archived"
       THEN Rewrite([content EXCEPT !.status = "draft", !.updated_at = Now])
       ELSE UNCHANGED <<content, now, writes>>
    /\ Respond(r)
    /\ UNCHANGED <<assets, readings, events>>

\* delete_content removes the children with the row; the files are removed after the commit.
DeleteContent(r) ==
    /\ kind[r] = "delete"
    /\ Rewrite(None)
    /\ assets' = {} /\ readings' = {} /\ events' = {}
    /\ Go(r, "list_files")
    /\ UNCHANGED seen

\* One past the highest order of the assets the transaction counted.
NextOrder(r) == 1 + Max({0} \cup {a.order : a \in seen[r].assets})

SaveMediaAsset(r) ==
    /\ kind[r] = "upload"
    /\ IF Cardinality(seen[r].assets) >= MediaLimit
       THEN Go(r, "clean_up") /\ UNCHANGED <<seen, assets>>
       ELSE assets' = assets \cup {[file |-> r, order |-> NextOrder(r)]} /\ Respond(r)
    /\ UNCHANGED <<content, readings, events, now, writes>>

\* delete_media_asset looks for its asset again under the lock.
DeleteMediaAsset(r) ==
    /\ kind[r] = "delete_media"
    /\ \/ /\ seen[r].assets = {}
          /\ Respond(r) /\ UNCHANGED assets
       \/ \E a \in seen[r].assets :
            /\ assets' = assets \ {a}
            /\ seen' = [seen EXCEPT ![r].assets = {a}]
            /\ Go(r, "unlink")
    /\ UNCHANGED <<content, readings, events, now, writes>>

\* A new reading replaces the platform's readings.
RecordContentMetrics(r) ==
    /\ kind[r] = "metrics"
    /\ readings' = (readings \ seen[r].readings) \cup {r}
    /\ Respond(r)
    /\ UNCHANGED <<content, assets, events, now, writes>>

Commit(r) ==
    /\ pc[r] = "commit"
    /\ \/ EditContent(r) \/ ArchiveContent(r) \/ RestoreContent(r) \/ DeleteContent(r)
       \/ SaveMediaAsset(r) \/ DeleteMediaAsset(r) \/ RecordContentMetrics(r)
    /\ Release(r)
    /\ UNCHANGED <<files, dir, kind, faults>>

\* The transaction fails and is rolled back.
Rollback(r) ==
    /\ pc[r] = "commit"
    /\ faults < MaxFaults /\ faults' = faults + 1
    /\ IF kind[r] = "upload" THEN Go(r, "clean_up") /\ UNCHANGED seen ELSE Respond(r)
    /\ Release(r)
    /\ UNCHANGED <<row, files, dir, now, kind, writes>>

-----------------------------------------------------------------------------
(* Writes without the lock. *)

\* update_content: a job sets the status, archived or not.
UpdateContent(r) ==
    /\ pc[r] = "write" /\ kind[r] = "status"
    /\ holder = None
    /\ IF content # None
       THEN \E s \in {"refined", "published", "scheduled"} :
              Rewrite([content EXCEPT !.status = s, !.updated_at = Now])
       ELSE UNCHANGED <<content, now, writes>>
    /\ Respond(r)
    /\ UNCHANGED <<assets, readings, events, files, dir, holder, kind, faults>>

\* save_calendar_event, from the calendar route or, as "scheduled", from the publishing
\* job; the foreign key refuses it when the content is gone.
SaveCalendarEvent(r) ==
    /\ pc[r] = "write" /\ kind[r] = "plan_event"
    /\ holder = None
    /\ \/ content = None /\ UNCHANGED events
       \/ /\ content # None
          /\ \E s \in {"planned", "scheduled"} : events' = events \cup {[by |-> r, status |-> s]}
    /\ Respond(r)
    /\ UNCHANGED <<content, assets, readings, files, dir, holder, now, kind, writes, faults>>

\* Local plans may be changed; what a platform has scheduled, by the event's own status or
\* by a publication of the same day, may not.
LocalEvents == {e \in events : e.status = "planned"}

\* update_calendar_event locks the event; it stays with this content.
UpdateCalendarEvent(r) ==
    /\ pc[r] = "event" /\ kind[r] = "edit_event"
    /\ \/ UNCHANGED events
       \/ \E e \in LocalEvents : events' = (events \ {e}) \cup {[e EXCEPT !.by = r]}
    /\ Respond(r)
    /\ UNCHANGED <<content, assets, readings, files, dir, holder, now, kind, writes, faults>>

DeleteCalendarEvent(r) ==
    /\ pc[r] = "event" /\ kind[r] = "delete_event"
    /\ \/ UNCHANGED events
       \/ \E e \in LocalEvents : events' = events \ {e}
    /\ Respond(r)
    /\ UNCHANGED <<content, assets, readings, files, dir, holder, now, kind, writes, faults>>

-----------------------------------------------------------------------------
(* Files. *)

\* upload_media makes the directory ...
MakeDirectory(r) ==
    /\ pc[r] = "mkdir"
    /\ dir' = TRUE
    /\ Go(r, "open")
    /\ UNCHANGED <<row, files, holder, now, kind, seen, writes, faults>>

\* ... and opens a file of its own in it, unless the content's deletion took it away.
OpenFile(r) ==
    /\ pc[r] = "open"
    /\ \/ dir /\ files' = files \cup {r} /\ Go(r, "copy")
       \/ ~dir /\ UNCHANGED files /\ Go(r, "clean_up")
    /\ UNCHANGED <<row, dir, holder, now, kind, seen, writes, faults>>

\* The chunks are copied, or the file is empty, too large or cut off.
CopyChunks(r) ==
    /\ pc[r] = "copy"
    /\ \/ Go(r, "lock") \/ Go(r, "clean_up")
    /\ UNCHANGED <<row, files, dir, holder, now, kind, seen, writes, faults>>

\* Mutant: a failed upload leaves its file.
Abandon(r) ==
    /\ pc[r] = "clean_up"
    /\ Respond(r)
    /\ UNCHANGED <<row, files, dir, holder, now, kind, writes, faults>>

\* A failed upload removes its file.
CleanUp(r) ==
    /\ pc[r] = "clean_up"
    /\ files' = files \ {r}
    /\ Respond(r)
    /\ UNCHANGED <<row, dir, holder, now, kind, writes, faults>>

\* delete_media_asset's route, after the commit.
UnlinkFile(r) ==
    /\ pc[r] = "unlink"
    /\ files' = files \ {a.file : a \in seen[r].assets}
    /\ Respond(r)
    /\ UNCHANGED <<row, dir, holder, now, kind, writes, faults>>

\* rmtree: the files it finds, then the directory, unless one came in between.
RemoveFiles(r) ==
    /\ pc[r] = "list_files"
    /\ files' = {}
    /\ Go(r, "rmdir")
    /\ UNCHANGED <<row, dir, holder, now, kind, seen, writes, faults>>

\* The files of the assets are unlinked once more.
RemoveDirectory(r) ==
    /\ pc[r] = "rmdir"
    /\ dir' = (dir /\ files # {})
    /\ files' = files \ {a.file : a \in seen[r].assets}
    /\ Respond(r)
    /\ UNCHANGED <<row, holder, now, kind, writes, faults>>

-----------------------------------------------------------------------------

Serve(r) ==
    \/ Arrive(r) \/ Lock(r) \/ Commit(r) \/ Rollback(r)
    \/ UpdateContent(r) \/ SaveCalendarEvent(r) \/ UpdateCalendarEvent(r) \/ DeleteCalendarEvent(r)
    \/ MakeDirectory(r) \/ OpenFile(r) \/ CopyChunks(r) \/ CleanUp(r)
    \/ UnlinkFile(r) \/ RemoveFiles(r) \/ RemoveDirectory(r)

Next == \E r \in Request : Serve(r)

Spec == Init /\ [][Next]_vars

-----------------------------------------------------------------------------
(* Properties. *)

TypeOK ==
    /\ content \in ContentRows \cup {None}
    /\ assets \subseteq AssetRows
    /\ readings \subseteq Request
    /\ events \subseteq [by : Request \cup {None}, status : {"planned", "scheduled"}]
    /\ files \subseteq Request /\ dir \in BOOLEAN
    /\ holder \in Request \cup {None}
    /\ now \in Nat /\ writes \in Nat /\ faults \in 0 .. MaxFaults
    /\ kind \in [Request -> Kinds \cup {"idle"}]
    /\ pc \in [Request -> PCs]
    /\ seen \in [Request -> [content : ContentRows \cup {None}, writes : Nat,
                             assets : SUBSET AssetRows, readings : SUBSET Request]]

\* The rows under the content obey what no database constraint says: no child outlives the
\* content, the media limit holds, two assets never share an order, a platform has one
\* reading.  Every writer counts first and writes later; the row lock must make that one step.
RowsAgree ==
    /\ content = None => assets = {} /\ readings = {} /\ events = {}
    /\ Cardinality(assets) <= MediaLimit
    /\ \A a, b \in assets : a.order = b.order => a = b
    /\ Cardinality(readings) <= 1

\* When no request is under way, the media directory holds the files of the asset rows and no
\* others: uploads that fail after writing, uploads that race the deletion of their content
\* and deletions of assets and contents leave neither strays nor rows without a file.
FilesMatchRows ==
    (\A r \in Request : pc[r] \in {"idle", "done"}) => files = {a.file : a \in assets}

\* An edit is accepted only if nothing was written to the draft since its author loaded it:
\* no edit, archive, restore or job's status write in between is silently overwritten.
NoLostEdit ==
    [][\A r \in Request :
          content' # content /\ content' # None /\ content'.text = r /\ content.text # r
              => writes = seen[r].writes]_vars
=============================================================================
