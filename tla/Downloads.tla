----------------------------- MODULE Downloads -----------------------------
(***************************************************************************)
(* The download queue and its workers: the rows of the downloads table,    *)
(* the in-memory cancellation map, the chapter archives on disk, the       *)
(* worker loops, the API requests that touch the rows, and a restart.      *)
(*                                                                         *)
(* One step is one await point of the server: a statement under the        *)
(* database write mutex, a lock of the cancellation map, or a file         *)
(* operation.  What a request or a worker read before an await is kept in  *)
(* its own variables, so that it can be stale when it is used.             *)
(***************************************************************************)
EXTENDS Naturals, FiniteSets

CONSTANTS
    Downloads,    \* row identities; a row that was deleted never comes back
    Chapters,     \* one archive path each: source / title / number
    Workers,      \* download_concurrent_chapters, read once at start
    Handlers,     \* API requests that span several awaits
    MaxRequests,  \* bound: delete, clear, retry and remove requests
    MaxCrashes,   \* bound: restarts
    MaxDbFaults,  \* bound: stranding database errors between two restarts
    Kept,         \* tag of an archive file of an earlier attempt
    None

(* A missing row or chapter is none of the real ones, and the tag of an    *)
(* old file is no row.                                                     *)
ASSUME NoneIsFresh == None \notin Downloads \cup Chapters
ASSUME KeptIsFresh == Kept \notin Downloads \cup {None}

VARIABLES
    (* the database *)
    status,       \* downloads.status, "absent" or "deleted"
    chapterOf,    \* downloads.chapter_id
    queuedAt,     \* downloads.queued_at
    now,          \* the clock queued_at is stamped from
    inLibrary,    \* the chapter's row exists
    facts,        \* "chapters_downloaded" stats events of a chapter
    (* the disk *)
    archive,      \* the row whose present attempt published the file at the
                  \* chapter's path, or Kept for a file of an earlier attempt
    (* the process *)
    cancelMap,    \* AppState.active_download_cancellations
    pc, task,     \* where each worker is, and the row it claimed
    token,        \* the worker's Arc<DownloadCancellation>
    outcome,      \* what download_chapter returned
    hpc, hrow,    \* where each request is, and the row it read
    htodo,        \* rows a clear-failed request still has to remove
    (* history and bounds *)
    stranded,     \* rows a database error left without a worker
    overtaken,    \* rows retried while a worker held them
    late,         \* rows a cancel request marked when no worker held them
    requests, crashes

rowVars == <<status, chapterOf, queuedAt, now>>
dbVars == <<status, chapterOf, queuedAt, now, inLibrary, facts>>
workerVars == <<pc, task, token, outcome>>
handlerVars == <<hpc, hrow, htodo>>
histVars == <<stranded, overtaken, late>>
boundVars == <<stranded, overtaken, late, requests, crashes>>
vars == <<status, chapterOf, queuedAt, now, inLibrary, facts, archive, cancelMap,
          pc, task, token, outcome, hpc, hrow, htodo, stranded, overtaken, late, requests,
          crashes>>

-----------------------------------------------------------------------------
(* Statuses: DownloadWorkStatus.  "downloading_assets" is never written.   *)

Working == {"fetching_pages", "transforming_assets", "archiving"}
Active == Working \cup {"queued", "cancel_requested"}
Terminal == {"completed", "failed", "cancelled"}
Statuses == Active \cup Terminal
RequiresCancellation == Working \cup {"cancel_requested"}

Present(d) == status[d] \in Statuses

(* A slip: the partial unique index is left out of the schema.             *)
IndexMissing(d, s) == TRUE

(* The partial unique index one_active_download_per_chapter: a write that  *)
(* would leave a chapter with two active rows fails.                       *)
IndexAllows(d, s) ==
    s \in Active =>
        \A e \in Downloads \ {d} :
            chapterOf[e] = chapterOf[d] => status[e] \notin Active

(* update_download_status finds the row and the index accepts the status.  *)
Writable(d, s) == Present(d) /\ IndexAllows(d, s)

-----------------------------------------------------------------------------
(* The cancellation map holds one shared flag per id.  A worker's token is *)
(* "shared" while its Arc is the one in the map; once the entry is removed *)
(* the worker keeps the value its own Arc had.                             *)

FlagSet(w) ==
    \/ token[w] = "cancelled"
    \/ token[w] = "shared" /\ cancelMap[task[w]] = "cancelled"

Detach(d) ==
    [w \in Workers |->
        IF token[w] = "shared" /\ task[w] = d THEN cancelMap[d] ELSE token[w]]

-----------------------------------------------------------------------------
(* Worker positions.  "empty" is between an empty claim query and the call *)
(* of notified(): Notify::notify_waiters leaves no permit for it.          *)

Asleep == {"empty", "listening"}
AtRest == Asleep \cup {"idle", "backoff"}
Cancellable == {"registered", "prepared", "fetching", "fetched", "transformed",
                "archiving", "built", "published"}
Busy == Cancellable \cup {"claimed", "ended", "recording"}

Wake == [w \in Workers |-> IF pc[w] = "listening" THEN "idle" ELSE pc[w]]

Init ==
    /\ status = [d \in Downloads |-> "absent"]
    /\ chapterOf = [d \in Downloads |-> None]
    /\ queuedAt = [d \in Downloads |-> 0]
    /\ now = 1
    /\ inLibrary = [c \in Chapters |-> TRUE]
    /\ facts = [c \in Chapters |-> 0]
    /\ archive = [c \in Chapters |-> None]
    /\ cancelMap = [d \in Downloads |-> "none"]
    /\ pc = [w \in Workers |-> "idle"]
    /\ task = [w \in Workers |-> None]
    /\ token = [w \in Workers |-> "none"]
    /\ outcome = [w \in Workers |-> "none"]
    /\ hpc = [h \in Handlers |-> "idle"]
    /\ hrow = [h \in Handlers |-> None]
    /\ htodo = [h \in Handlers |-> {}]
    /\ stranded = {}
    /\ overtaken = {}
    /\ late = {}
    /\ requests = 0
    /\ crashes = 0

-----------------------------------------------------------------------------
(* Requests of one transaction.                                            *)

(* enqueue_downloads: an active row of the chapter is reused, otherwise a  *)
(* new queued row is created; either way the waiting workers are notified. *)
ActiveRowOf(c) == {d \in Downloads : chapterOf[d] = c /\ status[d] \in Active}

Enqueue(c) ==
    /\ inLibrary[c]
    /\ \/ /\ ActiveRowOf(c) # {}
          /\ UNCHANGED rowVars
       \/ /\ ActiveRowOf(c) = {}
          /\ \E d \in Downloads :
                /\ status[d] = "absent"
                /\ status' = [status EXCEPT ![d] = "queued"]
                /\ chapterOf' = [chapterOf EXCEPT ![d] = c]
                /\ queuedAt' = [queuedAt EXCEPT ![d] = now]
                /\ now' = now + 1
    /\ pc' = Wake
    /\ UNCHANGED <<inLibrary, facts, archive, cancelMap, task, token, outcome,
                   handlerVars, boundVars>>

WorkedOn(d) == \E w \in Workers : pc[w] \in Busy /\ task[w] = d

(* A retry starts a new attempt: the file of the last one stays and counts *)
(* as an earlier attempt's.                                                *)
FileKept(d) ==
    [c \in Chapters |-> IF archive[c] = d THEN Kept ELSE archive[c]]

(* retry_work_record: back to the queue from whatever status the row has,  *)
(* also under a worker that still holds it.                                *)
Retry(d) ==
    /\ requests < MaxRequests
    /\ Writable(d, "queued")
    /\ status' = [status EXCEPT ![d] = "queued"]
    /\ queuedAt' = [queuedAt EXCEPT ![d] = now]
    /\ now' = now + 1
    /\ requests' = requests + 1
    /\ pc' = Wake
    /\ archive' = FileKept(d)
    /\ overtaken' = IF WorkedOn(d) THEN overtaken \cup {d} ELSE overtaken \ {d}
    /\ late' = late \ {d}
    /\ UNCHANGED <<chapterOf, inLibrary, facts, cancelMap, task, token, outcome,
                   handlerVars, stranded, crashes>>

(* remove_from_library: the rows go; files, workers and flags stay.        *)
RemoveFromLibrary(c) ==
    /\ requests < MaxRequests
    /\ inLibrary[c]
    /\ inLibrary' = [inLibrary EXCEPT ![c] = FALSE]
    /\ status' = [d \in Downloads |->
                     IF chapterOf[d] = c /\ Present(d) THEN "deleted" ELSE status[d]]
    /\ requests' = requests + 1
    /\ UNCHANGED <<chapterOf, queuedAt, now, facts, archive, cancelMap,
                   workerVars, handlerVars, histVars, crashes>>

-----------------------------------------------------------------------------
(* The worker loop.                                                        *)

GoTo(w, place) == pc' = [pc EXCEPT ![w] = place]

(* get_next_queued_download claims the oldest queued row.                  *)
Oldest(d) ==
    /\ status[d] = "queued"
    /\ \A e \in Downloads : status[e] = "queued" => queuedAt[d] <= queuedAt[e]

Claim(w) ==
    /\ pc[w] = "idle"
    /\ \E d \in Downloads :
          /\ Oldest(d)
          /\ status' = [status EXCEPT ![d] = "fetching_pages"]
          /\ task' = [task EXCEPT ![w] = d]
    /\ GoTo(w, "claimed")
    /\ UNCHANGED <<chapterOf, queuedAt, now, inLibrary, facts, archive, cancelMap,
                   token, outcome, handlerVars, boundVars>>

(* The claim commits, then building the row's view fails: the row is in    *)
(* "fetching_pages" and nobody works on it.                                *)
ClaimStrands(w) ==
    /\ pc[w] = "idle"
    /\ Cardinality(stranded) < MaxDbFaults
    /\ \E d \in Downloads :
          /\ Oldest(d)
          /\ status' = [status EXCEPT ![d] = "fetching_pages"]
          /\ stranded' = stranded \cup {d}
    /\ GoTo(w, "backoff")
    /\ UNCHANGED <<chapterOf, queuedAt, now, inLibrary, facts, archive, cancelMap,
                   task, token, outcome, handlerVars, overtaken, late, requests,
                   crashes>>

FindNothing(w) ==
    /\ pc[w] = "idle"
    /\ \A d \in Downloads : status[d] # "queued"
    /\ GoTo(w, "empty")
    /\ UNCHANGED <<dbVars, archive, cancelMap, task, token, outcome,
                   handlerVars, boundVars>>

(* The select on notified() is polled for the first time.                  *)
Listen(w) ==
    /\ pc[w] = "empty"
    /\ GoTo(w, "listening")
    /\ UNCHANGED <<dbVars, archive, cancelMap, task, token, outcome,
                   handlerVars, boundVars>>

(* The ten seconds after a loop error are over.                            *)
Resume(w) ==
    /\ pc[w] = "backoff"
    /\ GoTo(w, "idle")
    /\ UNCHANGED <<dbVars, archive, cancelMap, task, token, outcome,
                   handlerVars, boundVars>>

-----------------------------------------------------------------------------
(* One download: download_chapter.                                         *)

(* register_active_download reuses an entry that is already in the map.    *)
Register(w) ==
    /\ pc[w] = "claimed"
    /\ cancelMap' = [cancelMap EXCEPT ![task[w]] =
                        IF @ = "none" THEN "clear" ELSE @]
    /\ token' = [token EXCEPT ![w] = "shared"]
    /\ GoTo(w, "registered")
    /\ UNCHANGED <<dbVars, archive, task, outcome, handlerVars, boundVars>>

End(w, result) ==
    /\ GoTo(w, "ended")
    /\ outcome' = [outcome EXCEPT ![w] = result]

(* Any stage may fail: the storage limit, the source, the chapter's row,   *)
(* the page set, the archive writer, the reservation or the move.          *)
Fail(w) ==
    /\ pc[w] \in {"registered", "prepared", "fetching", "archiving", "built"}
    /\ End(w, "error")
    /\ UNCHANGED <<dbVars, archive, cancelMap, task, token, handlerVars, boundVars>>

(* ensure_not_cancelled, or a select whose cancelled() arm wins.           *)
NoticeCancel(w) ==
    /\ pc[w] \in {"registered", "fetching", "fetched", "archiving", "built"}
    /\ FlagSet(w)
    /\ End(w, "cancelled")
    /\ UNCHANGED <<dbVars, archive, cancelMap, task, token, handlerVars, boundVars>>

(* Not cancelled, below the storage limit, chapter found.                  *)
Prepare(w) ==
    /\ pc[w] = "registered"
    /\ ~FlagSet(w)
    /\ inLibrary[chapterOf[task[w]]]
    /\ GoTo(w, "prepared")
    /\ UNCHANGED <<dbVars, archive, cancelMap, task, token, outcome,
                   handlerVars, boundVars>>

(* A stage status overwrites whatever the row has, a cancel request too.   *)
WriteStage(w, from, stage, to) ==
    /\ pc[w] = from
    /\ \/ /\ Writable(task[w], stage)
          /\ status' = [status EXCEPT ![task[w]] = stage]
          /\ GoTo(w, to)
          /\ UNCHANGED outcome
       \/ /\ ~Writable(task[w], stage)
          /\ End(w, "error")
          /\ UNCHANGED status
    /\ UNCHANGED <<chapterOf, queuedAt, now, inLibrary, facts, archive, cancelMap,
                   task, token, handlerVars, boundVars>>

WriteFetching(w) == WriteStage(w, "prepared", "fetching_pages", "fetching")

(* Every page fetched, or enough of them.  Nothing after the last page     *)
(* looks at the flag before the processing gate.                           *)
FetchPages(w) ==
    /\ pc[w] = "fetching"
    /\ GoTo(w, "fetched")
    /\ UNCHANGED <<dbVars, archive, cancelMap, task, token, outcome,
                   handlerVars, boundVars>>

(* There are as many processing permits as workers, so the gate is always  *)
(* open; its select may pick the permit although the flag is set.          *)
WriteTransforming(w) == WriteStage(w, "fetched", "transforming_assets", "transformed")

WriteArchiving(w) == WriteStage(w, "transformed", "archiving", "archiving")

(* ComicInfo, cover and write_originals, each cancellable, then the size   *)
(* of the staged archive is reserved.                                      *)
BuildArchive(w) ==
    /\ pc[w] = "archiving"
    /\ ~FlagSet(w)
    /\ GoTo(w, "built")
    /\ UNCHANGED <<dbVars, archive, cancelMap, task, token, outcome,
                   handlerVars, boundVars>>

(* move_archive_into_library replaces whatever is at the chapter's path.   *)
Publish(w) ==
    /\ pc[w] = "built"
    /\ ~FlagSet(w)
    /\ archive' = [archive EXCEPT ![chapterOf[task[w]]] = task[w]]
    /\ GoTo(w, "published")
    /\ UNCHANGED <<dbVars, cancelMap, task, token, outcome, handlerVars, boundVars>>

(* Two slips: the cancelled download keeps the file it moved; or the last  *)
(* look at the flag is left out.                                           *)
CheckPublishedKeepsFile(w) ==
    /\ pc[w] = "published"
    /\ End(w, IF FlagSet(w) THEN "cancelled" ELSE "ok")
    /\ UNCHANGED <<dbVars, archive, cancelMap, task, token, handlerVars, boundVars>>

SkipPublishedCheck(w) ==
    /\ pc[w] = "published"
    /\ End(w, "ok")
    /\ UNCHANGED <<dbVars, archive, cancelMap, task, token, handlerVars, boundVars>>

(* The last look at the flag: a cancelled download removes the file.       *)
CheckPublished(w) ==
    /\ pc[w] = "published"
    /\ \/ /\ FlagSet(w)
          /\ archive' = [archive EXCEPT ![chapterOf[task[w]]] = None]
          /\ End(w, "cancelled")
       \/ /\ ~FlagSet(w)
          /\ UNCHANGED archive
          /\ End(w, "ok")
    /\ UNCHANGED <<dbVars, cancelMap, task, token, handlerVars, boundVars>>

(* unregister_active_download removes the entry, whoever created it.       *)
Unregister(w) ==
    /\ pc[w] = "ended"
    /\ cancelMap' = [cancelMap EXCEPT ![task[w]] = "none"]
    /\ token' = [Detach(task[w]) EXCEPT ![w] = "none"]
    /\ GoTo(w, "recording")
    /\ UNCHANGED <<dbVars, archive, task, outcome, handlerVars, boundVars>>

(* Two slips: the finished row is not forgotten; or the worker waits for   *)
(* the next notification instead of asking the queue again.                *)
RestKeepsTask(w, place) ==
    /\ GoTo(w, place)
    /\ outcome' = [outcome EXCEPT ![w] = "none"]
    /\ UNCHANGED task

RestWaits(w, place) ==
    /\ GoTo(w, "empty")
    /\ task' = [task EXCEPT ![w] = None]
    /\ outcome' = [outcome EXCEPT ![w] = "none"]

Rest(w, place) ==
    /\ GoTo(w, place)
    /\ task' = [task EXCEPT ![w] = None]
    /\ outcome' = [outcome EXCEPT ![w] = "none"]

(* complete_download writes "completed" over any status and records the    *)
(* Chapter Downloaded fact unless the row was completed already.           *)
RecordCompleted(w) ==
    /\ pc[w] = "recording"
    /\ outcome[w] = "ok"
    /\ Present(task[w])
    /\ status' = [status EXCEPT ![task[w]] = "completed"]
    /\ facts' = [facts EXCEPT ![chapterOf[task[w]]] =
                    IF status[task[w]] = "completed" THEN @ ELSE @ + 1]
    /\ Rest(w, "idle")
    /\ UNCHANGED <<chapterOf, queuedAt, now, inLibrary, archive, cancelMap, token,
                   handlerVars, boundVars>>

RecordStopped(w) ==
    /\ pc[w] = "recording"
    /\ outcome[w] \in {"cancelled", "error"}
    /\ Present(task[w])
    /\ status' = [status EXCEPT ![task[w]] =
                     IF outcome[w] = "error" THEN "failed" ELSE "cancelled"]
    /\ Rest(w, "idle")
    /\ UNCHANGED <<chapterOf, queuedAt, now, inLibrary, facts, archive, cancelMap,
                   token, handlerVars, boundVars>>

(* The row is gone: the loop fails and sleeps.                             *)
RecordMissing(w) ==
    /\ pc[w] = "recording"
    /\ ~Present(task[w])
    /\ Rest(w, "backoff")
    /\ UNCHANGED <<dbVars, archive, cancelMap, token, handlerVars, boundVars>>

(* The final write fails: the row keeps the status of its last stage.      *)
RecordStrands(w) ==
    /\ pc[w] = "recording"
    /\ Present(task[w])
    /\ Cardinality(stranded) < MaxDbFaults
    /\ stranded' = stranded \cup {task[w]}
    /\ Rest(w, "backoff")
    /\ UNCHANGED <<dbVars, archive, cancelMap, token, handlerVars, overtaken, late,
                   requests, crashes>>

-----------------------------------------------------------------------------
(* Requests of several awaits.                                             *)

HGoTo(h, place) == hpc' = [hpc EXCEPT ![h] = place]

HDone(h) ==
    /\ HGoTo(h, "idle")
    /\ hrow' = [hrow EXCEPT ![h] = None]

(* remove_or_cancel: prepare_delete reads the row; the rest of the request *)
(* acts on that snapshot.                                                  *)
BeginRemove(h, d) ==
    /\ hpc[h] = "idle"
    /\ requests < MaxRequests
    /\ Present(d)
    /\ \/ status[d] \in RequiresCancellation /\ HGoTo(h, "flag")
       \/ status[d] = "completed" /\ HGoTo(h, "recheck")
       \/ status[d] \in {"queued", "failed", "cancelled"} /\ HGoTo(h, "unlink")
    /\ hrow' = [hrow EXCEPT ![h] = d]
    /\ requests' = requests + 1
    /\ UNCHANGED <<dbVars, archive, cancelMap, workerVars, htodo, histVars, crashes>>

(* request_download_cancel creates the entry when there is none.           *)
SetCancelFlag(h) ==
    /\ hpc[h] = "flag"
    /\ cancelMap' = [cancelMap EXCEPT ![hrow[h]] = "cancelled"]
    /\ HGoTo(h, "mark")
    /\ UNCHANGED <<dbVars, archive, workerVars, hrow, htodo, boundVars>>

(* A slip: the request settles the row itself.                             *)
MarkCancelled(h) ==
    /\ hpc[h] = "mark"
    /\ status' = IF Present(hrow[h])
                 THEN [status EXCEPT ![hrow[h]] = "cancelled"]
                 ELSE status
    /\ HDone(h)
    /\ UNCHANGED <<chapterOf, queuedAt, now, inLibrary, facts, archive, cancelMap,
                   workerVars, htodo, boundVars>>

(* cancel_requested overwrites whatever the row has become meanwhile.      *)
MarkCancelRequested(h) ==
    /\ hpc[h] = "mark"
    /\ \/ /\ Writable(hrow[h], "cancel_requested")
          /\ status' = [status EXCEPT ![hrow[h]] = "cancel_requested"]
          /\ late' = IF WorkedOn(hrow[h]) THEN late ELSE late \cup {hrow[h]}
       \/ /\ ~Writable(hrow[h], "cancel_requested")
          /\ UNCHANGED <<status, late>>
    /\ HDone(h)
    /\ UNCHANGED <<chapterOf, queuedAt, now, inLibrary, facts, archive, cancelMap,
                   workerVars, htodo, stranded, overtaken, requests, crashes>>

(* require_completed_archive reads the row again.                          *)
RecheckCompleted(h) ==
    /\ hpc[h] = "recheck"
    /\ \/ /\ status[hrow[h]] = "completed"
          /\ HGoTo(h, "remove_archive")
          /\ UNCHANGED hrow
       \/ /\ status[hrow[h]] # "completed"
          /\ HDone(h)
    /\ UNCHANGED <<dbVars, archive, cancelMap, workerVars, htodo, boundVars>>

(* clear_failed: the failed rows of one listing, removed one at a time.    *)
BeginClearFailed(h) ==
    /\ hpc[h] = "idle"
    /\ requests < MaxRequests
    /\ \E d \in Downloads :
          /\ status[d] = "failed"
          /\ hrow' = [hrow EXCEPT ![h] = d]
          /\ htodo' = [htodo EXCEPT ![h] =
                          {e \in Downloads \ {d} : status[e] = "failed"}]
    /\ HGoTo(h, "unlink")
    /\ requests' = requests + 1
    /\ UNCHANGED <<dbVars, archive, cancelMap, workerVars, histVars, crashes>>

(* remove_file_if_present (incomplete and failed rows) or storage::remove  *)
(* (completed rows) on the chapter's path.                                 *)
RemoveFile(h) ==
    /\ hpc[h] \in {"unlink", "remove_archive"}
    /\ archive' = [archive EXCEPT ![chapterOf[hrow[h]]] = None]
    /\ HGoTo(h, "drop_row")
    /\ UNCHANGED <<dbVars, cancelMap, workerVars, hrow, htodo, boundVars>>

(* delete_download_and_reset_chapter, then the next row of a clear.        *)
DropRow(h) ==
    /\ hpc[h] = "drop_row"
    /\ status' = [status EXCEPT ![hrow[h]] = IF @ \in Statuses THEN "deleted" ELSE @]
    /\ \/ /\ htodo[h] = {}
          /\ HDone(h)
          /\ UNCHANGED htodo
       \/ \E d \in htodo[h] :
             /\ HGoTo(h, "unlink")
             /\ hrow' = [hrow EXCEPT ![h] = d]
             /\ htodo' = [htodo EXCEPT ![h] = @ \ {d}]
    /\ UNCHANGED <<chapterOf, queuedAt, now, inLibrary, facts, archive, cancelMap,
                   workerVars, boundVars>>

-----------------------------------------------------------------------------
(* A slip: INTERRUPTED_PERSISTED_VALUES misses a stage.                    *)
RecoveredWithoutArchiving(d) ==
    IF status[d] = "cancel_requested" THEN "cancelled"
    ELSE IF status[d] \in Working \ {"archiving"} THEN "queued" ELSE status[d]

(* The process dies and starts again: recover_interrupted_downloads runs   *)
(* before the workers are spawned.                                         *)
Recovered(d) ==
    IF status[d] = "cancel_requested" THEN "cancelled"
    ELSE IF status[d] \in Working THEN "queued" ELSE status[d]

Restart ==
    /\ crashes < MaxCrashes
    /\ crashes' = crashes + 1
    /\ status' = [d \in Downloads |-> Recovered(d)]
    /\ queuedAt' = [d \in Downloads |->
                       IF status[d] \in Working THEN now ELSE queuedAt[d]]
    /\ now' = now + 1
    /\ cancelMap' = [d \in Downloads |-> "none"]
    /\ pc' = [w \in Workers |-> "idle"]
    /\ task' = [w \in Workers |-> None]
    /\ token' = [w \in Workers |-> "none"]
    /\ outcome' = [w \in Workers |-> "none"]
    /\ hpc' = [h \in Handlers |-> "idle"]
    /\ hrow' = [h \in Handlers |-> None]
    /\ htodo' = [h \in Handlers |-> {}]
    /\ archive' = [c \in Chapters |-> IF archive[c] = None THEN None ELSE Kept]
    /\ stranded' = {}
    /\ overtaken' = {}
    /\ late' = {}
    /\ UNCHANGED <<chapterOf, inLibrary, facts, requests>>

-----------------------------------------------------------------------------
(* Specification.                                                          *)

WorkerStep(w) ==
    \/ Claim(w) \/ FindNothing(w) \/ Listen(w) \/ Resume(w)
    \/ Register(w) \/ Fail(w) \/ NoticeCancel(w) \/ Prepare(w)
    \/ WriteFetching(w) \/ FetchPages(w) \/ WriteTransforming(w)
    \/ WriteArchiving(w) \/ BuildArchive(w) \/ Publish(w) \/ CheckPublished(w)
    \/ Unregister(w) \/ RecordCompleted(w) \/ RecordStopped(w) \/ RecordMissing(w)

Fault(w) == ClaimStrands(w) \/ RecordStrands(w)

HandlerStep(h) ==
    \/ SetCancelFlag(h) \/ MarkCancelRequested(h) \/ RecheckCompleted(h)
    \/ RemoveFile(h) \/ DropRow(h)

Request ==
    \/ \E c \in Chapters : Enqueue(c) \/ RemoveFromLibrary(c)
    \/ \E d \in Downloads : Retry(d)
    \/ \E h \in Handlers : BeginClearFailed(h) \/ \E d \in Downloads : BeginRemove(h, d)

Next ==
    \/ \E w \in Workers : WorkerStep(w) \/ Fault(w)
    \/ \E h \in Handlers : HandlerStep(h)
    \/ Request
    \/ Restart

Spec == Init /\ [][Next]_vars

(* A spawned task that can run does run; nobody has to send a request, and *)
(* no download has to fail.                                                *)
FairSpec ==
    /\ Spec
    /\ \A w \in Workers : WF_vars(WorkerStep(w))
    /\ \A h \in Handlers : WF_vars(HandlerStep(h))

-----------------------------------------------------------------------------
(* Properties.                                                             *)

(* Every variable keeps its type: rows hold a persisted status and a       *)
(* chapter once they exist, workers and requests hold a row exactly while  *)
(* they are at work.                                                       *)
TypeOK ==
    /\ status \in [Downloads -> Statuses \cup {"absent", "deleted"}]
    /\ chapterOf \in [Downloads -> Chapters \cup {None}]
    /\ \A d \in Downloads : status[d] # "absent" => chapterOf[d] \in Chapters
    /\ queuedAt \in [Downloads -> Nat]
    /\ now \in Nat
    /\ inLibrary \in [Chapters -> BOOLEAN]
    /\ facts \in [Chapters -> Nat]
    /\ archive \in [Chapters -> Downloads \cup {Kept, None}]
    /\ cancelMap \in [Downloads -> {"none", "clear", "cancelled"}]
    /\ pc \in [Workers -> AtRest \cup Busy]
    /\ task \in [Workers -> Downloads \cup {None}]
    /\ \A w \in Workers : pc[w] \in Busy <=> task[w] \in Downloads
    /\ \A w \in Workers : task[w] \in Downloads => status[task[w]] # "absent"
    /\ token \in [Workers -> {"none", "shared", "clear", "cancelled"}]
    /\ outcome \in [Workers -> {"none", "ok", "cancelled", "error"}]
    /\ \A w \in Workers : pc[w] \in {"ended", "recording"} <=> outcome[w] # "none"
    /\ hpc \in [Handlers -> {"idle", "flag", "mark", "recheck", "unlink",
                             "remove_archive", "drop_row"}]
    /\ hrow \in [Handlers -> Downloads \cup {None}]
    /\ \A h \in Handlers : hpc[h] # "idle" =>
            hrow[h] \in Downloads /\ status[hrow[h]] # "absent"
    /\ htodo \in [Handlers -> SUBSET Downloads]
    /\ \A h \in Handlers, d \in Downloads : d \in htodo[h] => status[d] # "absent"
    /\ stranded \in SUBSET Downloads
    /\ overtaken \in SUBSET Downloads
    /\ late \in SUBSET Downloads
    /\ requests \in Nat
    /\ crashes \in Nat

(* A row in a stage status, or with a cancel requested, has a worker that  *)
(* will move it on.  The exceptions are a row a database error stranded    *)
(* and a row that a cancel request marked too late, over whatever it had   *)
(* been settled as; a restart leaves neither.  However requests, retries   *)
(* and workers interleave, no download is forgotten in the middle of the   *)
(* pipeline (process_next_download, recover_interrupted_downloads).        *)
WorkingHasWorker ==
    \A d \in Downloads :
        /\ status[d] \in Working => WorkedOn(d) \/ d \in stranded
        /\ status[d] = "cancel_requested" => WorkedOn(d) \/ d \in stranded \cup late

(* Two workers never hold live rows of one chapter, so no two attempts     *)
(* race for one archive path, unless a client retried a row that a worker  *)
(* still held: retry_download asks nobody.  For the rest it follows from   *)
(* the claim, the reuse of an active row and the partial unique index.     *)
HoldsLive(w, d) == pc[w] \in Busy /\ task[w] = d /\ Present(d)

ExclusiveChapterWork ==
    \A v, w \in Workers : \A d, e \in Downloads :
        (v # w /\ HoldsLive(v, d) /\ HoldsLive(w, e) /\ {d, e} \cap overtaken = {})
            => chapterOf[d] # chapterOf[e]

(* What makes it inductive: a held row is active and no longer queued, it  *)
(* is held once, and active rows have chapters of their own.               *)
HeldRowIsActive ==
    \A w \in Workers, d \in Downloads :
        HoldsLive(w, d) /\ d \notin overtaken => status[d] \in Active \ {"queued"}

OneHolder ==
    \A v, w \in Workers, d \in Downloads :
        HoldsLive(v, d) /\ HoldsLive(w, d) /\ d \notin overtaken => v = w

OneActivePerChapter ==
    \A d, e \in Downloads :
        (status[d] \in Active /\ status[e] \in Active /\ chapterOf[d] = chapterOf[e])
            => d = e

ExclusiveInv == HeldRowIsActive /\ OneHolder /\ OneActivePerChapter

(* A download that is cancelled or failed has left nothing of its present  *)
(* attempt at the archive path: the check after the move takes the file    *)
(* back.  The exception is a row with two attempts at once, one completed  *)
(* and one stopped, because a retry overtook the worker that held it.      *)
StoppedLeavesNoArchive ==
    \A d \in Downloads :
        (status[d] \in {"cancelled", "failed"} /\ d \notin overtaken)
            => archive[chapterOf[d]] # d

(* A worker whose flag is set before its last look at it ends cancelled or *)
(* failed; it never goes on to complete the download, whatever happens to  *)
(* the map entry in the meantime.                                          *)
Doomed(w) == pc[w] \in Cancellable /\ FlagSet(w)

CancelledAttemptNeverCompletes ==
    [][\A w \in Workers :
          Doomed(w) => \/ Doomed(w)'
                       \/ pc'[w] = "ended" /\ outcome'[w] # "ok"
                       \/ crashes' # crashes]_vars

(* A settled row stays settled, with the result it was settled with, until *)
(* it is removed or retried: no worker that still believes it owns the row *)
(* writes over it.  Two requests break this and are named: a retry that    *)
(* overtook a worker lets the old attempt write over the new one's result, *)
(* and a cancel request that read the row before it was settled puts       *)
(* "cancel_requested" over the result.                                     *)
LateCancel(d) ==
    /\ status'[d] = "cancel_requested"
    /\ d \in late'
    /\ \E h \in Handlers : hpc[h] = "mark" /\ hrow[h] = d /\ hpc'[h] = "idle"

Retried(d) == status'[d] = "queued" /\ requests' = requests + 1

SettledStaysSettled ==
    [][\A d \in Downloads :
          (status[d] \in Terminal /\ status'[d] # status[d])
              => \/ status'[d] = "deleted"
                 \/ Retried(d)
                 \/ LateCancel(d)
                 \/ d \in overtaken /\ WorkedOn(d)]_vars

(* A queued download is claimed (or removed) as long as one worker is not  *)
(* asleep at that moment: a busy, sleeping-off or idle worker asks the     *)
(* queue again, and the queue is first in, first out.                      *)
AwakeWorkerDrainsQueue ==
    \A d \in Downloads :
        (status[d] = "queued" /\ \E w \in Workers : pc[w] \notin Asleep)
            ~> (status[d] # "queued")

(* "Background task that continuously processes queued downloads."         *)
(* (process_downloads): every queued download is claimed or removed.       *)
QueuedIsProcessed ==
    \A d \in Downloads : (status[d] = "queued") ~> (status[d] # "queued")

(* A cancel that reaches a worker in time settles the row without          *)
(* completing it (or a restart puts it back in the queue).                 *)
CancelHonoured ==
    \A d \in Downloads :
        (\E w \in Workers : task[w] = d /\ Doomed(w))
            ~> (status[d] \in {"cancelled", "failed", "deleted", "queued"})
=============================================================================
