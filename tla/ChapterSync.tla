---------------------------- MODULE ChapterSync ----------------------------
(***************************************************************************)
(* The chapters of one library series and how they follow the source: the  *)
(* reconciliation of a fetched listing with the stored rows, the baseline  *)
(* of the first sync, the automatic downloads of a Library Update Run, and *)
(* the requests that run beside them.                                      *)
(*                                                                         *)
(* A transaction is one step.  The listing a sync applies was fetched at   *)
(* any earlier time from a source that may list anything, so it is chosen  *)
(* when it is applied: a stale listing is one of the choices.              *)
(***************************************************************************)
EXTENDS Naturals, FiniteSets, Sequences

CONSTANTS
    Remotes,      \* ids the source gives its chapters
    Numbers,      \* chapter numbers
    Dates,        \* publication dates
    Listings,     \* what the source may list: no remote id twice
    Tasks,        \* library update checks, page refreshes, worker refreshes
    AutoDownload, \* AutoDownloadPolicy::should_auto_download of the series
    MaxRows,      \* bound: chapter rows ever created
    MaxSyncs,     \* bound: listings committed
    None

ASSUME ListingsAreListings ==
    \A l \in Listings :
        /\ l \in Seq([remote : Remotes, number : Numbers, date : Dates])
        /\ \A j, k \in DOMAIN l : l[j].remote = l[k].remote => j = k
ASSUME DatesAreOrdered == Dates \subseteq Nat
ASSUME NoneIsNoId == None \notin Nat

VARIABLES
    (* the database *)
    rows,         \* chapters of the series, by id; ids grow with time
    active,       \* chapters with a download the one-active index covers
    settled,      \* chapters with a download in a final status
    inLibrary,    \* the library_series row exists
    initialized,  \* library_series.chapters_initialized
    lastId,       \* the newest id given out
    (* the tasks *)
    pc, kind,
    initial,      \* is_initial_sync, from the series row the task was given
    newIds,       \* what sync_chapters returned
    (* history *)
    syncs,        \* listings committed
    first         \* the chapters the first committed listing created

dbVars == <<rows, active, settled, inLibrary, initialized, lastId>>
taskVars == <<pc, kind, initial, newIds>>
historyVars == <<syncs, first>>
vars == <<rows, active, settled, inLibrary, initialized, lastId,
          pc, kind, initial, newIds, syncs, first>>

Ids == 1 .. MaxRows

(* A row has the fields the reconciliation reads.  fetched is 0 for the    *)
(* series' created_at that a baseline writes, and otherwise the id: the    *)
(* clock is taken to move on between two inserts.                          *)
Rows == [remote : Remotes, number : Numbers, date : Dates, fetched : {0} \cup Ids]

WithDownload == active \cup settled

Init ==
    /\ rows = [i \in {} |-> None]
    /\ active = {} /\ settled = {}
    /\ inLibrary = TRUE
    /\ initialized = FALSE
    /\ lastId = 0
    /\ pc = [t \in Tasks |-> "idle"]
    /\ kind = [t \in Tasks |-> None]
    /\ initial = [t \in Tasks |-> FALSE]
    /\ newIds = [t \in Tasks |-> {}]
    /\ syncs = 0
    /\ first = {}

-----------------------------------------------------------------------------
(* sync_chapters: each listed chapter in turn, on the rows read at the     *)
(* start of the transaction.                                               *)

(* number_to_index at the start.                                           *)
ByNumber(rs) ==
    [n \in Numbers |->
        LET holders == {i \in DOMAIN rs : rs[i].number = n}
        IN IF holders = {} THEN None ELSE CHOOSE i \in holders : TRUE]

(* The listed chapter is known by its remote id: its number may change.    *)
UpdateKnown(st, e, i) ==
    LET old == st.rows[i].number
    IN [st EXCEPT
          !.rows[i] = [@ EXCEPT !.number = e.number, !.date = e.date],
          !.byNumber = [n \in Numbers |->
              IF n = e.number THEN i
              ELSE IF n = old /\ @[n] = i THEN None ELSE @[n]]]

(* It has the number of a row with another remote id: it replaces that id. *)
ReplaceRemote(st, e, i) ==
    [st EXCEPT !.rows[i] = [@ EXCEPT !.remote = e.remote, !.date = e.date]]

(* Neither: a row is created.                                              *)
Create(st, e) ==
    LET i == st.lastId + 1
        row == [remote |-> e.remote, number |-> e.number, date |-> e.date, fetched |-> i]
    IN [st EXCEPT !.rows = [j \in {i} \cup DOMAIN @ |-> IF j = i THEN row ELSE @[j]],
                  !.byNumber[e.number] = i, !.new = @ \cup {i}, !.lastId = i]

(* A slip: only remote ids identify a chapter.                             *)
ApplyByRemote(st, e) ==
    LET known == {i \in DOMAIN st.rows : st.rows[i].remote = e.remote}
    IN IF known # {} THEN UpdateKnown(st, e, CHOOSE i \in known : TRUE)
       ELSE Create(st, e)

ApplyEntry(st, e) ==
    LET known == {i \in DOMAIN st.rows : st.rows[i].remote = e.remote}
    IN IF known # {} THEN UpdateKnown(st, e, CHOOSE i \in known : TRUE)
       ELSE IF st.byNumber[e.number] # None
            THEN ReplaceRemote(st, e, st.byNumber[e.number])
            ELSE Create(st, e)

Unapplied(rs, last) == [rows |-> rs, byNumber |-> ByNumber(rs), new |-> {}, lastId |-> last]

(* after[k]: the first k chapters of the listing have been taken.          *)
Applied(rs, last, listing) ==
    LET after[k \in 0 .. Len(listing)] ==
            IF k = 0 THEN Unapplied(rs, last) ELSE ApplyEntry(after[k - 1], listing[k])
    IN after[Len(listing)]

-----------------------------------------------------------------------------
(* reconcile_duplicate_chapters: the rows that share a number.             *)

Group(rs, n) == {i \in DOMAIN rs : rs[i].number = n}

(* compare_freshness.                                                      *)
Fresher(rs, i, j) ==
    \/ rs[i].date > rs[j].date
    \/ /\ rs[i].date = rs[j].date
       /\ \/ rs[i].fetched > rs[j].fetched
          \/ rs[i].fetched = rs[j].fetched /\ i < j

Freshest(rs, group) ==
    CHOOSE i \in group : \A j \in group \ {i} : Fresher(rs, i, j)

(* compare_canonical_rows: rows with downloads come before fresher ones.   *)
Canonical(rs, group) ==
    LET backed == group \cap WithDownload
    IN Freshest(rs, IF backed = {} THEN group ELSE backed)

(* The canonical row is given the remote id of the freshest one while that *)
(* row still holds it, and each download moves on its own: the unique      *)
(* indexes of both may refuse, and then the transaction fails.             *)
Refused(rs) ==
    \E n \in Numbers :
        LET group == Group(rs, n)
        IN /\ Cardinality(group) > 1
           /\ \/ Canonical(rs, group) # Freshest(rs, group)
              \/ Cardinality(group \cap active) > 1

(* A slip: duplicates are left alone.                                      *)
MergeNothing(rs, i) == i

(* Where a row and its downloads go.                                       *)
Home(rs, i) == Canonical(rs, Group(rs, rs[i].number))

(* A slip: the downloads of a duplicate keep pointing at it.               *)
MoveNothing(rs, chapters) == chapters

MoveDownloads(rs, chapters) == {Home(rs, i) : i \in chapters}

Merged(rs) ==
    [i \in {Home(rs, j) : j \in DOMAIN rs} |->
        rs[Freshest(rs, Group(rs, rs[i].number))]]

-----------------------------------------------------------------------------
(* A task: a library update check reads the series row when its run        *)
(* starts; a page refresh and the refresh of a download worker whose page  *)
(* list failed read it before they fetch, and ignore the new ids.          *)

(* A slip: the series is initialized before its first sync.                *)
BeginMarks(t) ==
    /\ pc[t] = "idle" /\ inLibrary
    /\ \E k \in {"update", "refresh"} : kind' = [kind EXCEPT ![t] = k]
    /\ initial' = [initial EXCEPT ![t] = ~initialized]
    /\ initialized' = TRUE
    /\ pc' = [pc EXCEPT ![t] = "fetch"]
    /\ UNCHANGED <<rows, active, settled, inLibrary, lastId, newIds, historyVars>>

Begin(t) ==
    /\ pc[t] = "idle" /\ inLibrary
    /\ \E k \in {"update", "refresh"} : kind' = [kind EXCEPT ![t] = k]
    /\ initial' = [initial EXCEPT ![t] = ~initialized]
    /\ pc' = [pc EXCEPT ![t] = "fetch"]
    /\ UNCHANGED <<dbVars, newIds, historyVars>>

End(t) ==
    /\ pc' = [pc EXCEPT ![t] = "idle"]
    /\ kind' = [kind EXCEPT ![t] = None]
    /\ initial' = [initial EXCEPT ![t] = FALSE]
    /\ newIds' = [newIds EXCEPT ![t] = {}]

(* check_manga_updates goes on with new ids of a series known before.      *)
Announces(t, new) == AutoDownload /\ kind[t] = "update" /\ new # {}

Commit(t, st) ==
    /\ st.lastId <= MaxRows
    /\ rows' = Merged(st.rows)
    /\ active' = MoveDownloads(st.rows, active)
    /\ settled' = MoveDownloads(st.rows, settled)
    /\ lastId' = st.lastId
    /\ first' = IF syncs = 0 THEN st.new ELSE first
    /\ syncs' = syncs + 1
    /\ IF initial[t] \/ Announces(t, st.new)
       THEN /\ pc' = [pc EXCEPT ![t] = IF initial[t] THEN "baseline" ELSE "enqueue"]
            /\ newIds' = [newIds EXCEPT ![t] = st.new]
            /\ UNCHANGED <<kind, initial>>
       ELSE End(t)

(* A refused transaction is rolled back and the task returns its error.    *)
Sync(t) ==
    /\ pc[t] = "fetch" /\ syncs < MaxSyncs
    /\ \E listing \in Listings :
         LET st == Applied(rows, lastId, listing)
         IN \/ ~Refused(st.rows) /\ Commit(t, st)
            \/ /\ Refused(st.rows)
               /\ End(t)
               /\ UNCHANGED <<rows, active, settled, lastId, historyVars>>
    /\ UNCHANGED <<inLibrary, initialized>>

Baselined(chapters) ==
    [i \in DOMAIN rows |-> IF i \in chapters THEN [rows[i] EXCEPT !.fetched = 0]
                           ELSE rows[i]]

Baseline(t) ==
    /\ pc[t] = "baseline"
    /\ rows' = Baselined(DOMAIN rows)
    /\ pc' = [pc EXCEPT ![t] = "mark"]
    /\ UNCHANGED <<active, settled, inLibrary, initialized, lastId, kind, initial,
                   newIds, historyVars>>

(* Of a series that is gone nothing is marked: the task fails.             *)
Mark(t) ==
    /\ pc[t] = "mark"
    /\ initialized' = (initialized \/ inLibrary)
    /\ End(t)
    /\ UNCHANGED <<rows, active, settled, inLibrary, lastId, historyVars>>

(* enqueue_downloads: active downloads are kept, and one chapter that is   *)
(* gone fails the whole batch.                                             *)
Enqueue(t) ==
    /\ pc[t] = "enqueue"
    /\ active' = IF newIds[t] \subseteq DOMAIN rows THEN active \cup newIds[t] ELSE active
    /\ End(t)
    /\ UNCHANGED <<rows, settled, inLibrary, initialized, lastId, historyVars>>

(* A task ends early at any await: the source or the database fails, the   *)
(* client of its request goes away and the future is dropped, or the       *)
(* process dies, which ends all tasks.  The baseline is not one            *)
(* transaction and may have been written in part.                          *)
GiveUp(t) ==
    /\ pc[t] # "idle"
    /\ \E done \in IF pc[t] = "baseline" THEN SUBSET DOMAIN rows ELSE {{}} :
         rows' = Baselined(done)
    /\ End(t)
    /\ UNCHANGED <<active, settled, inLibrary, initialized, lastId, historyVars>>

-----------------------------------------------------------------------------
(* Requests and workers beside the tasks, one transaction each.            *)

(* The user downloads a stored chapter, or retries its settled download.   *)
Download(i) ==
    /\ inLibrary /\ i \notin active
    /\ active' = active \cup {i}
    /\ UNCHANGED <<rows, settled, inLibrary, initialized, lastId, taskVars, historyVars>>

SettleDownload(i) ==
    /\ i \in active
    /\ active' = active \ {i}
    /\ settled' = settled \cup {i}
    /\ UNCHANGED <<rows, inLibrary, initialized, lastId, taskVars, historyVars>>

DeleteDownload(i) ==
    /\ i \in settled
    /\ settled' = settled \ {i}
    /\ UNCHANGED <<rows, active, inLibrary, initialized, lastId, taskVars, historyVars>>

(* remove_from_library; the tasks are not told.                            *)
RemoveFromLibrary ==
    /\ inLibrary
    /\ rows' = [i \in {} |-> None]
    /\ active' = {} /\ settled' = {}
    /\ inLibrary' = FALSE
    /\ UNCHANGED <<initialized, lastId, taskVars, historyVars>>

TaskStep(t) ==
    \/ Begin(t) \/ Sync(t) \/ Baseline(t) \/ Mark(t) \/ Enqueue(t) \/ GiveUp(t)

Next ==
    \/ \E t \in Tasks : TaskStep(t)
    \/ \E i \in DOMAIN rows : Download(i) \/ SettleDownload(i) \/ DeleteDownload(i)
    \/ RemoveFromLibrary

Spec == Init /\ [][Next]_vars

-----------------------------------------------------------------------------
(* Properties.                                                             *)

(* No chapter of the series is stored twice: whatever the source renumbers *)
(* or re-uploads, committed rows differ in number and in remote id.        *)
ChaptersAreDistinct ==
    \A i, j \in DOMAIN rows :
        i # j => rows[i].number # rows[j].number /\ rows[i].remote # rows[j].remote

(* No download record is left pointing at a chapter that a reconciliation  *)
(* merged away.                                                            *)
DownloadsHaveChapter == WithDownload \subseteq DOMAIN rows

(* A listing that was just committed has nothing new: another refresh of   *)
(* an unchanged source announces and downloads no chapter again.           *)
SyncIsIdempotent ==
    [][lastId' # lastId =>
         \A listing \in Listings :
            \/ Applied(rows', lastId', listing).new = {}
            \/ rows' # Merged(Applied(rows, lastId, listing).rows)]_vars

(* The back catalogue that the first sync stores is never queued for       *)
(* download by an update run, whatever failed before or runs beside it.     *)
BackCatalogueIsNotQueued ==
    \A t \in Tasks : pc[t] = "enqueue" => newIds[t] \cap first = {}
=============================================================================
