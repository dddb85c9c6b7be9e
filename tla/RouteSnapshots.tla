--------------------------- MODULE RouteSnapshots ---------------------------
(***************************************************************************)
(* The answers of the list routes that are kept for ROUTE_SNAPSHOT_TTL,    *)
(* and the changes that remove them: a request looks its snapshot up,      *)
(* computes a missing one and inserts it; a change writes what it changes, *)
(* and then removes the snapshots of a list of names.  Both do so without  *)
(* a lock, so a request may insert what it computed before the change.     *)
(*                                                                         *)
(* Each name has its own key, so one route is enough.  The tables of one   *)
(* answer are read in one step: a read that is torn by a change overlaps   *)
(* it, as one that comes before it does.  What the overview shows besides  *)
(* tables, the hits of the cache and the bytes on the disk, is left out,   *)
(* and so is what happens before the server listens.                       *)
(***************************************************************************)
EXTENDS Naturals, Sequences

CONSTANTS
    Changes,   \* what happens besides the requests, each at most once
    Requests,  \* requests at work at a time
    TTL,       \* ROUTE_SNAPSHOT_TTL
    MaxTime    \* bound: the clock

VARIABLES
    route,     \* the name of the snapshot
    snapshot,  \* the entry of the cache under that name, or NoEntry
    changed,   \* what each change is and how far it came
    request,   \* what each request does
    clock

vars == <<route, snapshot, changed, request, clock>>

-----------------------------------------------------------------------------
(* What the routes read and what the changes write.                        *)

DownloadRows == {"downloads", "archives", "upscaled", "series", "chapters"}
MangaRows == {"series", "sources", "chapters", "archives"}
ChapterRows == {"chapters", "progress", "archives"}
UpdateRows == ChapterRows
Overview == DownloadRows \cup MangaRows \cup {"progress", "events", "limits"}
SourceList == {"registry", "sources"}
SettingRows == {"settings"}

Reads == [
    downloads_list       |-> DownloadRows,
    library_list         |-> MangaRows,
    library_all_chapters |-> ChapterRows,
    library_updates      |-> UpdateRows,
    stats_overview       |-> Overview,
    sources_list         |-> SourceList,
    settings_get         |-> SettingRows]

Routes == DOMAIN Reads

(* The commits of each kind of change, in order.  Consecutive commits of   *)
(* one part of it are one: a read between them overlaps the change, as one *)
(* before them does.                                                       *)

(* A sync of a series with its source: chapters are added, renamed,        *)
(* renumbered and merged, with what was read of them and their downloads.  *)
SyncRows == {"series", "chapters", "progress", "downloads", "archives"}

(* Cancelling, deleting and retrying: the row may have been completed      *)
(* since it was looked at, and a retry takes any row.                      *)
ChangeDownload == <<{"downloads", "archives"}>>

(* A download of a chapter that the library does not know yet.             *)
EnqueueUnknown == <<SyncRows, {"downloads"}>>

(* What the worker writes of a row it claimed, which may be retried and    *)
(* completed by another meanwhile; and of the series, if that is           *)
(* incomplete.                                                             *)
WorkerStatus == <<{"downloads", "archives"}>>
RefreshMetadata == <<{"series"}>>

SetSourceEnabled == <<{"registry"}, {"sources"}>>
UpdateSourceSettings == <<{"sources"}, {"settings"}>>
UpdateLibrary == <<SyncRows \cup {"sources"}>>
UpdateProgress == <<{"progress"}, {"events"}>>
UpdateSettings == <<{"settings"}, {"settings", "limits"}>>
PauseUpscaling == <<{"settings"}>>
CompleteDownload == <<{"downloads", "archives", "chapters", "events"}>>

Writes == [
    download_enqueued |-> <<{"downloads"}>>,
    unknown_enqueued |-> EnqueueUnknown,
    download_changed |-> ChangeDownload,
    worker_status    |-> WorkerStatus,
    metadata         |-> RefreshMetadata,
    chapters_synced  |-> <<SyncRows>>,
    archive_created  |-> CompleteDownload,
    archive_deleted  |-> <<{"downloads", "archives"}>>,
    archive_metadata |-> <<{"upscaled"}>>,
    source_enabled   |-> SetSourceEnabled,
    source_settings  |-> UpdateSourceSettings,
    local_library    |-> UpdateLibrary,
    read_progress    |-> UpdateProgress,
    settings         |-> UpdateSettings,
    upscale_setting  |-> PauseUpscaling]

Kinds == DOMAIN Writes

LibraryNames == {"downloads_list", "library_all_chapters", "library_list", "library_updates", "stats_overview"}

DownloadNames == {"downloads_list", "stats_overview"}
StatsNames == {"stats_overview"}
ProgressNames == {"library_all_chapters", "stats_overview"}

(* The names each kind of change removes.  The worker removes none before  *)
(* the archive is there; a sync removes none that is the worker's, that    *)
(* finds no new chapter, or whose downloads could not be enqueued; and     *)
(* pausing and resuming the upscaler, its ranks and the preference of a    *)
(* series none.                                                            *)
Removes == [
    download_enqueued   |-> DownloadNames,
    unknown_enqueued    |-> DownloadNames,
    download_changed    |-> DownloadNames,
    worker_status       |-> {},
    metadata            |-> {},
    chapters_synced     |-> {},
    archive_created     |-> LibraryNames,
    archive_deleted     |-> LibraryNames \ {"library_updates"},
    archive_metadata    |-> StatsNames,
    source_enabled      |-> {"library_list", "sources_list", "stats_overview"},
    source_settings     |-> {"library_list", "sources_list", "stats_overview"},
    local_library       |-> LibraryNames,
    read_progress       |-> ProgressNames,
    settings            |-> {"settings_get", "stats_overview"},
    upscale_setting     |-> {}]

-----------------------------------------------------------------------------
NoEntry == [until |-> 0]
Unread == [c \in Changes |-> 0]
Idle == [at |-> "idle", before |-> {}, saw |-> Unread, from |-> NoEntry]

Init ==
    /\ route \in Routes
    /\ snapshot = NoEntry
    /\ changed \in [Changes -> {[kind |-> k, wrote |-> 0, at |-> "idle"] : k \in Kinds}]
    /\ request = [r \in Requests |-> Idle]
    /\ clock = 0

Ended == {c \in Changes : changed[c].at = "ended"}
Written == [c \in Changes |-> changed[c].wrote]

(* A commit of a change; one that fails ends it without removing anything. *)
Commit(c) ==
    /\ changed[c].at \in {"idle", "writing"} /\ changed[c].wrote < Len(Writes[changed[c].kind])
    /\ \/ changed' = [changed EXCEPT ![c].at = "writing", ![c].wrote = @ + 1]
       \/ changed' = [changed EXCEPT ![c].at = "failed"]
    /\ UNCHANGED <<route, snapshot, request, clock>>

Remove(c) ==
    /\ changed[c].at = "writing" /\ changed[c].wrote = Len(Writes[changed[c].kind])
    /\ changed' = [changed EXCEPT ![c].at = "ended"]
    /\ snapshot' = IF route \in Removes[changed[c].kind] THEN NoEntry ELSE snapshot
    /\ UNCHANGED <<route, request, clock>>

(* An entry that has expired counts as missing and is removed.             *)
Fresh == clock < snapshot.until

Lookup(r) ==
    /\ request[r].at = "idle"
    /\ IF Fresh
       THEN /\ request' = [request EXCEPT ![r] = [at |-> "answered", before |-> Ended,
                                                  saw |-> snapshot.saw, from |-> snapshot]]
            /\ UNCHANGED snapshot
       ELSE /\ request' = [request EXCEPT ![r] = [Idle EXCEPT !.at = "computing", !.before = Ended]]
            /\ snapshot' = NoEntry
    /\ UNCHANGED <<route, changed, clock>>

Compute(r) ==
    /\ request[r].at = "computing"
    /\ \/ request' = [request EXCEPT ![r].at = "computed", ![r].saw = Written]
       \/ request' = [request EXCEPT ![r] = Idle]
    /\ UNCHANGED <<route, snapshot, changed, clock>>

Insert(r) ==
    /\ request[r].at = "computed"
    /\ snapshot' = [until |-> clock + TTL, saw |-> request[r].saw, after |-> Ended]
    /\ request' = [request EXCEPT ![r].at = "answered"]
    /\ UNCHANGED <<route, changed, clock>>

(* The client has the answer.                                              *)
Done(r) ==
    /\ request[r].at = "answered"
    /\ request' = [request EXCEPT ![r] = Idle]
    /\ UNCHANGED <<route, snapshot, changed, clock>>

(* The cache evicts the entry, or an operator clears the cache.            *)
Forget ==
    /\ snapshot # NoEntry
    /\ snapshot' = NoEntry
    /\ UNCHANGED <<route, changed, request, clock>>

Tick ==
    /\ clock < MaxTime
    /\ clock' = clock + 1
    /\ UNCHANGED <<route, snapshot, changed, request>>

Next ==
    \/ \E c \in Changes : Commit(c) \/ Remove(c)
    \/ \E r \in Requests : Lookup(r) \/ Compute(r) \/ Insert(r) \/ Done(r)
    \/ Forget
    \/ Tick

Spec == Init /\ [][Next]_vars

-----------------------------------------------------------------------------
Entries == {NoEntry} \cup
    [until : 1 .. MaxTime + TTL, saw : [Changes -> 0 .. 2], after : SUBSET Changes]

TypeOK ==
    /\ route \in Routes /\ clock \in 0 .. MaxTime
    /\ snapshot \in Entries
    /\ changed \in [Changes -> [kind : Kinds, wrote : 0 .. 2,
                                at : {"idle", "writing", "failed", "ended"}]]
    /\ request \in [Requests -> [at : {"idle", "computing", "computed", "answered"},
                                 before : SUBSET Changes, saw : [Changes -> 0 .. 2],
                                 from : Entries]]

(* What an answer lacks of a change.                                       *)
Lacks(r, c) ==
    \E i \in request[r].saw[c] + 1 .. Len(Writes[changed[c].kind]) :
        Writes[changed[c].kind][i] \cap Reads[route] # {}

(* The pairs that the lists of names do not have: a snapshot lives on      *)
(* until it expires.                                                       *)
OnlyExpires ==
    {<<"archive_deleted", "library_updates">>, <<"read_progress", "library_updates">>,
     <<"archive_metadata", "downloads_list">>, <<"source_settings", "settings_get">>,
     <<"upscale_setting", "settings_get">>, <<"local_library", "sources_list">>}
    \cup {"worker_status", "chapters_synced"} \X LibraryNames
    \cup {"unknown_enqueued", "download_changed"} \X (LibraryNames \ DownloadNames)
    \cup {"metadata"} \X {"downloads_list", "library_list", "stats_overview"}

(* An answer that lacks a change that had ended before the request came    *)
(* from the cache, where a request that the change overlapped had inserted *)
(* it after the change removed the snapshot -- but for OnlyExpires.        *)
StaleAnswersOverlapped ==
    \A r \in Requests : \A c \in request[r].before :
        request[r].at = "answered" /\ Lacks(r, c) =>
            /\ request[r].from # NoEntry
            /\ c \in request[r].from.after \/ <<changed[c].kind, route>> \in OnlyExpires
=============================================================================
