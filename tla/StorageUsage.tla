---------------------------- MODULE StorageUsage ----------------------------
(***************************************************************************)
(* The cached byte count of the download directory beside the directory:   *)
(* the reservations of download workers under the storage cap, the deltas  *)
(* of deletions and upscales, the scans that replace the count, and what   *)
(* each of them misses of the others.                                      *)
(*                                                                         *)
(* The count is behind one mutex, so a step of it is atomic; a file        *)
(* operation is atomic under the lock of its archive (ArchiveStorage); and *)
(* between the two anything may happen.  The directory is the one of the   *)
(* current setting: a change of the setting forgets the count.             *)
(***************************************************************************)
EXTENDS Naturals, FiniteSets, FiniteSetsExt

CONSTANTS
    Chapters,   \* archive paths
    Tasks,      \* workers, requests and upscale jobs in flight
    Scans,      \* background scans
    Sizes,      \* sizes of new archives
    Stored,     \* sizes of archives there at the start, 0 for none
    Growth,     \* what an append adds to an archive
    Cap,        \* max_download_storage_bytes
    MaxOps,     \* bound: operations started, failed scans, changes of the setting
    None

(* An archive has bytes, and what an append adds to it has too.            *)
ASSUME SomeBytes ==
    /\ IsFiniteSet(Chapters) /\ IsFiniteSet(Tasks)
    /\ Sizes \subseteq Nat \ {0} /\ Stored \subseteq Nat
    /\ Growth \in Nat \ {0} /\ Cap \in Nat

VARIABLES
    disk,     \* the archive at each path: its size (0: none) and its footer hash
    usage,    \* DownloadStorageUsage
    task,     \* where each operation is and what it holds
    scan,     \* the background scans
    ops,      \* history: operations started, which also names new footers
    exact     \* history: no scan, removal, failed append, saturation or second
              \* attempt at a chapter has missed a change

vars == <<disk, usage, task, scan, ops, exact>>

Unknown == [known |-> FALSE, bytes |-> 0, fresh |-> FALSE, scanning |-> FALSE]

Resting == [pc |-> "idle", chapter |-> None, id |-> 0, add |-> 0, old |-> 0, hash |-> 0]
NoScan == [pc |-> "idle", left |-> {}, sum |-> 0, clean |-> TRUE]

Init ==
    /\ disk \in [Chapters -> {[size |-> s, hash |-> 0] : s \in Stored}]
    /\ usage = Unknown
    /\ task = [t \in Tasks |-> Resting]
    /\ scan = [s \in Scans |-> NoScan]
    /\ ops = 0
    /\ exact = TRUE

DiskBytes == MapThenSumSet(LAMBDA c : disk[c].size, Chapters)

-----------------------------------------------------------------------------
(* What the count owes to the operations in flight: it is ahead of the     *)
(* disk by a reservation or a removal, and behind it by an append.         *)

Ahead(t) == IF task[t].pc \in {"reserved", "undo", "forget"} THEN task[t].add ELSE 0
Behind(t) ==
    CASE task[t].pc = "reserved" -> task[t].old
      [] task[t].pc \in {"appended", "grow"} -> Growth
      [] OTHER -> 0

AheadBytes == MapThenSumSet(Ahead, Tasks)
BehindBytes == MapThenSumSet(Behind, Tasks)

Settled == \A t \in Tasks : Ahead(t) = 0 /\ Behind(t) = 0

(* A change of a file or of the count spoils the scans that are running.   *)
Disturb == scan' = [s \in Scans |-> [scan[s] EXCEPT !.clean = scan[s].pc = "idle"]]

(* A file that somebody else's reservation is to replace.                  *)
Reserved(t, c) ==
    \E u \in Tasks \ {t} : task[u].pc = "reserved" /\ task[u].chapter = c

Goto(t, pc) == task' = [task EXCEPT ![t].pc = pc]

Rest(t) == task' = [task EXCEPT ![t] = Resting]

-----------------------------------------------------------------------------
(* The count.                                                              *)

ShouldRefresh == ~usage.known \/ ~usage.fresh

(* refresh_download_storage_usage_locked: a scan under the mutex.          *)
Scanned == [known |-> TRUE, bytes |-> DiskBytes, fresh |-> TRUE, scanning |-> FALSE]
Refreshed == IF ShouldRefresh THEN Scanned ELSE usage
ExactWhenRefreshed == IF ShouldRefresh THEN Settled ELSE exact

Saturating(bytes, n) == IF n > bytes THEN 0 ELSE bytes - n

(* update_download_storage_usage_delta of a count of this directory.       *)
Counted(add, subtract) ==
    IF ~usage.known THEN usage
    ELSE [usage EXCEPT
            !.bytes = IF add >= subtract THEN @ + (add - subtract)
                      ELSE Saturating(@, subtract - add),
            !.fresh = TRUE]

(* A subtraction that saturates loses what it could not take.              *)
Loses(add, subtract) == usage.known /\ subtract > usage.bytes + add

-----------------------------------------------------------------------------
(* A download.                                                             *)

Start(t) == task[t].pc = "idle" /\ ops < MaxOps /\ ops' = ops + 1

At(pc, c) == [Resting EXCEPT !.pc = pc, !.chapter = c, !.id = ops + 1]

(* enforce_download_storage_limit.  A second attempt at the chapter may be *)
(* on its way, when a row is retried that a worker still holds.            *)
Enforce(t, c) ==
    /\ Start(t)
    /\ usage' = Refreshed
    /\ exact' = ExactWhenRefreshed
    /\ IF Refreshed.bytes < Cap
       THEN task' = [task EXCEPT ![t] = At("build", c)]
       ELSE UNCHANGED task
    /\ UNCHANGED <<disk, scan>>

(* A slip: the cap is compared with the count before the reservation.      *)
FitsBefore(bytes) == usage.bytes <= Cap

Fits(bytes) == bytes <= Cap

(* reserve_download_storage_for_archive: the archive has its size now.     *)
Reserve(t) ==
    /\ task[t].pc = "build"
    /\ \E size \in Sizes :
         LET old == disk[task[t].chapter].size
             next == Saturating(Refreshed.bytes, old) + size
         IN IF Fits(next)
            THEN /\ usage' = [Refreshed EXCEPT !.bytes = next, !.fresh = TRUE]
                 /\ task' = [task EXCEPT ![t].pc = "reserved", ![t].add = size, ![t].old = old]
                 /\ exact' = (ExactWhenRefreshed /\ old <= Refreshed.bytes)
                 /\ Disturb
            ELSE /\ usage' = Refreshed
                 /\ exact' = ExactWhenRefreshed
                 /\ Rest(t)
                 /\ UNCHANGED scan
    /\ UNCHANGED <<disk, ops>>

(* A slip: the bytes of the archive that stays are not given back.         *)
RolledBackAddOnly(t) == Counted(0, task[t].add)

RolledBack(t) == Counted(task[t].old, task[t].add)

(* A cancel, or the archive cannot be moved.                               *)
RollBack(t) ==
    /\ task[t].pc = "reserved"
    /\ usage' = RolledBack(t)
    /\ exact' = (exact /\ ~Loses(task[t].old, task[t].add))
    /\ Rest(t) /\ Disturb
    /\ UNCHANGED <<disk, ops>>

Publish(t) ==
    /\ task[t].pc = "reserved"
    /\ disk' = [disk EXCEPT ![task[t].chapter] = [size |-> task[t].add, hash |-> task[t].id]]
    /\ task' = [task EXCEPT ![t].pc = "published", ![t].old = 0]
    /\ exact' = (exact /\ ~Reserved(t, task[t].chapter))
    /\ Disturb
    /\ UNCHANGED <<usage, ops>>

(* A cancel after the move: the file is taken away, if it is there still.  *)
LateCancel(t) ==
    /\ task[t].pc = "published"
    /\ LET c == task[t].chapter
       IN /\ disk' = [disk EXCEPT ![c] = [size |-> 0, hash |-> 0]]
          /\ exact' = (exact /\ disk[c].size = task[t].add /\ ~Reserved(t, c))
    /\ Goto(t, "undo") /\ Disturb
    /\ UNCHANGED <<usage, ops>>

Undo(t) ==
    /\ task[t].pc = "undo"
    /\ usage' = Counted(0, task[t].add)
    /\ exact' = (exact /\ ~Loses(0, task[t].add))
    /\ Rest(t) /\ Disturb
    /\ UNCHANGED <<disk, ops>>

(* complete_download, or the failure to record it.                         *)
Complete(t) ==
    /\ task[t].pc = "published"
    /\ \/ task' = [task EXCEPT ![t] = [Resting EXCEPT !.pc = "refresh"]]
       \/ Rest(t)
    /\ UNCHANGED <<disk, usage, scan, ops, exact>>

(* refresh_storage of the lifecycle: two turns at the mutex.               *)
Invalidate(t) ==
    /\ task[t].pc = "refresh"
    /\ usage' = Unknown
    /\ Goto(t, "rescan")
    /\ UNCHANGED <<disk, scan, ops, exact>>

Rescan(t) ==
    /\ task[t].pc = "rescan"
    /\ usage' = Refreshed
    /\ exact' = ExactWhenRefreshed
    /\ Rest(t)
    /\ UNCHANGED <<disk, scan, ops>>

-----------------------------------------------------------------------------
(* Deletions, upscales and changes of the metadata.                        *)

Remove(t, c) ==
    /\ Start(t) /\ disk[c].size > 0
    /\ task' = [task EXCEPT ![t] = [At("forget", c) EXCEPT !.add = disk[c].size]]
    /\ disk' = [disk EXCEPT ![c] = [size |-> 0, hash |-> 0]]
    /\ exact' = (exact /\ ~Reserved(t, c))
    /\ Disturb
    /\ UNCHANGED usage

(* The row is deleted first, and a failure of that leaves the count.       *)
Forget(t) ==
    /\ task[t].pc = "forget"
    /\ \/ /\ usage' = Counted(0, task[t].add)
          /\ exact' = (exact /\ ~Loses(0, task[t].add))
       \/ exact' = FALSE /\ UNCHANGED usage
    /\ Rest(t) /\ Disturb
    /\ UNCHANGED <<disk, ops>>

Inspect(t, c) ==
    /\ Start(t) /\ disk[c].size > 0
    /\ task' = [task EXCEPT ![t] =
                   [At("upscale", c) EXCEPT !.old = disk[c].size, !.hash = disk[c].hash]]
    /\ UNCHANGED <<disk, usage, scan, exact>>

Longer(c, hash) == disk' = [disk EXCEPT ![c] = [size |-> @.size + Growth, hash |-> hash]]

(* append_upscaled refuses another archive than the inspected one.  An     *)
(* error leaves the archive alone, or longer by what has been written so   *)
(* far, before the new footer or after it, and nobody counts that.         *)
Append(t) ==
    /\ task[t].pc = "upscale"
    /\ LET c == task[t].chapter
           same == disk[c].size > 0 /\ disk[c].hash = task[t].hash
       IN \/ /\ same /\ Longer(c, task[t].id)
             /\ exact' = (exact /\ ~Reserved(t, c))
             /\ task' = [task EXCEPT ![t].pc = "appended"]
             /\ Disturb
          \/ /\ same /\ \E hash \in {task[t].hash, task[t].id} : Longer(c, hash)
             /\ exact' = FALSE
             /\ Rest(t) /\ Disturb
          \/ Rest(t) /\ UNCHANGED <<disk, scan, exact>>
    /\ UNCHANGED <<usage, ops>>

(* The archive is inspected again, whatever it is by now: another one, or  *)
(* longer once more.  That or mark_upscaled may fail.                      *)
InspectAppended(t) ==
    /\ task[t].pc = "appended"
    /\ LET now == disk[task[t].chapter]
       IN \/ /\ now.size > 0
             /\ task' = [task EXCEPT ![t].pc = "grow",
                                     ![t].add = Saturating(now.size, task[t].old)]
             /\ exact' = (exact /\ now.size = task[t].old + Growth)
          \/ Rest(t) /\ exact' = FALSE
    /\ Disturb
    /\ UNCHANGED <<disk, usage, ops>>

Grow(t) ==
    /\ task[t].pc = "grow"
    /\ usage' = Counted(task[t].add, 0)
    /\ Rest(t) /\ Disturb
    /\ UNCHANGED <<disk, ops, exact>>

(* update_comicinfo appends too, and refreshes the count when it has not   *)
(* failed.                                                                 *)
ChangeMetadata(t, c) ==
    /\ Start(t) /\ disk[c].size > 0
    /\ \/ /\ Longer(c, ops + 1)
          /\ task' = [task EXCEPT ![t] = [Resting EXCEPT !.pc = "refresh"]]
       \/ /\ \E hash \in {disk[c].hash, ops + 1} : Longer(c, hash)
          /\ UNCHANGED task
    /\ exact' = FALSE
    /\ Disturb
    /\ UNCHANGED usage

-----------------------------------------------------------------------------
(* Scans beside the operations, time, and the setting of the directory.    *)

(* A slip: a failed scan leaves its mark.                                  *)
MarkAfterFailure == usage.scanning
ScanMark == FALSE

ScanStart(s) ==
    /\ scan[s].pc = "idle" /\ ~usage.scanning /\ ShouldRefresh
    /\ usage' = [usage EXCEPT !.scanning = TRUE]
    /\ scan' = [scan EXCEPT ![s] = [pc |-> "scan", left |-> Chapters, sum |-> 0,
                                    clean |-> Settled]]
    /\ UNCHANGED <<disk, task, ops, exact>>

ScanFile(s) ==
    /\ scan[s].pc = "scan"
    /\ \E c \in scan[s].left :
         scan' = [scan EXCEPT ![s].left = @ \ {c}, ![s].sum = @ + disk[c].size]
    /\ UNCHANGED <<disk, usage, task, ops, exact>>

ScanWrite(s) ==
    /\ scan[s].pc = "scan" /\ scan[s].left = {}
    /\ usage' = [known |-> TRUE, bytes |-> scan[s].sum, fresh |-> TRUE, scanning |-> FALSE]
    /\ exact' = scan[s].clean
    /\ scan' = [scan EXCEPT ![s] = NoScan]
    /\ UNCHANGED <<disk, task, ops>>

ScanFails(s) ==
    /\ scan[s].pc = "scan" /\ ops < MaxOps /\ ops' = ops + 1
    /\ usage' = [usage EXCEPT !.scanning = ScanMark]
    /\ scan' = [scan EXCEPT ![s] = NoScan]
    /\ UNCHANGED <<disk, task, exact>>

(* DOWNLOAD_STORAGE_USAGE_REFRESH passes.                                  *)
Age ==
    /\ usage.fresh
    /\ usage' = [usage EXCEPT !.fresh = FALSE]
    /\ UNCHANGED <<disk, task, scan, ops, exact>>

ChangeDirectory ==
    /\ usage # Unknown /\ ops < MaxOps /\ ops' = ops + 1
    /\ usage' = Unknown
    /\ UNCHANGED <<disk, task, scan, exact>>

TaskStep(t) ==
    \/ Reserve(t) \/ RollBack(t) \/ Publish(t) \/ LateCancel(t) \/ Undo(t)
    \/ Complete(t) \/ Invalidate(t) \/ Rescan(t) \/ Forget(t)
    \/ Append(t) \/ InspectAppended(t) \/ Grow(t)

ScanStep(s) == ScanStart(s) \/ ScanFile(s) \/ ScanWrite(s)

Next ==
    \/ \E t \in Tasks :
          \/ TaskStep(t)
          \/ \E c \in Chapters :
                Enforce(t, c) \/ Remove(t, c) \/ Inspect(t, c) \/ ChangeMetadata(t, c)
    \/ \E s \in Scans : ScanStep(s) \/ ScanFails(s)
    \/ Age \/ ChangeDirectory

Spec == Init /\ [][Next]_vars

(* Operations that began go on, the metrics loop asks for a scan again and *)
(* again, and time passes; scans do not fail for ever.                     *)
Fairness ==
    /\ \A t \in Tasks : WF_vars(TaskStep(t))
    /\ \A s \in Scans : WF_vars(ScanStep(s))
    /\ WF_vars(Age)

FairSpec == Spec /\ Fairness

-----------------------------------------------------------------------------
(* Properties.                                                             *)

(* The count is the directory plus what is reserved or being forgotten and *)
(* less what is being appended: reservations, roll-backs, late cancels and *)
(* deltas cancel out in every order, as long as no scan ran beside one, no *)
(* append failed half-way, and no file was changed under a reservation, as *)
(* a second attempt at the chapter does.                                   *)
CountIsExact ==
    usage.known /\ exact => usage.bytes + BehindBytes = DiskBytes + AheadBytes

(* An exact count lets no reservation pass that would take the directory   *)
(* over the cap together with all the others in flight.                    *)
ReservationsFitCap ==
    [][\A t \in Tasks :
          task[t].pc = "build" /\ task'[t].pc = "reserved" /\ exact' =>
             (DiskBytes + AheadBytes)' <= Cap + BehindBytes']_vars

(* Whatever the count missed, it is right again when the operations end:   *)
(* the periodic scan repairs what was lost.                                *)
CountRecovers == <>[](usage.known => usage.bytes = DiskBytes)
=============================================================================
