--------------------------- MODULE ArchiveStorage ---------------------------
(***************************************************************************)
(* One archive path and its companion lock: the writers that replace the   *)
(* file, extend it in place or remove it, the readers that keep a mapping  *)
(* of it for as long as a response is sent, and the removals that do not   *)
(* take the lock.  It implements AtomicArchive.                            *)
(*                                                                         *)
(* From the container library (external) it takes that an appender makes   *)
(* the new index visible when it is finalized, and that an appender that   *)
(* is dropped leaves the previous footer in force.                         *)
(***************************************************************************)
EXTENDS Naturals, FiniteSets

CONSTANTS
    Tasks,        \* blocking tasks of workers, requests and upscale jobs
    MaxVersions,  \* bound: archives published
    MaxOps,       \* bound: operations started
    Nothing

Versions == 1 .. MaxVersions

VARIABLES
    path,      \* the inode at the path: the publication, or Nothing
    inodes,    \* each published inode: its upscaled section and its edits
    op,        \* the call each task is in
    pc,        \* where the call is
    seen,      \* the inode a call has mapped or opened, the archive an append expects
    published, \* publications so far
    ops,       \* operations so far
    freed,     \* history: archives that removals under the lock took away
    reported   \* history: removals that returned a size

vars == <<path, inodes, op, pc, seen, published, ops, freed, reported>>

NoSeen == [inode |-> Nothing, expected |-> Nothing]
Sealed == [section |-> Nothing, edits |-> 0]

Init ==
    /\ path = Nothing
    /\ inodes = [v \in Versions |-> Sealed]
    /\ op = [t \in Tasks |-> "none"]
    /\ pc = [t \in Tasks |-> "idle"]
    /\ seen = [t \in Tasks |-> NoSeen]
    /\ published = 0 /\ ops = 0 /\ freed = 0 /\ reported = 0

(* What lies at an inode; its footer hash stands for all of it.            *)
FileOf(inode) ==
    IF inode = Nothing THEN Nothing
    ELSE [version |-> inode, section |-> inodes[inode].section, edits |-> inodes[inode].edits]

-----------------------------------------------------------------------------
(* The advisory lock: std's File::lock and lock_shared wait without order. *)

Writing == {t \in Tasks : pc[t] \in {"hold", "write"}}
Reading == {t \in Tasks : pc[t] = "body"}

Free == Writing = {} /\ Reading = {}

Exclusive == {"publish", "append", "annotate", "remove"}

-----------------------------------------------------------------------------
(* Calls.  A remove that finds no file returns at once; an append comes    *)
(* with the archive that was inspected, under the shared lock, before.     *)

Call(t, o) ==
    /\ pc[t] = "idle" /\ ops < MaxOps
    /\ ops' = ops + 1
    /\ \/ /\ o = "append" /\ path # Nothing /\ Writing = {}
          /\ seen' = [seen EXCEPT ![t].expected = FileOf(path)]
       \/ o = "remove" /\ path # Nothing /\ UNCHANGED seen
       \/ o \in {"publish", "annotate", "read"} /\ UNCHANGED seen
    /\ op' = [op EXCEPT ![t] = o]
    /\ pc' = [pc EXCEPT ![t] = "wait"]
    /\ UNCHANGED <<path, inodes, published, freed, reported>>

Lock(t) ==
    /\ pc[t] = "wait" /\ op[t] \in Exclusive /\ Free
    /\ pc' = [pc EXCEPT ![t] = "hold"]
    /\ UNCHANGED <<path, inodes, op, seen, published, ops, freed, reported>>

(* A slip: the mapping outlives the call.                                  *)
ReturnMapped(t) ==
    /\ pc' = [pc EXCEPT ![t] = "idle"]
    /\ op' = [op EXCEPT ![t] = "none"]
    /\ UNCHANGED seen

Return(t) ==
    /\ pc' = [pc EXCEPT ![t] = "idle"]
    /\ op' = [op EXCEPT ![t] = "none"]
    /\ seen' = [seen EXCEPT ![t] = NoSeen]

(* publish: a rename, or a copy to a temporary file and a rename; either   *)
(* may fail and leaves the path as it was.                                 *)
Publish(t) ==
    /\ pc[t] = "hold" /\ op[t] = "publish"
    /\ \/ /\ published < MaxVersions
          /\ path' = published + 1 /\ published' = published + 1
       \/ UNCHANGED <<path, published>>
    /\ Return(t)
    /\ UNCHANGED <<inodes, ops, freed, reported>>

(* A slip: any archive at the path will do.                                *)
AnyArchive(t) == path # Nothing

(* append_upscaled compares the footer hash.                               *)
Expected(t) == path # Nothing /\ seen[t].expected = FileOf(path)

(* Opens the appender; payloads go behind the sealed index.                *)
BeginEdit(t) ==
    /\ pc[t] = "hold" /\ op[t] \in {"append", "annotate"}
    /\ path # Nothing /\ (op[t] = "append" => Expected(t))
    /\ pc' = [pc EXCEPT ![t] = "write"]
    /\ seen' = [seen EXCEPT ![t].inode = path]
    /\ UNCHANGED <<path, inodes, op, published, ops, freed, reported>>

(* The archive is gone or changed, a shutdown cancels, or a write fails.   *)
EditFails(t) ==
    /\ pc[t] \in {"hold", "write"} /\ op[t] \in {"append", "annotate"}
    /\ Return(t)
    /\ UNCHANGED <<path, inodes, published, ops, freed, reported>>

(* finalize, on the inode that was opened, wherever it is by now.          *)
Finalize(t) ==
    /\ pc[t] = "write"
    /\ inodes' = [inodes EXCEPT ![seen[t].inode] =
                     [section |-> IF op[t] = "append" THEN seen[t].expected.version
                                  ELSE @.section,
                      edits |-> @.edits + 1]]
    /\ Return(t)
    /\ UNCHANGED <<path, published, ops, freed, reported>>

(* remove looks again under the lock.                                      *)
SizeKnown(t) == path # Nothing

Remove(t) ==
    /\ pc[t] = "hold" /\ op[t] = "remove"
    /\ path' = Nothing
    /\ freed' = IF path # Nothing THEN freed + 1 ELSE freed
    /\ reported' = IF SizeKnown(t) THEN reported + 1 ELSE reported
    /\ Return(t)
    /\ UNCHANGED <<inodes, published, ops>>

(* map: the shared lock and the mapping; read_page, read_cover and         *)
(* read_archive hand both to the response, inspect and metadata drop them. *)
Map(t) ==
    /\ pc[t] = "wait" /\ op[t] = "read" /\ Writing = {}
    /\ IF path = Nothing THEN Return(t)
       ELSE /\ pc' = [pc EXCEPT ![t] = "body"]
            /\ seen' = [seen EXCEPT ![t].inode = path]
            /\ UNCHANGED op
    /\ UNCHANGED <<path, inodes, published, ops, freed, reported>>

DropBody(t) ==
    /\ pc[t] = "body"
    /\ Return(t)
    /\ UNCHANGED <<path, inodes, published, ops, freed, reported>>

(* remove_file_if_present of a late cancel and of the work records that    *)
(* requests delete.                                                        *)
RemoveUnlocked ==
    /\ path # Nothing /\ ops < MaxOps
    /\ path' = Nothing /\ ops' = ops + 1
    /\ UNCHANGED <<inodes, op, pc, seen, published, freed, reported>>

(* The process dies, and with it the locks, the mappings and appenders.    *)
Restart ==
    /\ ops < MaxOps /\ ops' = ops + 1
    /\ op' = [t \in Tasks |-> "none"]
    /\ pc' = [t \in Tasks |-> "idle"]
    /\ seen' = [t \in Tasks |-> NoSeen]
    /\ UNCHANGED <<path, inodes, published, freed, reported>>

TaskStep(t) ==
    \/ Lock(t) \/ Publish(t) \/ BeginEdit(t) \/ EditFails(t) \/ Finalize(t)
    \/ Remove(t) \/ Map(t) \/ DropBody(t)

Next ==
    \/ \E t \in Tasks : TaskStep(t) \/ \E o \in Exclusive \cup {"read"} : Call(t, o)
    \/ RemoveUnlocked \/ Restart

Spec == Init /\ [][Next]_vars

-----------------------------------------------------------------------------
(* Properties.                                                             *)

(* Every variable has its type; an idle task remembers nothing.            *)
TypeOK ==
    /\ path \in {Nothing} \cup Versions
    /\ inodes \in [Versions -> [section : {Nothing} \cup Versions, edits : 0 .. MaxOps]]
    /\ op \in [Tasks -> Exclusive \cup {"none", "read"}]
    /\ pc \in [Tasks -> {"idle", "wait", "hold", "write", "body"}]
    /\ \A t \in Tasks : pc[t] = "idle" => op[t] = "none" /\ seen[t] = NoSeen
    /\ published \in 0 .. MaxVersions /\ ops \in 0 .. MaxOps

(* Removals under the lock never report an archive twice, so the bytes the *)
(* storage count gives back are bytes that were freed.                     *)
ReportedIsFreed == reported = freed

(* The promise of AtomicArchive: a reader's view is what its mapping shows *)
(* now, so a change of a mapped inode is a step the promise does not have. *)
ViewOf(t) == IF pc[t] = "body" THEN FileOf(seen[t].inode) ELSE Nothing

Promise == INSTANCE AtomicArchive
    WITH Readers <- Tasks, file <- FileOf(path), view <- [t \in Tasks |-> ViewOf(t)]

ImplementsAtomicArchive == Promise!Spec /\ []ReportedIsFreed

(* Two tasks are never at work on the file, nor one beside a response.     *)
WritersExclude == \A s \in Writing, t \in Writing \cup Reading : s = t

=============================================================================
