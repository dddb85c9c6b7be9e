----------------------------- MODULE PartsProofs ----------------------------
(* Proofs about the parts of MCParts: each part has its own inductive      *)
(* invariant, and a section of its own (those of the services are in       *)
(* ServicesProofs); the last section takes the results to the behaviours   *)
(* of all parts, PartsSpec.                                                *)
EXTENDS ServicesProofs, Integers

-----------------------------------------------------------------------------
(* The archives and their locks (ArchiveStorage).                          *)

Inodes == [section : {Nothing} \cup Versions, edits : Nat]
Files == [version : Versions, section : {Nothing} \cup Versions, edits : Nat]

(* Nothing is not a file, nor the number of one.                           *)
NothingIsFresh == Nothing \notin Files \cup Versions

-----------------------------------------------------------------------------
(* The invariant.                                                          *)

ArchiveShapes ==
    /\ published \in Nat
    /\ path \in {Nothing} \cup Versions
    /\ inodes \in [Versions -> Inodes]
    /\ op \in [Tasks -> Exclusive \cup {"none", "read"}]
    /\ pc \in [Tasks -> {"idle", "wait", "hold", "write", "body"}]
    /\ seen \in [Tasks -> [inode : {Nothing} \cup Versions, expected : {Nothing} \cup Files]]

(* An inode that was not published yet is as it will be sealed.            *)
FreshInodes == \A v \in Versions : v > published => inodes[v] = Sealed

(* What is at the path was published, and so was what a task has open.     *)
OpenedInodes ==
    /\ path # Nothing => path <= published
    /\ \A t \in Tasks : pc[t] \in {"write", "body"} =>
         seen[t].inode \in Versions /\ seen[t].inode <= published

(* A task that writes has an edit to make, and an append to the archive    *)
(* that it expected.                                                       *)
EditsAreExpected ==
    \A t \in Tasks :
        /\ pc[t] = "write" => op[t] \in {"append", "annotate"}
        /\ pc[t] = "write" /\ op[t] = "append" =>
             seen[t].expected = FileOf(seen[t].inode)

ArchiveInv == ArchiveShapes /\ FreshInodes /\ OpenedInodes /\ EditsAreExpected /\ WritersExclude

-----------------------------------------------------------------------------
(* Inductiveness.                                                          *)

LEMMA InitArchiveInv == Init => ArchiveInv
  BY
  DEF Init, ArchiveInv, ArchiveShapes, FreshInodes, OpenedInodes, EditsAreExpected, WritersExclude,
         Inodes, Sealed, NoSeen, Writing, Reading, Exclusive

LEMMA FileShape ==
  ASSUME ArchiveShapes, NEW i \in {Nothing} \cup Versions
  PROVE  FileOf(i) \in {Nothing} \cup Files
  BY DEF ArchiveShapes, FileOf, Files, Inodes

LEMMA CallKeepsArchiveInv ==
  ASSUME ArchiveInv, NEW t \in Tasks, NEW o \in Exclusive \cup {"read"}, Call(t, o)
  PROVE  ArchiveInv'
<1>1. FileOf(path) \in {Nothing} \cup Files
  BY FileShape DEF ArchiveInv, ArchiveShapes
<1>2. ArchiveShapes'
  <2>1. seen' \in [Tasks -> [inode : {Nothing} \cup Versions, expected : {Nothing} \cup Files]]
    BY <1>1 DEF ArchiveInv, ArchiveShapes, Call
  <2>2. QED BY <2>1 DEF ArchiveInv, ArchiveShapes, Call, Exclusive
<1>3. \A s \in Tasks : pc'[s] \in {"hold", "write", "body"} =>
         s # t /\ pc'[s] = pc[s] /\ op'[s] = op[s] /\ seen'[s] = seen[s]
  BY DEF ArchiveInv, ArchiveShapes, Call
<1>4. QED
  BY <1>2, <1>3
  DEF ArchiveInv, ArchiveShapes, FreshInodes, OpenedInodes, EditsAreExpected, WritersExclude,
                    Writing, Reading, FileOf, Call

(* A task that returns has nothing open and gives its lock back.           *)
LEMMA ReturnKeepsOthers ==
  ASSUME ArchiveInv, NEW t \in Tasks, Return(t)
  PROVE  /\ pc' \in [Tasks -> {"idle", "wait", "hold", "write", "body"}]
         /\ op' \in [Tasks -> Exclusive \cup {"none", "read"}]
         /\ seen' \in [Tasks -> [inode : {Nothing} \cup Versions, expected : {Nothing} \cup Files]]
         /\ pc'[t] = "idle"
         /\ \A s \in Tasks : s # t => pc'[s] = pc[s] /\ op'[s] = op[s] /\ seen'[s] = seen[s]
  BY DEF ArchiveInv, ArchiveShapes, Return, NoSeen

LEMMA LockKeepsArchiveInv ==
  ASSUME ArchiveInv, NEW t \in Tasks, Lock(t)
  PROVE  ArchiveInv'
<1>1. ArchiveShapes'
  BY DEF ArchiveInv, ArchiveShapes, Lock, Exclusive
<1>2. /\ pc'[t] = "hold"
      /\ \A s \in Tasks : s # t => pc'[s] = pc[s] /\ pc[s] \notin {"hold", "write", "body"}
  BY DEF ArchiveInv, ArchiveShapes, Lock, Free, Writing, Reading
<1>3. QED
  BY <1>1, <1>2
  DEF ArchiveInv, ArchiveShapes, FreshInodes, OpenedInodes, EditsAreExpected, WritersExclude,
                    Writing, Reading, FileOf, Lock

LEMMA PublishKeepsArchiveInv ==
  ASSUME ArchiveInv, MaxVersions \in Nat, NothingIsFresh, NEW t \in Tasks, Publish(t)
  PROVE  ArchiveInv'
<1>1. /\ published' \in Nat /\ published <= published'
      /\ path' \in {Nothing} \cup Versions
      /\ path' # Nothing => path' <= published'
      /\ UNCHANGED inodes
  BY DEF ArchiveInv, ArchiveShapes, OpenedInodes, Publish, Versions
<1>2. ArchiveShapes'
  BY <1>1, ReturnKeepsOthers DEF ArchiveInv, ArchiveShapes, Publish
<1>3. \A s \in Tasks : s # t => pc[s] \notin {"hold", "write", "body"}
  BY DEF ArchiveInv, ArchiveShapes, WritersExclude, Writing, Reading, Publish
<1>4. \A s \in Tasks : pc'[s] \notin {"hold", "write", "body"}
  BY <1>3, ReturnKeepsOthers DEF Publish
<1>5. FreshInodes'
  BY <1>1 DEF ArchiveInv, ArchiveShapes, FreshInodes, Versions, Sealed
<1>6. QED
  BY <1>1, <1>2, <1>4, <1>5
     DEF ArchiveInv, OpenedInodes, EditsAreExpected, WritersExclude, Writing, Reading

LEMMA BeginEditKeepsArchiveInv ==
  ASSUME ArchiveInv, NothingIsFresh, NEW t \in Tasks, BeginEdit(t)
  PROVE  ArchiveInv'
<1>1. /\ path \in Versions /\ path <= published
      /\ op[t] = "append" => seen[t].expected = FileOf(path)
      /\ op[t] \in {"append", "annotate"}
  BY DEF ArchiveInv, ArchiveShapes, OpenedInodes, BeginEdit, Expected
<1>2. seen' \in [Tasks -> [inode : {Nothing} \cup Versions, expected : {Nothing} \cup Files]]
  BY <1>1 DEF ArchiveInv, ArchiveShapes, BeginEdit
<1>3. /\ pc'[t] = "write" /\ seen'[t].inode = path /\ seen'[t].expected = seen[t].expected
      /\ \A s \in Tasks : s # t => pc'[s] = pc[s] /\ seen'[s] = seen[s]
  BY DEF ArchiveInv, ArchiveShapes, BeginEdit
<1>4. pc' \in [Tasks -> {"idle", "wait", "hold", "write", "body"}]
  BY DEF ArchiveInv, ArchiveShapes, BeginEdit
<1>5. \A s \in Tasks : s # t => pc[s] \notin {"hold", "write", "body"}
  BY DEF ArchiveInv, ArchiveShapes, WritersExclude, Writing, Reading, BeginEdit
<1>6. ArchiveShapes'
  BY <1>2, <1>4 DEF ArchiveInv, ArchiveShapes, BeginEdit
<1>7. OpenedInodes' /\ FreshInodes'
  BY <1>1, <1>3, <1>5 DEF ArchiveInv, OpenedInodes, FreshInodes, BeginEdit, Sealed
<1>8. EditsAreExpected'
  <2>1. FileOf(path)' = FileOf(path)
    BY DEF FileOf, BeginEdit
  <2>2. QED BY <1>1, <1>3, <1>5, <2>1 DEF ArchiveInv, EditsAreExpected, FileOf, BeginEdit
<1>9. WritersExclude'
  BY <1>3, <1>5 DEF WritersExclude, Writing, Reading
<1>10. QED BY <1>6, <1>7, <1>8, <1>9 DEF ArchiveInv

(* A task that returns and leaves the files alone.                         *)
LEMMA ReturnKeepsArchiveInv ==
  ASSUME ArchiveInv, NEW t \in Tasks, Return(t), UNCHANGED <<path, inodes, published>>
  PROVE  ArchiveInv'
<1>1. ArchiveShapes'
  BY ReturnKeepsOthers DEF ArchiveInv, ArchiveShapes
<1>2. OpenedInodes' /\ FreshInodes'
  BY ReturnKeepsOthers DEF ArchiveInv, OpenedInodes, FreshInodes, Sealed
<1>3. EditsAreExpected'
  BY ReturnKeepsOthers, ZenonT(40) DEF ArchiveInv, EditsAreExpected, FileOf
<1>4. WritersExclude'
  BY ReturnKeepsOthers DEF ArchiveInv, WritersExclude, Writing, Reading
<1>5. QED BY <1>1, <1>2, <1>3, <1>4 DEF ArchiveInv

LEMMA FinalizeKeepsArchiveInv ==
  ASSUME ArchiveInv, NothingIsFresh, NEW t \in Tasks, Finalize(t)
  PROVE  ArchiveInv'
<1>1. /\ seen[t].inode \in Versions /\ seen[t].inode <= published
      /\ pc[t] = "write" /\ op[t] \in {"append", "annotate"}
      /\ op[t] = "append" => seen[t].expected = FileOf(seen[t].inode)
  BY DEF ArchiveInv, OpenedInodes, EditsAreExpected, Finalize
<1>2. op[t] = "append" => seen[t].expected.version \in Versions
  BY <1>1 DEF FileOf, NothingIsFresh
<1>3. inodes' \in [Versions -> Inodes]
  <2> DEFINE i == seen[t].inode
             edited == [section |-> IF op[t] = "append" THEN seen[t].expected.version
                                    ELSE inodes[i].section,
                        edits |-> inodes[i].edits + 1]
  <2>1. edited \in Inodes
    BY <1>1, <1>2 DEF ArchiveInv, ArchiveShapes, Inodes
  <2>2. inodes' = [inodes EXCEPT ![i] = edited]
    BY DEF Finalize
  <2>3. QED BY <1>1, <2>1, <2>2 DEF ArchiveInv, ArchiveShapes
<1>4. ArchiveShapes'
  BY <1>3, ReturnKeepsOthers DEF ArchiveInv, ArchiveShapes, Finalize
<1>5. \A s \in Tasks : s # t => pc[s] \notin {"hold", "write", "body"}
  BY <1>1 DEF ArchiveInv, WritersExclude, Writing, Reading
<1>6. \A s \in Tasks : pc'[s] \notin {"hold", "write", "body"}
  BY <1>5, ReturnKeepsOthers DEF Finalize
<1>7. FreshInodes'
  BY <1>1 DEF ArchiveInv, ArchiveShapes, FreshInodes, Finalize, Versions, Sealed
<1>8. OpenedInodes'
  BY <1>6 DEF ArchiveInv, OpenedInodes, Finalize
<1>9. QED BY <1>4, <1>6, <1>7, <1>8
          DEF ArchiveInv, EditsAreExpected, WritersExclude, Writing, Reading

LEMMA RemoveKeepsArchiveInv ==
  ASSUME ArchiveInv, NEW t \in Tasks, Remove(t)
  PROVE  ArchiveInv'
<1>1. ArchiveShapes'
  BY ReturnKeepsOthers DEF ArchiveInv, ArchiveShapes, Remove
<1>2. OpenedInodes' /\ FreshInodes'
  BY ReturnKeepsOthers DEF ArchiveInv, OpenedInodes, FreshInodes, Sealed, Remove
<1>3. EditsAreExpected'
  BY ReturnKeepsOthers, ZenonT(40) DEF ArchiveInv, EditsAreExpected, FileOf, Remove
<1>4. WritersExclude'
  BY ReturnKeepsOthers DEF ArchiveInv, WritersExclude, Writing, Reading, Remove
<1>5. QED BY <1>1, <1>2, <1>3, <1>4 DEF ArchiveInv

LEMMA MapKeepsArchiveInv ==
  ASSUME ArchiveInv, NothingIsFresh, NEW t \in Tasks, Map(t)
  PROVE  ArchiveInv'
<1>1. CASE path = Nothing
  BY <1>1, ReturnKeepsArchiveInv DEF Map
<1>2. CASE path # Nothing
  <2>1. path \in Versions /\ path <= published
    BY <1>2 DEF ArchiveInv, ArchiveShapes, OpenedInodes
  <2>2. /\ pc'[t] = "body" /\ seen'[t].inode = path
        /\ \A s \in Tasks : s # t => pc'[s] = pc[s] /\ seen'[s] = seen[s]
    BY <1>2 DEF ArchiveInv, ArchiveShapes, Map
  <2>3. ArchiveShapes'
    BY <1>2, <2>1, SMTT(30) DEF ArchiveInv, ArchiveShapes, Map
  <2>4. OpenedInodes' /\ FreshInodes'
    BY <1>2, <2>1, <2>2 DEF ArchiveInv, OpenedInodes, FreshInodes, Map, Sealed
  <2>5. EditsAreExpected'
    BY <1>2, <2>2 DEF ArchiveInv, EditsAreExpected, FileOf, Map
  <2>6. WritersExclude'
    BY <1>2, <2>2 DEF ArchiveInv, WritersExclude, Writing, Reading, Map
  <2>7. QED BY <2>3, <2>4, <2>5, <2>6 DEF ArchiveInv
<1>3. QED BY <1>1, <1>2

LEMMA RemoveUnlockedKeepsArchiveInv ==
  ASSUME ArchiveInv, RemoveUnlocked
  PROVE  ArchiveInv'
<1>1. ArchiveShapes'
  BY DEF ArchiveInv, ArchiveShapes, RemoveUnlocked
<1>2. QED
  BY <1>1 DEF ArchiveInv, OpenedInodes, FreshInodes, EditsAreExpected, WritersExclude, Writing,
              Reading, FileOf, Sealed, RemoveUnlocked

LEMMA RestartKeepsArchiveInv ==
  ASSUME ArchiveInv, Restart
  PROVE  ArchiveInv'
<1>1. ArchiveShapes'
  BY DEF ArchiveInv, ArchiveShapes, Restart, NoSeen
<1>2. \A s \in Tasks : pc'[s] = "idle"
  BY DEF Restart
<1>3. QED
  BY <1>1, <1>2
  DEF ArchiveInv, OpenedInodes, FreshInodes, EditsAreExpected, WritersExclude, Writing,
                    Reading, Sealed, Restart

LEMMA NextKeepsArchiveInv ==
  ASSUME MaxVersions \in Nat, NothingIsFresh, ArchiveInv, [Next]_vars
  PROVE  ArchiveInv'
<1>1. ASSUME NEW t \in Tasks, TaskStep(t)
      PROVE  ArchiveInv'
  <2>1. CASE Lock(t)
    BY <2>1, LockKeepsArchiveInv
  <2>2. CASE Publish(t)
    BY <2>2, PublishKeepsArchiveInv
  <2>3. CASE BeginEdit(t)
    BY <2>3, BeginEditKeepsArchiveInv
  <2>4. CASE EditFails(t)
    BY <2>4, ReturnKeepsArchiveInv DEF EditFails
  <2>5. CASE Finalize(t)
    BY <2>5, FinalizeKeepsArchiveInv
  <2>6. CASE Remove(t)
    BY <2>6, RemoveKeepsArchiveInv
  <2>7. CASE Map(t)
    BY <2>7, MapKeepsArchiveInv
  <2>8. CASE DropBody(t)
    BY <2>8, ReturnKeepsArchiveInv DEF DropBody
  <2>9. QED BY <1>1, <2>1, <2>2, <2>3, <2>4, <2>5, <2>6, <2>7, <2>8 DEF TaskStep
<1>2. CASE UNCHANGED vars
  BY <1>2
  DEF vars, ArchiveInv, ArchiveShapes, OpenedInodes, FreshInodes, EditsAreExpected, WritersExclude,
              Writing, Reading, FileOf, Sealed
<1>3. QED
  BY <1>1, <1>2, CallKeepsArchiveInv, RemoveUnlockedKeepsArchiveInv, RestartKeepsArchiveInv DEF Next

LEMMA ArchiveInvHolds ==
  ASSUME MaxVersions \in Nat, NothingIsFresh
  PROVE  Spec => []ArchiveInv
<1>1. ArchiveInv /\ [Next]_vars => ArchiveInv'
  BY NextKeepsArchiveInv
<1>2. QED BY <1>1, InitArchiveInv, PTL DEF Spec

-----------------------------------------------------------------------------
(* The refinement: what each step is to AtomicArchive.                     *)

views == [t \in Tasks |-> ViewOf(t)]

LEMMA FileIsSomething ==
  ASSUME ArchiveShapes, NothingIsFresh, NEW i \in Versions
  PROVE  FileOf(i) # Nothing
<1>1. FileOf(i) \in Files
  BY DEF ArchiveShapes, FileOf, Files, Inodes, NothingIsFresh
<1>2. QED BY <1>1 DEF NothingIsFresh

(* While a task writes, nobody was given a view.                           *)
LEMMA WritersHaveNoViewers ==
  ASSUME ArchiveInv, NEW t \in Writing
  PROVE  views = [s \in Tasks |-> Nothing]
  BY DEF ArchiveInv, WritersExclude, Writing, Reading, views, ViewOf

(* A task that returns without a view of its own changes no view.          *)
LEMMA ReturnKeepsViews ==
  ASSUME ArchiveInv, NEW t \in Tasks, Return(t), pc[t] # "body", UNCHANGED inodes
  PROVE  UNCHANGED views
  BY ReturnKeepsOthers DEF ArchiveInv, views, ViewOf, FileOf

LEMMA PublishRefines ==
  ASSUME ArchiveInv, MaxVersions \in Nat, NothingIsFresh, NEW t \in Tasks, Publish(t)
  PROVE  Promise!Replace \/ UNCHANGED <<FileOf(path), views>>
<1>1. UNCHANGED views
  BY ReturnKeepsViews DEF Publish
<1>2. CASE UNCHANGED path
  BY <1>1, <1>2 DEF Publish, FileOf
<1>3. CASE path' = published + 1 /\ published < MaxVersions
  <2>1. /\ path' \in Versions /\ path' > published
        /\ inodes[path'] = Sealed
    BY <1>3 DEF ArchiveInv, ArchiveShapes, FreshInodes, Versions
  <2>2. FileOf(path)' = [version |-> path', section |-> Nothing, edits |-> 0]
    BY <2>1 DEF FileOf, Sealed, Publish, NothingIsFresh
  <2>3. QED BY <1>1, <2>1, <2>2 DEF Promise!Replace, views
<1>4. QED BY <1>2, <1>3 DEF Publish

LEMMA FinalizeRefines ==
  ASSUME ArchiveInv, NothingIsFresh, NEW t \in Tasks, Finalize(t)
  PROVE  Promise!Extend \/ Promise!Annotate \/ UNCHANGED <<FileOf(path), views>>
<1>1. /\ seen[t].inode \in Versions /\ t \in Writing
      /\ pc[t] = "write" /\ op[t] \in {"append", "annotate"}
      /\ op[t] = "append" => seen[t].expected = FileOf(seen[t].inode)
  BY DEF ArchiveInv, OpenedInodes, EditsAreExpected, Writing, Finalize
<1>2. \A s \in Tasks : pc'[s] # "body"
  BY <1>1, ReturnKeepsOthers DEF ArchiveInv, WritersExclude, Writing, Reading, Finalize
<1>3. UNCHANGED views
  <2>1. views' = [s \in Tasks |-> Nothing]
    BY <1>2 DEF views, ViewOf
  <2>2. QED BY <1>1, <2>1, WritersHaveNoViewers
<1>4. CASE path # seen[t].inode
  <2>1. FileOf(path)' = FileOf(path)
    BY <1>1, <1>4 DEF ArchiveInv, ArchiveShapes, FileOf, Finalize, Versions
  <2>2. QED BY <1>3, <2>1
<1>5. CASE path = seen[t].inode
  <2> DEFINE section == IF op[t] = "append" THEN path ELSE inodes[path].section
  <2>1. FileOf(path) # Nothing
    BY <1>1, <1>5, FileIsSomething DEF ArchiveInv
  <2>2. op[t] = "append" => seen[t].expected.version = path
    BY <1>1, <1>5 DEF FileOf, NothingIsFresh
  <2>3. inodes'[path] = [section |-> section, edits |-> inodes[path].edits + 1]
    BY <1>1, <1>5, <2>2 DEF ArchiveInv, ArchiveShapes, Finalize
  <2>4. /\ FileOf(path) = [version |-> path, section |-> inodes[path].section,
                           edits |-> inodes[path].edits]
        /\ FileOf(path)' = [version |-> path, section |-> section,
                            edits |-> inodes[path].edits + 1]
    BY <1>1, <1>5, <2>3 DEF FileOf, Finalize, NothingIsFresh
  <2>5. CASE op[t] = "append"
    <3>1. /\ FileOf(path).version = path /\ FileOf(path).edits = inodes[path].edits
          /\ FileOf(path)' = [version |-> path, section |-> path, edits |-> inodes[path].edits + 1]
      BY <2>4, <2>5
    <3>2. QED BY <1>3, <2>1, <3>1 DEF Promise!Extend, views
  <2>6. CASE op[t] = "annotate"
    <3>1. FileOf(path)' = [FileOf(path) EXCEPT !.edits = @ + 1]
      BY <2>4, <2>6
    <3>2. QED BY <1>3, <2>1, <3>1 DEF Promise!Annotate, views
  <2>7. QED BY <1>1, <2>5, <2>6
<1>6. QED BY <1>4, <1>5

LEMMA RemoveRefines ==
  ASSUME ArchiveInv, NEW t \in Tasks, Remove(t)
  PROVE  Promise!Erase \/ UNCHANGED <<FileOf(path), views>>
<1>1. UNCHANGED views
  BY ReturnKeepsViews DEF Remove
<1>2. FileOf(path)' = Nothing
  BY DEF FileOf, Remove
<1>3. QED BY <1>1, <1>2 DEF Promise!Erase, views

LEMMA MapRefines ==
  ASSUME ArchiveInv, NothingIsFresh, NEW t \in Tasks, Map(t)
  PROVE  Promise!Open(t) \/ UNCHANGED <<FileOf(path), views>>
<1>1. FileOf(path)' = FileOf(path)
  BY DEF FileOf, Map
<1>2. CASE path = Nothing
  <2>1. UNCHANGED views
    BY <1>2, ReturnKeepsViews DEF Map
  <2>2. QED BY <1>1, <2>1
<1>3. CASE path # Nothing
  <2>1. FileOf(path) # Nothing
    BY <1>3, FileIsSomething DEF ArchiveInv, ArchiveShapes
  <2>2. /\ pc'[t] = "body" /\ seen'[t].inode = path
        /\ \A s \in Tasks : s # t => pc'[s] = pc[s] /\ seen'[s] = seen[s]
    BY <1>3 DEF ArchiveInv, ArchiveShapes, Map
  <2>3. views[t] = Nothing
    BY DEF views, ViewOf, Map
  <2>4. views' = [views EXCEPT ![t] = FileOf(path)]
    BY <2>2 DEF views, ViewOf, FileOf, Map
  <2>5. QED BY <1>1, <2>1, <2>3, <2>4 DEF Promise!Open, views
<1>4. QED BY <1>2, <1>3

LEMMA DropBodyRefines ==
  ASSUME ArchiveInv, NothingIsFresh, NEW t \in Tasks, DropBody(t)
  PROVE  Promise!Close(t)
<1>1. FileOf(path)' = FileOf(path)
  BY DEF FileOf, DropBody
<1>2. views[t] # Nothing
  <2>1. seen[t].inode \in Versions
    BY DEF ArchiveInv, OpenedInodes, DropBody
  <2>2. QED BY <2>1, FileIsSomething DEF ArchiveInv, views, ViewOf, DropBody
<1>3. views' = [views EXCEPT ![t] = Nothing]
  BY ReturnKeepsOthers DEF views, ViewOf, FileOf, DropBody
<1>4. QED BY <1>1, <1>2, <1>3 DEF Promise!Close, views

LEMMA InitRefines == Init => Promise!Init
  BY DEF Init, Promise!Init, FileOf, ViewOf

(* Every step is one of the promise, or none.                              *)
LEMMA NextRefines ==
  ASSUME MaxVersions \in Nat, NothingIsFresh, ArchiveInv, [Next]_vars
  PROVE  [Promise!Next]_<<FileOf(path), views>>
<1>1. ASSUME NEW t \in Tasks, TaskStep(t)
      PROVE  Promise!Next \/ UNCHANGED <<FileOf(path), views>>
  <2>1. CASE Lock(t) \/ BeginEdit(t)
    <3>1. UNCHANGED views
      BY <2>1 DEF ArchiveInv, ArchiveShapes, Lock, BeginEdit, views, ViewOf, FileOf
    <3>2. QED BY <2>1, <3>1 DEF Lock, BeginEdit, FileOf
  <2>2. CASE Publish(t)
    BY <2>2, PublishRefines DEF Promise!Next
  <2>3. CASE EditFails(t)
    <3>1. UNCHANGED views
      BY <2>3, ReturnKeepsViews DEF EditFails
    <3>2. QED BY <2>3, <3>1 DEF EditFails, FileOf
  <2>4. CASE Finalize(t)
    BY <2>4, FinalizeRefines DEF Promise!Next
  <2>5. CASE Remove(t)
    BY <2>5, RemoveRefines DEF Promise!Next
  <2>6. CASE Map(t)
    BY <2>6, MapRefines DEF Promise!Next
  <2>7. CASE DropBody(t)
    BY <2>7, DropBodyRefines DEF Promise!Next
  <2>8. QED BY <1>1, <2>1, <2>2, <2>3, <2>4, <2>5, <2>6, <2>7 DEF TaskStep
<1>2. ASSUME NEW t \in Tasks, NEW o \in Exclusive \cup {"read"}, Call(t, o)
      PROVE  UNCHANGED <<FileOf(path), views>>
  <2>1. \A s \in Tasks : pc'[s] = "body" <=> pc[s] = "body"
    BY <1>2 DEF ArchiveInv, ArchiveShapes, Call
  <2>2. \A s \in Tasks : pc[s] = "body" => seen'[s] = seen[s]
    BY <1>2 DEF ArchiveInv, ArchiveShapes, Call
  <2>3. QED BY <1>2, <2>1, <2>2 DEF Call, views, ViewOf, FileOf
<1>3. CASE RemoveUnlocked
  <2>1. UNCHANGED views
    BY <1>3 DEF RemoveUnlocked, views, ViewOf, FileOf
  <2>2. FileOf(path)' = Nothing
    BY <1>3 DEF RemoveUnlocked, FileOf
  <2>3. QED BY <2>1, <2>2 DEF Promise!Next, Promise!Erase, views
<1>4. CASE Restart
  <2>1. views' = [t \in Tasks |-> Nothing]
    BY <1>4 DEF Restart, views, ViewOf
  <2>2. FileOf(path)' = FileOf(path)
    BY <1>4 DEF Restart, FileOf
  <2>3. QED BY <2>1, <2>2 DEF Promise!Next, Promise!Restart, views
<1>5. CASE UNCHANGED vars
  BY <1>5 DEF vars, views, ViewOf, FileOf
<1>6. QED BY <1>1, <1>2, <1>3, <1>4, <1>5 DEF Next

(* Two deletes of one archive report its size once, so the storage count   *)
(* gives no bytes back twice (remove, storage lib.rs).                     *)
THEOREM RemovalsAreReportedOnce == Spec => []ReportedIsFreed
<1>1. Init => ReportedIsFreed
  BY DEF Init, ReportedIsFreed
<1>2. ReportedIsFreed /\ [Next]_vars => ReportedIsFreed'
  BY DEF ReportedIsFreed, Next, vars, TaskStep, Call, Lock, Publish, BeginEdit, EditFails,
         Finalize, Remove, SizeKnown, Map, DropBody, RemoveUnlocked, Restart
<1>3. QED BY <1>1, <1>2, PTL DEF Spec

(* The archive at a path is replaced, extended, annotated and erased in    *)
(* one step, an extension is made from the pages it is added to, and what  *)
(* a response was given never changes while it is sent (storage, lib.rs).  *)
THEOREM ArchiveIsAtomic ==
  ASSUME MaxVersions \in Nat, NothingIsFresh
  PROVE  Spec => ImplementsAtomicArchive
<1>1. ArchiveInv /\ [Next]_vars => [Promise!Next]_<<FileOf(path), views>>
  BY NextRefines
<1>2. Spec => Promise!Spec
  BY <1>1, InitRefines, ArchiveInvHolds, PTL DEF Spec, Promise!Spec, views
<1>3. QED BY <1>2, RemovalsAreReportedOnce DEF ImplementsAtomicArchive

(* A task at work on the file, under the exclusive lock, is alone with it: *)
(* no other is, and no response is being sent from it.                     *)
THEOREM WritersAreAlone ==
  ASSUME MaxVersions \in Nat, NothingIsFresh
  PROVE  Spec => []WritersExclude
<1>1. ArchiveInv => WritersExclude
  BY DEF ArchiveInv
<1>2. QED BY <1>1, ArchiveInvHolds, PTL

-----------------------------------------------------------------------------
(* The pages of a downloaded chapter (DownloadedPages).                    *)

Reader == [at : {"idle", "resolve", "read", "lookup", "convert", "answered"},
           asked : Downloaded!Variants \cup {"any"}, format : Downloaded!Formats,
           skip : BOOLEAN, page : Downloaded!Anything, body : Downloaded!Anything]

DownloadedShapes ==
    /\ archive \in [content : 0 .. MaxContents, upscaled : BOOLEAN]
    /\ contents \in 0 .. MaxContents /\ row \in BOOLEAN
    /\ converted \in [Downloaded!Keys -> Downloaded!Anything]
    /\ reading \in [Readers -> Reader]
    /\ had \in [Readers -> SUBSET Downloaded!PagesThere]

(* A conversion is kept under the key of the page it was made of.          *)
ConvertedByKey ==
    \A p \in Downloaded!PagesThere, f \in Downloaded!Formats :
        converted[Downloaded!Key(p, f)] \in {Downloaded!NoPage, p}

(* A request knows what the archive holds, and the page it chose was held. *)
Chosen(q, held) ==
    /\ q.at \in {"lookup", "convert", "answered"} =>
          q.page \in held /\ (q.asked # "any" => q.page[2] = q.asked)
    /\ q.at = "answered" => q.body = q.page

ReaderInv(r) ==
    /\ reading[r].at # "idle" => Downloaded!Held \subseteq had[r]
    /\ Chosen(reading[r], had[r])

DownloadedInv ==
    /\ DownloadedShapes /\ ConvertedByKey
    /\ \A r \in Readers : ReaderInv(r)

LEMMA HeldIsThere ==
    ASSUME DownloadedShapes, MaxContents \in Nat
    PROVE  Downloaded!Held \subseteq Downloaded!PagesThere
BY DEF DownloadedShapes, Downloaded!Held, Downloaded!PagesThere, Downloaded!Variants

LEMMA NotReadingIsShaped == Downloaded!NotReading \in Reader /\ Downloaded!NotReading.at = "idle"
BY DEF Downloaded!NotReading, Reader, Downloaded!Variants, Downloaded!Formats,
       Downloaded!Anything, Downloaded!NoPage

LEMMA InitDownloadedInv == ASSUME MaxContents \in Nat PROVE Downloaded!Init => DownloadedInv
<1> SUFFICES ASSUME Downloaded!Init PROVE DownloadedInv
  OBVIOUS
<1>1. DownloadedShapes
  <2>1. archive = [content |-> 0, upscaled |-> FALSE] /\ contents = 0 /\ row = FALSE
    BY DEF Downloaded!Init, Downloaded!NoArchive
  <2>2. converted \in [Downloaded!Keys -> Downloaded!Anything]
    BY DEF Downloaded!Init, Downloaded!Anything
  <2>3. reading \in [Readers -> Reader]
    BY NotReadingIsShaped DEF Downloaded!Init
  <2>4. had \in [Readers -> SUBSET Downloaded!PagesThere]
    BY DEF Downloaded!Init
  <2>5. archive \in [content : 0 .. MaxContents, upscaled : BOOLEAN]
            /\ contents \in 0 .. MaxContents
    BY <2>1
  <2> QED BY <2>1, <2>2, <2>3, <2>4, <2>5 DEF DownloadedShapes
<1>2. ConvertedByKey
  BY DEF Downloaded!Init, ConvertedByKey, Downloaded!Keys
<1>3. \A r \in Readers : ReaderInv(r)
  BY NotReadingIsShaped DEF Downloaded!Init, ReaderInv, Chosen
<1> QED BY <1>1, <1>2, <1>3 DEF DownloadedInv

(* The archive changes, and every request notes what it holds.             *)
LEMMA ArchiveChanges ==
    ASSUME DownloadedInv, MaxContents \in Nat,
           archive' \in [content : 0 .. MaxContents, upscaled : BOOLEAN],
           contents' \in 0 .. MaxContents,
           Downloaded!Noted, UNCHANGED <<row, converted, reading>>
    PROVE  DownloadedInv'
<1> USE DEF DownloadedInv
<1>1. Downloaded!Held' \subseteq Downloaded!PagesThere
  BY DEF Downloaded!Held, Downloaded!PagesThere, Downloaded!Variants
<1>2. DownloadedShapes'
  BY <1>1 DEF DownloadedShapes, Downloaded!Noted
<1>3. ConvertedByKey'
  BY DEF ConvertedByKey
<1>4. ASSUME NEW r \in Readers PROVE ReaderInv(r)'
  <2>1. CASE reading[r].at = "idle"
    BY <2>1 DEF ReaderInv, Chosen
  <2>2. CASE reading[r].at # "idle"
    <3>1. had'[r] = had[r] \cup Downloaded!Held'
      BY <2>2 DEF Downloaded!Noted
    <3> QED BY <2>2, <3>1 DEF ReaderInv, Chosen
  <2> QED BY <2>1, <2>2
<1> QED BY <1>2, <1>3, <1>4

(* A request goes on by itself.                                            *)
LEMMA ReaderGoes ==
    ASSUME DownloadedInv, NEW r \in Readers, NEW to \in Reader,
           reading' = [reading EXCEPT ![r] = to], UNCHANGED <<archive, contents, row, had>>,
           reading[r].at # "idle", Chosen(to, had[r]),
           converted' \in [Downloaded!Keys -> Downloaded!Anything], ConvertedByKey'
    PROVE  DownloadedInv'
<1> USE DEF DownloadedInv
<1>1. DownloadedShapes'
  BY DEF DownloadedShapes
<1>2. \A s \in Readers : reading'[s] = IF s = r THEN to ELSE reading[s]
  BY DEF DownloadedShapes
<1>3. Downloaded!Held' = Downloaded!Held
  BY DEF Downloaded!Held
<1>4. ASSUME NEW s \in Readers PROVE ReaderInv(s)'
  BY <1>2, <1>3 DEF ReaderInv
<1> QED BY <1>1, <1>4

LEMMA RefuseKeeps ==
    ASSUME DownloadedInv, NEW r \in Readers, Downloaded!Refuse(r), reading[r].at # "idle",
           UNCHANGED <<archive, contents, row, had, converted>>
    PROVE  DownloadedInv'
<1>1. Chosen(Downloaded!NotReading, had[r])
  BY NotReadingIsShaped DEF Chosen
<1>2. converted' \in [Downloaded!Keys -> Downloaded!Anything] /\ ConvertedByKey'
  BY DEF DownloadedInv, DownloadedShapes, ConvertedByKey
<1> QED BY <1>1, <1>2, NotReadingIsShaped, ReaderGoes DEF Downloaded!Refuse

LEMMA RequestKeeps ==
    ASSUME DownloadedInv, MaxContents \in Nat, NEW r \in Readers, Downloaded!Request(r)
    PROVE  DownloadedInv'
<1> USE DEF DownloadedInv
<1>1. PICK wanted \in Downloaded!Variants \cup {"any"}, f \in Downloaded!Formats, skip \in BOOLEAN :
        reading' = [reading EXCEPT ![r] =
            [Downloaded!NotReading EXCEPT !.at = "resolve", !.asked = wanted, !.format = f,
                                          !.skip = skip]]
  BY DEF Downloaded!Request
<1> DEFINE to == [Downloaded!NotReading EXCEPT !.at = "resolve", !.asked = wanted, !.format = f,
                                               !.skip = skip]
<1>2. to \in Reader /\ to.at = "resolve"
  BY NotReadingIsShaped DEF Reader
<1> HIDE DEF to
<1>3. /\ reading' = [reading EXCEPT ![r] = to]
      /\ had' = [had EXCEPT ![r] = Downloaded!Held]
      /\ UNCHANGED <<archive, contents, row, converted>>
  BY <1>1 DEF Downloaded!Request, to
<1>4. DownloadedShapes'
  BY <1>2, <1>3, HeldIsThere DEF DownloadedShapes
<1>5. ConvertedByKey'
  BY <1>3 DEF ConvertedByKey
<1>6. ASSUME NEW s \in Readers PROVE ReaderInv(s)'
  <2>1. CASE s = r
    <3>1. reading'[s] = to /\ had'[s] = Downloaded!Held
      BY <1>3, <2>1 DEF DownloadedShapes
    <3> QED BY <1>2, <1>3, <3>1 DEF ReaderInv, Chosen, Downloaded!Held
  <2>2. CASE s # r
    <3>1. reading'[s] = reading[s] /\ had'[s] = had[s]
      BY <1>3, <2>2 DEF DownloadedShapes
    <3> QED BY <1>3, <3>1 DEF ReaderInv, Chosen, Downloaded!Held
  <2> QED BY <2>1, <2>2
<1> QED BY <1>4, <1>5, <1>6

LEMMA ResolveKeeps ==
    ASSUME DownloadedInv, NEW r \in Readers, Downloaded!Resolve(r)
    PROVE  DownloadedInv'
<1> USE DEF Downloaded!Resolve
<1>1. CASE Downloaded!Refuse(r)
  BY <1>1, RefuseKeeps
<1>2. CASE reading' = [reading EXCEPT ![r].at = "read"]
  <2> DEFINE to == [reading[r] EXCEPT !.at = "read"]
  <2>1. reading' = [reading EXCEPT ![r] = to]
    BY <1>2
  <2>2. to \in Reader /\ to.at = "read"
    BY DEF DownloadedInv, DownloadedShapes, Reader
  <2> HIDE DEF to
  <2>3. Chosen(to, had[r])
    BY <2>2 DEF Chosen
  <2>4. converted' \in [Downloaded!Keys -> Downloaded!Anything] /\ ConvertedByKey'
    BY DEF DownloadedInv, DownloadedShapes, ConvertedByKey
  <2> QED BY <2>1, <2>2, <2>3, <2>4, ReaderGoes
<1> QED BY <1>1, <1>2

LEMMA ReadPageKeeps ==
    ASSUME DownloadedInv, MaxContents \in Nat, NEW r \in Readers, Downloaded!ReadPage(r)
    PROVE  DownloadedInv'
<1>0. /\ reading[r].at = "read" /\ reading[r] \in Reader /\ reading \in [Readers -> Reader]
      /\ UNCHANGED <<archive, contents, row, converted, had>>
      /\ converted' \in [Downloaded!Keys -> Downloaded!Anything] /\ ConvertedByKey'
  BY DEF Downloaded!ReadPage, DownloadedInv, DownloadedShapes, ConvertedByKey
<1>1. CASE Downloaded!Refuse(r)
  BY <1>0, <1>1, RefuseKeeps
<1>2. CASE ~Downloaded!Refuse(r)
  <2> DEFINE held(v) == <<archive.content, v>>
             body(v) == IF reading[r].format = "mapped" THEN held(v) ELSE Downloaded!NoPage
             at == CASE reading[r].format = "mapped" -> "answered"
                     [] reading[r].skip -> "convert"
                     [] OTHER -> "lookup"
             to(v) == [reading[r] EXCEPT !.page = held(v), !.body = body(v), !.at = at]
  <2>1. PICK v \in Downloaded!Selected(reading[r].asked) :
          reading' = [reading EXCEPT ![r].page = held(v), ![r].body = body(v), ![r].at = at]
    BY <1>2 DEF Downloaded!ReadPage
  <2>2. held(v) \in Downloaded!Held /\ (reading[r].asked # "any" => held(v)[2] = reading[r].asked)
    BY DEF Downloaded!Selected
  <2>3. held(v) \in Downloaded!PagesThere /\ held(v) \in had[r]
    BY <1>0, <2>2, HeldIsThere DEF DownloadedInv, ReaderInv
  <2>4. held(v) \in Downloaded!Anything /\ body(v) \in Downloaded!Anything
        /\ at \in {"answered", "convert", "lookup"} /\ (at = "answered" => body(v) = held(v))
    BY <2>3 DEF Downloaded!Anything
  <2> HIDE DEF held, body, at
  <2>5. reading' = [reading EXCEPT ![r] = to(v)]
    BY <1>0, <2>1
  <2>6. to(v) \in Reader /\ to(v).at = at /\ to(v).page = held(v) /\ to(v).body = body(v)
        /\ to(v).asked = reading[r].asked
    BY <1>0, <2>4 DEF Reader
  <2> HIDE DEF to
  <2>7. Chosen(to(v), had[r])
    BY <2>2, <2>3, <2>4, <2>6 DEF Chosen
  <2> QED BY <1>0, <2>5, <2>6, <2>7, ReaderGoes
<1> QED BY <1>1, <1>2

LEMMA LookupKeeps ==
    ASSUME DownloadedInv, NEW r \in Readers, Downloaded!Lookup(r)
    PROVE  DownloadedInv'
<1>0. /\ reading[r].at = "lookup" /\ reading[r] \in Reader
      /\ UNCHANGED <<archive, contents, row, converted, had>>
      /\ converted' \in [Downloaded!Keys -> Downloaded!Anything] /\ ConvertedByKey'
  BY DEF Downloaded!Lookup, DownloadedInv, DownloadedShapes, ConvertedByKey
<1>1. reading[r].page \in had[r] /\ reading[r].page \in Downloaded!PagesThere
  BY <1>0 DEF DownloadedInv, ReaderInv, Chosen, DownloadedShapes
<1>2. Downloaded!Cached(r) \in {Downloaded!NoPage, reading[r].page}
  BY <1>0, <1>1 DEF Downloaded!Cached, DownloadedInv, ConvertedByKey, Reader
<1> DEFINE at == IF Downloaded!Cached(r) = Downloaded!NoPage THEN "convert" ELSE "answered"
           body == Downloaded!Cached(r)
           to == [reading[r] EXCEPT !.at = at, !.body = body]
<1>3. at \in {"convert", "answered"} /\ (at = "answered" => body = reading[r].page)
      /\ body \in Downloaded!Anything
  BY <1>1, <1>2 DEF Downloaded!Anything
<1>4. reading' = [reading EXCEPT ![r] = to]
  BY DEF Downloaded!Lookup
<1> HIDE DEF at, body
<1>5. to \in Reader /\ to.at = at /\ to.body = body /\ to.page = reading[r].page
      /\ to.asked = reading[r].asked
  BY <1>0, <1>3 DEF Reader
<1> HIDE DEF to
<1>6. Chosen(to, had[r])
  BY <1>0, <1>3, <1>5 DEF Chosen, DownloadedInv, ReaderInv
<1> QED BY <1>0, <1>4, <1>5, <1>6, ReaderGoes

LEMMA ConvertKeeps ==
    ASSUME DownloadedInv, NEW r \in Readers, Downloaded!Convert(r)
    PROVE  DownloadedInv'
<1>0. /\ reading[r].at = "convert" /\ reading[r] \in Reader
      /\ UNCHANGED <<archive, contents, row, had>>
  BY DEF Downloaded!Convert, DownloadedInv, DownloadedShapes
<1>1. CASE Downloaded!Refuse(r) /\ UNCHANGED converted
  BY <1>0, <1>1, RefuseKeeps
<1>2. ASSUME reading' = [reading EXCEPT ![r].at = "answered", ![r].body = reading[r].page],
             converted' = IF reading[r].skip THEN converted
                          ELSE [converted EXCEPT
                                  ![Downloaded!Key(reading[r].page, reading[r].format)]
                                     = reading[r].page]
      PROVE  DownloadedInv'
  <2> DEFINE to == [reading[r] EXCEPT !.at = "answered", !.body = reading[r].page]
  <2>1. reading' = [reading EXCEPT ![r] = to]
    BY <1>2
  <2>2. to \in Reader /\ to.at = "answered" /\ to.body = reading[r].page
        /\ to.page = reading[r].page /\ to.asked = reading[r].asked
    BY <1>0 DEF Reader
  <2> HIDE DEF to
  <2>3. Chosen(to, had[r])
    BY <1>0, <2>2 DEF Chosen, DownloadedInv, ReaderInv
  <2>4. reading[r].page \in Downloaded!PagesThere /\ reading[r].page \in Downloaded!Anything
        /\ reading[r].format \in Downloaded!Formats
    BY <1>0 DEF DownloadedInv, ReaderInv, Chosen, DownloadedShapes, Reader
  <2>5. converted' \in [Downloaded!Keys -> Downloaded!Anything]
    BY <1>2, <2>4 DEF DownloadedInv, DownloadedShapes
  <2>6. ConvertedByKey'
    <3>1. SUFFICES ASSUME NEW p \in Downloaded!PagesThere, NEW f \in Downloaded!Formats
                   PROVE  converted'[Downloaded!Key(p, f)] \in {Downloaded!NoPage, p}
      BY DEF ConvertedByKey
    <3>2. Downloaded!Key(p, f) \in Downloaded!Keys
      BY DEF Downloaded!Keys
    <3>3. converted[Downloaded!Key(p, f)] \in {Downloaded!NoPage, p}
      BY DEF DownloadedInv, ConvertedByKey
    <3>4. Downloaded!Key(p, f) = Downloaded!Key(reading[r].page, reading[r].format) =>
              p = reading[r].page
      BY <2>4 DEF Downloaded!Key, Downloaded!PagesThere
    <3>5. converted'[Downloaded!Key(p, f)] \in {converted[Downloaded!Key(p, f)], p}
      BY <1>2, <3>2, <3>4 DEF DownloadedInv, DownloadedShapes
    <3> QED BY <3>3, <3>5
  <2> QED BY <1>0, <2>1, <2>2, <2>3, <2>5, <2>6, ReaderGoes
<1> QED BY <1>1, <1>2 DEF Downloaded!Convert

LEMMA DownloadedInvStep ==
    ASSUME MaxContents \in Nat, DownloadedInv, [Downloaded!Next]_(Downloaded!vars)
    PROVE  DownloadedInv'
<1>1. CASE Downloaded!Publish
  <2>1. archive' \in [content : 0 .. MaxContents, upscaled : BOOLEAN]
        /\ contents' \in 0 .. MaxContents
    BY <1>1 DEF Downloaded!Publish, DownloadedInv, DownloadedShapes
  <2> QED BY <1>1, <2>1, ArchiveChanges DEF Downloaded!Publish
<1>2. CASE Downloaded!Upscale
  <2>1. archive' \in [content : 0 .. MaxContents, upscaled : BOOLEAN]
        /\ contents' \in 0 .. MaxContents
    BY <1>2 DEF Downloaded!Upscale, DownloadedInv, DownloadedShapes
  <2> QED BY <1>2, <2>1, ArchiveChanges DEF Downloaded!Upscale
<1>3. CASE archive' = Downloaded!NoArchive /\ Downloaded!Noted
           /\ UNCHANGED <<contents, row, converted, reading>>
  <2>1. archive' \in [content : 0 .. MaxContents, upscaled : BOOLEAN]
        /\ contents' \in 0 .. MaxContents
    BY <1>3 DEF Downloaded!NoArchive, DownloadedInv, DownloadedShapes
  <2> QED BY <1>3, <2>1, ArchiveChanges
<1>4. CASE row' \in BOOLEAN /\ UNCHANGED <<archive, contents, converted, reading, had>>
  BY <1>4 DEF DownloadedInv, DownloadedShapes, ConvertedByKey, ReaderInv, Chosen, Downloaded!Held
<1>5. CASE Downloaded!Complete \/ Downloaded!Delete
  BY <1>3, <1>4, <1>5 DEF Downloaded!Complete, Downloaded!Delete
<1>6. ASSUME NEW r \in Readers, Downloaded!Answer(r) PROVE DownloadedInv'
  BY <1>6, RefuseKeeps DEF Downloaded!Answer
<1>7. CASE UNCHANGED Downloaded!vars
  BY <1>4, <1>7 DEF Downloaded!vars, DownloadedInv, DownloadedShapes
<1> QED BY <1>1, <1>2, <1>5, <1>6, <1>7, RequestKeeps, ResolveKeeps, ReadPageKeeps, LookupKeeps,
           ConvertKeeps DEF Downloaded!Next

LEMMA DownloadedPagesHold ==
    ASSUME MaxContents \in Nat
    PROVE  Downloaded!Spec => []Downloaded!AnswersAreCurrent
<1>1. DownloadedInv => Downloaded!AnswersAreCurrent
  BY DEF DownloadedInv, ReaderInv, Chosen, Downloaded!AnswersAreCurrent
<1> QED BY <1>1, InitDownloadedInv, DownloadedInvStep, PTL DEF Downloaded!Spec

-----------------------------------------------------------------------------
(* The pages of a chapter at its source (SourcePages).                     *)

ProxyShape == [at : {"idle", "lookup", "fetch", "bytes", "redirect"},
               page : Pages \cup {"nothing"}, format : Sources!Formats,
               mode : {"read", "skip", "warm"}, body : Sources!Bodies]

FetchShape == [at : {"waiting", "lookup", "fetch", "fetched", "staged", "skipped"},
               attempt : Nat, body : Sources!Bodies]

SourceShapes ==
    /\ images \in [Sources!Keys -> Sources!Bodies]
    /\ proxy \in [Proxies -> ProxyShape]
    /\ fetches \in [Pages -> FetchShape]

(* What a key of the image cache may hold.                                 *)
KeptImages(p, f) == {Sources!NoImage, Sources!Image(p, f), Sources!Junk}

ImagesByKey == \A p \in Pages, f \in Sources!Formats : images[<<p, f>>] \in KeptImages(p, f)

ProxyAnswers(q) ==
    /\ q.at \in {"lookup", "fetch", "bytes"} => q.page \in Pages
    /\ q.at = "bytes" => q.body \in {Sources!Image(q.page, q.format), Sources!Junk}

FetchHolds(q, p) == q.at \in {"fetched", "staged"} => q.body = Sources!Image(p, "original")

SourcePagesInv ==
    /\ SourceShapes /\ ImagesByKey
    /\ \A r \in Proxies : ProxyAnswers(proxy[r])
    /\ \A p \in Pages : FetchHolds(fetches[p], p)

LEMMA SourceBodies ==
    /\ Sources!NoImage \in Sources!Bodies /\ Sources!Junk \in Sources!Bodies
    /\ \A p \in Pages, f \in Sources!Formats :
        Sources!Image(p, f) \in Sources!Bodies /\ KeptImages(p, f) \subseteq Sources!Bodies
    /\ "original" \in Sources!Formats
    /\ Sources!NoImage # Sources!Junk
BY DEF Sources!NoImage, Sources!Junk, Sources!Image, Sources!Bodies, Sources!Fetched,
       Sources!Formats, KeptImages

LEMMA SourceRests ==
    /\ Sources!Resting \in ProxyShape /\ Sources!Resting.at = "idle"
    /\ Sources!NotFetched \in FetchShape /\ Sources!NotFetched.at = "waiting"
BY SourceBodies DEF Sources!Resting, Sources!NotFetched, ProxyShape, FetchShape

LEMMA InitSourcePagesInv == Sources!Init => SourcePagesInv
<1> SUFFICES ASSUME Sources!Init PROVE SourcePagesInv
  OBVIOUS
<1>1. PICK old \in SUBSET Pages :
        images = [k \in Sources!Keys |->
                    IF k[1] \in old /\ k[2] = "original" THEN Sources!Junk ELSE Sources!NoImage]
  BY DEF Sources!Init
<1>2. SourceShapes
  BY <1>1, SourceBodies, SourceRests DEF Sources!Init, SourceShapes
<1>3. ImagesByKey
  BY <1>1 DEF ImagesByKey, KeptImages, Sources!Keys
<1>4. \A r \in Proxies : ProxyAnswers(proxy[r])
  BY SourceRests DEF Sources!Init, ProxyAnswers
<1>5. \A p \in Pages : FetchHolds(fetches[p], p)
  BY SourceRests DEF Sources!Init, FetchHolds
<1> QED BY <1>2, <1>3, <1>4, <1>5 DEF SourcePagesInv

(* One request moves on.                                                   *)
LEMMA ProxyGoes ==
    ASSUME SourcePagesInv, NEW r \in Proxies, NEW to \in ProxyShape, ProxyAnswers(to),
           proxy' = [proxy EXCEPT ![r] = to], UNCHANGED <<images, fetches>>
    PROVE  SourcePagesInv'
<1> USE DEF SourcePagesInv
<1>1. SourceShapes'
  BY DEF SourceShapes
<1>2. \A s \in Proxies : proxy'[s] = IF s = r THEN to ELSE proxy[s]
  BY DEF SourceShapes
<1>3. ImagesByKey'
  BY DEF ImagesByKey
<1> QED BY <1>1, <1>2, <1>3

(* One page of the job moves on.                                           *)
LEMMA FetchGoes ==
    ASSUME SourcePagesInv, NEW p \in Pages, NEW to \in FetchShape, FetchHolds(to, p),
           fetches' = [fetches EXCEPT ![p] = to], UNCHANGED <<images, proxy>>
    PROVE  SourcePagesInv'
<1> USE DEF SourcePagesInv
<1>1. SourceShapes'
  BY DEF SourceShapes
<1>2. \A s \in Pages : fetches'[s] = IF s = p THEN to ELSE fetches[s]
  BY DEF SourceShapes
<1>3. ImagesByKey'
  BY DEF ImagesByKey
<1> QED BY <1>1, <1>2, <1>3

(* A key of the image cache is inserted, replaced or dropped.              *)
LEMMA ImageIsKept ==
    ASSUME SourcePagesInv, NEW p \in Pages, NEW f \in Sources!Formats,
           NEW image \in KeptImages(p, f),
           images' = [images EXCEPT ![<<p, f>>] = image] \/ UNCHANGED images
    PROVE  ImagesByKey' /\ images' \in [Sources!Keys -> Sources!Bodies]
<1>1. image \in Sources!Bodies
  BY SourceBodies
<1>2. images \in [Sources!Keys -> Sources!Bodies] /\ <<p, f>> \in Sources!Keys
  BY DEF SourcePagesInv, SourceShapes, Sources!Keys
<1>3. ASSUME NEW p2 \in Pages, NEW f2 \in Sources!Formats
      PROVE  images'[<<p2, f2>>] \in KeptImages(p2, f2)
  <2>1. images[<<p2, f2>>] \in KeptImages(p2, f2)
    BY DEF SourcePagesInv, ImagesByKey
  <2>2. <<p2, f2>> \in Sources!Keys
    BY DEF Sources!Keys
  <2>3. CASE p2 = p /\ f2 = f
    BY <1>2, <2>1, <2>3
  <2>4. CASE ~(p2 = p /\ f2 = f)
    <3>1. <<p2, f2>> # <<p, f>>
      BY <2>4
    <3> QED BY <1>2, <2>1, <2>2, <3>1
  <2> QED BY <2>3, <2>4
<1> QED BY <1>1, <1>2, <1>3 DEF ImagesByKey

LEMMA AskKeepsPages ==
    ASSUME SourcePagesInv, NEW r \in Proxies, Sources!Ask(r)
    PROVE  SourcePagesInv'
<1>1. PICK p \in Pages, f \in Sources!Formats, mode \in {"read", "skip", "warm"} :
        proxy' = [proxy EXCEPT ![r] =
            [Sources!Resting EXCEPT !.at = IF mode = "skip" THEN "fetch" ELSE "lookup",
                                    !.page = p, !.format = f, !.mode = mode]]
  BY DEF Sources!Ask
<1> DEFINE to == [Sources!Resting EXCEPT !.at = IF mode = "skip" THEN "fetch" ELSE "lookup",
                                         !.page = p, !.format = f, !.mode = mode]
<1>2. to \in ProxyShape /\ to.at \in {"fetch", "lookup"} /\ to.page \in Pages
  BY SourceRests DEF ProxyShape
<1>3. proxy' = [proxy EXCEPT ![r] = to]
  BY <1>1
<1> HIDE DEF to
<1>4. ProxyAnswers(to)
  BY <1>2 DEF ProxyAnswers
<1> QED BY <1>2, <1>3, <1>4, ProxyGoes DEF Sources!Ask

LEMMA ProxyLookupKeeps ==
    ASSUME SourcePagesInv, NEW r \in Proxies, Sources!ProxyLookup(r)
    PROVE  SourcePagesInv'
<1> DEFINE key == Sources!CacheKey(r)
           at == IF images[key] = Sources!NoImage THEN "fetch" ELSE "bytes"
           to == [proxy[r] EXCEPT !.at = at, !.body = images[key]]
<1>1. proxy[r] \in ProxyShape /\ proxy[r].page \in Pages /\ proxy \in [Proxies -> ProxyShape]
  BY DEF Sources!ProxyLookup, SourcePagesInv, SourceShapes, ProxyAnswers
<1>2. images[key] \in KeptImages(proxy[r].page, proxy[r].format)
  BY <1>1 DEF SourcePagesInv, ImagesByKey, Sources!CacheKey, Sources!Key, ProxyShape
<1>3. images[key] \in Sources!Bodies
  BY <1>1, <1>2, SourceBodies DEF ProxyShape
<1>4. proxy' = [proxy EXCEPT ![r] = to]
  BY <1>1 DEF Sources!ProxyLookup
<1>5. at \in {"fetch", "bytes"} /\ (at = "bytes" => images[key] # Sources!NoImage)
  OBVIOUS
<1> HIDE DEF at, key
<1>6. /\ to \in ProxyShape /\ to.at = at /\ to.body = images[key] /\ to.page = proxy[r].page
      /\ to.format = proxy[r].format
  BY <1>1, <1>3, <1>5 DEF ProxyShape
<1> HIDE DEF to
<1>7. ProxyAnswers(to)
  BY <1>1, <1>2, <1>5, <1>6 DEF ProxyAnswers, KeptImages
<1> QED BY <1>4, <1>6, <1>7, ProxyGoes DEF Sources!ProxyLookup

LEMMA ProxyFetchKeeps ==
    ASSUME SourcePagesInv, NEW r \in Proxies, Sources!ProxyFetch(r)
    PROVE  SourcePagesInv'
<1>1. proxy[r] \in ProxyShape /\ proxy[r].page \in Pages /\ proxy \in [Proxies -> ProxyShape]
  BY DEF Sources!ProxyFetch, SourcePagesInv, SourceShapes, ProxyAnswers
<1>2. CASE proxy' = [proxy EXCEPT ![r].at = "redirect"] /\ UNCHANGED images
  <2> DEFINE to == [proxy[r] EXCEPT !.at = "redirect"]
  <2>1. proxy' = [proxy EXCEPT ![r] = to]
    BY <1>1, <1>2
  <2>2. to \in ProxyShape /\ to.at = "redirect"
    BY <1>1 DEF ProxyShape
  <2> HIDE DEF to
  <2>3. ProxyAnswers(to)
    BY <2>2 DEF ProxyAnswers
  <2> QED BY <1>2, <2>1, <2>2, <2>3, ProxyGoes DEF Sources!ProxyFetch
<1>3. CASE ~(proxy' = [proxy EXCEPT ![r].at = "redirect"] /\ UNCHANGED images)
  <2> DEFINE p == proxy[r].page
             f == proxy[r].format
             image == Sources!Image(p, f)
             to == [proxy[r] EXCEPT !.at = "bytes", !.body = image]
  <2>1. /\ proxy' = [proxy EXCEPT ![r].at = "bytes", ![r].body = image]
        /\ images' = IF proxy[r].mode = "skip" THEN images
                     ELSE [images EXCEPT ![Sources!CacheKey(r)] = image]
        /\ UNCHANGED fetches
    BY <1>3 DEF Sources!ProxyFetch, Sources!Accepted
  <2>2. p \in Pages /\ f \in Sources!Formats /\ image \in Sources!Bodies
            /\ image \in KeptImages(p, f)
    BY <1>1, SourceBodies DEF ProxyShape, KeptImages
  <2>3. images' = [images EXCEPT ![<<p, f>>] = image] \/ UNCHANGED images
    BY <2>1 DEF Sources!CacheKey, Sources!Key
  <2> HIDE DEF image
  <2>4. ImagesByKey' /\ images' \in [Sources!Keys -> Sources!Bodies]
    BY <2>2, <2>3, ImageIsKept
  <2>5. proxy' = [proxy EXCEPT ![r] = to]
    BY <1>1, <2>1
  <2>6. to \in ProxyShape /\ to.at = "bytes" /\ to.body = image /\ to.page = p /\ to.format = f
    BY <1>1, <2>2 DEF ProxyShape
  <2> HIDE DEF to, p, f
  <2>7. ProxyAnswers(to)
    BY <2>2, <2>6 DEF ProxyAnswers, image
  <2>8. \A s \in Proxies : proxy'[s] = IF s = r THEN to ELSE proxy[s]
    BY <1>1, <2>5
  <2>9. SourceShapes'
    BY <1>1, <2>1, <2>4, <2>5, <2>6 DEF SourceShapes, SourcePagesInv
  <2> QED BY <2>1, <2>4, <2>7, <2>8, <2>9 DEF SourcePagesInv
<1> QED BY <1>2, <1>3

LEMMA ProxyDoneKeeps ==
    ASSUME SourcePagesInv, NEW r \in Proxies, Sources!ProxyDone(r)
    PROVE  SourcePagesInv'
<1>1. ProxyAnswers(Sources!Resting)
  BY SourceRests DEF ProxyAnswers
<1> QED BY <1>1, SourceRests, ProxyGoes DEF Sources!ProxyDone

(* A step that leaves the requests and the pages of the job alone.         *)
LEMMA ForgetKeeps ==
    ASSUME SourcePagesInv, UNCHANGED <<proxy, fetches>>,
           \/ UNCHANGED images
           \/ \E k \in Sources!Keys : images' = [images EXCEPT ![k] = Sources!NoImage]
    PROVE  SourcePagesInv'
<1>1. ImagesByKey' /\ images' \in [Sources!Keys -> Sources!Bodies]
  <2>1. CASE UNCHANGED images
    BY <2>1 DEF SourcePagesInv, SourceShapes, ImagesByKey
  <2>2. CASE \E k \in Sources!Keys : images' = [images EXCEPT ![k] = Sources!NoImage]
    <3>1. PICK k \in Sources!Keys : images' = [images EXCEPT ![k] = Sources!NoImage]
      BY <2>2
    <3>2. PICK p \in Pages, f \in Sources!Formats : k = <<p, f>>
      BY DEF Sources!Keys
    <3>3. Sources!NoImage \in KeptImages(p, f)
      BY DEF KeptImages
    <3> QED BY <3>1, <3>2, <3>3, ImageIsKept
  <2> QED BY <2>1, <2>2
<1> QED BY <1>1 DEF SourcePagesInv, SourceShapes

(* The job ends, and every page waits again.                               *)
LEMMA JobEnds ==
    ASSUME SourcePagesInv, UNCHANGED <<images, proxy>>,
           fetches' = [p \in Pages |-> Sources!NotFetched]
    PROVE  SourcePagesInv'
BY SourceRests DEF SourcePagesInv, SourceShapes, ImagesByKey, FetchHolds

LEMMA BeginKeeps ==
    ASSUME SourcePagesInv, NEW p \in Pages, Sources!Begin(p)
    PROVE  SourcePagesInv'
<1> DEFINE to == [fetches[p] EXCEPT !.at = "lookup"]
<1>1. fetches' = [fetches EXCEPT ![p] = to]
  BY DEF Sources!Begin
<1>2. to \in FetchShape /\ to.at = "lookup"
  BY DEF SourcePagesInv, SourceShapes, FetchShape
<1> HIDE DEF to
<1>3. FetchHolds(to, p)
  BY <1>2 DEF FetchHolds
<1> QED BY <1>1, <1>2, <1>3, FetchGoes DEF Sources!Begin

LEMMA StageKeeps ==
    ASSUME SourcePagesInv, NEW p \in Pages, Sources!Stage(p)
    PROVE  SourcePagesInv'
<1> DEFINE to == [fetches[p] EXCEPT !.at = "staged", !.attempt = 1]
<1>0. fetches[p] \in FetchShape /\ fetches \in [Pages -> FetchShape]
      /\ fetches[p].body = Sources!Image(p, "original")
  BY DEF SourcePagesInv, SourceShapes, FetchHolds, Sources!Stage
<1>1. fetches' = [fetches EXCEPT ![p] = to]
  BY <1>0 DEF Sources!Stage
<1>2. to \in FetchShape /\ to.body = fetches[p].body
  BY <1>0 DEF FetchShape
<1> HIDE DEF to
<1>3. FetchHolds(to, p)
  BY <1>0, <1>2 DEF FetchHolds
<1> QED BY <1>1, <1>2, <1>3, FetchGoes DEF Sources!Stage

LEMMA PageLookupKeeps ==
    ASSUME SourcePagesInv, NEW p \in Pages, Sources!PageLookup(p)
    PROVE  SourcePagesInv'
<1> DEFINE key == Sources!Key(p, "original")
           hit == Sources!ValidBody(images[key])
           at == IF hit THEN "fetched" ELSE "fetch"
           body == IF hit THEN images[key] ELSE Sources!NoImage
           to == [fetches[p] EXCEPT !.at = at, !.body = body]
<1>0. fetches[p] \in FetchShape /\ fetches \in [Pages -> FetchShape] /\ UNCHANGED proxy
  BY DEF SourcePagesInv, SourceShapes, Sources!PageLookup
<1>1. images[key] \in KeptImages(p, "original")
  BY SourceBodies DEF SourcePagesInv, ImagesByKey, Sources!Key
<1>2. hit => images[key] = Sources!Image(p, "original")
  BY <1>1 DEF KeptImages, Sources!ValidBody, Sources!NoImage, Sources!Junk, Sources!Image
<1>3. at \in {"fetched", "fetch"} /\ body \in Sources!Bodies
      /\ (at = "fetched" => body = Sources!Image(p, "original"))
  BY <1>2, SourceBodies
<1>4. fetches' = [fetches EXCEPT ![p].at = at, ![p].body = body]
      /\ (images' = [images EXCEPT ![key] = Sources!NoImage] \/ UNCHANGED images)
  BY DEF Sources!PageLookup
<1>5. ImagesByKey' /\ images' \in [Sources!Keys -> Sources!Bodies]
  BY <1>4, SourceBodies, ImageIsKept DEF KeptImages, Sources!Key
<1> HIDE DEF at, body, hit, key
<1>6. fetches' = [fetches EXCEPT ![p] = to]
  BY <1>0, <1>4
<1>7. to \in FetchShape /\ to.at = at /\ to.body = body
  BY <1>0, <1>3 DEF FetchShape
<1> HIDE DEF to
<1>8. FetchHolds(to, p)
  BY <1>3, <1>7 DEF FetchHolds
<1>9. \A s \in Pages : fetches'[s] = IF s = p THEN to ELSE fetches[s]
  BY <1>0, <1>6
<1>10. SourceShapes'
  BY <1>0, <1>5, <1>6, <1>7 DEF SourcePagesInv, SourceShapes
<1> QED BY <1>0, <1>5, <1>8, <1>9, <1>10 DEF SourcePagesInv

LEMMA PageFetchKeeps ==
    ASSUME SourcePagesInv, NEW p \in Pages, Sources!PageFetch(p)
    PROVE  SourcePagesInv'
<1>0. fetches[p] \in FetchShape /\ fetches \in [Pages -> FetchShape] /\ UNCHANGED proxy
  BY DEF SourcePagesInv, SourceShapes, Sources!PageFetch
<1>1. CASE UNCHANGED images /\ fetches' = [fetches EXCEPT ![p] =
                [Sources!NotFetched EXCEPT !.at = "skipped"]]
  <2> DEFINE to == [Sources!NotFetched EXCEPT !.at = "skipped"]
  <2>1. to \in FetchShape /\ to.at = "skipped"
    BY SourceRests DEF FetchShape
  <2>2. fetches' = [fetches EXCEPT ![p] = to]
    BY <1>1
  <2> HIDE DEF to
  <2>3. FetchHolds(to, p)
    BY <2>1 DEF FetchHolds
  <2> QED BY <1>0, <1>1, <2>1, <2>2, <2>3, FetchGoes
<1>2. CASE UNCHANGED images /\ fetches' = [fetches EXCEPT ![p].at = "lookup", ![p].attempt = @ + 1]
  <2> DEFINE n == fetches[p].attempt + 1
             to == [fetches[p] EXCEPT !.at = "lookup", !.attempt = n]
  <2>1. n \in Nat
    BY <1>0 DEF FetchShape
  <2>2. fetches' = [fetches EXCEPT ![p].at = "lookup", ![p].attempt = n]
    BY <1>2, Zenon
  <2> HIDE DEF n
  <2>3. fetches' = [fetches EXCEPT ![p] = to]
    BY <1>0, <2>2
  <2>4. to \in FetchShape /\ to.at = "lookup"
    BY <1>0, <2>1 DEF FetchShape
  <2> HIDE DEF to
  <2>5. FetchHolds(to, p)
    BY <2>4 DEF FetchHolds
  <2> QED BY <1>0, <1>2, <2>3, <2>4, <2>5, FetchGoes
<1>3. ASSUME fetches' = [fetches EXCEPT ![p].at = "fetched",
                                        ![p].body = Sources!Image(p, "original")],
             images' = [images EXCEPT ![Sources!Key(p, "original")] = Sources!Image(p, "original")]
      PROVE  SourcePagesInv'
  <2> DEFINE image == Sources!Image(p, "original")
             to == [fetches[p] EXCEPT !.at = "fetched", !.body = image]
  <2>1. image \in Sources!Bodies /\ image \in KeptImages(p, "original")
    BY SourceBodies DEF KeptImages
  <2>2. images' = [images EXCEPT ![<<p, "original">>] = image]
    BY <1>3 DEF Sources!Key
  <2>3. ImagesByKey' /\ images' \in [Sources!Keys -> Sources!Bodies]
    BY <2>1, <2>2, SourceBodies, ImageIsKept
  <2>4. fetches' = [fetches EXCEPT ![p] = to]
    BY <1>0, <1>3
  <2> HIDE DEF image
  <2>5. to \in FetchShape /\ to.body = image
    BY <1>0, <2>1 DEF FetchShape
  <2> HIDE DEF to
  <2>6. FetchHolds(to, p)
    BY <2>5 DEF FetchHolds, image
  <2>7. \A s \in Pages : fetches'[s] = IF s = p THEN to ELSE fetches[s]
    BY <1>0, <2>4
  <2>8. SourceShapes'
    BY <1>0, <2>3, <2>4, <2>5 DEF SourcePagesInv, SourceShapes
  <2> QED BY <1>0, <2>3, <2>6, <2>7, <2>8 DEF SourcePagesInv
<1> QED BY <1>1, <1>2, <1>3 DEF Sources!PageFetch

LEMMA SourcePagesInvStep ==
    ASSUME SourcePagesInv, [Sources!Next]_(Sources!vars)
    PROVE  SourcePagesInv'
<1>1. CASE UNCHANGED <<images, proxy, fetches>>
  BY <1>1, ForgetKeeps
<1>2. CASE Sources!Start \/ Sources!TryDrive \/ Sources!GetReferences \/ Sources!Refresh
  BY <1>1, <1>2 DEF Sources!Start, Sources!TryDrive, Sources!GetReferences, Sources!Refresh
<1>3. CASE \E id \in Sources!Ids : Sources!WarmList(id)
  BY <1>1, <1>3 DEF Sources!WarmList
<1>4. CASE Sources!Forget
  BY <1>4, ForgetKeeps DEF Sources!Forget, Sources!Expire
<1>5. CASE Sources!Finish \/ Sources!Cancel
  BY <1>5, JobEnds DEF Sources!Finish, Sources!Cancel
<1>6. CASE UNCHANGED Sources!vars
  BY <1>1, <1>6 DEF Sources!vars
<1> QED BY <1>2, <1>3, <1>4, <1>5, <1>6, AskKeepsPages, ProxyLookupKeeps, ProxyFetchKeeps,
           ProxyDoneKeeps, BeginKeeps, PageLookupKeeps, PageFetchKeeps, StageKeeps
        DEF Sources!Next

LEMMA SourcePagesHold == Sources!Spec => []Sources!PagesAreTheirOwn
<1>1. SourcePagesInv => Sources!PagesAreTheirOwn
  <2> SUFFICES ASSUME SourcePagesInv PROVE Sources!PagesAreTheirOwn
    OBVIOUS
  <2> USE DEF SourcePagesInv
  <2>1. ASSUME NEW p \in Pages, fetches[p].at = "staged"
        PROVE  fetches[p].body.of = p /\ fetches[p].body.format = "original"
    <3>1. fetches[p].body = Sources!Image(p, "original")
      BY <2>1 DEF FetchHolds
    <3> QED BY <3>1 DEF Sources!Image
  <2>2. ASSUME NEW r \in Proxies, proxy[r].at = "bytes"
        PROVE  \/ proxy[r].body.of = proxy[r].page /\ proxy[r].body.format = proxy[r].format
               \/ proxy[r].body = Sources!Junk
    <3>1. proxy[r].body \in {Sources!Image(proxy[r].page, proxy[r].format), Sources!Junk}
      BY <2>2 DEF ProxyAnswers
    <3> QED BY <3>1 DEF Sources!Image
  <2> QED BY <2>1, <2>2 DEF Sources!PagesAreTheirOwn
<1> QED BY <1>1, InitSourcePagesInv, SourcePagesInvStep, PTL DEF Sources!Spec

-----------------------------------------------------------------------------
(* Signing in and being let in (Accounts).                                 *)

(* What the configuration of the server gives.                             *)
Limits ==
    /\ MaxPending \in Nat /\ LoginTTL \in Nat /\ SessionTTL \in Nat
    /\ "none" \notin Browsers

VisitPlaces == {"idle", "config", "token", "use", "session", "share", "admitted", "begin",
           "finish", "exchange", "erase", "open"}
Asking == {"read", "configure", "mint", "revoke", "share", "unshare", "aidoku"}
CookieShape == [login : Nat, session : Nat, share : Nat]
VisitShape == [op : Accounting!Operations \cup {"none"}, at : VisitPlaces,
    from : Browsers \cup {"none"},
          sent : CookieShape, about : Nat, config : Accounting!Configs \cup {"none"},
          by : {"none", "open", "token", "session", "share"}]

-----------------------------------------------------------------------------
(* The invariants.                                                         *)

Tables ==
    /\ config \in Accounting!Configs /\ time \in Nat /\ made \in Nat
    /\ pending \subseteq [id : Nat, from : Browsers, config : Accounting!Configs \cup {"none"},
          expires : Nat]
    /\ sessions \subseteq [id : Nat, config : Accounting!Configs \cup {"none"}, expires : Nat]
    /\ tokens \subseteq Nat /\ shares \subseteq [id : Nat, of : Series]
    /\ cookies \in [Browsers -> CookieShape]

Asked ==
    /\ visits \in [Requests -> VisitShape]
    /\ \A r \in Requests : visits[r].at # "idle" => visits[r].from \in Browsers

(* Few sign-ins are pending.                                               *)
FewPending == IsFiniteSet(pending) /\ Cardinality(pending) <= MaxPending

(* A sign-in is pending, being exchanged or granted, once.                 *)
SignInsAreOnce ==
    /\ ~again
    /\ \A n \in granted : n \in Nat /\ n <= made
    /\ \A l \in pending : l.id <= made /\ l.id \notin granted
    /\ \A k, l \in pending : k.id = l.id => k = l
    /\ \A r \in Requests : visits[r].at = "exchange" =>
          /\ visits[r].about <= made /\ visits[r].about \notin granted
          /\ \A l \in pending : l.id # visits[r].about
          /\ \A s \in Requests :
               visits[s].at = "exchange" /\ visits[s].about = visits[r].about => s = r

(* Where a request is in the authorization says what it was entitled to.   *)
Entitled(q, valid) ==
    /\ q.at = "config" => q.op \in Accounting!Operations
    /\ q.at \in {"token", "use"} => q.op \in Accounting!Guarded
    /\ q.at = "share" => q.op = "read"
    /\ q.at \in {"session", "admitted"} => q.op \in Asking
    /\ q.at = "use" => q.about \in valid
    /\ q.at = "admitted" =>
        /\ q.by \in {"open", "token", "session", "share"}
        /\ q.by = "open" => ~Accounting!Protected(q.config)
        /\ q.by = "token" => q.op \in Accounting!Guarded /\ q.about \in valid
        /\ q.by = "session" => q.sent.session \in valid
        /\ q.by = "share" => q.op = "read" /\ q.sent.share \in valid

EntitledInv == \A r \in Requests : Entitled(visits[r], during[r])

AccountsInv == Tables /\ Asked /\ FewPending /\ SignInsAreOnce /\ EntitledInv

-----------------------------------------------------------------------------
(* What steps do to a request.                                             *)

USE DEF Accounting!tableVars, Accounting!historyVars, Accounting!Guarded, Accounting!Owned

(* The instance has a copy of the library's operator.                      *)
LEMMA AccountsCount == \A S : Accounting!Cardinality(S) = Cardinality(S)
  BY DEF Accounting!Cardinality, Cardinality

(* Only the operations that are let in are observed, so what was valid     *)
(* stays so for the request that saw it.                                   *)
LEMMA ObserveKeeps ==
    ASSUME NEW r \in Requests, Accounting!Observe, visits'[r].op \in Asking
    PROVE  /\ during[r] \subseteq during'[r]
           /\ Accounting!Valid(visits'[r]) \subseteq during'[r]
  BY DEF Accounting!Observe, Asking

LEMMA SameRequest ==
    ASSUME NEW r \in Requests, EntitledInv, Accounting!Observe, visits'[r] = visits[r]
    PROVE  Entitled(visits'[r], during'[r])
<1>1. CASE visits[r].op \in Asking
  BY <1>1, ObserveKeeps DEF EntitledInv, Entitled
<1>2. CASE visits[r].op \notin Asking
  BY <1>2 DEF EntitledInv, Entitled, Asking
<1> QED BY <1>1, <1>2

-----------------------------------------------------------------------------
LEMMA InitAccountsInv == ASSUME Limits PROVE Accounting!Init => AccountsInv
<1> SUFFICES ASSUME Accounting!Init PROVE AccountsInv
  OBVIOUS
<1>1. Accounting!NoCookies \in CookieShape /\ Accounting!Idle \in VisitShape
          /\ Accounting!Idle.at = "idle"
  BY DEF Accounting!NoCookies, Accounting!Idle, CookieShape, VisitShape, VisitPlaces
<1>2. Tables
  BY <1>1 DEF Accounting!Init, Tables
<1>3. Asked
  BY <1>1 DEF Accounting!Init, Asked
<1>4. FewPending
  BY FS_EmptySet DEF Accounting!Init, FewPending, Limits
<1>5. SignInsAreOnce
  BY <1>1 DEF Accounting!Init, SignInsAreOnce
<1>6. EntitledInv
  BY DEF Accounting!Init, EntitledInv, Entitled, Accounting!Idle
<1> QED BY <1>2, <1>3, <1>4, <1>5, <1>6 DEF AccountsInv

(* The tables.                                                             *)
LEMMA TablesStep == ASSUME Limits, AccountsInv, Accounting!Steps PROVE Tables'
<1> USE DEF AccountsInv, Tables, Limits
<1>1. ASSUME NEW r \in Requests, Accounting!Start(r) PROVE Tables'
  BY <1>1 DEF Accounting!Start
<1>2. ASSUME NEW r \in Requests, Accounting!ReadConfig(r) PROVE Tables'
  BY <1>2 DEF Accounting!ReadConfig
<1>3. ASSUME NEW r \in Requests, Accounting!FindToken(r) \/ Accounting!UseToken(r)
             \/ Accounting!FindSession(r) \/ Accounting!FindShare(r)
      PROVE Tables'
  BY <1>3
  DEF Accounting!FindToken, Accounting!UseToken, Accounting!FindSession, Accounting!FindShare
<1>4. ASSUME NEW r \in Requests, Accounting!Perform(r) PROVE Tables'
  <2>0. config' \in Accounting!Configs
    BY <1>4 DEF Accounting!Perform, Accounting!Configure
  <2>1. CASE Accounting!Share(r)
    BY <1>4, <2>0, <2>1 DEF Accounting!Perform, Accounting!Share
  <2>2. CASE Accounting!Unshare(r)
    BY <1>4, <2>0, <2>2 DEF Accounting!Perform, Accounting!Unshare
  <2>3. CASE Accounting!Mint(r)
    BY <1>4, <2>0, <2>3 DEF Accounting!Perform, Accounting!Mint
  <2>4. CASE UNCHANGED <<tokens, shares, made>>
    BY <1>4, <2>0, <2>4 DEF Accounting!Perform
  <2>5. CASE Accounting!Revoke(r)
    BY <1>4, <2>0, <2>5 DEF Accounting!Perform, Accounting!Revoke
  <2> QED BY <1>4, <2>1, <2>2, <2>3, <2>4, <2>5 DEF Accounting!Perform
<1>5. ASSUME NEW r \in Requests, Accounting!Begin(r) PROVE Tables'
  <2>1. visits[r] \in VisitShape /\ visits[r].from \in Browsers
    BY <1>5 DEF Asked, Accounting!Begin
  <2>2. CASE UNCHANGED <<pending, cookies, made>>
    BY <1>5, <2>2 DEF Accounting!Begin
  <2>3. CASE pending' = Accounting!Unexpired(pending) /\ UNCHANGED <<cookies, made>>
    BY <1>5, <2>3 DEF Accounting!Begin, Accounting!Unexpired
  <2>4. CASE /\ made' = made + 1
             /\ pending' = Accounting!Unexpired(pending) \cup
                   {[id |-> made + 1, from |-> visits[r].from, config |-> visits[r].config,
                     expires |-> time + LoginTTL]}
             /\ cookies' = [cookies EXCEPT ![visits[r].from].login = made + 1]
    <3>1. [id |-> made + 1, from |-> visits[r].from, config |-> visits[r].config,
           expires |-> time + LoginTTL]
             \in [id : Nat, from : Browsers, config : Accounting!Configs \cup {"none"},
                   expires : Nat]
      BY <2>1 DEF VisitShape
    <3>2. cookies' \in [Browsers -> CookieShape]
      BY <2>1, <2>4 DEF CookieShape
    <3> QED BY <1>5, <2>4, <3>1, <3>2 DEF Accounting!Begin, Accounting!Unexpired
  <2> QED BY <1>5, <2>2, <2>3, <2>4 DEF Accounting!Begin
<1>6. ASSUME NEW r \in Requests, Accounting!Finish(r) PROVE Tables'
  BY <1>6 DEF Accounting!Finish, Accounting!WithoutLogin
<1>7. ASSUME NEW r \in Requests, Accounting!CreateSession(r) PROVE Tables'
  <2>1. visits[r] \in VisitShape /\ visits[r].from \in Browsers
    BY <1>7 DEF Asked, Accounting!CreateSession
  <2>2. CASE UNCHANGED <<sessions, cookies, Accounting!historyVars>>
    BY <1>7, <2>2 DEF Accounting!CreateSession
  <2>3. CASE /\ sessions' = Accounting!Unexpired(sessions) \cup
                   {[id |-> visits[r].about, config |-> visits[r].config,
                     expires |-> time + SessionTTL]}
             /\ cookies' = [cookies EXCEPT ![visits[r].from] =
                               [@ EXCEPT !.session = visits[r].about, !.login = 0]]
    <3>1. [id |-> visits[r].about, config |-> visits[r].config, expires |-> time + SessionTTL]
             \in [id : Nat, config : Accounting!Configs \cup {"none"}, expires : Nat]
      BY <2>1 DEF VisitShape
    <3>2. cookies' \in [Browsers -> CookieShape]
      BY <2>1, <2>3 DEF CookieShape, VisitShape
    <3> QED BY <1>7, <2>3, <3>1, <3>2 DEF Accounting!CreateSession, Accounting!Unexpired
  <2> QED BY <1>7, <2>2, <2>3 DEF Accounting!CreateSession
<1>8. ASSUME NEW r \in Requests, Accounting!Logout(r) PROVE Tables'
  <2>1. visits[r].from \in Browsers /\ Accounting!NoCookies \in CookieShape
    BY <1>8 DEF Asked, Accounting!Logout, Accounting!NoCookies, CookieShape
  <2> QED BY <1>8, <2>1 DEF Accounting!Logout
<1>9. ASSUME NEW r \in Requests, Accounting!OpenShare(r) PROVE Tables'
  <2>1. visits[r].from \in Browsers
    BY <1>9 DEF Asked, Accounting!OpenShare
  <2>2. ASSUME NEW s \in shares, cookies' = [cookies EXCEPT ![visits[r].from].share = s.id]
        PROVE  cookies' \in [Browsers -> CookieShape]
    <3>1. s.id \in Nat
      OBVIOUS
    <3> QED BY <2>1, <2>2, <3>1 DEF CookieShape
  <2> QED BY <1>9, <2>2 DEF Accounting!OpenShare
<1>10. CASE Accounting!Tick
  BY <1>10 DEF Accounting!Tick
<1>11. CASE Accounting!Restart
  BY <1>11 DEF Accounting!Restart
<1> QED BY <1>1, <1>2, <1>3, <1>4, <1>5, <1>6, <1>7, <1>8, <1>9, <1>10, <1>11
     DEF Accounting!Steps

(* The requests.                                                           *)
LEMMA AskedBySet ==
    ASSUME NEW r \in Requests, Asked, NEW q \in VisitShape, visits' = [visits EXCEPT ![r] = q],
           q.at # "idle" => q.from \in Browsers
    PROVE  Asked'
  BY DEF Asked

LEMMA IdleIsShaped == Accounting!Idle \in VisitShape /\ Accounting!Idle.at = "idle"
    /\ Accounting!NoCookies \in CookieShape
  BY DEF Accounting!Idle, Accounting!NoCookies, CookieShape, VisitShape, VisitPlaces

LEMMA AskedByEnd == ASSUME NEW r \in Requests, Asked, Accounting!End(r) PROVE Asked'
  BY AskedBySet, IdleIsShaped DEF Accounting!End, Accounting!Set

LEMMA AskedByGoto ==
    ASSUME NEW r \in Requests, Asked, NEW at \in VisitPlaces, Accounting!Goto(r, at),
           visits[r].at # "idle"
    PROVE  Asked'
  BY DEF Asked, Accounting!Goto, VisitShape

LEMMA AskedByAdmit ==
    ASSUME NEW r \in Requests, Asked, visits[r].at # "idle",
           NEW by \in {"open", "token", "session", "share"}, Accounting!Admit(r, by)
    PROVE  Asked'
<1> DEFINE q == [visits[r] EXCEPT !.at = "admitted", !.by = by]
<1>1. visits[r] \in VisitShape /\ visits[r].from \in Browsers
  BY DEF Asked
<1>2. q \in VisitShape /\ q.from = visits[r].from
  BY <1>1 DEF VisitShape, VisitPlaces
<1> QED BY <1>1, <1>2, AskedBySet DEF Accounting!Admit, Accounting!Set

LEMMA AskedStep == ASSUME Limits, AccountsInv, Accounting!Steps PROVE Asked'
<1> USE DEF VisitPlaces
<1>1. Asked /\ Tables
  BY DEF AccountsInv
<1>2. ASSUME NEW r \in Requests, Accounting!Start(r) PROVE Asked'
  <2>1. PICK o \in Accounting!Operations, b \in Browsers, about \in 0 .. made :
          Accounting!Set(r, [Accounting!Idle EXCEPT !.op = o, !.at = "config", !.from = b,
                              !.sent = Accounting!Sent(o, cookies[b]), !.about = about])
    BY <1>2 DEF Accounting!Start
  <2>2. cookies[b] \in CookieShape
    BY <1>1 DEF Tables
  <2>3. Accounting!Sent(o, cookies[b]) \in CookieShape
    BY <2>2 DEF Accounting!Sent, CookieShape
  <2>4. about \in Nat
    BY <1>1 DEF Tables
  <2>5. [Accounting!Idle EXCEPT !.op = o, !.at = "config", !.from = b,
                     !.sent = Accounting!Sent(o, cookies[b]), !.about = about] \in VisitShape
    BY <2>3, <2>4, IdleIsShaped DEF VisitShape
  <2>6. [Accounting!Idle EXCEPT !.op = o, !.at = "config", !.from = b,
                     !.sent = Accounting!Sent(o, cookies[b]), !.about = about].from = b
    BY DEF Accounting!Idle
  <2> QED BY <1>1, <2>1, <2>5, <2>6, AskedBySet DEF Accounting!Set
<1>3. ASSUME NEW r \in Requests, Accounting!ReadConfig(r) PROVE Asked'
  <2>1. visits[r] \in VisitShape /\ visits[r].from \in Browsers /\ visits[r].at # "idle"
    BY <1>1, <1>3 DEF Asked, Accounting!ReadConfig
  <2>2. CASE Accounting!End(r)
    BY <1>1, <2>2, AskedByEnd
  <2>3. CASE Accounting!Goto(r, "erase") \/ Accounting!Goto(r, "open")
    BY <1>1, <2>1, <2>3, AskedByGoto
  <2>4. ASSUME NEW at \in VisitPlaces, NEW by \in {"none", "open"},
               Accounting!Set(r, [visits[r] EXCEPT !.at = at, !.config = config, !.by = by])
        PROVE  Asked'
    <3>1. [visits[r] EXCEPT !.at = at, !.config = config, !.by = by] \in VisitShape
      BY <1>1, <2>1 DEF VisitShape, Tables
    <3>2. [visits[r] EXCEPT !.at = at, !.config = config, !.by = by].from = visits[r].from
      BY <2>1 DEF VisitShape
    <3> QED BY <1>1, <2>1, <2>4, <3>1, <3>2, AskedBySet DEF Accounting!Set
  <2>5. ASSUME Accounting!Set(r, [visits[r] EXCEPT !.at = "begin", !.config = config,
               !.sent = Accounting!NoCookies])
        PROVE  Asked'
    <3>1. [visits[r] EXCEPT !.at = "begin", !.config = config,
              !.sent = Accounting!NoCookies] \in VisitShape
      BY <1>1, <2>1, IdleIsShaped DEF VisitShape, Tables
    <3>2. [visits[r] EXCEPT !.at = "begin", !.config = config, !.sent = Accounting!NoCookies].from
             = visits[r].from
      BY <2>1 DEF VisitShape
    <3> QED BY <1>1, <2>1, <2>5, <3>1, <3>2, AskedBySet DEF Accounting!Set
  <2> QED BY <1>3, <2>2, <2>3, <2>4, <2>5 DEF Accounting!ReadConfig
<1>4. ASSUME NEW r \in Requests, Accounting!FindToken(r) \/ Accounting!UseToken(r)
             \/ Accounting!FindSession(r) \/ Accounting!FindShare(r)
      PROVE Asked'
  <2>1. visits[r].at # "idle"
    BY <1>4
    DEF Accounting!FindToken, Accounting!UseToken, Accounting!FindSession, Accounting!FindShare
  <2> QED BY <1>1, <1>4, <2>1, AskedByEnd, AskedByGoto, AskedByAdmit
       DEF Accounting!FindToken, Accounting!UseToken, Accounting!FindSession, Accounting!FindShare
<1>5. ASSUME NEW r \in Requests,
             Accounting!Perform(r) \/ Accounting!Begin(r) \/ Accounting!CreateSession(r)
                   \/ Accounting!Logout(r) \/ Accounting!OpenShare(r)
      PROVE Asked'
  BY <1>1, <1>5, AskedByEnd
  DEF Accounting!Perform, Accounting!Begin, Accounting!CreateSession, Accounting!Logout,
      Accounting!OpenShare
<1>6. ASSUME NEW r \in Requests, Accounting!Finish(r) PROVE Asked'
  <2>1. visits[r] \in VisitShape /\ visits[r].from \in Browsers
    BY <1>1, <1>6 DEF Asked, Accounting!Finish
  <2>2. [visits[r] EXCEPT !.at = "exchange", !.sent = Accounting!NoCookies] \in VisitShape
    BY <2>1, IdleIsShaped DEF VisitShape
  <2>3. [visits[r] EXCEPT !.at = "exchange", !.sent = Accounting!NoCookies].from = visits[r].from
    BY <2>1 DEF VisitShape
  <2>4. Accounting!Set(r, [visits[r] EXCEPT !.at = "exchange", !.sent = Accounting!NoCookies])
            \/ Accounting!End(r)
    BY <1>6 DEF Accounting!Finish
  <2> QED BY <1>1, <2>1, <2>2, <2>3, <2>4, AskedBySet, AskedByEnd DEF Accounting!Set
<1>7. CASE Accounting!Tick
  BY <1>1, <1>7 DEF Asked, Accounting!Tick
<1>8. CASE Accounting!Restart
  BY <1>1, <1>8, IdleIsShaped DEF Asked, Accounting!Restart
<1> QED BY <1>2, <1>3, <1>4, <1>5, <1>6, <1>7, <1>8 DEF Accounting!Steps

-----------------------------------------------------------------------------
(* Sign-ins.                                                               *)

LEMMA UnexpiredIsFew ==
    ASSUME Limits, FewPending
    PROVE  /\ IsFiniteSet(Accounting!Unexpired(pending))
           /\ Cardinality(Accounting!Unexpired(pending)) \in Nat
           /\ Cardinality(Accounting!Unexpired(pending)) <= MaxPending
<1>1. Accounting!Unexpired(pending) \subseteq pending
  BY DEF Accounting!Unexpired
<1>2. IsFiniteSet(Accounting!Unexpired(pending))
          /\ Cardinality(Accounting!Unexpired(pending)) <= Cardinality(pending)
  BY <1>1, FS_Subset DEF FewPending
<1>3. Cardinality(Accounting!Unexpired(pending)) \in Nat /\ Cardinality(pending) \in Nat
  BY <1>2, FS_CardinalityType DEF FewPending
<1> QED BY <1>2, <1>3 DEF FewPending, Limits

LEMMA FewPendingStep == ASSUME Limits, AccountsInv, Accounting!Steps PROVE FewPending'
<1>1. FewPending /\ Tables
  BY DEF AccountsInv
<1>2. ASSUME NEW r \in Requests, Accounting!Begin(r) PROVE FewPending'
  <2>1. CASE UNCHANGED pending
    BY <1>1, <2>1 DEF FewPending
  <2>2. CASE pending' = Accounting!Unexpired(pending)
    BY <1>1, <2>2, UnexpiredIsFew DEF FewPending
  <2>3. ASSUME NEW l, pending' = Accounting!Unexpired(pending) \cup {l},
               Cardinality(Accounting!Unexpired(pending)) < MaxPending
        PROVE  FewPending'
    <3> DEFINE few == Accounting!Unexpired(pending)
    <3>1. IsFiniteSet(few) /\ Cardinality(few) \in Nat
      BY <1>1, UnexpiredIsFew
    <3>2. /\ IsFiniteSet(few \cup {l})
          /\ Cardinality(few \cup {l}) = Cardinality(few)
               \/ Cardinality(few \cup {l}) = Cardinality(few) + 1
      BY <3>1, FS_AddElement
    <3>3. pending' = few \cup {l} /\ Cardinality(few) < MaxPending
      BY <2>3
    <3>4. Cardinality(few \cup {l}) <= MaxPending
      BY <3>1, <3>2, <3>3 DEF Limits
    <3> QED BY <3>2, <3>3, <3>4 DEF FewPending
  <2> QED BY <1>2, <2>1, <2>2, <2>3, AccountsCount DEF Accounting!Begin
<1>3. ASSUME NEW r \in Requests, Accounting!Finish(r) PROVE FewPending'
  <2>1. pending' \subseteq pending
    BY <1>3 DEF Accounting!Finish, Accounting!WithoutLogin
  <2>2. IsFiniteSet(pending') /\ Cardinality(pending') <= Cardinality(pending)
    BY <1>1, <2>1, FS_Subset DEF FewPending
  <2>3. Cardinality(pending') \in Nat /\ Cardinality(pending) \in Nat
    BY <1>1, <2>2, FS_CardinalityType DEF FewPending
  <2> QED BY <1>1, <2>2, <2>3 DEF FewPending, Limits
<1>4. CASE Accounting!Restart
  BY <1>4, FS_EmptySet DEF Accounting!Restart, FewPending, Limits
<1>5. CASE UNCHANGED pending
  BY <1>1, <1>5 DEF FewPending
<1>6. ASSUME NEW r \in Requests,
             \/ Accounting!Start(r) \/ Accounting!ReadConfig(r) \/ Accounting!FindToken(r)
                   \/ Accounting!UseToken(r) \/ Accounting!FindSession(r)
             \/ Accounting!FindShare(r) \/ Accounting!Perform(r) \/ Accounting!CreateSession(r)
                   \/ Accounting!Logout(r) \/ Accounting!OpenShare(r)
      PROVE  UNCHANGED pending
  BY <1>6
  DEF Accounting!Start, Accounting!ReadConfig, Accounting!FindToken, Accounting!UseToken,
      Accounting!FindSession, Accounting!FindShare, Accounting!Perform,
              Accounting!CreateSession, Accounting!Logout, Accounting!OpenShare
<1>7. CASE Accounting!Tick
  BY <1>7, <1>5 DEF Accounting!Tick
<1> QED BY <1>2, <1>3, <1>4, <1>5, <1>6, <1>7 DEF Accounting!Steps

(* Requests that do not come to the exchange leave the sign-ins as they    *)
(* are, and so does a higher number of identifiers.                        *)
LEMMA SignInsStay ==
    ASSUME Tables, SignInsAreOnce, UNCHANGED <<granted, again>>, pending' \subseteq pending,
           made' \in Nat, made <= made',
           \A r \in Requests : visits'[r].at = "exchange" =>
               visits[r].at = "exchange" /\ visits'[r].about = visits[r].about,
           visits \in [Requests -> VisitShape]
    PROVE  SignInsAreOnce'
  BY DEF SignInsAreOnce, Tables, VisitShape

LEMMA SignInsStep == ASSUME Limits, AccountsInv, Accounting!Steps PROVE SignInsAreOnce'
<1>1. Tables /\ SignInsAreOnce /\ visits \in [Requests -> VisitShape]
  BY DEF AccountsInv, Asked
<1>2. ASSUME NEW r \in Requests, NEW q, visits' = [visits EXCEPT ![r] = q], q.at # "exchange"
      PROVE  \A s \in Requests : visits'[s].at = "exchange" =>
                 visits[s].at = "exchange" /\ visits'[s].about = visits[s].about
  BY <1>1, <1>2
<1>3. ASSUME NEW r \in Requests, Accounting!End(r)
      PROVE \A s \in Requests : visits'[s].at = "exchange" =>
          visits[s].at = "exchange" /\ visits'[s].about = visits[s].about
  BY <1>2, <1>3, IdleIsShaped DEF Accounting!End, Accounting!Set
<1>4. ASSUME NEW r \in Requests, Accounting!Start(r) PROVE SignInsAreOnce'
  <2>1. PICK o \in Accounting!Operations, b \in Browsers, about \in 0 .. made :
          Accounting!Set(r, [Accounting!Idle EXCEPT !.op = o, !.at = "config", !.from = b,
                              !.sent = Accounting!Sent(o, cookies[b]), !.about = about])
    BY <1>4 DEF Accounting!Start
  <2>2. [Accounting!Idle EXCEPT !.op = o, !.at = "config", !.from = b,
                     !.sent = Accounting!Sent(o, cookies[b]), !.about = about].at = "config"
    BY DEF Accounting!Idle
  <2>3. UNCHANGED <<granted, again, pending, made>>
    BY <1>4 DEF Accounting!Start
  <2> QED BY <1>1, <1>2, <2>1, <2>2, <2>3, SignInsStay DEF Accounting!Set, Tables
<1>5. ASSUME NEW r \in Requests, NEW at \in VisitPlaces \ {"exchange"}, Accounting!Goto(r, at)
      PROVE \A s \in Requests : visits'[s].at = "exchange" =>
                visits[s].at = "exchange" /\ visits'[s].about = visits[s].about
  BY <1>1, <1>5 DEF Accounting!Goto, VisitShape
<1>6. ASSUME NEW r \in Requests, Accounting!ReadConfig(r) PROVE SignInsAreOnce'
  <2>1. \A s \in Requests : visits'[s].at = "exchange" =>
            visits[s].at = "exchange" /\ visits'[s].about = visits[s].about
    <3>1. visits[r] \in VisitShape
      BY <1>1
    <3>2. CASE Accounting!End(r) \/ Accounting!Goto(r, "erase") \/ Accounting!Goto(r, "open")
      BY <1>3, <1>5, <3>2 DEF VisitPlaces
    <3>3. ASSUME NEW at \in {"finish", "token", "admitted", "session"}, NEW by,
                 Accounting!Set(r, [visits[r] EXCEPT !.at = at, !.config = config, !.by = by])
          PROVE  \A s \in Requests : visits'[s].at = "exchange" =>
                     visits[s].at = "exchange" /\ visits'[s].about = visits[s].about
      <4>1. [visits[r] EXCEPT !.at = at, !.config = config, !.by = by].at = at
        BY <3>1 DEF VisitShape
      <4> QED BY <1>2, <3>3, <4>1 DEF Accounting!Set
    <3>4. ASSUME Accounting!Set(r, [visits[r] EXCEPT !.at = "begin", !.config = config,
                 !.sent = Accounting!NoCookies])
          PROVE  \A s \in Requests : visits'[s].at = "exchange" =>
                     visits[s].at = "exchange" /\ visits'[s].about = visits[s].about
      <4>1. [visits[r] EXCEPT !.at = "begin", !.config = config,
                !.sent = Accounting!NoCookies].at = "begin"
        BY <3>1 DEF VisitShape
      <4> QED BY <1>2, <3>4, <4>1 DEF Accounting!Set
    <3> QED BY <1>6, <3>2, <3>3, <3>4 DEF Accounting!ReadConfig
  <2>2. UNCHANGED <<granted, again, pending, made>>
    BY <1>6 DEF Accounting!ReadConfig
  <2> QED BY <1>1, <2>1, <2>2, SignInsStay DEF Tables
<1>7. ASSUME NEW r \in Requests, Accounting!FindToken(r) \/ Accounting!UseToken(r)
             \/ Accounting!FindSession(r) \/ Accounting!FindShare(r)
      PROVE SignInsAreOnce'
  <2>1. ASSUME NEW by \in {"open", "token", "session", "share"}, Accounting!Admit(r, by)
        PROVE  \A s \in Requests : visits'[s].at = "exchange" =>
                   visits[s].at = "exchange" /\ visits'[s].about = visits[s].about
    <3>1. visits[r] \in VisitShape
      BY <1>1
    <3>2. [visits[r] EXCEPT !.at = "admitted", !.by = by].at = "admitted"
      BY <3>1 DEF VisitShape
    <3> QED BY <1>2, <2>1, <3>2 DEF Accounting!Admit, Accounting!Set
  <2>2. \A s \in Requests : visits'[s].at = "exchange" =>
            visits[s].at = "exchange" /\ visits'[s].about = visits[s].about
    BY <1>3, <1>5, <1>7, <2>1
    DEF Accounting!FindToken, Accounting!UseToken, Accounting!FindSession, Accounting!FindShare,
        VisitPlaces
  <2>3. UNCHANGED <<granted, again, pending, made>>
    BY <1>7
    DEF Accounting!FindToken, Accounting!UseToken, Accounting!FindSession, Accounting!FindShare
  <2> QED BY <1>1, <2>2, <2>3, SignInsStay DEF Tables
<1>8. ASSUME NEW r \in Requests, Accounting!Perform(r) PROVE SignInsAreOnce'
  <2>1. UNCHANGED <<granted, again, pending>> /\ made' \in Nat /\ made <= made'
    BY <1>1, <1>8
    DEF Accounting!Perform, Accounting!Share, Accounting!Unshare, Accounting!Mint,
        Accounting!Revoke, Tables
  <2> QED BY <1>1, <1>3, <1>8, <2>1, SignInsStay DEF Accounting!Perform
<1>9. ASSUME NEW r \in Requests, Accounting!Logout(r) \/ Accounting!OpenShare(r)
      PROVE SignInsAreOnce'
  <2>1. UNCHANGED <<granted, again, pending, made>>
    BY <1>9 DEF Accounting!Logout, Accounting!OpenShare
  <2> QED BY <1>1, <1>3, <1>9, <2>1, SignInsStay DEF Accounting!Logout, Accounting!OpenShare, Tables
<1>10. ASSUME NEW r \in Requests, Accounting!Begin(r) PROVE SignInsAreOnce'
  <2>1. Accounting!End(r) /\ UNCHANGED <<granted, again>>
    BY <1>10 DEF Accounting!Begin
  <2>2. CASE pending' \subseteq pending /\ UNCHANGED made
    BY <1>1, <1>3, <2>1, <2>2, SignInsStay DEF Tables
  <2>3. ASSUME NEW l, l.id = made + 1, pending' = Accounting!Unexpired(pending) \cup {l},
               made' = made + 1
        PROVE  SignInsAreOnce'
    <3>1. made \in Nat /\ \A k \in pending : k.id \in Nat
      BY <1>1 DEF Tables
    <3>2. /\ ~again' /\ \A n \in granted' : n \in Nat /\ n <= made'
          /\ \A k \in pending' : k.id <= made' /\ k.id \notin granted'
          /\ \A k, m \in pending' : k.id = m.id => k = m
      BY <1>1, <2>1, <2>3, <3>1 DEF SignInsAreOnce, Accounting!Unexpired
    <3>3. \A s \in Requests : visits'[s].at = "exchange" =>
              visits[s].at = "exchange" /\ visits'[s].about = visits[s].about
      BY <1>3, <2>1
    <3>4. ASSUME NEW s \in Requests, visits'[s].at = "exchange"
          PROVE  /\ visits'[s].about <= made' /\ visits'[s].about \notin granted'
                 /\ \A k \in pending' : k.id # visits'[s].about
                 /\ \A u \in Requests : visits'[u].at = "exchange"
                      /\ visits'[u].about = visits'[s].about => u = s
      <4>1. visits[s].about \in Nat /\ visits[s].about <= made
        BY <1>1, <3>3, <3>4 DEF SignInsAreOnce, VisitShape
      <4> QED BY <1>1, <2>1, <2>3, <3>1, <3>3, <3>4, <4>1 DEF SignInsAreOnce, Accounting!Unexpired
    <3> QED BY <3>2, <3>4 DEF SignInsAreOnce
  <2>4. CASE pending' = Accounting!Unexpired(pending) /\ UNCHANGED made
    BY <2>2, <2>4 DEF Accounting!Unexpired
  <2> QED BY <1>10, <2>2, <2>3, <2>4 DEF Accounting!Begin
<1>11. ASSUME NEW r \in Requests, Accounting!Finish(r) PROVE SignInsAreOnce'
  <2>1. UNCHANGED <<granted, again, made>>
    BY <1>11 DEF Accounting!Finish
  <2>2. CASE Accounting!End(r)
    <3>1. pending' \subseteq pending
      BY <1>11 DEF Accounting!Finish, Accounting!WithoutLogin
    <3> QED BY <1>1, <1>3, <2>1, <2>2, <3>1, SignInsStay DEF Tables
  <2>3. ASSUME NEW l \in pending, l.id = visits[r].about, pending' = pending \ {l},
               Accounting!Set(r, [visits[r] EXCEPT !.at = "exchange",
                     !.sent = Accounting!NoCookies])
        PROVE  SignInsAreOnce'
    <3>1. visits[r] \in VisitShape
      BY <1>1
    <3>2. visits'[r].at = "exchange" /\ visits'[r].about = l.id
      BY <1>1, <2>3, <3>1 DEF Accounting!Set, VisitShape
    <3>3. \A s \in Requests \ {r} : visits'[s] = visits[s]
      BY <1>1, <2>3 DEF Accounting!Set
    <3>4. l.id <= made /\ l.id \notin granted
      BY <1>1 DEF SignInsAreOnce
    <3>5. \A s \in Requests : visits[s].at = "exchange" => l.id # visits[s].about
      BY <1>1 DEF SignInsAreOnce
    <3>6. \A k \in pending' : k.id # l.id
      BY <1>1, <2>3 DEF SignInsAreOnce
    <3> QED BY <1>1, <2>1, <2>3, <3>2, <3>3, <3>4, <3>5, <3>6 DEF SignInsAreOnce
  <2> QED BY <1>11, <2>2, <2>3 DEF Accounting!Finish, Accounting!WithoutLogin
<1>12. ASSUME NEW r \in Requests, Accounting!CreateSession(r) PROVE SignInsAreOnce'
  <2>1. UNCHANGED <<pending, made>> /\ visits[r].at = "exchange" /\ Accounting!End(r)
    BY <1>12 DEF Accounting!CreateSession
  <2>2. CASE UNCHANGED Accounting!historyVars
    BY <1>1, <1>3, <2>1, <2>2, SignInsStay DEF Tables
  <2>3. CASE granted' = granted \cup {visits[r].about}
             /\ again' = (again \/ visits[r].about \in granted)
    <3>1. visits[r].about \in Nat /\ visits[r].about <= made
          /\ visits[r].about \notin granted
      BY <1>1, <2>1 DEF SignInsAreOnce, VisitShape
    <3>2. again' = FALSE
      BY <1>1, <2>3, <3>1 DEF SignInsAreOnce
    <3>3. visits'[r].at # "exchange" /\ \A s \in Requests \ {r} : visits'[s] = visits[s]
      BY <1>1, <2>1, IdleIsShaped DEF Accounting!End, Accounting!Set
    <3> QED BY <1>1, <2>1, <2>3, <3>1, <3>2, <3>3 DEF SignInsAreOnce
  <2> QED BY <1>12, <2>2, <2>3 DEF Accounting!CreateSession
<1>13. CASE Accounting!Tick
  <2>1. UNCHANGED <<visits, granted, again, pending, made>>
    BY <1>13 DEF Accounting!Tick
  <2> QED BY <1>1, <2>1, SignInsStay DEF Tables
<1>14. CASE Accounting!Restart
  <2>1. UNCHANGED <<granted, again, made>> /\ pending' = {}
        /\ \A r \in Requests : visits'[r].at = "idle"
    BY <1>14, IdleIsShaped DEF Accounting!Restart
  <2> QED BY <1>1, <2>1 DEF SignInsAreOnce
<1> QED BY <1>4, <1>6, <1>7, <1>8, <1>9, <1>10, <1>11, <1>12, <1>13, <1>14 DEF Accounting!Steps

-----------------------------------------------------------------------------
(* What a request was entitled to.                                         *)

LEMMA EntitledBySet ==
    ASSUME NEW r \in Requests, visits \in [Requests -> VisitShape], EntitledInv, Accounting!Observe,
           NEW q, visits' = [visits EXCEPT ![r] = q], Entitled(q, during'[r])
    PROVE  EntitledInv'
<1>1. visits'[r] = q /\ \A s \in Requests \ {r} : visits'[s] = visits[s]
  OBVIOUS
<1>2. ASSUME NEW s \in Requests PROVE Entitled(visits'[s], during'[s])
  BY <1>1, <1>2, SameRequest
<1> QED BY <1>2 DEF EntitledInv, Entitled

LEMMA EntitledByEnd ==
    ASSUME NEW r \in Requests, visits \in [Requests -> VisitShape], EntitledInv,
           Accounting!Observe, Accounting!End(r)
    PROVE  EntitledInv'
<1>1. Entitled(Accounting!Idle, during'[r])
  BY DEF Entitled, Accounting!Idle
<1> QED BY <1>1, EntitledBySet DEF Accounting!End, Accounting!Set

LEMMA EntitledByGoto ==
    ASSUME NEW r \in Requests, visits \in [Requests -> VisitShape], EntitledInv, Accounting!Observe,
           NEW at \in VisitPlaces, Accounting!Goto(r, at),
           at \notin {"config", "admitted"},
           at = "token" => visits[r].op \in Accounting!Guarded,
           at = "share" => visits[r].op = "read",
           at = "session" => visits[r].op \in Asking,
           at = "use" => visits[r].op \in Accounting!Guarded /\ visits[r].about \in tokens
    PROVE  EntitledInv'
<1> DEFINE q == [visits[r] EXCEPT !.at = at]
<1>1. /\ q.at = at /\ q.op = visits[r].op /\ q.about = visits[r].about
      /\ visits' = [visits EXCEPT ![r] = q] /\ visits'[r] = q
  BY DEF Accounting!Goto, VisitShape
<1>2. CASE at = "use"
  <2>1. q.about \in Accounting!Valid(q)
    BY <1>1, <1>2 DEF Accounting!Valid
  <2>2. Accounting!Valid(visits'[r]) \subseteq during'[r]
    BY <1>1, <1>2, ObserveKeeps DEF Asking
  <2>3. Entitled(q, during'[r])
    BY <1>1, <1>2, <2>1, <2>2 DEF Entitled
  <2> QED BY <1>1, <2>3, EntitledBySet
<1>3. CASE at # "use"
  <2>1. Entitled(q, during'[r])
    BY <1>1, <1>3 DEF Entitled
  <2> QED BY <1>1, <2>1, EntitledBySet
<1> QED BY <1>2, <1>3

LEMMA EntitledByAdmit ==
    ASSUME NEW r \in Requests, visits \in [Requests -> VisitShape], EntitledInv, Accounting!Observe,
           NEW by \in {"open", "token", "session", "share"}, Accounting!Admit(r, by),
           visits[r].op \in Asking,
           by = "open" => ~Accounting!Protected(visits[r].config),
           by = "token" => visits[r].op \in Accounting!Guarded /\ visits[r].about \in during[r],
           by = "session" =>
               visits[r].sent.session \in {s.id : s \in Accounting!Unexpired(sessions)},
           by = "share" =>
               visits[r].op = "read" /\ visits[r].sent.share \in {s.id : s \in shares}
    PROVE  EntitledInv'
<1> DEFINE q == [visits[r] EXCEPT !.at = "admitted", !.by = by]
<1>1. /\ q.at = "admitted" /\ q.by = by /\ q.op = visits[r].op /\ q.about = visits[r].about
      /\ q.sent = visits[r].sent /\ q.config = visits[r].config
      /\ visits' = [visits EXCEPT ![r] = q] /\ visits'[r] = q
  BY DEF Accounting!Admit, Accounting!Set, VisitShape
<1>2. during[r] \subseteq during'[r] /\ Accounting!Valid(q) \subseteq during'[r]
  BY <1>1, ObserveKeeps
<1>3. by = "session" => q.sent.session \in Accounting!Valid(q)
  BY <1>1 DEF Accounting!Valid
<1>4. by = "share" => q.sent.share \in Accounting!Valid(q)
  BY <1>1 DEF Accounting!Valid
<1>5. Entitled(q, during'[r])
  BY <1>1, <1>2, <1>3, <1>4 DEF Entitled
<1> QED BY <1>1, <1>5, EntitledBySet

LEMMA EntitledStep == ASSUME Limits, AccountsInv, Accounting!Steps, Accounting!Observe
                      PROVE EntitledInv'
<1>1. visits \in [Requests -> VisitShape] /\ EntitledInv
  BY DEF AccountsInv, Asked
<1> USE DEF VisitPlaces
<1>2. ASSUME NEW r \in Requests, Accounting!Start(r) PROVE EntitledInv'
  <2>1. PICK o \in Accounting!Operations, b \in Browsers, about \in 0 .. made :
          Accounting!Set(r, [Accounting!Idle EXCEPT !.op = o, !.at = "config", !.from = b,
                              !.sent = Accounting!Sent(o, cookies[b]), !.about = about])
    BY <1>2 DEF Accounting!Start
  <2> DEFINE q == [Accounting!Idle EXCEPT !.op = o, !.at = "config", !.from = b,
                               !.sent = Accounting!Sent(o, cookies[b]), !.about = about]
  <2>2. q.at = "config" /\ q.op = o
    BY DEF Accounting!Idle
  <2>3. Entitled(q, during'[r])
    BY <2>2 DEF Entitled
  <2> QED BY <1>1, <2>1, <2>3, EntitledBySet DEF Accounting!Set
<1>3. ASSUME NEW r \in Requests, Accounting!ReadConfig(r) PROVE EntitledInv'
  <2>1. visits[r] \in VisitShape /\ visits[r].op \in Accounting!Operations
    BY <1>1, <1>3 DEF Accounting!ReadConfig, EntitledInv, Entitled
  <2>2. CASE Accounting!End(r) \/ Accounting!Goto(r, "erase") \/ Accounting!Goto(r, "open")
    BY <1>1, <2>2, EntitledByEnd, EntitledByGoto
  <2>3. ASSUME NEW at \in {"finish", "token", "session", "admitted"}, NEW by \in {"none", "open"},
               Accounting!Set(r, [visits[r] EXCEPT !.at = at, !.config = config, !.by = by]),
               at = "token" => visits[r].op \in Accounting!Guarded,
               at = "session" => visits[r].op \in Asking,
               at = "admitted" =>
                   visits[r].op \in Asking /\ by = "open" /\ ~Accounting!Protected(config)
        PROVE  EntitledInv'
    <3> DEFINE q == [visits[r] EXCEPT !.at = at, !.config = config, !.by = by]
    <3>1. q.at = at /\ q.by = by /\ q.op = visits[r].op /\ q.config = config
      BY <2>1 DEF VisitShape
    <3>2. Entitled(q, during'[r])
      BY <2>3, <3>1 DEF Entitled
    <3> QED BY <1>1, <2>3, <3>2, EntitledBySet DEF Accounting!Set
  <2>4. ASSUME Accounting!Set(r, [visits[r] EXCEPT !.at = "begin", !.config = config,
               !.sent = Accounting!NoCookies])
        PROVE  EntitledInv'
    <3> DEFINE q == [visits[r] EXCEPT !.at = "begin", !.config = config,
        !.sent = Accounting!NoCookies]
    <3>1. q.at = "begin"
      BY <2>1 DEF VisitShape
    <3>2. Entitled(q, during'[r])
      BY <3>1 DEF Entitled
    <3> QED BY <1>1, <2>4, <3>2, EntitledBySet DEF Accounting!Set
  <2>5. CASE visits[r].op \notin Asking
    BY <1>3, <2>1, <2>2, <2>3, <2>4, <2>5 DEF Accounting!ReadConfig, Asking, Accounting!Operations
  <2>6. CASE visits[r].op \in Asking
    BY <1>3, <2>2, <2>3, <2>6 DEF Accounting!ReadConfig, Asking
  <2> QED BY <2>5, <2>6
<1>4. ASSUME NEW r \in Requests, Accounting!FindToken(r) PROVE EntitledInv'
  <2>1. visits[r].op \in Accounting!Guarded /\ visits[r].op \in Asking
    BY <1>1, <1>4 DEF Accounting!FindToken, EntitledInv, Entitled, Asking
  <2> QED BY <1>1, <1>4, <2>1, EntitledByGoto, EntitledByAdmit DEF Accounting!FindToken
<1>5. ASSUME NEW r \in Requests, Accounting!UseToken(r) PROVE EntitledInv'
  <2>1. /\ visits[r].op \in Accounting!Guarded /\ visits[r].op \in Asking
        /\ visits[r].about \in during[r]
    BY <1>1, <1>5 DEF Accounting!UseToken, EntitledInv, Entitled, Asking
  <2> QED BY <1>1, <1>5, <2>1, EntitledByEnd, EntitledByAdmit DEF Accounting!UseToken
<1>6. ASSUME NEW r \in Requests, Accounting!FindSession(r) PROVE EntitledInv'
  <2>1. visits[r].op \in Asking
    BY <1>1, <1>6 DEF Accounting!FindSession, EntitledInv, Entitled
  <2> QED BY <1>1, <1>6, <2>1, EntitledByEnd, EntitledByGoto, EntitledByAdmit
       DEF Accounting!FindSession, Accounting!IsSignedIn
<1>7. ASSUME NEW r \in Requests, Accounting!FindShare(r) PROVE EntitledInv'
  <2>1. visits[r].op = "read" /\ "read" \in Asking
    BY <1>1, <1>7 DEF Accounting!FindShare, EntitledInv, Entitled, Asking
  <2> QED BY <1>1, <1>7, <2>1, EntitledByEnd, EntitledByAdmit DEF Accounting!FindShare
<1>8. ASSUME NEW r \in Requests,
             Accounting!Perform(r) \/ Accounting!Begin(r) \/ Accounting!CreateSession(r)
                   \/ Accounting!Logout(r) \/ Accounting!OpenShare(r)
      PROVE EntitledInv'
  BY <1>1, <1>8, EntitledByEnd
  DEF Accounting!Perform, Accounting!Begin, Accounting!CreateSession, Accounting!Logout,
      Accounting!OpenShare
<1>9. ASSUME NEW r \in Requests, Accounting!Finish(r) PROVE EntitledInv'
  <2> DEFINE q == [visits[r] EXCEPT !.at = "exchange", !.sent = Accounting!NoCookies]
  <2>1. q.at = "exchange"
    BY <1>1 DEF VisitShape
  <2>2. Entitled(q, during'[r])
    BY <2>1 DEF Entitled
  <2>3. Accounting!Set(r, q) \/ Accounting!End(r)
    BY <1>9 DEF Accounting!Finish
  <2> QED BY <1>1, <2>2, <2>3, EntitledBySet, EntitledByEnd DEF Accounting!Set
<1>10. CASE Accounting!Tick
  <2>1. visits' = visits
    BY <1>10 DEF Accounting!Tick
  <2>2. ASSUME NEW s \in Requests PROVE Entitled(visits'[s], during'[s])
    BY <1>1, <2>1, SameRequest
  <2> QED BY <2>2 DEF EntitledInv, Entitled
<1>11. CASE Accounting!Restart
  BY <1>11, IdleIsShaped DEF Accounting!Restart, EntitledInv, Entitled
<1> QED BY <1>2, <1>3, <1>4, <1>5, <1>6, <1>7, <1>8, <1>9, <1>10, <1>11 DEF Accounting!Steps

-----------------------------------------------------------------------------
LEMMA AccountsStutter == AccountsInv /\ UNCHANGED Accounting!vars => AccountsInv'
  BY
  DEF AccountsInv, Accounting!vars, Tables, Asked, FewPending, SignInsAreOnce, EntitledInv,
      Entitled, Accounting!Unexpired

LEMMA AccountsInvHolds == ASSUME Limits PROVE Accounting!Spec => []AccountsInv
<1>1. AccountsInv /\ [Accounting!Next]_(Accounting!vars) => AccountsInv'
  <2> SUFFICES ASSUME AccountsInv, [Accounting!Next]_(Accounting!vars) PROVE AccountsInv'
    OBVIOUS
  <2>1. CASE Accounting!Next
    BY <2>1, TablesStep, AskedStep, FewPendingStep, SignInsStep, EntitledStep
    DEF Accounting!Next, AccountsInv
  <2>2. CASE UNCHANGED Accounting!vars
    BY <2>2, AccountsStutter
  <2> QED BY <2>1, <2>2
<1> QED BY <1>1, InitAccountsInv, PTL DEF Accounting!Spec

(* A request is let in only by what was valid while it was at work -- an   *)
(* open server, a token for all that is under /v1, a session of the        *)
(* settings it read, a share for reading -- and a sign-in makes one        *)
(* session, whatever is signed out, revoked or changed beside it           *)
(* (auth.rs, oidc.rs).                                                     *)
LEMMA AccountsHold == ASSUME Limits PROVE Accounting!Spec => []Accounting!AccessIsEarned
<1>1. AccountsInv => Accounting!AccessIsEarned
  <2> SUFFICES ASSUME AccountsInv PROVE Accounting!AccessIsEarned
    OBVIOUS
  <2>1. ~again /\ Cardinality(pending) <= MaxPending
    BY DEF AccountsInv, SignInsAreOnce, FewPending
  <2>2. ASSUME NEW r \in Requests, visits[r].at = "admitted"
        PROVE  CASE visits[r].by = "open" -> ~Accounting!Protected(visits[r].config)
                 [] visits[r].by = "token" ->
                        visits[r].op \in Accounting!Guarded /\ visits[r].about \in during[r]
                 [] visits[r].by = "session" -> visits[r].sent.session \in during[r]
                 [] visits[r].by = "share" ->
                        visits[r].op = "read" /\ visits[r].sent.share \in during[r]
    BY <2>2 DEF AccountsInv, EntitledInv, Entitled
  <2> QED BY <2>1, <2>2, AccountsCount DEF Accounting!AccessIsEarned
<1> QED BY <1>1, AccountsInvHolds, PTL

-----------------------------------------------------------------------------
(* The registry of the sources and what it answers (SourceCatalog).        *)

Looked == {"looking", "waiting", "asking", "answered"}

(* What is kept was found since the last time the search was invalidated,  *)
(* and shows what its key says.                                            *)
FoundInv ==
    \A s \in Catalog!Showing : cached[s] # Catalog!NoEntry => cached[s].stored = warms
          /\ cached[s].shows = s

(* What a call asks for was set while it was made.                         *)
AskInv(c) ==
    /\ asks[c].began <= warms
    /\ kind = "search" /\ asks[c].at = "began" => showing \in asks[c].during
    /\ kind = "search" /\ asks[c].at \in Looked => asks[c].asks \in asks[c].during
    /\ asks[c].at = "answered" =>
        asks[c].entry.shows = asks[c].asks /\ asks[c].entry.stored >= asks[c].began

(* A toggle that is half-way is the only one, and the registry's last.     *)
ToggleInv ==
    ~disturbed =>
        /\ Catalog!Switched = {} => state = registry
        /\ \A t \in Catalog!Switched : Catalog!Switched = {t} /\ registry = toggle[t].to

Entries == [stored : Nat, shows : Catalog!Showing]
AskShape == [at : {"idle", "planned", "began"} \cup Looked, asks : Catalog!Showing, entry : Entries,
              began : Nat, during : SUBSET Catalog!Showing]

CatalogShapes ==
    /\ cached \in [Catalog!Showing -> Entries]
    /\ asks \in [Calls -> AskShape]
    /\ toggle \in [Toggles -> [at : {"idle", "waiting", "switched", "done"}, to : Catalog!States]]
    /\ warms \in Nat /\ showing \in Catalog!Showing

CatalogInv ==
    /\ CatalogShapes /\ Catalog!DisabledIsLeftAlone /\ FoundInv /\ ToggleInv
    /\ \A c \in Calls : AskInv(c)

USE DEF Catalog!Goes, Catalog!Ends, Looked, Catalog!Showing, Catalog!States

-----------------------------------------------------------------------------
LEMMA InitCatalogInv == Catalog!Init => CatalogInv
<1> SUFFICES ASSUME Catalog!Init PROVE CatalogInv
  OBVIOUS
<1> USE DEF Catalog!Init, Catalog!Idle, Catalog!NoEntry, Catalog!Unused
<1>1. CatalogShapes
  BY DEF CatalogShapes, Entries, AskShape
<1>2. Catalog!DisabledIsLeftAlone /\ \A c \in Calls : AskInv(c)
  BY DEF Catalog!DisabledIsLeftAlone, Catalog!Asking, AskInv
<1>3. FoundInv
  BY DEF FoundInv
<1>4. Catalog!Switched = {}
  BY DEF Catalog!Switched
<1> QED BY <1>1, <1>2, <1>3, <1>4 DEF CatalogInv, ToggleInv

(* What a step makes of one call, of every call, and of the cache has its  *)
(* shape when the parts have theirs.                                       *)
LEMMA CallGoes ==
    ASSUME CatalogShapes, NEW c \in Calls, NEW r \in AskShape, asks' = [asks EXCEPT ![c] = r]
    PROVE  asks' \in [Calls -> AskShape]
BY DEF CatalogShapes

LEMMA CallEnds ==
    ASSUME CatalogShapes, NEW c \in Calls, Catalog!Ends(c)
    PROVE  asks' \in [Calls -> AskShape]
<1>1. Catalog!Idle \in AskShape
  BY DEF Catalog!Idle, Catalog!NoEntry, AskShape, Entries
<1> QED BY <1>1, CallGoes

LEMMA CallMoves ==
    ASSUME CatalogShapes, NEW c \in Calls, NEW at \in {"planned", "asking", "waiting"},
           Catalog!Goes(c, at)
    PROVE  asks' \in [Calls -> AskShape]
BY DEF CatalogShapes, AskShape

LEMMA CallLooks ==
    ASSUME NEW r \in AskShape, NEW wish \in Catalog!Showing
    PROVE  [r EXCEPT !.at = "looking", !.asks = wish] \in AskShape
BY DEF AskShape

LEMMA CallAnswered ==
    ASSUME NEW r \in AskShape, NEW entry \in Entries
    PROVE  [r EXCEPT !.at = "answered", !.entry = entry] \in AskShape
BY DEF AskShape, Entries

(* Every action keeps the shapes.                                          *)
LEMMA CatalogShapesStep == CatalogShapes /\ [Catalog!Next]_(Catalog!vars) => CatalogShapes'
<1> SUFFICES ASSUME CatalogShapes, [Catalog!Next]_(Catalog!vars) PROVE CatalogShapes'
  OBVIOUS
<1>1. ASSUME NEW c \in Calls, Catalog!Begin(c) PROVE CatalogShapes'
  <2>1. [Catalog!Idle EXCEPT !.at = "began", !.began = warms, !.during = {showing}] \in AskShape
    BY DEF Catalog!Idle, Catalog!NoEntry, AskShape, Entries, CatalogShapes
  <2>2. asks' \in [Calls -> AskShape]
    BY <2>1, <1>1, CallGoes DEF Catalog!Begin
  <2> QED BY <1>1, <2>2 DEF Catalog!Begin, CatalogShapes
<1>2. ASSUME NEW c \in Calls, Catalog!PlanWarm(c) PROVE CatalogShapes'
  <2>1. Catalog!Goes(c, "planned") /\ UNCHANGED <<cached, toggle, warms, showing>>
    BY <1>2 DEF Catalog!PlanWarm
  <2>2. asks' \in [Calls -> AskShape]
    BY <2>1, CallMoves
  <2> QED BY <2>1, <2>2 DEF CatalogShapes
<1>3. ASSUME NEW c \in Calls, Catalog!InvalidateSearch(c) PROVE CatalogShapes'
  <2>1. warms' \in Nat
    BY <1>3 DEF Catalog!InvalidateSearch, CatalogShapes
  <2>2. [Catalog!Idle EXCEPT !.at = "began", !.began = warms', !.during = {showing}] \in AskShape
    BY <2>1 DEF Catalog!Idle, Catalog!NoEntry, AskShape, Entries, CatalogShapes
  <2>3. asks' \in [Calls -> AskShape]
    BY <2>2, <1>3, CallGoes DEF Catalog!InvalidateSearch
  <2>4. cached' \in [Catalog!Showing -> Entries]
    BY <1>3 DEF Catalog!InvalidateSearch, Catalog!Invalidated, Catalog!NoEntry, Entries
  <2>5. UNCHANGED <<toggle, showing>>
    BY <1>3 DEF Catalog!InvalidateSearch
  <2> QED BY <2>1, <2>3, <2>4, <2>5 DEF CatalogShapes
<1>4. ASSUME NEW c \in Calls, Catalog!HideNsfw(c) PROVE CatalogShapes'
  <2> DEFINE wish == IF kind = "search" THEN showing ELSE "all"
  <2>1. wish \in Catalog!Showing
    BY DEF CatalogShapes
  <2> DEFINE r == [asks[c] EXCEPT !.at = "looking", !.asks = wish]
  <2>2. asks' = [asks EXCEPT ![c] = r]
    BY <1>4, Zenon DEF Catalog!HideNsfw
  <2>3. UNCHANGED <<cached, toggle, warms, showing>>
    BY <1>4 DEF Catalog!HideNsfw
  <2> HIDE DEF wish
  <2>4. r \in AskShape
    BY <2>1, CallLooks DEF CatalogShapes
  <2> HIDE DEF r
  <2>5. asks' \in [Calls -> AskShape]
    BY <2>2, <2>4, CallGoes
  <2> QED BY <2>3, <2>5 DEF CatalogShapes
<1>5. ASSUME NEW c \in Calls, Catalog!Lookup(c) PROVE CatalogShapes'
  <2>1. Catalog!Entry(c) \in Entries
    BY DEF Catalog!Entry, CatalogShapes, AskShape
  <2>2. asks' \in [Calls -> AskShape]
    <3>1. CASE Catalog!Entry(c) # Catalog!NoEntry
      <4> DEFINE r == [asks[c] EXCEPT !.at = "answered", !.entry = Catalog!Entry(c)]
      <4>1. asks' = [asks EXCEPT ![c] = r]
        BY <1>5, <3>1, Zenon DEF Catalog!Lookup
      <4>2. r \in AskShape
        BY <2>1, CallAnswered DEF CatalogShapes
      <4> QED BY <4>1, <4>2, CallGoes
    <3>2. CASE Catalog!Entry(c) = Catalog!NoEntry
      <4>1. Catalog!Goes(c, "waiting")
        BY <1>5, <3>2, Zenon DEF Catalog!Lookup
      <4> QED BY <4>1, CallMoves
    <3> QED BY <3>1, <3>2
  <2>3. UNCHANGED <<cached, toggle, warms, showing>>
    BY <1>5 DEF Catalog!Lookup
  <2> QED BY <2>2, <2>3 DEF CatalogShapes
<1>6. ASSUME NEW c \in Calls, Catalog!Require(c) PROVE CatalogShapes'
  <2>1. asks' \in [Calls -> AskShape]
    <3>1. CASE registry = "off"
      BY <1>6, <3>1, CallEnds DEF Catalog!Require
    <3>2. CASE registry # "off"
      BY <1>6, <3>2, CallMoves DEF Catalog!Require
    <3> QED BY <3>1, <3>2
  <2> QED BY <1>6, <2>1 DEF Catalog!Require, CatalogShapes
<1>7. ASSUME NEW c \in Calls, Catalog!Answer(c) PROVE CatalogShapes'
  <2> DEFINE entry == [stored |-> warms, shows |-> Catalog!Shows(c)]
  <2>1. entry \in Entries
    BY DEF Catalog!Shows, Entries, CatalogShapes, AskShape
  <2> DEFINE r == [asks[c] EXCEPT !.at = "answered", !.entry = entry]
  <2>2. cached' = [cached EXCEPT ![asks[c].asks] = entry] /\ asks' = [asks EXCEPT ![c] = r]
    BY <1>7, Zenon DEF Catalog!Answer
  <2>3. UNCHANGED <<toggle, warms, showing>>
    BY <1>7 DEF Catalog!Answer
  <2> HIDE DEF entry
  <2>4. r \in AskShape
    BY <2>1, CallAnswered DEF CatalogShapes
  <2>5. cached' \in [Catalog!Showing -> Entries]
    BY <2>1, <2>2 DEF CatalogShapes, AskShape
  <2> HIDE DEF r
  <2>6. asks' \in [Calls -> AskShape]
    BY <2>2, <2>4, CallGoes
  <2> QED BY <2>3, <2>5, <2>6 DEF CatalogShapes
<1>8. ASSUME NEW c \in Calls, Catalog!Fail(c) \/ Catalog!Done(c) PROVE CatalogShapes'
  <2>1. asks' \in [Calls -> AskShape]
    BY <1>8, CallEnds DEF Catalog!Fail, Catalog!Done
  <2> QED BY <1>8, <2>1 DEF Catalog!Fail, Catalog!Done, CatalogShapes
<1>9. ASSUME NEW s \in Catalog!Showing, Catalog!Forget(s) PROVE CatalogShapes'
  <2>1. cached' \in [Catalog!Showing -> Entries]
    BY <1>9 DEF Catalog!Forget, Catalog!NoEntry, Entries, CatalogShapes
  <2> QED BY <1>9, <2>1 DEF Catalog!Forget, CatalogShapes
<1>10. ASSUME NEW s \in Catalog!Showing, Catalog!SetHideNsfw(s) PROVE CatalogShapes'
  <2>1. ASSUME NEW c \in Calls
        PROVE  Catalog!Idle \in AskShape /\ [asks[c] EXCEPT !.during = @ \cup {s}] \in AskShape
    BY SMTT(30) DEF Catalog!Idle, Catalog!NoEntry, AskShape, Entries, CatalogShapes
  <2>2. asks' \in [Calls -> AskShape]
    BY <1>10, <2>1 DEF Catalog!SetHideNsfw
  <2> QED BY <1>10, <2>2 DEF Catalog!SetHideNsfw, CatalogShapes
<1>11. ASSUME NEW t \in Toggles, Catalog!SetSourceEnabled(t) PROVE CatalogShapes'
  <2>1. toggle' = [toggle EXCEPT ![t].at = "switched"]
    BY <1>11 DEF Catalog!SetSourceEnabled
  <2>2. toggle' \in [Toggles -> [at : {"idle", "waiting", "switched", "done"}, to : Catalog!States]]
    BY <2>1 DEF CatalogShapes
  <2>3. UNCHANGED <<cached, asks, warms, showing>>
    BY <1>11 DEF Catalog!SetSourceEnabled
  <2> QED BY <2>2, <2>3 DEF CatalogShapes
<1>12. ASSUME NEW t \in Toggles, Catalog!PersistEnabled(t) PROVE CatalogShapes'
  BY <1>12 DEF Catalog!PersistEnabled, CatalogShapes, Catalog!Over
<1>13. ASSUME NEW t \in Toggles, NEW to \in Catalog!States, Catalog!WantToggle(t, to)
       PROVE CatalogShapes'
  BY <1>13 DEF Catalog!WantToggle, CatalogShapes
<1>14. ASSUME Catalog!Restart PROVE CatalogShapes'
  <2>1. asks' \in [Calls -> AskShape]
    BY <1>14 DEF Catalog!Restart, Catalog!Idle, Catalog!NoEntry, AskShape, Entries
  <2>2. toggle' \in [Toggles -> [at : {"idle", "waiting", "switched", "done"}, to : Catalog!States]]
    BY <1>14 DEF Catalog!Restart, Catalog!Unused, Catalog!Over
  <2>3. UNCHANGED <<cached, warms, showing>>
    BY <1>14 DEF Catalog!Restart
  <2> QED BY <2>1, <2>2, <2>3 DEF CatalogShapes
<1>15. CASE UNCHANGED Catalog!vars
  BY <1>15 DEF Catalog!vars, CatalogShapes
<1> QED
  BY <1>1, <1>2, <1>3, <1>4, <1>5, <1>6, <1>7, <1>8, <1>9, <1>10, <1>11, <1>12, <1>13, <1>14,
     <1>15 DEF Catalog!Next
-----------------------------------------------------------------------------
(* What a step of one call leaves alone, and what it makes of the call.    *)
LEMMA OnlyOneCall ==
    ASSUME CatalogShapes, NEW c \in Calls, NEW r, asks' = [asks EXCEPT ![c] = r]
    PROVE  asks'[c] = r /\ \A d \in Calls : d # c => asks'[d] = asks[d]
BY DEF CatalogShapes

LEMMA OnlyItMoves ==
    ASSUME CatalogShapes, NEW c \in Calls, NEW at, Catalog!Goes(c, at)
    PROVE  /\ asks'[c] = [asks[c] EXCEPT !.at = at]
           /\ \A d \in Calls : d # c => asks'[d] = asks[d]
BY DEF CatalogShapes

LEMMA ItMoved ==
    ASSUME NEW r \in AskShape, NEW at
    PROVE  LET s == [r EXCEPT !.at = at]
           IN  /\ s.at = at /\ s.asks = r.asks /\ s.entry = r.entry
               /\ s.began = r.began /\ s.during = r.during
BY DEF AskShape

LEMMA ItSaw ==
    ASSUME NEW r \in AskShape, NEW s
    PROVE  LET q == [r EXCEPT !.during = @ \cup {s}]
           IN  /\ q.at = r.at /\ q.asks = r.asks /\ q.entry = r.entry
               /\ q.began = r.began /\ q.during = r.during \cup {s}
BY DEF AskShape

LEMMA AskInvKept ==
    ASSUME CatalogShapes, NEW d \in Calls, AskInv(d), asks'[d] = asks[d],
           UNCHANGED <<kind, showing>>, warms' \in {warms, warms + 1}
    PROVE  AskInv(d)'
<1>1. asks[d].began \in Nat /\ warms \in Nat
  BY DEF CatalogShapes, AskShape
<1>2. (asks[d].began <= warms)'
  BY <1>1 DEF AskInv
<1> QED BY <1>2 DEF AskInv

(* A step that leaves what the source is told alone, and brings no call to *)
(* the source.                                                             *)
LEMMA QuietStep ==
    ASSUME CatalogInv, UNCHANGED <<cached, registry, state, toggle, warms, disturbed>>,
           \A d \in Calls : asks'[d].at = "asking" => asks[d].at = "asking" \/ registry # "off"
    PROVE  Catalog!DisabledIsLeftAlone' /\ FoundInv' /\ ToggleInv'
<1>1. Catalog!DisabledIsLeftAlone'
  BY DEF CatalogInv, Catalog!DisabledIsLeftAlone, Catalog!Asking
<1>2. FoundInv'
  BY DEF CatalogInv, FoundInv, Catalog!NoEntry
<1>3. ToggleInv'
  BY DEF CatalogInv, ToggleInv, Catalog!Switched
<1> QED BY <1>1, <1>2, <1>3

LEMMA OneCallStep ==
    ASSUME CatalogInv, NEW c \in Calls, AskInv(c)', UNCHANGED <<kind, showing>>,
           warms' \in {warms, warms + 1}, \A d \in Calls : d # c => asks'[d] = asks[d]
    PROVE  \A d \in Calls : AskInv(d)'
<1> TAKE d \in Calls
<1>1. CASE d = c
  BY <1>1
<1>2. CASE d # c
  BY <1>2, AskInvKept DEF CatalogInv
<1> QED BY <1>1, <1>2

LEMMA CallsStay ==
    ASSUME CatalogInv, UNCHANGED <<kind, showing, warms, asks>>
    PROVE  \A d \in Calls : AskInv(d)'
<1> TAKE d \in Calls
<1> QED BY AskInvKept DEF CatalogInv

LEMMA EndStep ==
    ASSUME CatalogInv, NEW c \in Calls, Catalog!Ends(c), UNCHANGED <<kind, showing, warms>>
    PROVE  /\ \A d \in Calls : AskInv(d)'
           /\ \A d \in Calls : asks'[d].at = "asking" => asks[d].at = "asking"
<1>1. CatalogShapes
  BY DEF CatalogInv
<1>2. asks'[c] = Catalog!Idle /\ \A d \in Calls : d # c => asks'[d] = asks[d]
  BY <1>1, OnlyOneCall
<1>3. Catalog!Idle.at = "idle" /\ Catalog!Idle.began = 0
  BY DEF Catalog!Idle
<1>4. AskInv(c)'
  BY <1>1, <1>2, <1>3 DEF AskInv, CatalogShapes
<1> QED BY <1>2, <1>3, <1>4, OneCallStep

(* Every action keeps the invariant.                                       *)
LEMMA CatalogInvStep == CatalogInv /\ [Catalog!Next]_(Catalog!vars) => CatalogInv'
<1> SUFFICES ASSUME CatalogInv, [Catalog!Next]_(Catalog!vars)
             PROVE  /\ Catalog!DisabledIsLeftAlone' /\ FoundInv' /\ ToggleInv'
                    /\ \A d \in Calls : AskInv(d)'
  BY CatalogShapesStep DEF CatalogInv
<1> DEFINE Good == /\ Catalog!DisabledIsLeftAlone' /\ FoundInv' /\ ToggleInv'
                   /\ \A d \in Calls : AskInv(d)'
<1>0. CatalogShapes
  BY DEF CatalogInv
<1>1. ASSUME NEW c \in Calls, Catalog!Begin(c) PROVE Good
  <2> DEFINE r == [Catalog!Idle EXCEPT !.at = "began", !.began = warms, !.during = {showing}]
  <2>1. asks' = [asks EXCEPT ![c] = r] /\ UNCHANGED <<kind, showing>>
        /\ UNCHANGED <<cached, registry, state, toggle, warms, disturbed>>
    BY <1>1 DEF Catalog!Begin
  <2>2. r.at = "began" /\ r.began = warms /\ r.during = {showing}
    BY DEF Catalog!Idle
  <2> HIDE DEF r
  <2>3. asks'[c] = r /\ \A d \in Calls : d # c => asks'[d] = asks[d]
    BY <1>0, <2>1, OnlyOneCall
  <2>4. AskInv(c)'
    BY <1>0, <2>1, <2>2, <2>3 DEF AskInv, CatalogShapes
  <2> QED BY <2>1, <2>2, <2>3, <2>4, QuietStep, OneCallStep
<1>2. ASSUME NEW c \in Calls, Catalog!PlanWarm(c) PROVE Good
  <2>1. Catalog!Goes(c, "planned") /\ UNCHANGED <<kind, showing>>
        /\ UNCHANGED <<cached, registry, state, toggle, warms, disturbed>>
    BY <1>2 DEF Catalog!PlanWarm
  <2>2. asks'[c] = [asks[c] EXCEPT !.at = "planned"] /\ \A d \in Calls : d # c => asks'[d] = asks[d]
    BY <1>0, <2>1, OnlyItMoves
  <2>3. asks'[c].at = "planned" /\ asks'[c].began = asks[c].began
    BY <1>0, <2>2, ItMoved DEF CatalogShapes
  <2>4. AskInv(c)'
    BY <2>1, <2>3 DEF AskInv, CatalogInv
  <2> QED BY <2>1, <2>2, <2>3, <2>4, QuietStep, OneCallStep
<1>3. ASSUME NEW c \in Calls, Catalog!InvalidateSearch(c) PROVE Good
  <2> DEFINE r == [Catalog!Idle EXCEPT !.at = "began", !.began = warms', !.during = {showing}]
  <2>1. asks' = [asks EXCEPT ![c] = r] /\ UNCHANGED <<kind, showing>> /\ warms' = warms + 1
        /\ UNCHANGED <<registry, state, toggle, disturbed>>
    BY <1>3 DEF Catalog!InvalidateSearch
  <2>2. r.at = "began" /\ r.began = warms' /\ r.during = {showing}
    BY DEF Catalog!Idle
  <2> HIDE DEF r
  <2>3. asks'[c] = r /\ \A d \in Calls : d # c => asks'[d] = asks[d]
    BY <1>0, <2>1, OnlyOneCall
  <2>4. AskInv(c)'
    BY <1>0, <2>1, <2>2, <2>3 DEF AskInv, CatalogShapes
  <2>5. \A d \in Calls : AskInv(d)'
    BY <2>1, <2>3, <2>4, OneCallStep
  <2>6. Catalog!DisabledIsLeftAlone'
    BY <2>1, <2>2, <2>3 DEF CatalogInv, Catalog!DisabledIsLeftAlone, Catalog!Asking
  <2>7. FoundInv'
    BY <1>3 DEF Catalog!InvalidateSearch, Catalog!Invalidated, FoundInv
  <2>8. ToggleInv'
    BY <2>1 DEF CatalogInv, ToggleInv, Catalog!Switched
  <2> QED BY <2>5, <2>6, <2>7, <2>8
<1>4. ASSUME NEW c \in Calls, Catalog!HideNsfw(c) PROVE Good
  <2> DEFINE wish == IF kind = "search" THEN showing ELSE "all"
             r == [asks[c] EXCEPT !.at = "looking", !.asks = wish]
  <2>1. asks' = [asks EXCEPT ![c] = r]
    BY <1>4, Zenon DEF Catalog!HideNsfw
  <2>2. UNCHANGED <<kind, showing>> /\ UNCHANGED <<cached, registry, state, toggle, warms,
            disturbed>>
        /\ asks[c].at = "began"
    BY <1>4 DEF Catalog!HideNsfw
  <2>3. kind = "search" => wish = showing
    OBVIOUS
  <2>4. wish \in Catalog!Showing
    BY <1>0 DEF CatalogShapes
  <2> HIDE DEF wish
  <2>5. r.at = "looking" /\ r.asks = wish /\ r.began = asks[c].began /\ r.during = asks[c].during
    BY <1>0, <2>4 DEF CatalogShapes, AskShape
  <2> HIDE DEF r
  <2>6. asks'[c] = r /\ \A d \in Calls : d # c => asks'[d] = asks[d]
    BY <1>0, <2>1, OnlyOneCall
  <2>7. AskInv(c)'
    BY <2>2, <2>3, <2>5, <2>6 DEF AskInv, CatalogInv
  <2> QED BY <2>2, <2>5, <2>6, <2>7, QuietStep, OneCallStep
<1>5. ASSUME NEW c \in Calls, Catalog!Lookup(c) PROVE Good
  <2>1. UNCHANGED <<kind, showing>> /\ UNCHANGED <<cached, registry, state, toggle, warms,
            disturbed>>
        /\ asks[c].at = "looking"
    BY <1>5 DEF Catalog!Lookup
  <2>2. CASE Catalog!Entry(c) # Catalog!NoEntry
    <3> DEFINE r == [asks[c] EXCEPT !.at = "answered", !.entry = Catalog!Entry(c)]
    <3>1. asks' = [asks EXCEPT ![c] = r]
      BY <1>5, <2>2, Zenon DEF Catalog!Lookup
    <3>2. Catalog!Entry(c) = cached[asks[c].asks] /\ Catalog!Entry(c) \in Entries
              /\ asks[c].asks \in Catalog!Showing
      BY <1>0 DEF Catalog!Entry, CatalogShapes, AskShape
    <3>3. r.at = "answered" /\ r.asks = asks[c].asks /\ r.began = asks[c].began
          /\ r.during = asks[c].during /\ r.entry = Catalog!Entry(c)
      BY <1>0, <3>2 DEF CatalogShapes, AskShape
    <3>4. Catalog!Entry(c).stored = warms /\ Catalog!Entry(c).shows = asks[c].asks
      BY <2>2, <3>2 DEF CatalogInv, FoundInv
    <3> HIDE DEF r
    <3>5. asks'[c] = r /\ \A d \in Calls : d # c => asks'[d] = asks[d]
      BY <1>0, <3>1, OnlyOneCall
    <3>6. AskInv(c)'
      BY <2>1, <3>3, <3>4, <3>5 DEF AskInv, CatalogInv
    <3> QED BY <2>1, <3>3, <3>5, <3>6, QuietStep, OneCallStep
  <2>3. CASE Catalog!Entry(c) = Catalog!NoEntry
    <3>1. Catalog!Goes(c, "waiting")
      BY <1>5, <2>3, Zenon DEF Catalog!Lookup
    <3>2. asks'[c] = [asks[c] EXCEPT !.at = "waiting"]
          /\ \A d \in Calls : d # c => asks'[d] = asks[d]
      BY <1>0, <3>1, OnlyItMoves
    <3>3. asks'[c].at = "waiting" /\ asks'[c].began = asks[c].began
          /\ asks'[c].asks = asks[c].asks /\ asks'[c].during = asks[c].during
      BY <1>0, <3>2, ItMoved DEF CatalogShapes
    <3>4. AskInv(c)'
      BY <2>1, <3>3 DEF AskInv, CatalogInv
    <3> QED BY <2>1, <3>2, <3>3, <3>4, QuietStep, OneCallStep
  <2> QED BY <2>2, <2>3
<1>6. ASSUME NEW c \in Calls, Catalog!Require(c) PROVE Good
  <2>1. UNCHANGED <<kind, showing>> /\ UNCHANGED <<cached, registry, state, toggle, warms,
            disturbed>>
        /\ asks[c].at = "waiting"
    BY <1>6 DEF Catalog!Require
  <2>2. CASE registry = "off"
    <3>1. Catalog!Ends(c)
      BY <1>6, <2>2, Zenon DEF Catalog!Require
    <3> QED BY <2>1, <3>1, EndStep, QuietStep
  <2>3. CASE registry # "off"
    <3>1. Catalog!Goes(c, "asking")
      BY <1>6, <2>3, Zenon DEF Catalog!Require
    <3>2. asks'[c] = [asks[c] EXCEPT !.at = "asking"]
          /\ \A d \in Calls : d # c => asks'[d] = asks[d]
      BY <1>0, <3>1, OnlyItMoves
    <3>3. asks'[c].at = "asking" /\ asks'[c].began = asks[c].began
          /\ asks'[c].asks = asks[c].asks /\ asks'[c].during = asks[c].during
      BY <1>0, <3>2, ItMoved DEF CatalogShapes
    <3>4. AskInv(c)'
      BY <2>1, <3>3 DEF AskInv, CatalogInv
    <3> QED BY <2>1, <2>3, <3>2, <3>4, QuietStep, OneCallStep
  <2> QED BY <2>2, <2>3
<1>7. ASSUME NEW c \in Calls, Catalog!Answer(c) PROVE Good
  <2> DEFINE entry == [stored |-> warms, shows |-> Catalog!Shows(c)]
             r == [asks[c] EXCEPT !.at = "answered", !.entry = entry]
  <2>1. cached' = [cached EXCEPT ![asks[c].asks] = entry] /\ asks' = [asks EXCEPT ![c] = r]
    BY <1>7, Zenon DEF Catalog!Answer
  <2>2. UNCHANGED <<kind, showing>> /\ UNCHANGED <<registry, state, toggle, warms, disturbed>>
        /\ asks[c].at = "asking"
    BY <1>7 DEF Catalog!Answer
  <2>3. entry \in Entries /\ entry.stored = warms /\ entry.shows = asks[c].asks
    BY <1>0 DEF Catalog!Shows, Entries, CatalogShapes, AskShape
  <2> HIDE DEF entry
  <2>4. r.at = "answered" /\ r.asks = asks[c].asks /\ r.began = asks[c].began
        /\ r.during = asks[c].during /\ r.entry = entry
    BY <1>0, <2>3 DEF CatalogShapes, AskShape
  <2> HIDE DEF r
  <2>5. asks'[c] = r /\ \A d \in Calls : d # c => asks'[d] = asks[d]
    BY <1>0, <2>1, OnlyOneCall
  <2>6. AskInv(c)'
    BY <2>2, <2>3, <2>4, <2>5 DEF AskInv, CatalogInv
  <2>7. \A d \in Calls : AskInv(d)'
    BY <2>2, <2>5, <2>6, OneCallStep
  <2>8. Catalog!DisabledIsLeftAlone'
    BY <2>2, <2>4, <2>5 DEF CatalogInv, Catalog!DisabledIsLeftAlone, Catalog!Asking
  <2>9. FoundInv'
    BY <1>0, <2>1, <2>2, <2>3 DEF CatalogInv, FoundInv, CatalogShapes
  <2>10. ToggleInv'
    BY <2>2 DEF CatalogInv, ToggleInv, Catalog!Switched
  <2> QED BY <2>7, <2>8, <2>9, <2>10
<1>8. ASSUME NEW c \in Calls, Catalog!Fail(c) \/ Catalog!Done(c) PROVE Good
  <2>1. Catalog!Ends(c) /\ UNCHANGED <<kind, showing>>
        /\ UNCHANGED <<cached, registry, state, toggle, warms, disturbed>>
    BY <1>8 DEF Catalog!Fail, Catalog!Done
  <2> QED BY <2>1, EndStep, QuietStep
<1>9. ASSUME NEW s \in Catalog!Showing, Catalog!Forget(s) PROVE Good
  <2>1. UNCHANGED <<kind, registry, state, showing, asks, toggle, warms, disturbed>>
        /\ cached' = [cached EXCEPT ![s] = Catalog!NoEntry]
    BY <1>9 DEF Catalog!Forget
  <2>2. FoundInv'
    BY <1>0, <2>1 DEF CatalogInv, FoundInv, CatalogShapes
  <2>3. Catalog!DisabledIsLeftAlone'
    BY <2>1 DEF CatalogInv, Catalog!DisabledIsLeftAlone, Catalog!Asking
  <2>4. ToggleInv'
    BY <2>1 DEF CatalogInv, ToggleInv, Catalog!Switched
  <2> QED BY <2>1, <2>2, <2>3, <2>4, CallsStay
<1>10. ASSUME NEW s \in Catalog!Showing, Catalog!SetHideNsfw(s) PROVE Good
  <2>1. UNCHANGED kind /\ UNCHANGED <<cached, registry, state, toggle, warms, disturbed>>
        /\ showing' = s
    BY <1>10 DEF Catalog!SetHideNsfw
  <2>2. ASSUME NEW d \in Calls
        PROVE  \/ asks[d].at = "idle" /\ asks'[d] = Catalog!Idle
               \/ asks[d].at # "idle" /\ asks'[d] = [asks[d] EXCEPT !.during = @ \cup {s}]
    BY <1>10 DEF Catalog!SetHideNsfw
  <2>3. Catalog!Idle.at = "idle" /\ Catalog!Idle.began = 0
    BY DEF Catalog!Idle
  <2>4. ASSUME NEW d \in Calls, asks[d].at # "idle"
        PROVE  /\ asks'[d].at = asks[d].at /\ asks'[d].asks = asks[d].asks
               /\ asks'[d].entry = asks[d].entry /\ asks'[d].began = asks[d].began
               /\ asks'[d].during = asks[d].during \cup {s}
    <3>1. asks[d] \in AskShape /\ asks'[d] = [asks[d] EXCEPT !.during = @ \cup {s}]
      BY <1>0, <2>2, <2>4 DEF CatalogShapes
    <3> QED BY <3>1, ItSaw
  <2>5. ASSUME NEW d \in Calls PROVE AskInv(d)'
    <3>1. CASE asks[d].at = "idle"
      <4>1. asks'[d].at = "idle" /\ asks'[d].began = 0
        BY <2>2, <2>3, <3>1
      <4>2. warms' \in Nat
        BY <1>0, <2>1 DEF CatalogShapes
      <4> QED BY <4>1, <4>2 DEF AskInv
    <3>2. CASE asks[d].at # "idle"
      BY <2>1, <2>4, <3>2 DEF AskInv, CatalogInv
    <3> QED BY <3>1, <3>2
  <2>6. \A d \in Calls : asks'[d].at = "asking" => asks[d].at = "asking"
    BY <2>2, <2>3, <2>4
  <2> QED BY <2>1, <2>5, <2>6, QuietStep
<1>11. ASSUME NEW t \in Toggles, Catalog!SetSourceEnabled(t) PROVE Good
  <2>1. UNCHANGED <<kind, showing, warms, asks>> /\ UNCHANGED <<cached, state>>
        /\ Catalog!Asking = {} /\ toggle[t].at = "waiting" /\ registry' = toggle[t].to
    BY <1>11 DEF Catalog!SetSourceEnabled, Catalog!Free
  <2>2. toggle' = [toggle EXCEPT ![t].at = "switched"]
    BY <1>11 DEF Catalog!SetSourceEnabled
  <2>3. disturbed' = IF Catalog!Switched = {} THEN disturbed ELSE TRUE
    BY <1>11 DEF Catalog!SetSourceEnabled
  <2>4. Catalog!DisabledIsLeftAlone' /\ FoundInv'
    BY <2>1 DEF CatalogInv, Catalog!DisabledIsLeftAlone, Catalog!Asking, FoundInv, Catalog!NoEntry
  <2>5. toggle'[t].at = "switched" /\ toggle'[t].to = toggle[t].to
        /\ \A u \in Toggles : u # t => toggle'[u] = toggle[u]
    BY <1>0, <2>2 DEF CatalogShapes
  <2>6. Catalog!Switched' = Catalog!Switched \cup {t}
    BY <2>5 DEF Catalog!Switched
  <2>7. ToggleInv'
    <3>1. CASE Catalog!Switched = {}
      BY <2>1, <2>5, <2>6, <3>1 DEF ToggleInv
    <3>2. CASE Catalog!Switched # {}
      <4>1. disturbed'
        BY <2>3, <3>2, Zenon
      <4> QED BY <4>1, Zenon DEF ToggleInv
    <3> QED BY <3>1, <3>2
  <2> QED BY <2>1, <2>4, <2>7, CallsStay
<1>12. ASSUME NEW t \in Toggles, Catalog!PersistEnabled(t) PROVE Good
  <2>1. UNCHANGED <<kind, showing, warms, asks>> /\ UNCHANGED <<cached, registry>>
        /\ toggle[t].at = "switched" /\ toggle' = [toggle EXCEPT ![t] = Catalog!Over]
    BY <1>12 DEF Catalog!PersistEnabled
  <2>2. disturbed' \/ (state' = toggle[t].to /\ disturbed' = disturbed)
    BY <1>12, Zenon DEF Catalog!PersistEnabled
  <2>3. Catalog!DisabledIsLeftAlone' /\ FoundInv'
    BY <2>1 DEF CatalogInv, Catalog!DisabledIsLeftAlone, Catalog!Asking, FoundInv, Catalog!NoEntry
  <2>4. toggle'[t].at = "done" /\ \A u \in Toggles : u # t => toggle'[u] = toggle[u]
    BY <1>0, <2>1 DEF CatalogShapes, Catalog!Over
  <2>5. Catalog!Switched' = Catalog!Switched \ {t} /\ t \in Catalog!Switched
    BY <2>1, <2>4 DEF Catalog!Switched
  <2>6. ToggleInv'
    BY <2>1, <2>2, <2>5 DEF CatalogInv, ToggleInv
  <2> QED BY <2>1, <2>3, <2>6, CallsStay
<1>13. ASSUME NEW t \in Toggles, NEW to \in Catalog!States, Catalog!WantToggle(t, to) PROVE Good
  <2>1. UNCHANGED <<kind, showing, warms, asks>> /\ UNCHANGED <<cached, registry, state, disturbed>>
        /\ toggle[t].at = "idle" /\ toggle' = [toggle EXCEPT ![t] = [at |-> "waiting", to |-> to]]
    BY <1>13 DEF Catalog!WantToggle
  <2>2. Catalog!DisabledIsLeftAlone' /\ FoundInv'
    BY <2>1 DEF CatalogInv, Catalog!DisabledIsLeftAlone, Catalog!Asking, FoundInv, Catalog!NoEntry
  <2>3. toggle'[t].at = "waiting" /\ \A u \in Toggles : u # t => toggle'[u] = toggle[u]
    BY <1>0, <2>1 DEF CatalogShapes
  <2>4. Catalog!Switched' = Catalog!Switched /\ t \notin Catalog!Switched
    BY <2>1, <2>3 DEF Catalog!Switched
  <2>5. ToggleInv'
    BY <2>1, <2>3, <2>4 DEF CatalogInv, ToggleInv, Catalog!Switched
  <2> QED BY <2>1, <2>2, <2>5, CallsStay
<1>14. ASSUME Catalog!Restart PROVE Good
  <2>1. UNCHANGED <<kind, showing, warms>> /\ UNCHANGED cached /\ state' = registry'
        /\ asks' = [c \in Calls |-> Catalog!Idle]
    BY <1>14 DEF Catalog!Restart
  <2>2. toggle' = [t \in Toggles |-> IF toggle[t] = Catalog!Unused THEN Catalog!Unused
            ELSE Catalog!Over]
    BY <1>14 DEF Catalog!Restart
  <2>3. \A t \in Toggles : toggle'[t].at # "switched"
    BY <2>2 DEF Catalog!Unused, Catalog!Over
  <2>4. Catalog!Switched' = {}
    BY <2>3 DEF Catalog!Switched
  <2>5. \A c \in Calls : asks'[c].at = "idle" /\ asks'[c].began = 0
    BY <2>1 DEF Catalog!Idle
  <2>6. Catalog!DisabledIsLeftAlone'
    BY <2>5 DEF Catalog!DisabledIsLeftAlone, Catalog!Asking
  <2>7. FoundInv'
    BY <2>1 DEF CatalogInv, FoundInv, Catalog!NoEntry
  <2>8. ToggleInv'
    BY <2>1, <2>4 DEF ToggleInv
  <2>9. \A d \in Calls : AskInv(d)'
    BY <1>0, <2>1, <2>5 DEF AskInv, CatalogShapes
  <2> QED BY <2>6, <2>7, <2>8, <2>9
<1>15. CASE UNCHANGED Catalog!vars
  <2>1. UNCHANGED <<kind, showing, warms, asks>>
        /\ UNCHANGED <<cached, registry, state, toggle, warms, disturbed>>
    BY <1>15 DEF Catalog!vars
  <2> QED BY <2>1, CallsStay, QuietStep
<1> QED
  BY <1>1, <1>2, <1>3, <1>4, <1>5, <1>6, <1>7, <1>8, <1>9, <1>10, <1>11, <1>12, <1>13, <1>14,
     <1>15 DEF Catalog!Next

-----------------------------------------------------------------------------
LEMMA CatalogInvImplies == CatalogInv => Catalog!AnswersAreAllowed
<1> SUFFICES ASSUME CatalogInv PROVE Catalog!AnswersAreAllowed
  OBVIOUS
<1>1. Catalog!HiddenStaysHidden /\ Catalog!WarmedIsNew
  BY DEF CatalogInv, AskInv, Catalog!HiddenStaysHidden, Catalog!WarmedIsNew
<1>2. Catalog!DisabledIsLeftAlone /\ Catalog!ChoiceLasts
  BY DEF CatalogInv, ToggleInv, Catalog!ChoiceLasts
<1> QED BY <1>1, <1>2 DEF Catalog!AnswersAreAllowed

(* Whatever calls, refreshes, toggles, failures and restarts come in       *)
(* whatever order: a source that is turned off is not asked, a search      *)
(* shows no more than was allowed while it was made and nothing from       *)
(* before it was warmed, and what an operator chose lasts                  *)
(* (server/src/app/catalog.rs, server/src/search_cache.rs).                *)
LEMMA CatalogHolds == Catalog!Spec => []Catalog!AnswersAreAllowed
<1>1. Catalog!Init => CatalogInv
  BY InitCatalogInv
<1>2. CatalogInv /\ [Catalog!Next]_(Catalog!vars) => CatalogInv'
  BY CatalogInvStep
<1>3. CatalogInv => Catalog!AnswersAreAllowed
  BY CatalogInvImplies
<1> QED BY <1>1, <1>2, <1>3, PTL DEF Catalog!Spec

-----------------------------------------------------------------------------
(* The reading progress of a chapter (ReadProgress).                       *)

Chapters == [pages : Nat, completed : BOOLEAN, lastRead : Int]
EventShape == [kind : {"pages_read", "chapters_read"}, day : Nat, amount : Nat]
UpdateShape ==
    [pc : {"idle", "previous", "lock", "store", "readback", "pages", "chapter", "clear", "reset"},
     page : Nat, completed : BOOLEAN, previous : Chapters, row : Chapters]

ProgressShapes ==
    /\ guarded \in BOOLEAN /\ overlapped \in BOOLEAN /\ today \in Nat
    /\ chapter \in Chapters \cup {Progress!Gone} /\ reached \in Chapters
    /\ events \in Seq(EventShape)
    /\ update \in [Updates -> UpdateShape]
    /\ achieved \in [pages : Nat, reads : Nat]

(* Nobody is not one of the requests.                                      *)
Readership == MaxPage \in Nat /\ Progress!Nobody \notin Updates

(* Who writes has the lock, if there is one.                               *)
WritersHold ==
    guarded =>
        \A u \in Updates : update[u].pc \in {"store", "reset", "chapter"} => holder = u

OneAtATime ==
    ~overlapped =>
        \A u, v \in Updates : update[u].pc # "idle" /\ update[v].pc # "idle" => u = v

(* An update is based on the row that it replaces.                         *)
SameProgress(a, b) == a.pages = b.pages /\ a.completed = b.completed

RowsAreCurrent ==
    guarded \/ ~overlapped =>
        /\ chapter = Progress!Gone \/ SameProgress(chapter, reached)
        /\ \A u \in Updates : update[u].pc = "store" =>
              chapter = Progress!Gone \/ chapter = update[u].row

Reads == Cardinality({i \in DOMAIN events : events[i].kind = "chapters_read"})

(* What an update has yet to record was achieved and is in no event.       *)
Due(previous, updated) ==
    /\ Progress!PagesRead + Progress!PagesDelta(previous, updated) <= achieved.pages
    /\ Reads + (IF Progress!ChapterCompleted(previous, updated) THEN 1 ELSE 0) <= achieved.reads

Owes(q) ==
    /\ q.pc \in {"lock", "store"} => chapter = Progress!Gone \/ chapter = q.previous
    /\ q.pc = "readback" /\ chapter # Progress!Gone => Due(q.previous, chapter)
    /\ q.pc = "pages" => Due(q.previous, q.row)
    /\ q.pc = "chapter" => Reads + 1 <= achieved.reads

CountedOnce ==
    ~overlapped =>
        /\ Progress!PagesRead <= achieved.pages /\ Reads <= achieved.reads
        /\ \A u \in Updates : Owes(update[u])

ProgressInv == ProgressShapes /\ WritersHold /\ OneAtATime /\ RowsAreCurrent /\ CountedOnce

-----------------------------------------------------------------------------
(* What the events add up to.                                              *)

(* The instance has a copy of the library's operator.                      *)
LEMMA ProgressCounts == \A S : Progress!Cardinality(S) = Cardinality(S)
BY DEF Progress!Cardinality, Cardinality

Running(g, s, n) ==
    g = [i \in 0 .. n |-> IF i = 0 THEN 0 ELSE g[i - 1] + Progress!PagesOf(s[i])]

LEMMA RunningStep ==
    ASSUME NEW s, NEW n \in Nat \ {0}, NEW g, Running(g, s, n - 1)
    PROVE  \E h : Running(h, s, n)
<1>1. n - 1 \in 0 .. n - 1 /\ n - 1 \in Nat
  OBVIOUS
<1>2. \A i \in 0 .. n - 1 : g[i] = IF i = 0 THEN 0 ELSE g[i - 1] + Progress!PagesOf(s[i])
  BY DEF Running
<1> DEFINE h == [i \in 0 .. n |->
                    IF i = n THEN g[n - 1] + Progress!PagesOf(s[n]) ELSE g[i]]
<1>3. \A i \in 0 .. n : i # n => i \in 0 .. n - 1 /\ (i # 0 => i - 1 \in 0 .. n - 1)
  BY <1>1
<1>4. h[n - 1] = g[n - 1]
  BY <1>1
<1>5. ASSUME NEW i \in 0 .. n
      PROVE  h[i] = IF i = 0 THEN 0 ELSE h[i - 1] + Progress!PagesOf(s[i])
  <2>1. CASE i = n
    BY <1>4, <2>1
  <2>2. CASE i # n
    <3>1. h[i] = g[i] /\ (i # 0 => h[i - 1] = g[i - 1])
      BY <1>1, <1>3, <2>2
    <3> QED BY <1>2, <1>3, <2>2, <3>1
  <2> QED BY <2>1, <2>2
<1>6. h = [i \in 0 .. n |-> h[i]]
  OBVIOUS
<1> HIDE DEF h
<1>7. Running(h, s, n)
  BY <1>5, <1>6 DEF Running
<1> QED BY <1>7

LEMMA RunningExists ==
    ASSUME NEW s, NEW n \in Nat
    PROVE  \E g : Running(g, s, n)
<1> DEFINE P == {k \in Nat : ~ \E g : Running(g, s, k)}
<1>1. ASSUME NEW k \in P, \A i \in 0 .. k - 1 : i \notin P PROVE FALSE
  <2>1. CASE k = 0
    <3> DEFINE g == [i \in 0 .. 0 |-> 0]
    <3>1. g = [i \in 0 .. 0 |-> IF i = 0 THEN 0 ELSE g[i - 1] + Progress!PagesOf(s[i])]
      OBVIOUS
    <3> HIDE DEF g
    <3> QED BY <1>1, <2>1, <3>1 DEF Running
  <2>2. CASE k # 0
    <3>1. k \in Nat \ {0} /\ k - 1 \in 0 .. k - 1 /\ k - 1 \in Nat
      BY <2>2
    <3>2. PICK g : Running(g, s, k - 1)
      BY <1>1, <3>1
    <3> QED BY <1>1, <3>1, <3>2, RunningStep
  <2> QED BY <2>1, <2>2
<1>2. P = {}
  <2> SUFFICES ASSUME P # {} PROVE FALSE
    OBVIOUS
  <2>1. P \in SUBSET Nat
    OBVIOUS
  <2> HIDE DEF P
  <2> QED BY <1>1, <2>1, SmallestNumber
<1> QED BY <1>2

(* The sum over a sequence is the last of a running sum.                   *)
SumOf(s) == (CHOOSE g : Running(g, s, Len(s)))[Len(s)]

Adds(g, s) ==
    /\ SumOf(s) = g[Len(s)] /\ g[0] = 0
    /\ \A i \in 1 .. Len(s) : g[i] = g[i - 1] + Progress!PagesOf(s[i])

LEMMA SumOfIs == ASSUME NEW s \in Seq(EventShape) PROVE \E g : Adds(g, s)
<1>1. \E g : Running(g, s, Len(s))
  BY RunningExists
<1> DEFINE after == CHOOSE g : Running(g, s, Len(s))
<1>2. Running(after, s, Len(s)) /\ SumOf(s) = after[Len(s)]
  BY <1>1 DEF SumOf
<1> HIDE DEF after
<1>3. \A i \in 0 .. Len(s) :
        after[i] = IF i = 0 THEN 0 ELSE after[i - 1] + Progress!PagesOf(s[i])
  BY <1>2 DEF Running
<1>4. after[0] = 0 /\ \A i \in 1 .. Len(s) : after[i] = after[i - 1] + Progress!PagesOf(s[i])
  BY <1>3
<1> QED BY <1>2, <1>4 DEF Adds

LEMMA PagesAreSummed == Progress!PagesRead = SumOf(events)
BY Zenon DEF Progress!PagesRead, SumOf, Running

LEMMA SumGrows ==
    ASSUME NEW s \in Seq(EventShape), NEW e \in EventShape
    PROVE  SumOf(Append(s, e)) = SumOf(s) + Progress!PagesOf(e) /\ SumOf(s) \in Nat
<1> DEFINE t == Append(s, e)
           n == Len(s)
<1>1. t \in Seq(EventShape) /\ n \in Nat /\ Len(t) = n + 1 /\ t[n + 1] = e
      /\ \A i \in 1 .. n : t[i] = s[i] /\ s[i] \in EventShape
  OBVIOUS
<1>2. PICK g : Adds(g, s)
  BY SumOfIs
<1>3. PICK h : Adds(h, t)
  BY <1>1, SumOfIs
<1> HIDE DEF t, n
<1>8. /\ SumOf(s) = g[n] /\ g[0] = 0
      /\ \A i \in 1 .. n : g[i] = g[i - 1] + Progress!PagesOf(s[i])
  BY <1>2 DEF Adds, n
<1>9. /\ SumOf(t) = h[n + 1] /\ h[0] = 0
      /\ \A i \in 1 .. n + 1 : h[i] = h[i - 1] + Progress!PagesOf(t[i])
  BY <1>1, <1>3 DEF Adds
<1> DEFINE P == {i \in 0 .. n : h[i] # g[i] \/ g[i] \notin Nat}
<1>4. ASSUME NEW i \in P, \A k \in 0 .. i - 1 : k \notin P PROVE FALSE
  <2>1. i \in Nat /\ i # 0
    BY <1>8, <1>9
  <2>2. i - 1 \in 0 .. i - 1 /\ i - 1 \in 0 .. n /\ i \in 1 .. n /\ i \in 1 .. n + 1
    BY <1>1, <2>1
  <2>3. h[i - 1] = g[i - 1] /\ g[i - 1] \in Nat
    BY <1>4, <2>2
  <2>4. g[i] = g[i - 1] + Progress!PagesOf(s[i]) /\ h[i] = h[i - 1] + Progress!PagesOf(s[i])
    BY <1>1, <1>8, <1>9, <2>2
  <2>5. Progress!PagesOf(s[i]) \in Nat
    BY <1>1, <2>2 DEF EventShape, Progress!PagesOf
  <2> QED BY <2>3, <2>4, <2>5
<1>5. P = {}
  <2> SUFFICES ASSUME P # {} PROVE FALSE
    OBVIOUS
  <2>1. P \in SUBSET Nat
    OBVIOUS
  <2> HIDE DEF P
  <2> QED BY <1>4, <2>1, SmallestNumber
<1>6. h[n] = g[n] /\ g[n] \in Nat
  BY <1>1, <1>5
<1>7. h[n + 1] = h[n] + Progress!PagesOf(e)
  BY <1>1, <1>9
<1> QED BY <1>6, <1>7, <1>8, <1>9 DEF t

LEMMA NothingIsSummed == SumOf(<<>>) = 0
<1>1. <<>> \in Seq(EventShape) /\ Len(<<>>) = 0
  OBVIOUS
<1>2. PICK g : Adds(g, <<>>)
  BY <1>1, SumOfIs
<1> QED BY <1>1, <1>2 DEF Adds

LEMMA EventsAreCounted ==
    ASSUME ProgressShapes
    PROVE  Progress!PagesRead \in Nat /\ Reads \in Nat
           /\ IsFiniteSet({i \in DOMAIN events : events[i].kind = "chapters_read"})
<1>1. events \in Seq(EventShape)
  BY DEF ProgressShapes
<1>2. Progress!PagesRead \in Nat
  <2>1. PICK e \in EventShape : TRUE
    <3>1. [kind |-> "pages_read", day |-> 0, amount |-> 0] \in EventShape
      BY DEF EventShape
    <3> QED BY <3>1
  <2> QED BY <1>1, <2>1, SumGrows, PagesAreSummed
<1>3. IsFiniteSet(DOMAIN events)
  BY <1>1, FS_Interval
<1>4. IsFiniteSet({i \in DOMAIN events : events[i].kind = "chapters_read"})
  BY <1>3, FS_Subset
<1> QED BY <1>2, <1>4, FS_CardinalityType DEF Reads

(* An event that is recorded is counted.                                   *)
LEMMA EventCounts ==
    ASSUME ProgressShapes, NEW e \in EventShape, events' = Append(events, e)
    PROVE  /\ events' \in Seq(EventShape)
           /\ Progress!PagesRead' = Progress!PagesRead + Progress!PagesOf(e)
           /\ Reads' = Reads + (IF e.kind = "chapters_read" THEN 1 ELSE 0)
<1>1. events \in Seq(EventShape) /\ events' \in Seq(EventShape)
  BY DEF ProgressShapes
<1>2. Progress!PagesRead' = SumOf(events')
  BY Zenon DEF Progress!PagesRead, SumOf, Running
<1>3. Progress!PagesRead' = Progress!PagesRead + Progress!PagesOf(e)
  BY <1>1, <1>2, SumGrows, PagesAreSummed
<1> DEFINE R == {i \in DOMAIN events : events[i].kind = "chapters_read"}
           n == Len(events)
<1>4. Reads = Cardinality(R) /\ IsFiniteSet(R)
  BY EventsAreCounted DEF Reads
<1>5. DOMAIN events = 1 .. n /\ DOMAIN events' = 1 .. n + 1 /\ n \in Nat
      /\ \A i \in 1 .. n : events'[i] = events[i]
      /\ events'[n + 1] = e
  BY <1>1
<1>6. {i \in DOMAIN events : events[i].kind = "chapters_read"}'
        = IF e.kind = "chapters_read" THEN R \cup {n + 1} ELSE R
  BY <1>5
<1>7. n + 1 \notin R
  BY <1>5
<1> HIDE DEF R, n
<1>8. Reads' = Cardinality(IF e.kind = "chapters_read" THEN R \cup {n + 1} ELSE R)
  BY <1>6 DEF Reads
<1>9. Cardinality(R \cup {n + 1}) = Cardinality(R) + 1 /\ Cardinality(R) \in Nat
  BY <1>4, <1>7, FS_AddElement, FS_CardinalityType
<1> QED BY <1>1, <1>3, <1>4, <1>8, <1>9

-----------------------------------------------------------------------------
(* Inductiveness.                                                          *)

LEMMA UnreadIsShaped ==
    /\ Progress!Unread \in Chapters /\ Progress!Unread.pages = 0
    /\ ~Progress!Unread.completed
    /\ Progress!Gone \notin Chapters
    /\ Progress!Idle \in UpdateShape /\ Progress!Idle.pc = "idle"
BY DEF Progress!Unread, Progress!Gone, Progress!Idle, Chapters, UpdateShape

LEMMA InitProgressInv == Progress!Init => ProgressInv
<1> SUFFICES ASSUME Progress!Init PROVE ProgressInv
  OBVIOUS
<1> USE DEF Progress!Init
<1>1. ProgressShapes
  <2>1. events \in Seq(EventShape) /\ achieved \in [pages : Nat, reads : Nat]
    OBVIOUS
  <2>2. update \in [Updates -> UpdateShape]
    BY UnreadIsShaped
  <2> QED BY <2>1, <2>2, UnreadIsShaped DEF ProgressShapes
<1>2. \A u \in Updates : update[u].pc = "idle"
  BY UnreadIsShaped
<1>3. Progress!PagesRead = 0
  BY PagesAreSummed, NothingIsSummed
<1>4. {i \in DOMAIN events : events[i].kind = "chapters_read"} = {}
  OBVIOUS
<1>5. Reads = 0
  BY <1>4, FS_EmptySet DEF Reads
<1>6. RowsAreCurrent
  BY <1>2 DEF RowsAreCurrent, SameProgress
<1>7. CountedOnce
  BY <1>2, <1>3, <1>5 DEF CountedOnce, Owes
<1> QED BY <1>1, <1>2, <1>6, <1>7 DEF ProgressInv, WritersHold, OneAtATime

AtTheRow(u) == update[u].pc \in {"store", "reset", "chapter"}

(* An update goes on: what is to be shown for it and for the row.          *)
Right(u, q) ==
    /\ q \in UpdateShape /\ update[u].pc # "idle"
    /\ update' = [update EXCEPT ![u] = q]
    /\ guarded' = guarded /\ overlapped' = overlapped /\ today' = today
    /\ chapter' \in Chapters \cup {Progress!Gone} /\ reached' \in Chapters
    /\ events' \in Seq(EventShape) /\ achieved' \in [pages : Nat, reads : Nat]
    /\ guarded /\ q.pc \in {"store", "reset", "chapter"} => holder' = u
    /\ guarded /\ holder' # holder => holder \in {Progress!Nobody, u}
    /\ guarded \/ ~overlapped =>
        /\ chapter' = Progress!Gone \/ SameProgress(chapter', reached')
        /\ q.pc = "store" => chapter' = Progress!Gone \/ chapter' = q.row
        /\ chapter' # chapter => AtTheRow(u)
    /\ ~overlapped =>
        Progress!PagesRead' <= achieved'.pages /\ Reads' <= achieved'.reads /\ Owes(q)'

LEMMA RightKeeps ==
    ASSUME Readership, ProgressInv, NEW u \in Updates, NEW q, Right(u, q)
    PROVE  ProgressInv'
<1>1. /\ update \in [Updates -> UpdateShape] /\ update' \in [Updates -> UpdateShape]
      /\ update'[u] = q /\ \A v \in Updates \ {u} : update'[v] = update[v]
  BY DEF ProgressInv, ProgressShapes, Right
<1>2. ProgressShapes'
  BY <1>1 DEF ProgressInv, ProgressShapes, Right
<1>3. WritersHold'
  BY <1>1 DEF Right, ProgressInv, WritersHold, Readership
<1>4. OneAtATime'
  BY <1>1 DEF Right, ProgressInv, OneAtATime
<1>5. ASSUME guarded \/ ~overlapped, chapter' # chapter, NEW v \in Updates \ {u}
      PROVE  update[v].pc # "store"
  BY <1>5 DEF Right, AtTheRow, ProgressInv, WritersHold, OneAtATime
<1>6. RowsAreCurrent'
  BY <1>1, <1>5 DEF Right, ProgressInv, RowsAreCurrent
<1>7. ASSUME ~overlapped, NEW v \in Updates \ {u} PROVE Owes(update[v])'
  <2>1. update'[v].pc = "idle"
    BY <1>1, <1>7 DEF ProgressInv, OneAtATime, Right
  <2> QED BY <2>1 DEF Owes
<1>8. CountedOnce'
  <2> SUFFICES ASSUME ~overlapped PROVE CountedOnce'
    BY DEF CountedOnce, Right
  <2>1. ASSUME NEW v \in Updates PROVE Owes(update[v])'
    <3>1. CASE v = u
      BY <1>1, <3>1 DEF Right, Owes
    <3>2. CASE v # u
      BY <1>7, <3>2
    <3> QED BY <3>1, <3>2
  <2> QED BY <2>1 DEF CountedOnce, Right
<1> QED BY <1>2, <1>3, <1>4, <1>6, <1>8 DEF ProgressInv

(* The row and the events stay as they are.                                *)
LEMMA OnlyItGoes ==
    ASSUME Readership, ProgressInv, NEW u \in Updates, NEW q \in UpdateShape,
           update[u].pc # "idle", update' = [update EXCEPT ![u] = q],
           UNCHANGED <<guarded, overlapped, today, chapter, reached, events, achieved>>,
           guarded /\ q.pc \in {"store", "reset", "chapter"} => holder' = u,
           guarded /\ holder' # holder => holder \in {Progress!Nobody, u},
           q.pc = "store" => chapter = q.row,
           ~overlapped => Owes(q)
    PROVE  ProgressInv'
<1>1. Progress!PagesRead' = Progress!PagesRead
  <2>1. Progress!PagesRead' = SumOf(events')
    BY Zenon DEF Progress!PagesRead, SumOf, Running
  <2> QED BY <2>1, PagesAreSummed
<1>2. Reads' = Reads
  BY DEF Reads
<1>3. Owes(q)' = Owes(q)
  BY <1>1, <1>2 DEF Owes, Due
<1>4. Right(u, q)
  BY <1>1, <1>2, <1>3
  DEF Right, ProgressInv, ProgressShapes, RowsAreCurrent, CountedOnce
<1> QED BY <1>4, RightKeeps

(* So does everything when an update just ends.                            *)
LEMMA JustEnds ==
    ASSUME Readership, ProgressInv, NEW u \in Updates, update[u].pc # "idle", Progress!End(u),
           UNCHANGED <<guarded, overlapped, today, chapter, reached, events, achieved>>,
           guarded /\ holder' # holder => holder \in {Progress!Nobody, u}
    PROVE  ProgressInv'
<1>1. Owes(Progress!Idle)
  BY UnreadIsShaped DEF Owes
<1> QED BY <1>1, UnreadIsShaped, OnlyItGoes DEF Progress!End

LEMMA UpdateIs ==
    ASSUME ProgressInv, NEW u \in Updates
    PROVE  /\ update[u] \in UpdateShape
           /\ chapter # Progress!Gone => chapter \in Chapters
           /\ ~overlapped => Owes(update[u])
BY DEF ProgressInv, ProgressShapes, CountedOnce

LEMMA RequestProgressKeeps ==
    ASSUME Readership, ProgressInv, NEW u \in Updates, Progress!Request(u)
    PROVE  ProgressInv'
<1>0. \A n \in 0 .. MaxPage : n \in Nat
  BY DEF Readership
<1> USE DEF Progress!Request
<1>1. PICK q \in UpdateShape : update' = [update EXCEPT ![u] = q] /\ q.pc \in {"previous", "clear"}
  <2>1. CASE Progress!Goto(u, "clear")
    <3> DEFINE q == [update[u] EXCEPT !.pc = "clear"]
    <3>1. q \in UpdateShape /\ q.pc = "clear"
      BY UpdateIs DEF UpdateShape
    <3>2. update' = [update EXCEPT ![u] = q]
      BY <2>1 DEF Progress!Goto
    <3> QED BY <3>1, <3>2
  <2>2. CASE \E p \in 0 .. MaxPage, completed \in BOOLEAN :
               update' = [update EXCEPT ![u] =
                   [Progress!Idle EXCEPT !.pc = "previous", !.page = p,
                                         !.completed = completed]]
    <3>1. PICK p \in 0 .. MaxPage, completed \in BOOLEAN :
               update' = [update EXCEPT ![u] =
                   [Progress!Idle EXCEPT !.pc = "previous", !.page = p,
                                         !.completed = completed]]
      BY <2>2
    <3> DEFINE q == [Progress!Idle EXCEPT !.pc = "previous", !.page = p,
                                          !.completed = completed]
    <3>3. q \in UpdateShape /\ q.pc = "previous"
      BY <1>0, UnreadIsShaped DEF UpdateShape
    <3> QED BY <3>1, <3>3
  <2> QED BY <2>1, <2>2
<1>2. /\ update \in [Updates -> UpdateShape] /\ update' \in [Updates -> UpdateShape]
      /\ update'[u] = q /\ \A v \in Updates \ {u} : update'[v] = update[v]
  BY <1>1 DEF ProgressInv, ProgressShapes
<1>3. ProgressShapes'
  BY <1>2 DEF ProgressInv, ProgressShapes
<1>4. WritersHold' /\ RowsAreCurrent'
  BY <1>1, <1>2 DEF ProgressInv, WritersHold, RowsAreCurrent, ProgressShapes
<1>5. OneAtATime'
  BY <1>1, <1>2 DEF ProgressInv, OneAtATime, Progress!Busy, ProgressShapes
<1>6. Progress!PagesRead' = Progress!PagesRead
  <2>1. Progress!PagesRead' = SumOf(events')
    BY Zenon DEF Progress!PagesRead, SumOf, Running
  <2> QED BY <2>1, PagesAreSummed
<1>7. Reads' = Reads
  BY DEF Reads
<1>8. CountedOnce'
  <2> SUFFICES ASSUME ~overlapped' PROVE CountedOnce'
    BY DEF CountedOnce
  <2>1. ~overlapped /\ \A v \in Updates : update[v].pc = "idle"
    BY DEF Progress!Busy, ProgressInv, ProgressShapes
  <2>2. \A v \in Updates : Owes(update[v])'
    BY <1>1, <1>2, <2>1 DEF Owes
  <2> QED BY <1>6, <1>7, <2>1, <2>2 DEF CountedOnce, ProgressInv
<1> QED BY <1>3, <1>4, <1>5, <1>8 DEF ProgressInv

LEMMA ReadPreviousKeeps ==
    ASSUME Readership, ProgressInv, NEW u \in Updates, Progress!ReadPrevious(u)
    PROVE  ProgressInv'
<1> USE DEF Progress!ReadPrevious
<1>1. CASE chapter = Progress!Gone
  BY <1>1, JustEnds
<1>2. CASE chapter # Progress!Gone
  <2> DEFINE q == [update[u] EXCEPT !.pc = "lock", !.previous = chapter]
  <2>1. q \in UpdateShape /\ q.pc = "lock" /\ q.previous = chapter
    BY <1>2, UpdateIs DEF UpdateShape
  <2>2. update' = [update EXCEPT ![u] = q]
    BY <1>2, UpdateIs DEF UpdateShape
  <2>3. Owes(q)
    BY <2>1 DEF Owes
  <2> HIDE DEF q
  <2> QED BY <2>1, <2>2, <2>3, OnlyItGoes
<1> QED BY <1>1, <1>2

LEMMA ReadRowKeeps ==
    ASSUME Readership, ProgressInv, NEW u \in Updates, Progress!ReadRow(u)
    PROVE  ProgressInv'
<1> USE DEF Progress!ReadRow
<1>1. CASE chapter = Progress!Gone
  BY <1>1, JustEnds
<1>2. CASE chapter # Progress!Gone
  <2> DEFINE q == [update[u] EXCEPT !.pc = IF @ = "lock" THEN "store" ELSE "reset",
                                    !.row = chapter]
  <2>1. /\ q \in UpdateShape /\ q.row = chapter /\ q.previous = update[u].previous
        /\ q.pc = IF update[u].pc = "lock" THEN "store" ELSE "reset"
    BY <1>2, UpdateIs DEF UpdateShape
  <2>2. update' = [update EXCEPT ![u] = q]
    BY <1>2, UpdateIs DEF UpdateShape
  <2>3. ~overlapped => Owes(q)
    BY <2>1, UpdateIs DEF Owes
  <2>4. guarded => holder = Progress!Nobody /\ holder' = u
    BY <1>2 DEF Progress!Lock
  <2>5. ~guarded => holder' = holder
    BY <1>2 DEF Progress!Lock
  <2> HIDE DEF q
  <2> QED BY <2>1, <2>2, <2>3, <2>4, <2>5, OnlyItGoes
<1> QED BY <1>1, <1>2

(* The same update on two rows that agree leaves two rows that agree.      *)
LEMMA ProgressedAgrees ==
    ASSUME NEW a \in Chapters, NEW b \in Chapters, NEW p \in Nat, NEW c \in BOOLEAN,
           ProgressShapes
    PROVE  /\ Progress!Progressed(a, p, c) \in Chapters
           /\ SameProgress(a, b) =>
                 SameProgress(Progress!Progressed(a, p, c), Progress!Progressed(b, p, c))
BY UnreadIsShaped
DEF ProgressShapes, SameProgress, Progress!Progressed, Progress!Larger, Chapters

LEMMA NoEvents ==
    ASSUME UNCHANGED events
    PROVE  Progress!PagesRead' = Progress!PagesRead /\ Reads' = Reads
<1>1. Progress!PagesRead' = SumOf(events')
  BY Zenon DEF Progress!PagesRead, SumOf, Running
<1> QED BY <1>1, PagesAreSummed DEF Reads

LEMMA StoreKeeps ==
    ASSUME Readership, ProgressInv, NEW u \in Updates, Progress!Store(u)
    PROVE  ProgressInv'
<1> USE DEF Progress!Store
<1>0. update[u].pc = "store" /\ update[u] \in UpdateShape
  BY UpdateIs
<1>1. guarded => holder = u
  BY <1>0 DEF ProgressInv, WritersHold
<1>2. CASE Progress!End(u) /\ UNCHANGED <<chapter, reached, achieved>>
  BY <1>0, <1>1, <1>2, JustEnds
<1>3. CASE ~UNCHANGED <<chapter, reached, achieved>> \/ ~Progress!End(u)
  <2> DEFINE new == Progress!Progressed(update[u].row, update[u].page, update[u].completed)
  <2>1. /\ chapter # Progress!Gone /\ chapter' = new
        /\ reached' = Progress!Progressed(reached, update[u].page, update[u].completed)
        /\ achieved' = [pages |-> achieved.pages + Progress!Larger(0, new.pages - chapter.pages),
                        reads |-> achieved.reads +
                                    (IF new.completed /\ ~chapter.completed THEN 1 ELSE 0)]
        /\ Progress!Goto(u, "readback")
    BY <1>3
  <2>2. /\ update[u].row \in Chapters /\ update[u].page \in Nat /\ update[u].completed \in BOOLEAN
        /\ chapter \in Chapters /\ reached \in Chapters /\ ProgressShapes
    BY <1>0, <2>1, UpdateIs DEF UpdateShape, ProgressInv, ProgressShapes
  <2>3. new \in Chapters /\ reached' \in Chapters
    BY <2>1, <2>2, ProgressedAgrees
  <2>4. guarded \/ ~overlapped => chapter = update[u].row /\ SameProgress(chapter', reached')
    <3> SUFFICES ASSUME guarded \/ ~overlapped
                 PROVE  chapter = update[u].row /\ SameProgress(chapter', reached')
      OBVIOUS
    <3>1. chapter = update[u].row /\ SameProgress(chapter, reached)
      BY <1>0, <2>1 DEF ProgressInv, RowsAreCurrent
    <3> QED BY <2>1, <2>2, <3>1, ProgressedAgrees
  <2>5. PICK q : q = [update[u] EXCEPT !.pc = "readback"]
    OBVIOUS
  <2>6. q \in UpdateShape /\ q.pc = "readback" /\ q.previous = update[u].previous
    BY <1>0, <2>5 DEF UpdateShape
  <2>7. update' = [update EXCEPT ![u] = q]
    BY <2>1, <2>5 DEF Progress!Goto
  <2>8. Progress!PagesRead' = Progress!PagesRead /\ Reads' = Reads
        /\ Progress!PagesRead \in Nat /\ Reads \in Nat
    BY <2>2, NoEvents, EventsAreCounted
  <2> HIDE DEF new
  <2>9. /\ achieved' \in [pages : Nat, reads : Nat] /\ achieved \in [pages : Nat, reads : Nat]
        /\ achieved'.pages >= achieved.pages /\ achieved'.reads >= achieved.reads
        /\ achieved'.pages = achieved.pages + Progress!PagesDelta(chapter, new)
        /\ achieved'.reads = achieved.reads
             + (IF Progress!ChapterCompleted(chapter, new) THEN 1 ELSE 0)
    <3>1. achieved \in [pages : Nat, reads : Nat]
      BY DEF ProgressInv, ProgressShapes
    <3>2. Progress!Larger(0, new.pages - chapter.pages) \in Nat
      BY <2>2, <2>3 DEF Progress!Larger, Chapters
    <3> QED BY <2>1, <3>1, <3>2 DEF Progress!PagesDelta, Progress!ChapterCompleted
  <2>10. ASSUME ~overlapped
         PROVE  Progress!PagesRead' <= achieved'.pages /\ Reads' <= achieved'.reads /\ Owes(q)'
    <3>1. Progress!PagesRead <= achieved.pages /\ Reads <= achieved.reads
      BY <2>10 DEF ProgressInv, CountedOnce
    <3>2. q.previous = chapter
      BY <1>0, <2>1, <2>6, <2>10, UpdateIs DEF Owes
    <3>3. Due(q.previous, chapter)'
      <4>1. Progress!PagesDelta(chapter, new) \in Int
        BY <2>2, <2>3 DEF Progress!PagesDelta, Progress!Larger, Chapters
      <4>2. Progress!PagesRead' + Progress!PagesDelta(chapter, new) <= achieved'.pages
        BY <2>8, <2>9, <3>1, <4>1
      <4>3. Reads' + (IF Progress!ChapterCompleted(chapter, new) THEN 1 ELSE 0) <= achieved'.reads
        BY <2>8, <2>9, <3>1
      <4> QED BY <2>1, <3>2, <4>2, <4>3
             DEF new, Due, Progress!PagesDelta, Progress!ChapterCompleted
    <3>4. Progress!PagesRead' <= achieved'.pages /\ Reads' <= achieved'.reads
      BY <2>8, <2>9, <3>1
    <3> QED BY <2>6, <3>3, <3>4 DEF Owes
  <2>11. holder' = Progress!Unlocked(u)
    OBVIOUS
  <2>12. Right(u, q)
    BY <1>0, <1>1, <2>1, <2>2, <2>3, <2>4, <2>6, <2>7, <2>9, <2>10
    DEF Right, AtTheRow, new, ProgressShapes
  <2> QED BY <2>12, RightKeeps
<1> QED BY <1>2, <1>3

LEMMA ResetKeeps ==
    ASSUME Readership, ProgressInv, NEW u \in Updates, Progress!Reset(u)
    PROVE  ProgressInv'
<1> USE DEF Progress!Reset
<1>0. update[u].pc = "reset" /\ update[u] \in UpdateShape
  BY UpdateIs
<1>1. guarded => holder = u
  BY <1>0 DEF ProgressInv, WritersHold
<1>2. CASE UNCHANGED <<chapter, reached>>
  BY <1>0, <1>1, <1>2, JustEnds
<1>3. CASE chapter' = Progress!Unread /\ reached' = Progress!Unread
  <2>1. Owes(Progress!Idle)'
    BY UnreadIsShaped DEF Owes, Progress!Idle
  <2>2. Progress!PagesRead' = Progress!PagesRead /\ Reads' = Reads
    BY NoEvents
  <2>3. SameProgress(chapter', reached')
    BY <1>3 DEF SameProgress
  <2>4. Right(u, Progress!Idle)
    BY <1>0, <1>1, <1>3, <2>1, <2>2, <2>3, UnreadIsShaped
    DEF Right, AtTheRow, Progress!End, ProgressInv, ProgressShapes, CountedOnce
  <2> QED BY <2>4, RightKeeps
<1> QED BY <1>2, <1>3

LEMMA ReadBackKeeps ==
    ASSUME Readership, ProgressInv, NEW u \in Updates, Progress!ReadBack(u)
    PROVE  ProgressInv'
<1> USE DEF Progress!ReadBack
<1>1. CASE Progress!End(u)
  BY <1>1, JustEnds
<1>2. CASE chapter # Progress!Gone
           /\ update' = [update EXCEPT ![u].pc = "pages", ![u].row = chapter]
  <2> DEFINE q == [update[u] EXCEPT !.pc = "pages", !.row = chapter]
  <2>1. /\ q \in UpdateShape /\ q.pc = "pages" /\ q.row = chapter
        /\ q.previous = update[u].previous
    BY <1>2, UpdateIs DEF UpdateShape
  <2>2. update' = [update EXCEPT ![u] = q]
    BY <1>2, UpdateIs DEF UpdateShape
  <2>3. ~overlapped => Owes(q)
    BY <1>2, <2>1, UpdateIs DEF Owes
  <2> HIDE DEF q
  <2> QED BY <2>1, <2>2, <2>3, OnlyItGoes
<1> QED BY <1>1, <1>2

(* An event was recorded.                                                  *)
LEMMA Records ==
    ASSUME Readership, ProgressInv, NEW u \in Updates, NEW q \in UpdateShape,
           NEW e \in EventShape, events' = Append(events, e),
           update[u].pc # "idle", update' = [update EXCEPT ![u] = q],
           UNCHANGED <<guarded, overlapped, today, chapter, reached, achieved>>,
           q.pc \in {"idle", "chapter"},
           guarded /\ q.pc = "chapter" => holder' = u,
           guarded /\ holder' # holder => holder \in {Progress!Nobody, u},
           ~overlapped =>
               /\ Progress!PagesRead + Progress!PagesOf(e) <= achieved.pages
               /\ Reads + (IF e.kind = "chapters_read" THEN 1 ELSE 0)
                        + (IF q.pc = "chapter" THEN 1 ELSE 0) <= achieved.reads
    PROVE  ProgressInv'
<1>1. /\ events' \in Seq(EventShape)
      /\ Progress!PagesRead' = Progress!PagesRead + Progress!PagesOf(e)
      /\ Reads' = Reads + (IF e.kind = "chapters_read" THEN 1 ELSE 0)
  BY EventCounts DEF ProgressInv
<1>2. Reads \in Nat
  BY EventsAreCounted DEF ProgressInv
<1>3. ~overlapped => Progress!PagesRead' <= achieved'.pages /\ Reads' <= achieved'.reads
                     /\ (q.pc = "chapter" => Reads' + 1 <= achieved'.reads)
  <2>1. achieved.reads \in Nat
    BY DEF ProgressInv, ProgressShapes
  <2> QED BY <1>1, <1>2, <2>1
<1>4. ~overlapped => Owes(q)'
  BY <1>3 DEF Owes
<1>5. Right(u, q)
  BY <1>1, <1>3, <1>4 DEF Right, ProgressInv, ProgressShapes, RowsAreCurrent
<1> QED BY <1>5, RightKeeps

LEMMA RecordPagesKeeps ==
    ASSUME Readership, ProgressInv, NEW u \in Updates, Progress!RecordPages(u)
    PROVE  ProgressInv'
<1> DEFINE delta == Progress!PagesDelta(update[u].previous, update[u].row)
           finished == Progress!ChapterCompleted(update[u].previous, update[u].row)
<1>1. /\ update[u].pc = "pages" /\ update[u] \in UpdateShape
      /\ UNCHANGED <<guarded, chapter, today, requests, overlapped, reached, achieved>>
      /\ \/ /\ Progress!End(u) /\ UNCHANGED <<holder, events>>
         \/ /\ delta > 0 \/ finished
            /\ guarded => holder = Progress!Nobody
            /\ events' = IF delta > 0 THEN Append(events, Progress!Event("pages_read", delta))
                         ELSE events
            /\ IF finished THEN Progress!Lock(u) /\ Progress!Goto(u, "chapter")
               ELSE Progress!End(u) /\ UNCHANGED holder
  BY UpdateIs DEF Progress!RecordPages
<1>2. delta \in Nat /\ finished \in BOOLEAN
  BY <1>1 DEF UpdateShape, Chapters, Progress!PagesDelta, Progress!Larger,
              Progress!ChapterCompleted
<1>3. ~overlapped => /\ Progress!PagesRead + delta <= achieved.pages
                     /\ Reads + (IF finished THEN 1 ELSE 0) <= achieved.reads
  BY <1>1, UpdateIs DEF Owes, Due
<1> HIDE DEF delta, finished
<1>4. CASE Progress!End(u) /\ UNCHANGED <<holder, events>>
  BY <1>1, <1>4, JustEnds
<1>5. CASE /\ delta > 0 \/ finished
           /\ guarded => holder = Progress!Nobody
           /\ events' = IF delta > 0 THEN Append(events, Progress!Event("pages_read", delta))
                        ELSE events
           /\ IF finished THEN Progress!Lock(u) /\ Progress!Goto(u, "chapter")
              ELSE Progress!End(u) /\ UNCHANGED holder
  <2>1. PICK q \in UpdateShape :
          /\ update' = [update EXCEPT ![u] = q]
          /\ q.pc = IF finished THEN "chapter" ELSE "idle"
    <3>1. CASE finished
      <4> DEFINE q == [update[u] EXCEPT !.pc = "chapter"]
      <4>1. q \in UpdateShape /\ q.pc = "chapter"
        BY <1>1 DEF UpdateShape
      <4>2. update' = [update EXCEPT ![u] = q]
        BY <1>5, <3>1 DEF Progress!Goto
      <4> QED BY <3>1, <4>1, <4>2
    <3>2. CASE ~finished
      BY <1>5, <3>2, UnreadIsShaped DEF Progress!End
    <3> QED BY <3>1, <3>2
  <2>2. /\ guarded /\ q.pc = "chapter" => holder' = u
        /\ guarded /\ holder' # holder => holder \in {Progress!Nobody, u}
    BY <1>5, <2>1 DEF Progress!Lock
  <2>3. CASE delta > 0
    <3>1. PICK e : e = Progress!Event("pages_read", delta)
      OBVIOUS
    <3>2. e \in EventShape /\ e.kind = "pages_read" /\ Progress!PagesOf(e) = delta
      BY <1>2, <3>1 DEF EventShape, Progress!Event, Progress!PagesOf, ProgressInv, ProgressShapes
    <3>3. events' = Append(events, e)
      BY <1>5, <2>3, <3>1
    <3>4. Reads \in Nat
      BY EventsAreCounted DEF ProgressInv
    <3>5. ~overlapped =>
               /\ Progress!PagesRead + Progress!PagesOf(e) <= achieved.pages
               /\ Reads + (IF e.kind = "chapters_read" THEN 1 ELSE 0)
                        + (IF q.pc = "chapter" THEN 1 ELSE 0) <= achieved.reads
      BY <1>2, <1>3, <2>1, <3>2, <3>4
    <3> QED BY <1>1, <2>1, <2>2, <3>2, <3>3, <3>5, Records
  <2>4. CASE ~(delta > 0)
    <3>1. finished /\ UNCHANGED events /\ q.pc = "chapter"
      BY <1>5, <2>1, <2>4
    <3>2. ~overlapped => Owes(q)
      BY <1>3, <3>1 DEF Owes
    <3> QED BY <1>1, <2>1, <2>2, <3>1, <3>2, OnlyItGoes
  <2> QED BY <2>3, <2>4
<1> QED BY <1>1, <1>4, <1>5

LEMMA RecordChapterKeeps ==
    ASSUME Readership, ProgressInv, NEW u \in Updates, Progress!RecordChapter(u)
    PROVE  ProgressInv'
<1> USE DEF Progress!RecordChapter
<1>0. update[u].pc = "chapter" /\ update[u] \in UpdateShape
  BY UpdateIs
<1>1. guarded => holder = u
  BY <1>0 DEF ProgressInv, WritersHold
<1>2. CASE UNCHANGED events
  BY <1>0, <1>1, <1>2, JustEnds
<1>3. CASE events' = Append(events, Progress!Event("chapters_read", 1))
  <2>1. PICK e : e = Progress!Event("chapters_read", 1)
    OBVIOUS
  <2>2. e \in EventShape /\ e.kind = "chapters_read" /\ Progress!PagesOf(e) = 0
    BY <2>1 DEF EventShape, Progress!Event, Progress!PagesOf, ProgressInv, ProgressShapes
  <2>3. Reads \in Nat /\ Progress!PagesRead \in Nat
    BY EventsAreCounted DEF ProgressInv
  <2>4. ~overlapped =>
           /\ Progress!PagesRead + Progress!PagesOf(e) <= achieved.pages
           /\ Reads + (IF e.kind = "chapters_read" THEN 1 ELSE 0)
                    + (IF Progress!Idle.pc = "chapter" THEN 1 ELSE 0) <= achieved.reads
    BY <1>0, <2>2, <2>3, UpdateIs, UnreadIsShaped DEF Owes, ProgressInv, CountedOnce
  <2> QED BY <1>0, <1>1, <1>3, <2>1, <2>2, <2>4, UnreadIsShaped, Records DEF Progress!End
<1> QED BY <1>2, <1>3

(* The series is removed, or the day ends.                                 *)
LEMMA BesideUpdates ==
    ASSUME ProgressInv, UNCHANGED <<guarded, events, update, overlapped, reached, achieved>>,
           today' \in Nat, chapter' \in {chapter, Progress!Gone},
           UNCHANGED holder
    PROVE  ProgressInv'
<1>1. ProgressShapes'
  BY DEF ProgressInv, ProgressShapes
<1>2. WritersHold' /\ OneAtATime' /\ RowsAreCurrent'
  BY DEF ProgressInv, WritersHold, OneAtATime, RowsAreCurrent
<1>3. Progress!PagesRead' = Progress!PagesRead /\ Reads' = Reads
  BY NoEvents
<1>4. \A u \in Updates : Owes(update[u]) => Owes(update[u])'
  BY <1>3 DEF Owes, Due
<1>5. CountedOnce'
  BY <1>3, <1>4 DEF ProgressInv, CountedOnce
<1> QED BY <1>1, <1>2, <1>5 DEF ProgressInv

LEMMA ProgressInvStep ==
    ASSUME Readership PROVE ProgressInv /\ [Progress!Next]_(Progress!vars) => ProgressInv'
<1> SUFFICES ASSUME ProgressInv, [Progress!Next]_(Progress!vars) PROVE ProgressInv'
  OBVIOUS
<1>1. ASSUME NEW u \in Updates,
             \/ Progress!Request(u) \/ Progress!ReadPrevious(u) \/ Progress!ReadRow(u)
             \/ Progress!Store(u) \/ Progress!Reset(u) \/ Progress!ReadBack(u)
             \/ Progress!RecordPages(u) \/ Progress!RecordChapter(u)
      PROVE  ProgressInv'
  BY <1>1, RequestProgressKeeps, ReadPreviousKeeps, ReadRowKeeps, StoreKeeps, ResetKeeps,
     ReadBackKeeps, RecordPagesKeeps, RecordChapterKeeps
<1>2. CASE Progress!Remove
  BY <1>2, BesideUpdates DEF Progress!Remove, ProgressInv, ProgressShapes
<1>3. CASE Progress!NextDay
  BY <1>3, BesideUpdates DEF Progress!NextDay, ProgressInv, ProgressShapes
<1>4. CASE UNCHANGED Progress!vars
  BY <1>4, BesideUpdates DEF Progress!vars, ProgressInv, ProgressShapes
<1> QED BY <1>1, <1>2, <1>3, <1>4 DEF Progress!Next

LEMMA ProgressInvCounts == ProgressInv => Progress!ReadingIsCounted
<1> SUFFICES ASSUME ProgressInv PROVE Progress!ReadingIsCounted
  OBVIOUS
<1>1. ASSUME guarded \/ ~overlapped
      PROVE  chapter \in {Progress!Gone, [reached EXCEPT !.lastRead = chapter.lastRead]}
  <2>1. chapter = Progress!Gone \/ SameProgress(chapter, reached)
    BY <1>1 DEF ProgressInv, RowsAreCurrent
  <2>2. CASE chapter # Progress!Gone
    <3>1. chapter \in Chapters /\ reached \in Chapters
      BY <2>2 DEF ProgressInv, ProgressShapes
    <3> QED BY <2>1, <2>2, <3>1 DEF SameProgress, Chapters
  <2> QED BY <2>2
<1>2. ASSUME chapter.completed, chapter.lastRead \in Progress!Shown PROVE Progress!ChaptersRead > 0
  <2> DEFINE R == Progress!Recorded("chapters_read")
  <2>1. events \in Seq(EventShape)
    BY DEF ProgressInv, ProgressShapes
  <2>2. IsFiniteSet(DOMAIN events) /\ R \subseteq DOMAIN events
    BY <2>1, FS_Interval DEF Progress!Recorded
  <2>3. IsFiniteSet(R) /\ Cardinality(R) \in Nat /\ (Cardinality(R) = 0 <=> R = {})
    BY <2>2, FS_Subset, FS_CardinalityType, FS_EmptySet
  <2> HIDE DEF R
  <2>4. Progress!ChaptersRead = Cardinality(R) + (IF R = {} THEN 1 ELSE 0)
    BY <1>2, ProgressCounts DEF Progress!ChaptersRead, R
  <2> QED BY <2>3, <2>4
<1>3. Cardinality({i \in DOMAIN events : events[i].kind = "chapters_read"}) = Reads
  BY DEF Reads
<1>4. ~overlapped => Reads <= achieved.reads /\ Progress!PagesRead <= achieved.pages
  BY DEF ProgressInv, CountedOnce
<1> QED BY <1>1, <1>2, <1>3, <1>4, ProgressCounts DEF Progress!ReadingIsCounted

LEMMA ProgressHolds ==
    ASSUME Readership PROVE Progress!Spec => []Progress!ReadingIsCounted
BY InitProgressInv, ProgressInvStep, ProgressInvCounts, PTL DEF Progress!Spec

-----------------------------------------------------------------------------
(* The types of the parts: the variables stay within the bounds of the     *)
(* model, each archive by the operations that were counted.                *)

(* The archives: every edit is the work of an operation that was counted.  *)
Busy == {t \in Tasks : pc[t] # "idle"}

ArchiveBounds ==
    /\ ops \in 0 .. MaxOps /\ published \in 0 .. MaxVersions
    /\ \A t \in Tasks : pc[t] = "idle" => op[t] = "none" /\ seen[t] = NoSeen
    /\ IsFiniteSet(Busy)
    /\ \A v \in Versions : inodes[v].edits + Cardinality(Busy) <= ops

(* A task that is done is busy no more, and what it may have edited is one. *)
LEMMA DoneKeepsBounds ==
    ASSUME ArchiveInv, ArchiveBounds, MaxOps \in Nat, NEW t \in Tasks, pc[t] # "idle", Return(t),
           UNCHANGED ops, published' \in 0 .. MaxVersions,
           \A v \in Versions : inodes'[v].edits \in Nat /\ inodes'[v].edits <= inodes[v].edits + 1
    PROVE  ArchiveBounds'
<1>1. Busy' = Busy \ {t}
  BY ReturnKeepsOthers DEF Busy
<1>2. t \in Busy
  BY DEF Busy
<1>3. IsFiniteSet(Busy') /\ Cardinality(Busy') = Cardinality(Busy) - 1 /\ Cardinality(Busy) \in Nat
  BY <1>1, <1>2, FS_RemoveElement, FS_CardinalityType DEF ArchiveBounds
<1>4. \A s \in Tasks : pc'[s] = "idle" => op'[s] = "none" /\ seen'[s] = NoSeen
  BY DEF ArchiveBounds, ArchiveInv, ArchiveShapes, Return
<1>5. \A v \in Versions : inodes[v].edits \in Nat
  BY DEF ArchiveInv, ArchiveShapes, Inodes
<1>6. \A v \in Versions : inodes'[v].edits + Cardinality(Busy') <= ops'
  BY <1>3, <1>5 DEF ArchiveBounds
<1> HIDE DEF Busy
<1> QED BY <1>3, <1>4, <1>6 DEF ArchiveBounds

LEMMA ArchiveBoundsStep ==
    ASSUME MaxOps \in Nat, MaxVersions \in Nat, ArchiveInv, ArchiveBounds, [Next]_vars
    PROVE  ArchiveBounds'
<1>0. \A v \in Versions : inodes[v].edits \in Nat
  BY DEF ArchiveInv, ArchiveShapes, Inodes
<1>1. ASSUME NEW t \in Tasks, NEW o \in Exclusive \cup {"read"}, Call(t, o)
      PROVE  ArchiveBounds'
  <2>1. Busy' = Busy \cup {t} /\ t \notin Busy
    BY <1>1 DEF Busy, Call, ArchiveInv, ArchiveShapes
  <2>2. /\ IsFiniteSet(Busy') /\ Cardinality(Busy') = Cardinality(Busy) + 1
        /\ Cardinality(Busy) \in Nat
    BY <2>1, FS_AddElement, FS_CardinalityType DEF ArchiveBounds
  <2>3. \A s \in Tasks : pc'[s] = "idle" => s # t /\ op'[s] = op[s] /\ seen'[s] = seen[s] /\ pc[s] = "idle"
    BY <1>1 DEF Call, ArchiveInv, ArchiveShapes
  <2>4. ops' = ops + 1 /\ ops < MaxOps /\ UNCHANGED <<inodes, published>>
    BY <1>1 DEF Call
  <2> HIDE DEF Busy
  <2> QED BY <1>0, <2>2, <2>3, <2>4 DEF ArchiveBounds
<1>2. ASSUME UNCHANGED <<inodes, ops, published>>, Busy' = Busy,
             \A t \in Tasks : pc'[t] = "idle" => pc[t] = "idle" /\ op'[t] = op[t] /\ seen'[t] = seen[t]
      PROVE  ArchiveBounds'
  BY <1>2 DEF ArchiveBounds
<1>3. ASSUME NEW t \in Tasks, TaskStep(t) PROVE ArchiveBounds'
  <2>1. CASE Lock(t)
    BY <1>2, <2>1 DEF Lock, Busy, ArchiveInv, ArchiveShapes
  <2>2. CASE BeginEdit(t)
    BY <1>2, <2>2 DEF BeginEdit, Busy, ArchiveInv, ArchiveShapes
  <2>3. CASE Publish(t)
    <3>1. published' \in 0 .. MaxVersions
      BY <2>3 DEF Publish, ArchiveBounds
    <3> QED BY <1>0, <2>3, <3>1, DoneKeepsBounds DEF Publish
  <2>4. CASE EditFails(t)
    BY <1>0, <2>4, DoneKeepsBounds DEF EditFails, ArchiveBounds
  <2>5. CASE Finalize(t)
    <3>1. \A v \in Versions :
            inodes'[v].edits \in Nat /\ inodes'[v].edits <= inodes[v].edits + 1
      BY <1>0, <2>5 DEF Finalize, ArchiveInv, ArchiveShapes
    <3> QED BY <2>5, <3>1, DoneKeepsBounds DEF Finalize, ArchiveBounds
  <2>6. CASE Remove(t)
    BY <1>0, <2>6, DoneKeepsBounds DEF Remove, ArchiveBounds
  <2>7. CASE Map(t)
    <3>1. CASE path = Nothing
      BY <1>0, <2>7, <3>1, DoneKeepsBounds DEF Map, ArchiveBounds
    <3>2. CASE path # Nothing
      BY <1>2, <2>7, <3>2 DEF Map, Busy, ArchiveInv, ArchiveShapes
    <3> QED BY <3>1, <3>2
  <2>8. CASE DropBody(t)
    BY <1>0, <2>8, DoneKeepsBounds DEF DropBody, ArchiveBounds
  <2> QED BY <1>3, <2>1, <2>2, <2>3, <2>4, <2>5, <2>6, <2>7, <2>8 DEF TaskStep
<1>4. CASE RemoveUnlocked
  <2>1. Busy' = Busy /\ ops' = ops + 1 /\ ops < MaxOps /\ UNCHANGED <<inodes, op, pc, seen, published>>
    BY <1>4 DEF RemoveUnlocked, Busy
  <2>2. Cardinality(Busy) \in Nat
    BY FS_CardinalityType DEF ArchiveBounds
  <2> HIDE DEF Busy
  <2> QED BY <1>0, <2>1, <2>2 DEF ArchiveBounds
<1>5. CASE Restart
  <2>1. Busy' = {} /\ ops' = ops + 1 /\ ops < MaxOps /\ UNCHANGED <<inodes, published>>
    BY <1>5 DEF Restart, Busy
  <2>2. IsFiniteSet(Busy') /\ Cardinality(Busy') = 0 /\ Cardinality(Busy) \in Nat
    BY <2>1, FS_EmptySet, FS_CardinalityType DEF ArchiveBounds
  <2>3. \A t \in Tasks : op'[t] = "none" /\ seen'[t] = NoSeen
    BY <1>5 DEF Restart
  <2> HIDE DEF Busy
  <2> QED BY <1>0, <2>1, <2>2, <2>3 DEF ArchiveBounds
<1>6. CASE UNCHANGED vars
  BY <1>2, <1>6 DEF vars, Busy
<1> QED BY <1>1, <1>3, <1>4, <1>5, <1>6 DEF Next

LEMMA ArchiveTypesHold ==
    ASSUME MaxOps \in Nat, MaxVersions \in Nat, NothingIsFresh PROVE Spec => []TypeOK
<1>1. Init => ArchiveBounds
  <2> SUFFICES ASSUME Init PROVE ArchiveBounds
    OBVIOUS
  <2>1. Busy = {}
    BY DEF Init, Busy
  <2>2. IsFiniteSet(Busy) /\ Cardinality(Busy) = 0
    BY <2>1, FS_EmptySet
  <2> HIDE DEF Busy
  <2> QED BY <2>2 DEF Init, ArchiveBounds, Sealed
<1>2. ArchiveInv /\ ArchiveBounds /\ [Next]_vars => ArchiveBounds'
  BY ArchiveBoundsStep
<1>3. ArchiveInv /\ ArchiveBounds => TypeOK
  <2> SUFFICES ASSUME ArchiveInv, ArchiveBounds PROVE TypeOK
    OBVIOUS
  <2>1. Cardinality(Busy) \in Nat
    BY FS_CardinalityType DEF ArchiveBounds
  <2> HIDE DEF Busy
  <2>2. \A v \in Versions : inodes[v].edits \in Nat /\ inodes[v].edits <= MaxOps
    BY <2>1 DEF ArchiveInv, ArchiveShapes, ArchiveBounds, Inodes
  <2>3. inodes \in [Versions -> [section : {Nothing} \cup Versions, edits : 0 .. MaxOps]]
    BY <2>2 DEF ArchiveInv, ArchiveShapes, Inodes
  <2> QED BY <2>3 DEF ArchiveInv, ArchiveShapes, ArchiveBounds, TypeOK
<1> QED BY <1>1, <1>2, <1>3, ArchiveInvHolds, PTL DEF Spec

-----------------------------------------------------------------------------
(* The pages and the progress.                                             *)

LEMMA DownloadedTypesHold ==
    ASSUME MaxContents \in Nat PROVE Downloaded!Spec => []Downloaded!TypeOK
<1>1. DownloadedInv => Downloaded!TypeOK
  BY DEF DownloadedInv, DownloadedShapes, Reader, Downloaded!TypeOK
<1> QED BY <1>1, InitDownloadedInv, DownloadedInvStep, PTL DEF Downloaded!Spec

JobShape == [at : {"none", "drive", "references", "refresh", "pages", "done", "failed", "cancelled"},
             id : Sources!Ids, attempt : 1 .. MaxAttempts, refreshed : BOOLEAN]

SourceBounds ==
    /\ lists \subseteq Sources!Ids /\ remote \in Sources!Ids /\ job \in JobShape
    /\ \A p \in Pages : fetches[p].attempt \in 1 .. MaxAttempts

LEMMA SourceBoundsStep ==
    ASSUME MaxAttempts \in Nat \ {0}, SourcePagesInv, SourceBounds, [Sources!Next]_(Sources!vars)
    PROVE  SourceBounds'
<1> USE DEF SourceBounds
<1>0. fetches \in [Pages -> FetchShape] /\ 1 \in 1 .. MaxAttempts
  BY DEF SourcePagesInv, SourceShapes
<1>1. CASE UNCHANGED <<lists, remote, job, fetches>>
  BY <1>1
<1>2. ASSUME NEW r \in Proxies, Sources!Ask(r) \/ Sources!ProxyLookup(r) \/ Sources!ProxyFetch(r)
                                \/ Sources!ProxyDone(r)
      PROVE  SourceBounds'
  BY <1>1, <1>2 DEF Sources!Ask, Sources!ProxyLookup, Sources!ProxyFetch, Sources!ProxyDone
<1>3. CASE Sources!Forget \/ \E id \in Sources!Ids : Sources!WarmList(id)
  BY <1>3 DEF Sources!Forget, Sources!Expire, Sources!WarmList
<1>4. CASE Sources!Start \/ Sources!TryDrive
  BY <1>4 DEF Sources!Start, Sources!TryDrive, JobShape
<1>5. CASE Sources!GetReferences
  <2>1. Sources!ReferencesFail \in JobShape
    BY DEF Sources!ReferencesFail, JobShape
  <2>2. lists' \subseteq Sources!Ids /\ job' \in JobShape /\ UNCHANGED <<fetches, remote>>
    BY <1>0, <1>5, <2>1 DEF Sources!GetReferences, JobShape
  <2> QED BY <2>2
<1>6. CASE Sources!Refresh
  <2>1. job' \in JobShape /\ UNCHANGED <<lists, fetches, remote>>
    BY <1>0, <1>6 DEF Sources!Refresh, JobShape
  <2> QED BY <2>1
<1>7. CASE Sources!Finish \/ Sources!Cancel
  <2>1. job' \in JobShape /\ UNCHANGED <<lists, remote>>
    BY <1>0, <1>7 DEF Sources!Finish, Sources!Cancel, Sources!NoJob, Sources!Ids, JobShape
  <2>2. fetches' = [p \in Pages |-> Sources!NotFetched] /\ Sources!NotFetched.attempt = 1
    BY <1>7 DEF Sources!Finish, Sources!Cancel, Sources!NotFetched
  <2> QED BY <1>0, <2>1, <2>2
<1>8. ASSUME NEW p \in Pages, NEW to, to.attempt \in 1 .. MaxAttempts,
             fetches' = [fetches EXCEPT ![p] = to], UNCHANGED <<lists, remote, job>>
      PROVE  SourceBounds'
  BY <1>0, <1>8
<1>9. ASSUME NEW p \in Pages, NEW at, NEW body,
             \/ fetches' = [fetches EXCEPT ![p].at = at]
             \/ fetches' = [fetches EXCEPT ![p].at = at, ![p].body = body],
             UNCHANGED <<lists, remote, job>>
      PROVE  SourceBounds'
  <2>1. \A q \in Pages : fetches'[q].attempt = fetches[q].attempt
    BY <1>0, <1>9 DEF FetchShape
  <2> QED BY <1>9, <2>1
<1>10. ASSUME NEW p \in Pages, Sources!Begin(p) PROVE SourceBounds'
  BY <1>9, <1>10 DEF Sources!Begin
<1>11. ASSUME NEW p \in Pages, Sources!PageLookup(p) PROVE SourceBounds'
  <2>1. PICK at, body : fetches' = [fetches EXCEPT ![p].at = at, ![p].body = body]
    BY <1>11, Zenon DEF Sources!PageLookup
  <2>2. UNCHANGED <<lists, remote, job>>
    BY <1>11 DEF Sources!PageLookup
  <2> QED BY <1>9, <2>1, <2>2
<1>12. ASSUME NEW p \in Pages, Sources!PageFetch(p) PROVE SourceBounds'
  <2>0. UNCHANGED <<lists, remote, job>> /\ fetches[p] \in FetchShape
    BY <1>0, <1>12 DEF Sources!PageFetch
  <2>1. CASE \E image : fetches' = [fetches EXCEPT ![p].at = "fetched", ![p].body = image]
    BY <1>9, <2>0, <2>1
  <2>2. CASE /\ fetches[p].attempt < MaxAttempts
             /\ fetches' = [fetches EXCEPT ![p].at = "lookup", ![p].attempt = @ + 1]
    <3> DEFINE n == fetches[p].attempt + 1
               to == [fetches[p] EXCEPT !.at = "lookup", !.attempt = n]
    <3>1. n \in 1 .. MaxAttempts
      BY <2>0, <2>2
    <3>2. fetches' = [fetches EXCEPT ![p].at = "lookup", ![p].attempt = n]
      BY <2>2, Zenon
    <3> HIDE DEF n
    <3>3. fetches' = [fetches EXCEPT ![p] = to] /\ to.attempt = n
      BY <1>0, <2>0, <3>2 DEF FetchShape
    <3> HIDE DEF to
    <3> QED BY <1>8, <2>0, <3>1, <3>3
  <2>3. CASE fetches' = [fetches EXCEPT ![p] = [Sources!NotFetched EXCEPT !.at = "skipped"]]
    <3> DEFINE to == [Sources!NotFetched EXCEPT !.at = "skipped"]
    <3>1. to.attempt = 1 /\ fetches' = [fetches EXCEPT ![p] = to]
      BY <2>3 DEF Sources!NotFetched
    <3> HIDE DEF to
    <3> QED BY <1>0, <1>8, <2>0, <3>1
  <2> QED BY <1>12, <2>1, <2>2, <2>3 DEF Sources!PageFetch
<1>13. ASSUME NEW p \in Pages, Sources!Stage(p) PROVE SourceBounds'
  <2> DEFINE to == [fetches[p] EXCEPT !.at = "staged", !.attempt = 1]
  <2>1. to.attempt = 1 /\ fetches' = [fetches EXCEPT ![p] = to]
    BY <1>0, <1>13 DEF Sources!Stage, FetchShape
  <2> HIDE DEF to
  <2> QED BY <1>0, <1>8, <1>13, <2>1 DEF Sources!Stage
<1>14. CASE UNCHANGED Sources!vars
  BY <1>1, <1>14 DEF Sources!vars
<1> QED BY <1>2, <1>3, <1>4, <1>5, <1>6, <1>7, <1>10, <1>11, <1>12, <1>13, <1>14 DEF Sources!Next

LEMMA SourceTypesHold ==
    ASSUME MaxAttempts \in Nat \ {0} PROVE Sources!Spec => []Sources!TypeOK
<1>1. Sources!Init => SourceBounds
  BY DEF Sources!Init, SourceBounds, Sources!NoJob, Sources!NotFetched, Sources!Ids, JobShape
<1>2. SourcePagesInv /\ SourceBounds /\ [Sources!Next]_(Sources!vars) => SourceBounds'
  BY SourceBoundsStep
<1>3. SourcePagesInv /\ SourceBounds => Sources!TypeOK
  BY DEF SourcePagesInv, SourceShapes, ProxyShape, FetchShape, SourceBounds, JobShape,
         Sources!TypeOK
<1> QED BY <1>1, <1>2, <1>3, InitSourcePagesInv, SourcePagesInvStep, PTL DEF Sources!Spec

RequestShape ==
    [pc : {"idle", "previous", "lock", "store", "readback", "pages", "chapter", "clear", "reset"},
     page : 0 .. MaxPage, completed : BOOLEAN, previous : Progress!Rows, row : Progress!Rows]

LEMMA ProgressTypesStep ==
    ASSUME MaxPage \in Nat, MaxRequests \in Nat, MaxDay \in Nat, Progress!TypeOK,
           [Progress!Next]_(Progress!vars)
    PROVE  Progress!TypeOK'
<1> USE DEF Progress!TypeOK
<1>0. /\ update \in [Updates -> RequestShape] /\ Progress!Unread \in Progress!Rows
      /\ Progress!Idle \in RequestShape
      /\ chapter \in Progress!Rows \cup {Progress!Gone}
  BY DEF RequestShape, Progress!Unread, Progress!Idle, Progress!Rows
<1>1. ASSUME NEW u \in Updates, NEW q \in RequestShape, update' = [update EXCEPT ![u] = q],
             UNCHANGED <<guarded, today>>, holder' \in {holder, u, Progress!Nobody},
             chapter' \in Progress!Rows \cup {Progress!Gone}, requests' \in 0 .. MaxRequests
      PROVE  Progress!TypeOK'
  <2>1. update' \in [Updates -> RequestShape]
    BY <1>0, <1>1
  <2> QED BY <1>1, <2>1 DEF RequestShape
<1>2. ASSUME NEW u \in Updates, Progress!End(u),
             UNCHANGED <<guarded, today, requests>>, holder' \in {holder, u, Progress!Nobody},
             chapter' \in Progress!Rows \cup {Progress!Gone}
      PROVE  Progress!TypeOK'
  BY <1>0, <1>1, <1>2 DEF Progress!End
<1>3. ASSUME NEW u \in Updates, NEW at \in {"readback", "chapter", "clear"}, Progress!Goto(u, at),
             UNCHANGED <<guarded, today>>, holder' \in {holder, u, Progress!Nobody},
             chapter' \in Progress!Rows \cup {Progress!Gone}, requests' \in 0 .. MaxRequests
      PROVE  Progress!TypeOK'
  <2> DEFINE q == [update[u] EXCEPT !.pc = at]
  <2>1. q \in RequestShape /\ update' = [update EXCEPT ![u] = q]
    BY <1>0, <1>3 DEF RequestShape, Progress!Goto
  <2> HIDE DEF q
  <2> QED BY <1>1, <1>3, <2>1
<1>4. ASSUME NEW u \in Updates, Progress!Request(u) PROVE Progress!TypeOK'
  <2>0. /\ requests' = requests + 1 /\ requests < MaxRequests
        /\ UNCHANGED <<guarded, today, holder, chapter>>
    BY <1>4, Zenon DEF Progress!Request
  <2>1. requests' \in 0 .. MaxRequests /\ UNCHANGED <<guarded, today, holder, chapter>>
    BY <2>0
  <2>2. ASSUME NEW p \in 0 .. MaxPage, NEW completed \in BOOLEAN,
               update' = [update EXCEPT ![u] =
                   [Progress!Idle EXCEPT !.pc = "previous", !.page = p, !.completed = completed]]
        PROVE  Progress!TypeOK'
    <3> DEFINE q == [Progress!Idle EXCEPT !.pc = "previous", !.page = p, !.completed = completed]
    <3>1. q \in RequestShape
      BY <1>0 DEF RequestShape
    <3>2. update' = [update EXCEPT ![u] = q]
      BY <2>2
    <3> HIDE DEF q
    <3> QED BY <1>0, <1>1, <2>1, <3>1, <3>2
  <2>3. CASE Progress!Goto(u, "clear")
    BY <1>0, <1>3, <2>1, <2>3
  <2> QED BY <1>4, <2>2, <2>3 DEF Progress!Request
<1>5. ASSUME NEW u \in Updates, Progress!ReadPrevious(u) PROVE Progress!TypeOK'
  <2>1. UNCHANGED <<guarded, today, holder, chapter, requests>>
    BY <1>5 DEF Progress!ReadPrevious
  <2>2. CASE chapter # Progress!Gone
    <3> DEFINE q == [update[u] EXCEPT !.pc = "lock", !.previous = chapter]
    <3>1. q \in RequestShape
      BY <1>0, <2>2 DEF RequestShape
    <3>2. update' = [update EXCEPT ![u] = q]
      BY <1>0, <1>5, <2>2 DEF Progress!ReadPrevious, RequestShape
    <3> HIDE DEF q
    <3> QED BY <1>0, <1>1, <2>1, <3>1, <3>2
  <2> QED BY <1>0, <1>2, <1>5, <2>1, <2>2 DEF Progress!ReadPrevious
<1>6. ASSUME NEW u \in Updates, Progress!ReadRow(u) PROVE Progress!TypeOK'
  <2>1. UNCHANGED <<guarded, today, chapter, requests>> /\ holder' \in {holder, u}
    BY <1>6 DEF Progress!ReadRow, Progress!Lock
  <2>2. CASE chapter # Progress!Gone
    <3> DEFINE at == IF update[u].pc = "lock" THEN "store" ELSE "reset"
               q == [update[u] EXCEPT !.pc = at, !.row = chapter]
    <3>1. q \in RequestShape
      BY <1>0, <2>2 DEF RequestShape
    <3>2. update' = [update EXCEPT ![u] = q]
      BY <1>0, <1>6, <2>2 DEF Progress!ReadRow, RequestShape
    <3> HIDE DEF q
    <3> QED BY <1>0, <1>1, <2>1, <3>1, <3>2
  <2> QED BY <1>0, <1>2, <1>6, <2>1, <2>2 DEF Progress!ReadRow
<1>7. ASSUME NEW u \in Updates, Progress!Store(u) PROVE Progress!TypeOK'
  <2>1. UNCHANGED <<guarded, today, requests>> /\ holder' \in {holder, Progress!Nobody}
    BY <1>7 DEF Progress!Store, Progress!Unlocked
  <2>2. Progress!Progressed(update[u].row, update[u].page, update[u].completed) \in Progress!Rows
    BY <1>0 DEF Progress!Progressed, Progress!Larger, RequestShape, Progress!Rows
  <2>3. chapter' \in Progress!Rows \cup {Progress!Gone}
    BY <1>0, <1>7, <2>2 DEF Progress!Store
  <2>4. Progress!Goto(u, "readback") \/ Progress!End(u)
    BY <1>7 DEF Progress!Store
  <2> QED BY <1>2, <1>3, <2>1, <2>3, <2>4
<1>8. ASSUME NEW u \in Updates, Progress!Reset(u) PROVE Progress!TypeOK'
  BY <1>0, <1>2, <1>8 DEF Progress!Reset, Progress!Unlocked
<1>9. ASSUME NEW u \in Updates, Progress!ReadBack(u) PROVE Progress!TypeOK'
  <2>1. UNCHANGED <<guarded, today, holder, chapter, requests>>
    BY <1>9 DEF Progress!ReadBack
  <2>2. CASE chapter # Progress!Gone
              /\ update' = [update EXCEPT ![u].pc = "pages", ![u].row = chapter]
    <3> DEFINE q == [update[u] EXCEPT !.pc = "pages", !.row = chapter]
    <3>1. q \in RequestShape
      BY <1>0, <2>2 DEF RequestShape
    <3>2. update' = [update EXCEPT ![u] = q]
      BY <1>0, <2>2 DEF RequestShape
    <3> HIDE DEF q
    <3> QED BY <1>0, <1>1, <2>1, <3>1, <3>2
  <2> QED BY <1>0, <1>2, <1>9, <2>1, <2>2 DEF Progress!ReadBack
<1>10. ASSUME NEW u \in Updates, Progress!RecordPages(u) PROVE Progress!TypeOK'
  <2>1. UNCHANGED <<guarded, today, chapter, requests>> /\ holder' \in {holder, u}
    BY <1>10 DEF Progress!RecordPages, Progress!Lock
  <2>2. Progress!Goto(u, "chapter") \/ Progress!End(u)
    BY <1>10 DEF Progress!RecordPages
  <2> QED BY <1>0, <1>2, <1>3, <2>1, <2>2
<1>11. ASSUME NEW u \in Updates, Progress!RecordChapter(u) PROVE Progress!TypeOK'
  BY <1>0, <1>2, <1>11 DEF Progress!RecordChapter, Progress!Unlocked
<1>12. CASE Progress!Remove \/ Progress!NextDay \/ UNCHANGED Progress!vars
  BY <1>12 DEF Progress!Remove, Progress!NextDay, Progress!vars
<1> QED BY <1>4, <1>5, <1>6, <1>7, <1>8, <1>9, <1>10, <1>11, <1>12 DEF Progress!Next

LEMMA ProgressTypesHold ==
    ASSUME MaxPage \in Nat, MaxRequests \in Nat, MaxDay \in Nat
    PROVE  Progress!Spec => []Progress!TypeOK
<1>1. Progress!Init => Progress!TypeOK
  BY DEF Progress!Init, Progress!TypeOK, Progress!Idle, Progress!Unread, Progress!Rows
<1> QED BY <1>1, ProgressTypesStep, PTL DEF Progress!Spec

-----------------------------------------------------------------------------
(* What a request is about to grant was asked under a configuration, and   *)
(* every sign-in, session, token and share has a number that was given.    *)
VisitBounds(q) ==
    /\ q.at \in {"begin", "finish", "exchange"} => q.config \in Accounting!Configs
    /\ q.at = "exchange" => q.about \in 1 .. made

PendingRows == [id : 1 .. made, from : Browsers, config : Accounting!Configs,
                expires : 0 .. MaxClock + LoginTTL]
SessionRows == [id : 1 .. made, config : Accounting!Configs, expires : 0 .. MaxClock + SessionTTL]
ShareRows == [id : 1 .. made, of : Series]

TableBounds ==
    /\ time \in 0 .. MaxClock
    /\ pending \subseteq PendingRows /\ sessions \subseteq SessionRows
    /\ tokens \subseteq 1 .. made /\ shares \subseteq ShareRows /\ granted \subseteq 1 .. made
    /\ again \in BOOLEAN

AccountBounds == TableBounds /\ \A r \in Requests : VisitBounds(visits[r])

(* More numbers keep what has one.                                         *)
LEMMA NumbersGrow ==
    ASSUME AccountsInv, AccountBounds, made' \in Nat, made' >= made
    PROVE  /\ 1 .. made \subseteq (1 .. made)' /\ PendingRows \subseteq PendingRows'
           /\ SessionRows \subseteq SessionRows' /\ ShareRows \subseteq ShareRows'
           /\ \A r \in Requests : VisitBounds(visits[r]) => VisitBounds(visits[r])'
                                    \/ visits'[r] # visits[r]
<1>1. made \in Nat
  BY DEF AccountsInv, Tables
<1>2. 1 .. made \subseteq 1 .. made'
  BY <1>1
<1> QED BY <1>2 DEF PendingRows, SessionRows, ShareRows, VisitBounds

(* A request goes on, and the tables keep within their bounds.             *)
LEMMA VisitGoes ==
    ASSUME AccountsInv, AccountBounds, made' \in Nat, made' >= made, TableBounds',
           NEW r \in Requests, NEW q, visits' = [visits EXCEPT ![r] = q],
           q.at \notin {"begin", "finish", "exchange"}
    PROVE  AccountBounds'
<1>1. \A v \in Requests : visits'[v] = IF v = r THEN q ELSE visits[v]
  BY DEF AccountsInv, Asked
<1>2. ASSUME NEW v \in Requests PROVE VisitBounds(visits[v])'
  BY <1>1, NumbersGrow DEF AccountBounds, VisitBounds
<1> QED BY <1>2 DEF AccountBounds

LEMMA VisitEnds ==
    ASSUME AccountsInv, AccountBounds, made' \in Nat, made' >= made, TableBounds',
           NEW r \in Requests, Accounting!End(r)
    PROVE  AccountBounds'
BY IdleIsShaped, VisitGoes DEF Accounting!End, Accounting!Set

LEMMA TablesRest ==
    ASSUME AccountsInv, AccountBounds,
           UNCHANGED <<time, pending, sessions, tokens, shares, granted, again, made>>
    PROVE  TableBounds' /\ made' \in Nat /\ made' >= made
BY DEF AccountsInv, Tables, AccountBounds, TableBounds, PendingRows, SessionRows, ShareRows

LEMMA AccountBoundsStep ==
    ASSUME Limits, MaxClock \in Nat, AccountsInv, AccountBounds,
           [Accounting!Next]_(Accounting!vars)
    PROVE  AccountBounds'
<1>0. /\ made \in Nat /\ time \in 0 .. MaxClock /\ LoginTTL \in Nat /\ SessionTTL \in Nat
      /\ config \in Accounting!Configs
      /\ \A r \in Requests : visits[r] \in VisitShape
      /\ \A r \in Requests : visits[r].at # "idle" => visits[r].from \in Browsers
      /\ DOMAIN visits = Requests
  BY DEF AccountsInv, Tables, Asked, AccountBounds, TableBounds, Limits
<1> DEFINE Rest == UNCHANGED <<time, pending, sessions, tokens, shares, granted, again, made>>
<1>1. ASSUME NEW r \in Requests, NEW at \in VisitPlaces \ {"begin", "finish", "exchange"},
             Accounting!Goto(r, at), Rest
      PROVE  AccountBounds'
  <2> DEFINE q == [visits[r] EXCEPT !.at = at]
  <2>1. visits' = [visits EXCEPT ![r] = q] /\ q.at = at
    BY <1>0, <1>1 DEF VisitShape, Accounting!Goto
  <2> HIDE DEF q
  <2> QED BY <1>1, <2>1, TablesRest, VisitGoes
<1>2. ASSUME NEW r \in Requests, Accounting!Start(r) PROVE AccountBounds'
  <2>1. PICK o \in Accounting!Operations, b \in Browsers, about \in 0 .. made :
          Accounting!Set(r, [Accounting!Idle EXCEPT !.op = o, !.at = "config", !.from = b,
                              !.sent = Accounting!Sent(o, cookies[b]), !.about = about])
    BY <1>2 DEF Accounting!Start
  <2> DEFINE q == [Accounting!Idle EXCEPT !.op = o, !.at = "config", !.from = b,
                              !.sent = Accounting!Sent(o, cookies[b]), !.about = about]
  <2>2. visits' = [visits EXCEPT ![r] = q] /\ q.at = "config"
    BY <2>1 DEF Accounting!Set, Accounting!Idle
  <2>3. Rest
    BY <1>2, Zenon DEF Accounting!Start
  <2> HIDE DEF q
  <2> QED BY <2>2, <2>3, TablesRest, VisitGoes
<1>3. ASSUME NEW r \in Requests, Accounting!ReadConfig(r) PROVE AccountBounds'
  <2>1. Rest
    BY <1>3 DEF Accounting!ReadConfig
  <2>2. CASE Accounting!End(r)
    BY <2>1, <2>2, TablesRest, VisitEnds
  <2>3. CASE Accounting!Goto(r, "erase") \/ Accounting!Goto(r, "open")
    BY <1>1, <2>1, <2>3 DEF VisitPlaces
  <2>4. ASSUME NEW q, visits' = [visits EXCEPT ![r] = q], q.at # "exchange",
               q.config = config
        PROVE  AccountBounds'
    <3>1. \A v \in Requests : visits'[v] = IF v = r THEN q ELSE visits[v]
      BY <1>0, <2>4
    <3>2. ASSUME NEW v \in Requests PROVE VisitBounds(visits[v])'
      BY <1>0, <2>1, <2>4, <3>1 DEF AccountBounds, VisitBounds
    <3> QED BY <2>1, <3>2, TablesRest DEF AccountBounds
  <2>5. ASSUME NEW at \in VisitPlaces \ {"exchange"}, NEW by,
               Accounting!Set(r, [visits[r] EXCEPT !.at = at, !.config = config, !.by = by])
        PROVE  AccountBounds'
    <3> DEFINE q == [visits[r] EXCEPT !.at = at, !.config = config, !.by = by]
    <3>1. visits' = [visits EXCEPT ![r] = q] /\ q.at = at /\ q.config = config
      BY <1>0, <2>5 DEF VisitShape, Accounting!Set
    <3> HIDE DEF q
    <3> QED BY <2>4, <2>5, <3>1
  <2>6. CASE Accounting!Set(r, [visits[r] EXCEPT !.at = "begin", !.config = config,
                                                 !.sent = Accounting!NoCookies])
    <3> DEFINE q == [visits[r] EXCEPT !.at = "begin", !.config = config,
                                      !.sent = Accounting!NoCookies]
    <3>1. visits' = [visits EXCEPT ![r] = q] /\ q.at = "begin" /\ q.config = config
      BY <1>0, <2>6 DEF VisitShape, Accounting!Set
    <3> HIDE DEF q
    <3> QED BY <2>4, <3>1
  <2> QED BY <1>3, <2>2, <2>3, <2>5, <2>6 DEF Accounting!ReadConfig, VisitPlaces
<1>4. ASSUME NEW r \in Requests, Accounting!FindToken(r) \/ Accounting!UseToken(r)
             \/ Accounting!FindSession(r) \/ Accounting!FindShare(r)
      PROVE AccountBounds'
  <2>1. Rest
    BY <1>4
    DEF Accounting!FindToken, Accounting!UseToken, Accounting!FindSession, Accounting!FindShare
  <2>2. ASSUME NEW by, Accounting!Admit(r, by) PROVE AccountBounds'
    <3> DEFINE q == [visits[r] EXCEPT !.at = "admitted", !.by = by]
    <3>1. visits' = [visits EXCEPT ![r] = q] /\ q.at = "admitted"
      BY <1>0, <2>2 DEF VisitShape, Accounting!Set, Accounting!Admit
    <3> HIDE DEF q
    <3> QED BY <2>1, <3>1, TablesRest, VisitGoes
  <2>3. CASE Accounting!End(r)
    BY <2>1, <2>3, TablesRest, VisitEnds
  <2>4. \/ Accounting!End(r)
        \/ \E by \in {"open", "token", "session", "share"} : Accounting!Admit(r, by)
        \/ \E at \in {"use", "session", "share"} : Accounting!Goto(r, at)
    BY <1>4
    DEF Accounting!FindToken, Accounting!UseToken, Accounting!FindSession, Accounting!FindShare
  <2> QED BY <1>1, <2>1, <2>2, <2>3, <2>4 DEF VisitPlaces
<1>5. ASSUME NEW r \in Requests, Accounting!Perform(r) PROVE AccountBounds'
  <2>0. UNCHANGED <<time, pending, sessions, granted, again>> /\ Accounting!End(r)
    BY <1>5 DEF Accounting!Perform
  <2>1. CASE Accounting!Share(r)
    <3>1. CASE UNCHANGED <<shares, made>>
      BY <2>0, <2>1, <3>1, TablesRest, VisitEnds DEF Accounting!Share
    <3>2. ASSUME NEW s \in Series, made' = made + 1,
                 shares' = shares \cup {[id |-> made + 1, of |-> s]}
          PROVE  AccountBounds'
      <4>1. made' \in Nat /\ made' >= made /\ made + 1 \in 1 .. made' /\ UNCHANGED tokens
        BY <1>0, <2>1, <3>2 DEF Accounting!Share
      <4>2. [id |-> made + 1, of |-> s] \in ShareRows'
        BY <4>1 DEF ShareRows
      <4>3. TableBounds'
        BY <2>0, <3>2, <4>1, <4>2, NumbersGrow DEF AccountBounds, TableBounds
      <4> QED BY <2>0, <4>1, <4>3, VisitEnds
    <3> QED BY <2>1, <3>1, <3>2 DEF Accounting!Share
  <2>2. CASE Accounting!Unshare(r)
    <3>1. shares' \subseteq shares /\ UNCHANGED <<tokens, made>>
      BY <2>2 DEF Accounting!Unshare
    <3>2. TableBounds'
      BY <2>0, <3>1 DEF AccountBounds, TableBounds, PendingRows, SessionRows, ShareRows
    <3> QED BY <1>0, <2>0, <3>1, <3>2, VisitEnds
  <2>3. CASE Accounting!Mint(r)
    <3>1. made' = made + 1 /\ tokens' = tokens \cup {made + 1} /\ UNCHANGED shares
      BY <2>3 DEF Accounting!Mint
    <3>2. made' \in Nat /\ made' >= made /\ made + 1 \in 1 .. made'
      BY <1>0, <3>1
    <3>3. TableBounds'
      BY <2>0, <3>1, <3>2, NumbersGrow DEF AccountBounds, TableBounds
    <3> QED BY <2>0, <3>2, <3>3, VisitEnds
  <2>4. CASE UNCHANGED <<tokens, shares, made>>
    BY <2>0, <2>4, TablesRest, VisitEnds
  <2>5. CASE Accounting!Revoke(r)
    <3>1. tokens' \subseteq tokens /\ UNCHANGED <<shares, made>>
      BY <2>5 DEF Accounting!Revoke
    <3>2. TableBounds'
      BY <2>0, <3>1 DEF AccountBounds, TableBounds, PendingRows, SessionRows, ShareRows
    <3> QED BY <1>0, <2>0, <3>1, <3>2, VisitEnds
  <2> QED BY <1>5, <2>1, <2>2, <2>3, <2>4, <2>5 DEF Accounting!Perform
<1>6. ASSUME NEW r \in Requests, Accounting!Begin(r) PROVE AccountBounds'
  <2>0. /\ UNCHANGED <<time, sessions, tokens, shares, granted, again>> /\ Accounting!End(r)
        /\ visits[r].at = "begin"
    BY <1>6 DEF Accounting!Begin
  <2>1. visits[r].from \in Browsers /\ visits[r].config \in Accounting!Configs
    BY <1>0, <2>0 DEF AccountBounds, VisitBounds
  <2>2. ASSUME pending' \subseteq pending, UNCHANGED made PROVE AccountBounds'
    <3>1. TableBounds'
      BY <2>0, <2>2 DEF AccountBounds, TableBounds, PendingRows, SessionRows, ShareRows
    <3> QED BY <1>0, <2>0, <2>2, <3>1, VisitEnds
  <2>3. CASE /\ made' = made + 1
             /\ pending' = Accounting!Unexpired(pending) \cup
                   {[id |-> made + 1, from |-> visits[r].from, config |-> visits[r].config,
                     expires |-> time + LoginTTL]}
    <3>1. made' \in Nat /\ made' >= made /\ made + 1 \in 1 .. made'
          /\ time + LoginTTL \in 0 .. MaxClock + LoginTTL
      BY <1>0, <2>3
    <3>2. [id |-> made + 1, from |-> visits[r].from, config |-> visits[r].config,
           expires |-> time + LoginTTL] \in PendingRows'
      BY <2>1, <3>1 DEF PendingRows
    <3>3. TableBounds'
      BY <2>0, <2>3, <3>1, <3>2, NumbersGrow
      DEF AccountBounds, TableBounds, Accounting!Unexpired
    <3> QED BY <2>0, <3>1, <3>3, VisitEnds
  <2> QED BY <1>6, <2>2, <2>3 DEF Accounting!Begin, Accounting!Unexpired
<1>7. ASSUME NEW r \in Requests, Accounting!Finish(r) PROVE AccountBounds'
  <2>0. /\ UNCHANGED <<time, sessions, tokens, shares, granted, again, made>>
        /\ visits[r].at = "finish" /\ pending' \subseteq pending
    BY <1>7 DEF Accounting!Finish, Accounting!WithoutLogin
  <2>1. TableBounds'
    BY <2>0 DEF AccountBounds, TableBounds, PendingRows, SessionRows, ShareRows
  <2>2. CASE Accounting!End(r)
    BY <1>0, <2>0, <2>1, <2>2, VisitEnds
  <2>3. ASSUME NEW l \in pending, l.id = visits[r].about,
               Accounting!Set(r, [visits[r] EXCEPT !.at = "exchange",
                                                   !.sent = Accounting!NoCookies])
        PROVE  AccountBounds'
    <3> DEFINE q == [visits[r] EXCEPT !.at = "exchange", !.sent = Accounting!NoCookies]
    <3>1. /\ visits' = [visits EXCEPT ![r] = q]
          /\ q.config = visits[r].config /\ q.about = visits[r].about
      BY <1>0, <2>3 DEF VisitShape, Accounting!Set
    <3>2. q.config \in Accounting!Configs /\ q.about \in 1 .. made
      BY <2>0, <2>3, <3>1 DEF AccountBounds, TableBounds, PendingRows, VisitBounds
    <3> HIDE DEF q
    <3>3. \A v \in Requests : visits'[v] = IF v = r THEN q ELSE visits[v]
      BY <1>0, <3>1
    <3>4. ASSUME NEW v \in Requests PROVE VisitBounds(visits[v])'
      BY <2>0, <3>2, <3>3 DEF AccountBounds, VisitBounds
    <3> QED BY <2>1, <3>4 DEF AccountBounds
  <2> QED BY <1>7, <2>2, <2>3 DEF Accounting!Finish
<1>8. ASSUME NEW r \in Requests, Accounting!CreateSession(r) PROVE AccountBounds'
  <2>0. /\ UNCHANGED <<time, pending, tokens, shares, made>> /\ Accounting!End(r)
        /\ visits[r].at = "exchange"
    BY <1>8 DEF Accounting!CreateSession
  <2>1. visits[r].about \in 1 .. made /\ visits[r].config \in Accounting!Configs
    BY <2>0 DEF AccountBounds, VisitBounds
  <2>2. CASE UNCHANGED <<sessions, granted, again>>
    BY <2>0, <2>2, TablesRest, VisitEnds
  <2>3. CASE /\ sessions' = Accounting!Unexpired(sessions) \cup
                   {[id |-> visits[r].about, config |-> visits[r].config,
                     expires |-> time + SessionTTL]}
             /\ granted' = granted \cup {visits[r].about}
    <3>1. time + SessionTTL \in 0 .. MaxClock + SessionTTL
      BY <1>0
    <3>2. [id |-> visits[r].about, config |-> visits[r].config, expires |-> time + SessionTTL]
            \in SessionRows
      BY <2>1, <3>1 DEF SessionRows
    <3>3. sessions' \subseteq SessionRows /\ granted' \subseteq 1 .. made
      BY <2>1, <2>3, <3>2 DEF AccountBounds, TableBounds, Accounting!Unexpired
    <3>a. again' \in BOOLEAN
      BY <1>8, Zenon DEF Accounting!CreateSession, AccountBounds, TableBounds
    <3>4. TableBounds'
      BY <2>0, <3>3, <3>a DEF AccountBounds, TableBounds, PendingRows, SessionRows, ShareRows
    <3> QED BY <1>0, <2>0, <3>4, VisitEnds
  <2> QED BY <1>8, <2>2, <2>3 DEF Accounting!CreateSession
<1>9. ASSUME NEW r \in Requests, Accounting!Logout(r) \/ Accounting!OpenShare(r)
      PROVE  AccountBounds'
  <2>1. /\ UNCHANGED <<time, pending, tokens, shares, granted, again, made>> /\ Accounting!End(r)
        /\ sessions' \subseteq sessions
    BY <1>9 DEF Accounting!Logout, Accounting!OpenShare
  <2>2. TableBounds'
    BY <2>1 DEF AccountBounds, TableBounds, PendingRows, SessionRows, ShareRows
  <2> QED BY <1>0, <2>1, <2>2, VisitEnds
<1>10. ASSUME UNCHANGED <<sessions, shares, granted, again, made>>, tokens' \subseteq tokens,
              pending' \subseteq pending, time' \in 0 .. MaxClock,
              UNCHANGED visits \/ visits' = [r \in Requests |-> Accounting!Idle]
       PROVE  AccountBounds'
  <2>1. TableBounds'
    BY <1>10 DEF AccountBounds, TableBounds, PendingRows, SessionRows, ShareRows
  <2>2. \A r \in Requests : VisitBounds(visits[r])'
    BY <1>10, IdleIsShaped DEF AccountBounds, VisitBounds
  <2> QED BY <2>1, <2>2 DEF AccountBounds
<1>11. CASE Accounting!Tick \/ Accounting!Restart \/ UNCHANGED Accounting!vars
  BY <1>0, <1>10, <1>11 DEF Accounting!Tick, Accounting!Restart, Accounting!vars
<1> QED BY <1>2, <1>3, <1>4, <1>5, <1>6, <1>7, <1>8, <1>9, <1>11
     DEF Accounting!Next, Accounting!Steps

LEMMA AccountTypesHold ==
    ASSUME Limits, MaxClock \in Nat PROVE Accounting!Spec => []Accounting!TypeOK
<1>1. Accounting!Init => AccountBounds
  <2> SUFFICES ASSUME Accounting!Init PROVE AccountBounds
    OBVIOUS
  <2>a. time = 0 /\ pending = {} /\ sessions = {} /\ tokens = {} /\ shares = {} /\ granted = {}
        /\ again \in BOOLEAN
    BY Zenon DEF Accounting!Init
  <2>1. TableBounds
    BY <2>a DEF TableBounds
  <2>2. \A r \in Requests : visits[r] = Accounting!Idle
    BY DEF Accounting!Init
  <2>3. VisitBounds(Accounting!Idle)
    BY IdleIsShaped DEF VisitBounds
  <2>4. \A r \in Requests : VisitBounds(visits[r])
    BY <2>2, <2>3
  <2> QED BY <2>1, <2>4 DEF AccountBounds
<1>2. AccountsInv /\ AccountBounds /\ [Accounting!Next]_(Accounting!vars) => AccountBounds'
  BY AccountBoundsStep
<1>3. AccountsInv /\ AccountBounds => Accounting!TypeOK
  <2> SUFFICES ASSUME AccountsInv, AccountBounds PROVE Accounting!TypeOK
    OBVIOUS
  <2>1. config \in Accounting!Configs
    BY DEF AccountsInv, Tables
  <2>2. \A r \in Requests : visits[r].at \in VisitPlaces
    BY DEF AccountsInv, Asked, VisitShape
  <2>3. TableBounds
    BY DEF AccountBounds
  <2> QED BY <2>1, <2>2, <2>3, Zenon
          DEF TableBounds, PendingRows, SessionRows, ShareRows, VisitPlaces, Accounting!TypeOK
<1> QED BY <1>1, <1>2, <1>3, AccountsInvHolds, PTL DEF Accounting!Spec

(* The registry is on or off, the line is of calls and toggles, and no     *)
(* answer is newer than the last warming.                                  *)
CatalogRest ==
    /\ kind \in {"search", "series"} /\ registry \in Catalog!States /\ state \in Catalog!States
    /\ line \in Seq(Calls \cup Toggles)
    /\ warms \in 1 .. MaxWarms + 1 /\ disturbed \in BOOLEAN

CatalogBounds == CatalogRest /\ \A c \in Calls : asks[c].entry.stored <= warms

LEMMA CatalogRestStep ==
    MaxWarms \in Nat /\ CatalogShapes /\ CatalogRest /\ [Catalog!Next]_(Catalog!vars) => CatalogRest'
<1> SUFFICES ASSUME MaxWarms \in Nat, CatalogShapes, CatalogRest, [Catalog!Next]_(Catalog!vars)
             PROVE  CatalogRest'
  OBVIOUS
<1>0. PICK q \in Seq(Calls \cup Toggles) : line = q
  BY DEF CatalogRest
<1>1. ASSUME NEW c \in Calls, \/ Catalog!Begin(c) \/ Catalog!PlanWarm(c) \/ Catalog!HideNsfw(c)
                              \/ Catalog!Answer(c) \/ Catalog!Fail(c) \/ Catalog!Done(c)
      PROVE  CatalogRest'
  <2>1. UNCHANGED <<kind, registry, state, line, warms, disturbed>>
    BY <1>1, Zenon DEF Catalog!Begin, Catalog!PlanWarm, Catalog!HideNsfw, Catalog!Answer,
       Catalog!Fail, Catalog!Done
  <2> QED BY <2>1 DEF CatalogRest
<1>2. ASSUME NEW c \in Calls, Catalog!InvalidateSearch(c) PROVE CatalogRest'
  <2>1. UNCHANGED <<kind, registry, state, line, disturbed>> /\ warms <= MaxWarms /\ warms' = warms + 1
    BY <1>2, Zenon DEF Catalog!InvalidateSearch
  <2> QED BY <2>1 DEF CatalogRest
<1>3. ASSUME NEW c \in Calls, Catalog!Lookup(c) PROVE CatalogRest'
  <2>1. UNCHANGED <<kind, registry, state, warms, disturbed>>
    BY <1>3, Zenon DEF Catalog!Lookup
  <2>2. line' = line \/ line' = Append(line, c)
    BY <1>3, Zenon DEF Catalog!Lookup
  <2> QED BY <2>1, <2>2 DEF CatalogRest
<1>4. ASSUME NEW c \in Calls, Catalog!Require(c) PROVE CatalogRest'
  <2>1. UNCHANGED <<kind, registry, state, warms, disturbed>> /\ line # <<>> /\ line' = Tail(line)
    BY <1>4, Zenon DEF Catalog!Require
  <2>2. line' \in Seq(Calls \cup Toggles)
    BY <1>0, <2>1, TailIsPart
  <2> QED BY <2>1, <2>2 DEF CatalogRest
<1>5. ASSUME NEW s \in Catalog!Showing, Catalog!Forget(s) \/ Catalog!SetHideNsfw(s) PROVE CatalogRest'
  <2>1. UNCHANGED <<kind, registry, state, line, warms, disturbed>>
    BY <1>5, Zenon DEF Catalog!Forget, Catalog!SetHideNsfw
  <2> QED BY <2>1 DEF CatalogRest
<1>6. ASSUME NEW t \in Toggles, Catalog!SetSourceEnabled(t) PROVE CatalogRest'
  <2>1. UNCHANGED <<kind, state, warms>> /\ line # <<>> /\ line' = Tail(line)
        /\ registry' = toggle[t].to /\ (disturbed' = disturbed \/ disturbed' = TRUE)
    BY <1>6, Zenon DEF Catalog!SetSourceEnabled
  <2>2. toggle[t].to \in Catalog!States
    BY DEF CatalogShapes
  <2>3. line' \in Seq(Calls \cup Toggles)
    BY <1>0, <2>1, TailIsPart
  <2> QED BY <2>1, <2>2, <2>3 DEF CatalogRest
<1>7. ASSUME NEW t \in Toggles, Catalog!PersistEnabled(t) PROVE CatalogRest'
  <2>1. UNCHANGED <<kind, registry, line, warms>> /\ (disturbed' = disturbed \/ disturbed' = TRUE)
        /\ (state' = toggle[t].to \/ state' = state)
    BY <1>7, Zenon DEF Catalog!PersistEnabled
  <2>2. toggle[t].to \in Catalog!States
    BY DEF CatalogShapes
  <2> QED BY <2>1, <2>2 DEF CatalogRest
<1>8. ASSUME NEW t \in Toggles, NEW to \in Catalog!States, Catalog!WantToggle(t, to)
      PROVE CatalogRest'
  <2>1. UNCHANGED <<kind, registry, state, warms, disturbed>> /\ line' = Append(line, t)
    BY <1>8, Zenon DEF Catalog!WantToggle
  <2> QED BY <2>1 DEF CatalogRest
<1>9. ASSUME Catalog!Restart PROVE CatalogRest'
  <2>1. UNCHANGED <<kind, state, warms>> /\ line' = <<>> /\ registry' = state /\ disturbed' = FALSE
    BY <1>9, Zenon DEF Catalog!Restart, Catalog!EnabledState
  <2>2. line' \in Seq(Calls \cup Toggles)
    BY <2>1
  <2> QED BY <2>1, <2>2 DEF CatalogRest
<1>10. CASE UNCHANGED Catalog!vars
  BY <1>10 DEF Catalog!vars, CatalogRest
<1> QED BY <1>1, <1>2, <1>3, <1>4, <1>5, <1>6, <1>7, <1>8, <1>9, <1>10 DEF Catalog!Next

(* A call goes on with an answer that is not newer than the last warming.  *)
LEMMA EntryGoes ==
    ASSUME CatalogShapes, CatalogBounds, NEW c \in Calls, NEW r, asks' = [asks EXCEPT ![c] = r],
           r.entry.stored <= warms', warms' \in {warms, warms + 1}
    PROVE  \A d \in Calls : asks'[d].entry.stored <= warms'
<1>1. ASSUME NEW d \in Calls, d # c PROVE asks'[d].entry.stored <= warms'
  <2>1. asks'[d] = asks[d] /\ asks[d].entry.stored \in Nat /\ asks[d].entry.stored <= warms
    BY <1>1, OnlyOneCall DEF CatalogShapes, AskShape, Entries, CatalogBounds
  <2>2. warms \in Nat
    BY DEF CatalogShapes
  <2> QED BY <2>1, <2>2
<1>2. asks'[c] = r
  BY OnlyOneCall, Zenon
<1> QED BY <1>1, <1>2, Zenon

(* A call that has just begun, or is over, has no answer.                  *)
LEMMA IdleEntry == Catalog!Idle.entry.stored = 0
BY DEF Catalog!Idle, Catalog!NoEntry

LEMMA BeganEntry ==
    ASSUME CatalogShapes, CatalogBounds, NEW c \in Calls, NEW began, NEW shows,
           asks' = [asks EXCEPT ![c] = [Catalog!Idle EXCEPT !.at = "began", !.began = began,
                                                            !.during = shows]],
           warms' \in {warms, warms + 1}
    PROVE  \A d \in Calls : asks'[d].entry.stored <= warms'
<1> DEFINE r == [Catalog!Idle EXCEPT !.at = "began", !.began = began, !.during = shows]
<1>1. r.entry.stored = 0
  BY DEF Catalog!Idle, Catalog!NoEntry
<1>2. asks' = [asks EXCEPT ![c] = r]
  BY Zenon
<1> HIDE DEF r
<1>3. r.entry.stored <= warms'
  BY <1>1 DEF CatalogShapes
<1> QED BY <1>2, <1>3, EntryGoes, Zenon

LEMMA EndedEntry ==
    ASSUME CatalogShapes, CatalogBounds, NEW c \in Calls, Catalog!Ends(c), warms' = warms
    PROVE  \A d \in Calls : asks'[d].entry.stored <= warms'
<1>1. PICK r : r = Catalog!Idle
  OBVIOUS
<1>2. asks' = [asks EXCEPT ![c] = r]
  BY <1>1, Zenon
<1>3. r.entry.stored <= warms'
  BY <1>1, IdleEntry DEF CatalogShapes
<1>4. warms' \in {warms, warms + 1}
  OBVIOUS
<1> QED BY <1>2, <1>3, <1>4, EntryGoes, Zenon

(* A call goes on with the answer it has.                                  *)
LEMMA SameEntry ==
    ASSUME CatalogShapes, NEW c \in Calls, NEW at, Catalog!Goes(c, at)
    PROVE  \A d \in Calls : asks'[d].entry = asks[d].entry
<1>1. PICK q \in AskShape : q = asks[c]
  BY DEF CatalogShapes
<1>2. /\ asks'[c] = [q EXCEPT !.at = at]
      /\ \A d \in Calls : d # c => asks'[d] = asks[d]
  BY <1>1, OnlyItMoves, Zenon
<1>3. [q EXCEPT !.at = at].entry = q.entry
  BY DEF AskShape
<1> QED BY <1>1, <1>2, <1>3

LEMMA CatalogBoundsStep ==
    MaxWarms \in Nat /\ CatalogInv /\ CatalogBounds /\ [Catalog!Next]_(Catalog!vars) => CatalogBounds'
<1> SUFFICES ASSUME MaxWarms \in Nat, CatalogInv, CatalogBounds, [Catalog!Next]_(Catalog!vars)
             PROVE  CatalogBounds'
  OBVIOUS
<1> DEFINE Bounded == \A d \in Calls : asks'[d].entry.stored <= warms'
<1>0. CatalogRest' /\ CatalogShapes /\ warms \in Nat
  BY CatalogRestStep DEF CatalogBounds, CatalogInv, CatalogShapes
<1>1. ASSUME NEW c \in Calls, Catalog!Begin(c) PROVE Bounded
  <2>1. asks' = [asks EXCEPT ![c] = [Catalog!Idle EXCEPT !.at = "began", !.began = warms,
                                                         !.during = {showing}]]
        /\ warms' = warms
    BY <1>1, Zenon DEF Catalog!Begin
  <2> QED BY <1>0, <2>1, BeganEntry
<1>2. ASSUME NEW c \in Calls, Catalog!InvalidateSearch(c) PROVE Bounded
  <2>1. asks' = [asks EXCEPT ![c] = [Catalog!Idle EXCEPT !.at = "began", !.began = warms',
                                                         !.during = {showing}]]
        /\ warms' = warms + 1
    BY <1>2, Zenon DEF Catalog!InvalidateSearch
  <2> QED BY <1>0, <2>1, BeganEntry
<1>3. ASSUME NEW c \in Calls, NEW at, Catalog!Goes(c, at), warms' = warms PROVE Bounded
  BY <1>0, <1>3, SameEntry DEF CatalogBounds
<1>4. ASSUME NEW c \in Calls, Catalog!Ends(c), warms' = warms PROVE Bounded
  BY <1>0, <1>4, EndedEntry
<1>5. ASSUME NEW c \in Calls, Catalog!HideNsfw(c) PROVE Bounded
  <2> DEFINE r == [asks[c] EXCEPT !.at = "looking", !.asks = IF kind = "search" THEN showing ELSE "all"]
  <2>1. asks' = [asks EXCEPT ![c] = r] /\ warms' = warms
    BY <1>5, Zenon DEF Catalog!HideNsfw
  <2>2. r.entry.stored <= warms
    BY <1>0 DEF CatalogShapes, AskShape, CatalogBounds
  <2> HIDE DEF r
  <2> QED BY <1>0, <2>1, <2>2, EntryGoes
<1>6. ASSUME NEW c \in Calls, Catalog!Lookup(c) PROVE Bounded
  <2>1. warms' = warms
    BY <1>6, Zenon DEF Catalog!Lookup
  <2>2. CASE Catalog!Entry(c) # Catalog!NoEntry
    <3> DEFINE r == [asks[c] EXCEPT !.at = "answered", !.entry = Catalog!Entry(c)]
    <3>1. asks' = [asks EXCEPT ![c] = r]
      BY <1>6, <2>2, Zenon DEF Catalog!Lookup
    <3>2. r.entry = Catalog!Entry(c)
      BY <1>0 DEF CatalogShapes, AskShape
    <3>3. Catalog!Entry(c).stored = warms
      BY <1>0, <2>2 DEF Catalog!Entry, CatalogInv, FoundInv, CatalogShapes, AskShape
    <3> HIDE DEF r
    <3>4. r.entry.stored <= warms'
      BY <1>0, <2>1, <3>2, <3>3
    <3> QED BY <1>0, <2>1, <3>1, <3>4, EntryGoes
  <2>3. CASE Catalog!Entry(c) = Catalog!NoEntry
    <3>1. Catalog!Goes(c, "waiting")
      BY <1>6, <2>3, Zenon DEF Catalog!Lookup
    <3> QED BY <1>3, <2>1, <3>1
  <2> QED BY <2>2, <2>3
<1>7. ASSUME NEW c \in Calls, Catalog!Answer(c) PROVE Bounded
  <2> DEFINE entry == [stored |-> warms, shows |-> Catalog!Shows(c)]
             r == [asks[c] EXCEPT !.at = "answered", !.entry = entry]
  <2>1. asks' = [asks EXCEPT ![c] = r] /\ warms' = warms
    BY <1>7, Zenon DEF Catalog!Answer
  <2>2. r.entry.stored = warms
    BY <1>0 DEF CatalogShapes, AskShape
  <2> HIDE DEF r
  <2>3. r.entry.stored <= warms'
    BY <1>0, <2>1, <2>2
  <2> QED BY <1>0, <2>1, <2>3, EntryGoes
<1>8. ASSUME NEW s \in Catalog!Showing, Catalog!SetHideNsfw(s) PROVE Bounded
  <2>1. warms' = warms
        /\ asks' = [c \in Calls |-> IF asks[c].at = "idle" THEN Catalog!Idle
                                    ELSE [asks[c] EXCEPT !.during = @ \cup {s}]]
    BY <1>8, Zenon DEF Catalog!SetHideNsfw
  <2>2. ASSUME NEW d \in Calls PROVE asks'[d].entry.stored <= warms
    <3>1. asks[d] \in AskShape /\ asks[d].entry.stored <= warms
      BY <1>0 DEF CatalogShapes, CatalogBounds
    <3>2. asks'[d] = Catalog!Idle \/ asks'[d] = [asks[d] EXCEPT !.during = @ \cup {s}]
      BY <2>1
    <3>3. PICK q \in AskShape : q = asks[d]
      BY <3>1
    <3>4. [q EXCEPT !.during = @ \cup {s}].entry = q.entry
      BY DEF AskShape
    <3>5. asks'[d].entry = asks[d].entry \/ asks'[d].entry.stored = 0
      BY <3>2, <3>3, <3>4, IdleEntry
    <3> QED BY <1>0, <3>1, <3>5
  <2> QED BY <2>1, <2>2
<1>9. ASSUME asks' = [c \in Calls |-> Catalog!Idle], warms' = warms PROVE Bounded
  <2>1. \A d \in Calls : asks'[d].entry.stored = 0
    BY <1>9, IdleEntry
  <2> QED BY <1>0, <1>9, <2>1
<1>10. ASSUME asks' = asks, warms' = warms PROVE Bounded
  <2>1. \A d \in Calls : asks[d].entry.stored <= warms
    BY DEF CatalogBounds
  <2> QED BY <1>10, <2>1, Zenon
<1>11. ASSUME NEW c \in Calls, \/ Catalog!PlanWarm(c) \/ Catalog!Require(c)
                               \/ Catalog!Fail(c) \/ Catalog!Done(c)
       PROVE  Bounded
  <2>1. warms' = warms /\ (Catalog!Ends(c) \/ \E at \in {"planned", "asking"} : Catalog!Goes(c, at))
    BY <1>11 DEF Catalog!PlanWarm, Catalog!Require, Catalog!Fail, Catalog!Done
  <2> QED BY <1>3, <1>4, <2>1
<1>12. ASSUME NEW s, Catalog!Forget(s) PROVE Bounded
  BY <1>10, <1>12 DEF Catalog!Forget
<1>13. ASSUME NEW t, NEW to, \/ Catalog!SetSourceEnabled(t) \/ Catalog!PersistEnabled(t)
                             \/ Catalog!WantToggle(t, to)
       PROVE  Bounded
  BY <1>10, <1>13 DEF Catalog!SetSourceEnabled, Catalog!PersistEnabled, Catalog!WantToggle
<1>14. ASSUME Catalog!Restart PROVE Bounded
  BY <1>9, <1>14 DEF Catalog!Restart
<1>15. ASSUME UNCHANGED Catalog!vars PROVE Bounded
  <2>1. asks' = asks /\ warms' = warms
    BY <1>15 DEF Catalog!vars
  <2> QED BY <1>10, <2>1
<1> HIDE DEF Bounded
<1>16. Bounded
  BY <1>1, <1>2, <1>5, <1>6, <1>7, <1>8, <1>11, <1>12, <1>13, <1>14, <1>15 DEF Catalog!Next
<1> QED BY <1>0, <1>16 DEF CatalogBounds, Bounded

LEMMA CatalogTypesHold == ASSUME MaxWarms \in Nat PROVE Catalog!Spec => []Catalog!TypeOK
<1>1. Catalog!Init => CatalogBounds
  <2> SUFFICES ASSUME Catalog!Init PROVE CatalogBounds
    OBVIOUS
  <2>1. /\ kind \in {"search", "series"} /\ state \in Catalog!States /\ registry = state
        /\ line = <<>> /\ warms = 1 /\ disturbed = FALSE
    BY Zenon DEF Catalog!Init
  <2>2. 1 \in 1 .. MaxWarms + 1 /\ <<>> \in Seq(Calls \cup Toggles)
    OBVIOUS
  <2>3. CatalogRest
    BY <2>1, <2>2, Zenon DEF CatalogRest
  <2>4. asks = [c \in Calls |-> Catalog!Idle]
    BY DEF Catalog!Init
  <2>5. \A c \in Calls : asks[c].entry.stored = 0
    BY <2>4, IdleEntry
  <2> QED BY <2>1, <2>3, <2>5 DEF CatalogBounds
<1>2. CatalogInv /\ CatalogBounds /\ [Catalog!Next]_(Catalog!vars) => CatalogBounds'
  BY CatalogBoundsStep
<1>3. CatalogInv /\ CatalogBounds => Catalog!TypeOK
  <2> SUFFICES ASSUME CatalogInv, CatalogBounds PROVE Catalog!TypeOK
    OBVIOUS
  <2>1. CatalogShapes /\ CatalogRest /\ warms \in Nat
    BY DEF CatalogInv, CatalogShapes, CatalogBounds
  <2>2. ASSUME NEW e \in Entries, e.stored <= warms PROVE e \in Catalog!Entries
    BY <2>1, <2>2 DEF Entries, Catalog!Entries, CatalogRest
  <2>3. cached \in [Catalog!Showing -> Catalog!Entries]
    <3>1. ASSUME NEW s \in Catalog!Showing PROVE cached[s] \in Entries /\ cached[s].stored <= warms
      BY <2>1 DEF CatalogShapes, CatalogInv, FoundInv, Catalog!NoEntry
    <3> QED BY <2>1, <2>2, <3>1 DEF CatalogShapes
  <2>4. ASSUME NEW c \in Calls
        PROVE  asks[c] \in [at : {"idle", "planned", "began", "looking", "waiting", "asking",
                                  "answered"},
                            asks : Catalog!Showing, entry : Catalog!Entries,
                            began : 0 .. MaxWarms + 1, during : SUBSET Catalog!Showing]
    <3>1. asks[c] \in AskShape /\ asks[c].entry \in Catalog!Entries
      BY <2>1, <2>2 DEF CatalogShapes, AskShape, CatalogBounds
    <3>2. asks[c].began \in 0 .. MaxWarms + 1
      BY <2>1, <3>1 DEF CatalogInv, AskInv, AskShape, CatalogRest
    <3>3. PICK q \in AskShape : q = asks[c]
      BY <3>1
    <3>4. /\ q.at \in {"idle", "planned", "began", "looking", "waiting", "asking", "answered"}
          /\ q.asks \in Catalog!Showing /\ q.during \in SUBSET Catalog!Showing
          /\ q = [at |-> q.at, asks |-> q.asks, entry |-> q.entry, began |-> q.began,
                  during |-> q.during]
      BY DEF AskShape
    <3> QED BY <3>1, <3>2, <3>3, <3>4
  <2> QED BY <2>1, <2>3, <2>4 DEF CatalogShapes, CatalogRest, Catalog!TypeOK
<1> QED BY <1>1, <1>2, <1>3, InitCatalogInv, CatalogInvStep, PTL DEF Catalog!Spec

-----------------------------------------------------------------------------
(* All parts: a step is one of a single part, and leaves the others alone. *)

LEMMA EachPartSteps ==
    ASSUME [PartsNext]_partsVars
    PROVE  /\ [Next]_vars
           /\ [Client!Next]_(Client!vars)
           /\ [Remote!Next]_(Remote!vars)
           /\ [Snapshots!Next]_(Snapshots!vars)
           /\ [Downloaded!Next]_(Downloaded!vars)
           /\ [Sources!Next]_(Sources!vars)
           /\ [Progress!Next]_(Progress!vars)
           /\ [Inference!Next]_(Inference!vars)
           /\ [Accounting!Next]_(Accounting!vars)
           /\ [Comix!Next]_(Comix!vars)
           /\ [Catalog!Next]_(Catalog!vars)
<1> USE DEF ArchiveSteps, ClientSteps, RemoteSteps, SnapshotSteps, DownloadedSteps, SourceSteps,
            ProgressSteps, InferenceSteps, AccountSteps, ComixSteps, CatalogSteps
<1>1. CASE UNCHANGED partsVars
  BY <1>1
  DEF partsVars, vars, clientVars, remoteVars, snapshotVars, downloadedVars, sourceVars,
      progressVars, inferenceVars, accountVars, comixVars, catalogVars,
      Client!vars, Remote!vars, Snapshots!vars, Downloaded!vars, Sources!vars, Progress!vars,
      Inference!vars, Accounting!vars, Accounting!tableVars, Accounting!historyVars,
      Comix!vars, Catalog!vars
<1>2. CASE PartsNext
  <2>1. [Next]_vars /\ [Client!Next]_clientVars /\ [Remote!Next]_remoteVars
    BY <1>2 DEF PartsNext, Only
  <2>2. [Snapshots!Next]_snapshotVars /\ [Downloaded!Next]_downloadedVars
    BY <1>2 DEF PartsNext, Only
  <2>3. [Sources!Next]_sourceVars /\ [Progress!Next]_progressVars
    BY <1>2 DEF PartsNext, Only
  <2>4. [Inference!Next]_inferenceVars /\ [Accounting!Next]_accountVars
    BY <1>2 DEF PartsNext, Only
  <2>5. [Comix!Next]_comixVars /\ [Catalog!Next]_catalogVars
    BY <1>2 DEF PartsNext, Only
  <2>6. [Client!Next]_(Client!vars) /\ [Remote!Next]_(Remote!vars)
    BY <2>1 DEF Client!vars, Remote!vars, clientVars, remoteVars
  <2>7. [Snapshots!Next]_(Snapshots!vars) /\ [Downloaded!Next]_(Downloaded!vars)
    BY <2>2 DEF Snapshots!vars, Downloaded!vars, snapshotVars, downloadedVars
  <2>8. [Sources!Next]_(Sources!vars) /\ [Progress!Next]_(Progress!vars)
    BY <2>3 DEF Sources!vars, Progress!vars, sourceVars, progressVars
  <2>9. [Inference!Next]_(Inference!vars) /\ [Accounting!Next]_(Accounting!vars)
    BY <2>4 DEF Inference!vars, Accounting!vars, Accounting!tableVars, Accounting!historyVars,
                inferenceVars, accountVars
  <2>10. [Comix!Next]_(Comix!vars) /\ [Catalog!Next]_(Catalog!vars)
    BY <2>5 DEF Comix!vars, Catalog!vars, comixVars, catalogVars
  <2> QED BY <2>1, <2>6, <2>7, <2>8, <2>9, <2>10
<1> QED BY <1>1, <1>2

(* Every behaviour of the parts is one of each part by itself: what holds  *)
(* of a part alone holds of it among the others.                           *)
THEOREM PartsRunAlone ==
    PartsSpec => /\ Spec /\ Client!Spec /\ Remote!Spec /\ Snapshots!Spec /\ Downloaded!Spec
                 /\ Sources!Spec /\ Progress!Spec /\ Inference!Spec /\ Accounting!Spec
                 /\ Comix!Spec /\ Catalog!Spec
<1>1. PartsInit => /\ Init /\ Client!Init /\ Remote!Init /\ Snapshots!Init /\ Downloaded!Init
                   /\ Sources!Init /\ Progress!Init /\ Inference!Init /\ Accounting!Init
                   /\ Comix!Init /\ Catalog!Init
  BY DEF PartsInit
<1> QED BY <1>1, EachPartSteps, PTL
        DEF PartsSpec, Spec, Client!Spec, Remote!Spec, Snapshots!Spec, Downloaded!Spec,
            Sources!Spec, Progress!Spec, Inference!Spec, Accounting!Spec, Comix!Spec, Catalog!Spec

(* Two deletes of one archive report its size once, so the storage count   *)
(* gives no bytes back twice (remove, storage lib.rs).                     *)
THEOREM PartsReportOnce == PartsSpec => []ReportedIsFreed
BY PartsRunAlone, RemovalsAreReportedOnce, PTL

(* A browser that failed an operation serves no other, and an operation    *)
(* reads the page that it opened, prepared as it asked: whatever the one   *)
(* connection delivers, in whatever order, and whoever polls, is cancelled *)
(* or gives up (clearance, browser_use.rs and cdp.rs).                     *)
THEOREM OperationsStayApart == PartsSpec => OperationsAreApart
<1>1. PartsSpec => Client!Spec /\ Remote!Spec
  BY PartsRunAlone
<1> QED BY <1>1, ClientHolds, RemoteHolds, PTL DEF OperationsAreApart

(* A snapshot that is served after a change was committed was computed, or *)
(* the change was announced, during the request, or its time is not over:  *)
(* for any number of requests, changes and ticks, and any TTL              *)
(* (server/src/snapshots.rs).                                              *)
THEOREM StaleAnswersOverlap ==
    ASSUME TTL \in Nat PROVE PartsSpec => []StaleAnswersOverlapped
<1>1. PartsSpec => Snapshots!Spec
  BY PartsRunAlone
<1> QED BY <1>1, SnapshotsHold, PTL DEF StaleAnswersOverlapped

(* A page that is answered is the page that was asked for, of the archive  *)
(* as it was meanwhile or of its source, whoever reads, fetches, converts  *)
(* or replaces beside it (server/src/app/pages.rs, media cache).           *)
THEOREM PagesStayTheirOwn ==
    ASSUME MaxContents \in Nat PROVE PartsSpec => []PagesAreTheirOwn
<1>1. PartsSpec => Downloaded!Spec /\ Sources!Spec
  BY PartsRunAlone
<1> QED BY <1>1, DownloadedPagesHold, SourcePagesHold, PTL DEF PagesAreTheirOwn

(* No page is upscaled by a model older than its file or the manifest was  *)
(* when the worker turned to the page, and no more models than allowed are *)
(* in memory (ModelCache::upscale), for any number of callers, models,     *)
(* scales and edits.                                                       *)
THEOREM UpscaledByCurrent ==
    ASSUME MaxLoaded \in Nat \ {0} PROVE PartsSpec => []UpscaledByCurrentModel
<1>1. PartsSpec => Inference!Spec
  BY PartsRunAlone
<1> QED BY <1>1, UpscalerHolds, PTL DEF UpscaledByCurrentModel

(* The progress of a chapter is what its updates reached, where they lock  *)
(* or do not overlap, a finished chapter shows in the activity, and what   *)
(* was read is counted once (read_progress.rs, stats), for any number of   *)
(* updates, pages and days.                                                *)
THEOREM ReadingStaysCounted ==
    ASSUME Readership PROVE PartsSpec => []ReadingIsCounted
<1>1. PartsSpec => Progress!Spec
  BY PartsRunAlone
<1> QED BY <1>1, ProgressHolds, PTL DEF ReadingIsCounted

(* A request is let in only by what was valid while it was at work, by a   *)
(* share only to read and by a reader's token only to what is under /v1,   *)
(* and a sign-in makes one session (auth.rs, oidc.rs), for any requests    *)
(* that reconfigure, mint, revoke and sign in beside each other.           *)
THEOREM AccessStaysEarned ==
    ASSUME Limits PROVE PartsSpec => []AccessIsEarned
<1>1. PartsSpec => Accounting!Spec
  BY PartsRunAlone
<1> QED BY <1>1, AccountsHold, PTL DEF AccessIsEarned

(* A source that is turned off is not asked, and a search shows no more    *)
(* than was allowed while it was made and nothing from before it was       *)
(* warmed (server/src/app/catalog.rs, server/src/search_cache.rs).         *)
THEOREM AnswersStayAllowed == PartsSpec => []Catalog!AnswersAreAllowed
<1>1. PartsSpec => Catalog!Spec
  BY PartsRunAlone
<1> QED BY <1>1, CatalogHolds, PTL

(* What a call to Comix lists is real and misses nothing it could have     *)
(* had, whatever requests fail and in whatever order the answers come, for *)
(* any uploads, numbers, votes and limit (sources/src/comix); and what the *)
(* catalog answers is allowed.                                             *)
THEOREM AnswersStayTheSites ==
    ASSUME Listed PROVE PartsSpec => []AnswersAreTheSites
<1>1. PartsSpec => Comix!Spec /\ Catalog!Spec
  BY PartsRunAlone
<1>2. Comix!Spec => []Truthful
  BY ComixHolds
<1>3. Truthful /\ Catalog!AnswersAreAllowed => AnswersAreTheSites
  BY DEF Truthful, AnswersAreTheSites
<1> QED BY <1>1, <1>2, <1>3, CatalogHolds, PTL

(* Every variable of every part keeps its type, within the bounds of the   *)
(* model: the archives, browsers, snapshots, pages, progress, models,      *)
(* accounts, lists and answers are what the code could make of them.       *)
THEOREM PartsTypesHold ==
    ASSUME MaxOps \in Nat, MaxVersions \in Nat, NothingIsFresh, MaxPolls \in Nat,
           TTL \in Nat \ {0}, MaxTime \in Nat, MaxContents \in Nat, MaxAttempts \in Nat \ {0},
           MaxPage \in Nat, MaxRequests \in Nat, MaxDay \in Nat,
           MaxLoaded \in Nat \ {0}, MaxEdits \in Nat, Limits, MaxClock \in Nat,
           Listed, Uploads # {}, MaxMoves \in Nat, MaxWarms \in Nat
    PROVE  PartsSpec => []PartsTypeOK
<1>1. PartsSpec => []TypeOK
  BY PartsRunAlone, ArchiveTypesHold, PTL
<1>2. PartsSpec => []Client!TypeOK /\ []Remote!TypeOK
  BY PartsRunAlone, ClientTypesHold, RemoteTypesHold, PTL
<1>3. PartsSpec => []Snapshots!TypeOK
  BY PartsRunAlone, SnapshotTypesHold, PTL
<1>4. PartsSpec => []Downloaded!TypeOK /\ []Sources!TypeOK
  BY PartsRunAlone, DownloadedTypesHold, SourceTypesHold, PTL
<1>5. PartsSpec => []Progress!TypeOK
  BY PartsRunAlone, ProgressTypesHold, PTL
<1>6. PartsSpec => []Inference!TypeOK
  BY PartsRunAlone, UpscalerTypesHold, PTL
<1>7. PartsSpec => []Accounting!TypeOK
  BY PartsRunAlone, AccountTypesHold, PTL
<1>8. PartsSpec => []Comix!TypeOK /\ []Catalog!TypeOK
  BY PartsRunAlone, ComixTypesHold, CatalogTypesHold, PTL
<1>9. /\ TypeOK /\ Client!TypeOK /\ Remote!TypeOK /\ Snapshots!TypeOK /\ Downloaded!TypeOK
      /\ Sources!TypeOK /\ Progress!TypeOK /\ Inference!TypeOK /\ Accounting!TypeOK
      /\ Comix!TypeOK /\ Catalog!TypeOK
      => PartsTypeOK
  BY DEF PartsTypeOK
<1> QED BY <1>1, <1>2, <1>3, <1>4, <1>5, <1>6, <1>7, <1>8, <1>9, PTL
=============================================================================
