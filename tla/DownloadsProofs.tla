-------------------------- MODULE DownloadsProofs --------------------------
(* Proofs about the download queue for any number of rows, chapters,       *)
(* workers and requests.                                                   *)
EXTENDS Downloads, TLAPS

(* The sets of names are needed everywhere.                                *)
USE DEF Statuses, Active, Terminal, Working, AtRest, Asleep, Busy, Cancellable

-----------------------------------------------------------------------------
(* Type correctness.                                                       *)

LEMMA InitType == Init => TypeOK
BY NoneIsFresh, KeptIsFresh DEF Init, TypeOK

LEMMA RequestType == TypeOK /\ Request => TypeOK'
<1> SUFFICES ASSUME TypeOK, Request PROVE TypeOK'
  OBVIOUS
<1> USE NoneIsFresh, KeptIsFresh DEF TypeOK, dbVars, rowVars, workerVars, handlerVars, boundVars, histVars
<1>1. CASE \E c \in Chapters : Enqueue(c)
  BY <1>1 DEF Enqueue, Wake
<1>2. CASE \E c \in Chapters : RemoveFromLibrary(c)
  BY <1>2 DEF RemoveFromLibrary, Present
<1>3. CASE \E d \in Downloads : Retry(d)
  BY <1>3 DEF Retry, FileKept, Writable, Present, Wake
<1>4. CASE \E h \in Handlers : BeginClearFailed(h)
  BY <1>4 DEF BeginClearFailed, HGoTo
<1>5. CASE \E h \in Handlers, d \in Downloads : BeginRemove(h, d)
  BY <1>5 DEF BeginRemove, HGoTo, Present
<1> QED BY <1>1, <1>2, <1>3, <1>4, <1>5 DEF Request

LEMMA WorkerType == ASSUME NEW w \in Workers PROVE TypeOK /\ WorkerStep(w) => TypeOK'
<1> SUFFICES ASSUME TypeOK, WorkerStep(w) PROVE TypeOK'
  OBVIOUS
<1> USE NoneIsFresh, KeptIsFresh DEF TypeOK, dbVars, workerVars, handlerVars, boundVars, histVars
<1>1. CASE Claim(w)
  BY <1>1 DEF Claim, GoTo, Oldest
<1>2. CASE FindNothing(w)
  BY <1>2 DEF FindNothing, GoTo
<1>3. CASE Listen(w)
  BY <1>3 DEF Listen, GoTo
<1>4. CASE Resume(w)
  BY <1>4 DEF Resume, GoTo
<1>5. CASE Register(w)
  BY <1>5 DEF Register, GoTo
<1>6. CASE Fail(w)
  BY <1>6 DEF Fail, End, GoTo
<1>7. CASE NoticeCancel(w)
  BY <1>7 DEF NoticeCancel, End, GoTo
<1>8. CASE Prepare(w)
  BY <1>8 DEF Prepare, GoTo
<1>9. CASE WriteFetching(w)
  BY <1>9, SMTT(30) DEF WriteFetching, WriteStage, End, GoTo, Writable, Present
<1>10. CASE FetchPages(w)
  BY <1>10 DEF FetchPages, GoTo
<1>11. CASE WriteTransforming(w)
  BY <1>11, SMTT(30) DEF WriteTransforming, WriteStage, End, GoTo, Writable, Present
<1>12. CASE WriteArchiving(w)
  BY <1>12, SMTT(30) DEF WriteArchiving, WriteStage, End, GoTo, Writable, Present
<1>13. CASE BuildArchive(w)
  BY <1>13 DEF BuildArchive, GoTo
<1>14. CASE Publish(w)
  BY <1>14 DEF Publish, GoTo
<1>15. CASE CheckPublished(w)
  BY <1>15 DEF CheckPublished, End, GoTo
<1>16. CASE Unregister(w)
  BY <1>16 DEF Unregister, Detach, GoTo
<1>17. CASE RecordCompleted(w)
  BY <1>17 DEF RecordCompleted, Rest, GoTo, Present
<1>18. CASE RecordStopped(w)
  BY <1>18 DEF RecordStopped, Rest, GoTo, Present
<1>19. CASE RecordMissing(w)
  BY <1>19 DEF RecordMissing, Rest, GoTo, Present
<1> QED BY <1>1, <1>2, <1>3, <1>4, <1>5, <1>6, <1>7, <1>8, <1>9,
           <1>10, <1>11, <1>12, <1>13, <1>14, <1>15, <1>16, <1>17, <1>18, <1>19 DEF WorkerStep

LEMMA FaultType == ASSUME NEW w \in Workers PROVE TypeOK /\ Fault(w) => TypeOK'
<1> SUFFICES ASSUME TypeOK, Fault(w) PROVE TypeOK'
  OBVIOUS
<1> USE NoneIsFresh, KeptIsFresh DEF TypeOK, dbVars, handlerVars, histVars
<1>1. CASE ClaimStrands(w)
  BY <1>1 DEF ClaimStrands, Oldest, GoTo
<1>2. CASE RecordStrands(w)
  BY <1>2 DEF RecordStrands, Rest, GoTo
<1> QED BY <1>1, <1>2 DEF Fault

LEMMA HandlerType == ASSUME NEW h \in Handlers PROVE TypeOK /\ HandlerStep(h) => TypeOK'
<1> SUFFICES ASSUME TypeOK, HandlerStep(h) PROVE TypeOK'
  OBVIOUS
<1> USE NoneIsFresh, KeptIsFresh DEF TypeOK, dbVars, workerVars, boundVars, HGoTo, HDone
<1>1. CASE SetCancelFlag(h)
  BY <1>1 DEF SetCancelFlag
<1>2. CASE MarkCancelRequested(h)
  BY <1>2, SMTT(30) DEF MarkCancelRequested, Writable, Present
<1>3. CASE RecheckCompleted(h)
  BY <1>3 DEF RecheckCompleted
<1>4. CASE RemoveFile(h)
  BY <1>4 DEF RemoveFile
<1>5. CASE DropRow(h)
  BY <1>5, SMTT(30) DEF DropRow
<1> QED BY <1>1, <1>2, <1>3, <1>4, <1>5 DEF HandlerStep

LEMMA RestartType == TypeOK /\ Restart => TypeOK'
BY NoneIsFresh, KeptIsFresh DEF TypeOK, Restart, Recovered

LEMMA StepType == TypeOK /\ [Next]_vars => TypeOK'
<1> SUFFICES ASSUME TypeOK, [Next]_vars PROVE TypeOK'
  OBVIOUS
<1>1. CASE UNCHANGED vars
  BY <1>1 DEF vars, TypeOK
<1>2. CASE Next
  BY <1>2, RequestType, WorkerType, FaultType, HandlerType, RestartType DEF Next
<1> QED BY <1>1, <1>2

(* Rows, workers, requests and flags keep their types, and everything a    *)
(* worker or a request holds is a row that once existed.                   *)
THEOREM TypeCorrect == Spec => []TypeOK
<1>1. Init => TypeOK
  BY InitType
<1>2. TypeOK /\ [Next]_vars => TypeOK'
  BY StepType
<1> QED BY <1>1, <1>2, PTL DEF Spec

-----------------------------------------------------------------------------
(* A row in a stage status, or with a cancel requested, has a worker.      *)

LEMMA WorkingRequest == TypeOK /\ WorkingHasWorker /\ Request => WorkingHasWorker'
<1> SUFFICES ASSUME TypeOK, WorkingHasWorker, Request PROVE WorkingHasWorker'
  OBVIOUS
<1> USE NoneIsFresh, KeptIsFresh DEF TypeOK, WorkingHasWorker, WorkedOn, dbVars, rowVars, workerVars, handlerVars, boundVars, histVars
<1>1. CASE \E c \in Chapters : Enqueue(c)
  BY <1>1 DEF Enqueue, ActiveRowOf, Wake
<1>2. CASE \E c \in Chapters : RemoveFromLibrary(c)
  BY <1>2 DEF RemoveFromLibrary, Present
<1>3. CASE \E d \in Downloads : Retry(d)
  BY <1>3 DEF Retry, Writable, IndexAllows, Present, Wake
<1>4. CASE \E h \in Handlers : BeginClearFailed(h)
  BY <1>4 DEF BeginClearFailed
<1>5. CASE \E h \in Handlers, d \in Downloads : BeginRemove(h, d)
  BY <1>5 DEF BeginRemove
<1> QED BY <1>1, <1>2, <1>3, <1>4, <1>5 DEF Request

LEMMA WorkingWorker ==
    ASSUME NEW w \in Workers
    PROVE  TypeOK /\ WorkingHasWorker /\ WorkerStep(w) => WorkingHasWorker'
<1> SUFFICES ASSUME TypeOK, WorkingHasWorker, WorkerStep(w) PROVE WorkingHasWorker'
  OBVIOUS
<1> USE NoneIsFresh, KeptIsFresh DEF TypeOK, WorkingHasWorker, WorkedOn, dbVars, rowVars, workerVars, handlerVars, boundVars, histVars
<1>1. CASE Claim(w)
  BY <1>1 DEF Claim, GoTo, Oldest
<1>2. CASE FindNothing(w)
  BY <1>2 DEF FindNothing, GoTo
<1>3. CASE Listen(w)
  BY <1>3 DEF Listen, GoTo
<1>4. CASE Resume(w)
  BY <1>4 DEF Resume, GoTo
<1>5. CASE Register(w)
  BY <1>5 DEF Register, GoTo
<1>6. CASE Fail(w)
  BY <1>6 DEF Fail, End, GoTo
<1>7. CASE NoticeCancel(w)
  BY <1>7 DEF NoticeCancel, End, GoTo
<1>8. CASE Prepare(w)
  BY <1>8 DEF Prepare, GoTo
<1>9. CASE WriteFetching(w)
  BY <1>9 DEF WriteFetching, WriteStage, End, GoTo, Writable, IndexAllows, Present
<1>10. CASE FetchPages(w)
  BY <1>10 DEF FetchPages, GoTo
<1>11. CASE WriteTransforming(w)
  BY <1>11 DEF WriteTransforming, WriteStage, End, GoTo, Writable, IndexAllows, Present
<1>12. CASE WriteArchiving(w)
  BY <1>12 DEF WriteArchiving, WriteStage, End, GoTo, Writable, IndexAllows, Present
<1>13. CASE BuildArchive(w)
  BY <1>13 DEF BuildArchive, GoTo
<1>14. CASE Publish(w)
  BY <1>14 DEF Publish, GoTo
<1>15. CASE CheckPublished(w)
  BY <1>15 DEF CheckPublished, End, GoTo
<1>16. CASE Unregister(w)
  BY <1>16 DEF Unregister, Detach, GoTo
<1>17. CASE RecordCompleted(w)
  BY <1>17 DEF RecordCompleted, Rest, GoTo, Present
<1>18. CASE RecordStopped(w)
  BY <1>18 DEF RecordStopped, Rest, GoTo, Present
<1>19. CASE RecordMissing(w)
  BY <1>19 DEF RecordMissing, Rest, GoTo, Present
<1> QED BY <1>1, <1>2, <1>3, <1>4, <1>5, <1>6, <1>7, <1>8, <1>9,
           <1>10, <1>11, <1>12, <1>13, <1>14, <1>15, <1>16, <1>17, <1>18, <1>19 DEF WorkerStep

LEMMA WorkingFault ==
    ASSUME NEW w \in Workers
    PROVE  TypeOK /\ WorkingHasWorker /\ Fault(w) => WorkingHasWorker'
<1> SUFFICES ASSUME TypeOK, WorkingHasWorker, Fault(w) PROVE WorkingHasWorker'
  OBVIOUS
<1> USE NoneIsFresh, KeptIsFresh DEF TypeOK, WorkingHasWorker, WorkedOn, dbVars, rowVars, workerVars, handlerVars, boundVars, histVars
<1>1. CASE ClaimStrands(w)
  BY <1>1 DEF ClaimStrands, Oldest, GoTo
<1>2. CASE RecordStrands(w)
  BY <1>2 DEF RecordStrands, Rest, GoTo
<1> QED BY <1>1, <1>2 DEF Fault

LEMMA WorkingHandler ==
    ASSUME NEW h \in Handlers
    PROVE  TypeOK /\ WorkingHasWorker /\ HandlerStep(h) => WorkingHasWorker'
<1> SUFFICES ASSUME TypeOK, WorkingHasWorker, HandlerStep(h) PROVE WorkingHasWorker'
  OBVIOUS
<1> USE NoneIsFresh, KeptIsFresh DEF TypeOK, WorkingHasWorker, WorkedOn, dbVars, rowVars, workerVars, handlerVars, boundVars, histVars
<1>1. CASE SetCancelFlag(h)
  BY <1>1 DEF SetCancelFlag
<1>2. CASE MarkCancelRequested(h)
  BY <1>2 DEF MarkCancelRequested, Writable, IndexAllows, Present
<1>3. CASE RecheckCompleted(h)
  BY <1>3 DEF RecheckCompleted
<1>4. CASE RemoveFile(h)
  BY <1>4 DEF RemoveFile
<1>5. CASE DropRow(h)
  BY <1>5 DEF DropRow
<1> QED BY <1>1, <1>2, <1>3, <1>4, <1>5 DEF HandlerStep

LEMMA WorkingRestart == TypeOK /\ WorkingHasWorker /\ Restart => WorkingHasWorker'
BY NoneIsFresh, KeptIsFresh DEF TypeOK, WorkingHasWorker, WorkedOn, Restart, Recovered

LEMMA WorkingStep == TypeOK /\ WorkingHasWorker /\ [Next]_vars => WorkingHasWorker'
<1>1. CASE UNCHANGED vars
  BY <1>1 DEF vars, WorkingHasWorker, WorkedOn
<1>2. CASE Next
  BY <1>2, WorkingRequest, WorkingWorker, WorkingFault,
     WorkingHandler, WorkingRestart DEF Next
<1> QED BY <1>1, <1>2

(* No download is forgotten in the middle of the pipeline: for any number  *)
(* of workers and requests, and any retries, a row in a stage status or    *)
(* with a cancel requested is held by a worker, unless a database error    *)
(* stranded it or the cancel came too late.                                *)
THEOREM WorkingRowsAreWorkedOn == Spec => []WorkingHasWorker
<1>1. Init => WorkingHasWorker
  BY DEF Init, WorkingHasWorker
<1>2. TypeOK /\ WorkingHasWorker /\ [Next]_vars => WorkingHasWorker'
  BY WorkingStep
<1> QED BY <1>1, <1>2, TypeCorrect, PTL DEF Spec

-----------------------------------------------------------------------------
(* Two workers never hold live rows of one chapter, but for a row that was *)
(* retried while it was held.                                              *)

LEMMA ExclusiveRequest ==
    ASSUME TypeOK, ExclusiveInv, Request
    PROVE  ExclusiveInv'
<1> USE NoneIsFresh, KeptIsFresh DEF TypeOK, ExclusiveInv, HeldRowIsActive, OneHolder,
         OneActivePerChapter, HoldsLive, Present, dbVars, rowVars, workerVars, handlerVars, boundVars, histVars
<1>1. CASE \E c \in Chapters : Enqueue(c)
  BY <1>1, SMTT(30) DEF Enqueue, ActiveRowOf, Wake
<1>2. CASE \E c \in Chapters : RemoveFromLibrary(c)
  BY <1>2 DEF RemoveFromLibrary
<1>3. CASE \E d \in Downloads : Retry(d)
  <2>1. PICK d \in Downloads : Retry(d)
    BY <1>3
  <2>2. /\ UNCHANGED <<chapterOf, task>>
        /\ \A w \in Workers : pc'[w] \in Busy <=> pc[w] \in Busy
        /\ status' = [status EXCEPT ![d] = "queued"]
        /\ Present(d) /\ IndexAllows(d, "queued")
    BY <2>1 DEF Retry, Wake, Writable
  <2>3. /\ overtaken \ {d} \subseteq overtaken' /\ overtaken' \ {d} \subseteq overtaken
        /\ d \notin overtaken' => \A w \in Workers : pc[w] \in Busy => task[w] # d
    BY <2>1 DEF Retry, WorkedOn
  <2>4. HeldRowIsActive'
    BY <2>2, <2>3
  <2>5. OneHolder'
    BY <2>2, <2>3
  <2>6. OneActivePerChapter'
    BY <2>2 DEF IndexAllows
  <2>7. QED BY <2>4, <2>5, <2>6
<1>4. CASE \E h \in Handlers : BeginClearFailed(h)
  BY <1>4 DEF BeginClearFailed
<1>5. CASE \E h \in Handlers, d \in Downloads : BeginRemove(h, d)
  BY <1>5 DEF BeginRemove
<1> QED BY <1>1, <1>2, <1>3, <1>4, <1>5 DEF Request

LEMMA ExclusiveWorker ==
    ASSUME NEW w \in Workers, TypeOK, ExclusiveInv, WorkerStep(w)
    PROVE  ExclusiveInv'
<1> USE NoneIsFresh, KeptIsFresh DEF TypeOK, ExclusiveInv, HeldRowIsActive, OneHolder,
         OneActivePerChapter, HoldsLive, Present, dbVars, rowVars, workerVars, handlerVars, boundVars, histVars
<1>1. CASE Claim(w)
  BY <1>1 DEF Claim, GoTo, Oldest
<1>2. CASE FindNothing(w)
  BY <1>2 DEF FindNothing, GoTo
<1>3. CASE Listen(w)
  BY <1>3 DEF Listen, GoTo
<1>4. CASE Resume(w)
  BY <1>4 DEF Resume, GoTo
<1>5. CASE Register(w)
  BY <1>5 DEF Register, GoTo
<1>6. CASE Fail(w)
  BY <1>6 DEF Fail, End, GoTo
<1>7. CASE NoticeCancel(w)
  BY <1>7 DEF NoticeCancel, End, GoTo
<1>8. CASE Prepare(w)
  BY <1>8 DEF Prepare, GoTo
<1>9. CASE WriteFetching(w)
  BY <1>9, SMTT(60) DEF WriteFetching, WriteStage, End, GoTo, Writable, IndexAllows
<1>10. CASE FetchPages(w)
  BY <1>10 DEF FetchPages, GoTo
<1>11. CASE WriteTransforming(w)
  BY <1>11, SMTT(60) DEF WriteTransforming, WriteStage, End, GoTo, Writable, IndexAllows
<1>12. CASE WriteArchiving(w)
  BY <1>12, SMTT(60) DEF WriteArchiving, WriteStage, End, GoTo, Writable, IndexAllows
<1>13. CASE BuildArchive(w)
  BY <1>13 DEF BuildArchive, GoTo
<1>14. CASE Publish(w)
  BY <1>14 DEF Publish, GoTo
<1>15. CASE CheckPublished(w)
  BY <1>15 DEF CheckPublished, End, GoTo
<1>16. CASE Unregister(w)
  BY <1>16 DEF Unregister, GoTo
<1>17. CASE RecordCompleted(w)
  BY <1>17 DEF RecordCompleted, Rest, GoTo
<1>18. CASE RecordStopped(w)
  BY <1>18 DEF RecordStopped, Rest, GoTo
<1>19. CASE RecordMissing(w)
  BY <1>19 DEF RecordMissing, Rest, GoTo
<1> QED BY <1>1, <1>2, <1>3, <1>4, <1>5, <1>6, <1>7, <1>8, <1>9, <1>10,
           <1>11, <1>12, <1>13, <1>14, <1>15, <1>16, <1>17, <1>18, <1>19 DEF WorkerStep

LEMMA ExclusiveFault ==
    ASSUME NEW w \in Workers, TypeOK, ExclusiveInv, Fault(w)
    PROVE  ExclusiveInv'
<1> USE NoneIsFresh, KeptIsFresh DEF TypeOK, ExclusiveInv, HeldRowIsActive, OneHolder,
         OneActivePerChapter, HoldsLive, Present, dbVars, rowVars, workerVars, handlerVars, boundVars, histVars
<1>1. CASE ClaimStrands(w)
  BY <1>1 DEF ClaimStrands, Oldest, GoTo
<1>2. CASE RecordStrands(w)
  BY <1>2 DEF RecordStrands, Rest, GoTo
<1> QED BY <1>1, <1>2 DEF Fault

LEMMA ExclusiveHandler ==
    ASSUME NEW h \in Handlers, TypeOK, ExclusiveInv, HandlerStep(h)
    PROVE  ExclusiveInv'
<1> USE NoneIsFresh, KeptIsFresh DEF TypeOK, ExclusiveInv, HeldRowIsActive, OneHolder,
         OneActivePerChapter, HoldsLive, Present, dbVars, rowVars, workerVars, handlerVars, boundVars, histVars
<1>1. CASE SetCancelFlag(h)
  BY <1>1 DEF SetCancelFlag
<1>2. CASE MarkCancelRequested(h)
  BY <1>2 DEF MarkCancelRequested, Writable, IndexAllows
<1>3. CASE RecheckCompleted(h)
  BY <1>3 DEF RecheckCompleted
<1>4. CASE RemoveFile(h)
  BY <1>4 DEF RemoveFile
<1>5. CASE DropRow(h)
  BY <1>5 DEF DropRow
<1> QED BY <1>1, <1>2, <1>3, <1>4, <1>5 DEF HandlerStep

LEMMA ExclusiveRestart ==
    ASSUME TypeOK, ExclusiveInv, Restart
    PROVE  ExclusiveInv'
BY NoneIsFresh, KeptIsFresh DEF TypeOK, ExclusiveInv, HeldRowIsActive, OneHolder, OneActivePerChapter,
   HoldsLive, Present, Restart, Recovered

LEMMA ExclusiveStep ==
    ASSUME TypeOK, ExclusiveInv, [Next]_vars
    PROVE  ExclusiveInv'
<1>1. CASE UNCHANGED vars
  BY <1>1 DEF vars, ExclusiveInv, HeldRowIsActive, OneHolder, OneActivePerChapter,
     HoldsLive, Present
<1>2. CASE Next
  BY <1>2, ExclusiveRequest, ExclusiveWorker, ExclusiveFault, ExclusiveHandler,
     ExclusiveRestart DEF Next
<1> QED BY <1>1, <1>2

(* The held rows are active, active rows of one chapter are one row, and a *)
(* row has one holder: hence no two workers race for an archive path.      *)
LEMMA ExclusiveFollows == ASSUME ExclusiveInv PROVE ExclusiveChapterWork
BY DEF ExclusiveInv, HeldRowIsActive, OneHolder, OneActivePerChapter, ExclusiveChapterWork

(* For any number of workers, rows, chapters and requests: two workers     *)
(* never have live attempts at one chapter's archive path, unless one of   *)
(* the rows was retried while a worker held it.                            *)
THEOREM ChapterWorkIsExclusive == Spec => []ExclusiveChapterWork
<1>1. Init => ExclusiveInv
  BY DEF Init, ExclusiveInv, HeldRowIsActive, OneHolder, OneActivePerChapter, HoldsLive
<1>2. TypeOK /\ ExclusiveInv /\ [Next]_vars => ExclusiveInv'
  BY ExclusiveStep
<1>3. ExclusiveInv => ExclusiveChapterWork
  BY ExclusiveFollows
<1> QED BY <1>1, <1>2, <1>3, TypeCorrect, PTL DEF Spec

-----------------------------------------------------------------------------
(* An attempt whose flag is set is lost, whoever touches the map entry.    *)

DoomedStep(w) ==
    \/ Doomed(w)'
    \/ pc'[w] = "ended" /\ outcome'[w] # "ok"
    \/ crashes' # crashes

LEMMA DoomedRequest ==
    ASSUME NEW w \in Workers, TypeOK, Doomed(w), Request
    PROVE  DoomedStep(w)
<1> USE NoneIsFresh, KeptIsFresh DEF TypeOK, Doomed, FlagSet, DoomedStep, dbVars, rowVars, workerVars, handlerVars, boundVars, histVars
<1>1. CASE \E c \in Chapters : Enqueue(c)
  BY <1>1 DEF Enqueue, ActiveRowOf, Wake
<1>2. CASE \E c \in Chapters : RemoveFromLibrary(c)
  BY <1>2 DEF RemoveFromLibrary
<1>3. CASE \E d \in Downloads : Retry(d)
  BY <1>3 DEF Retry, Writable, IndexAllows, Wake
<1>4. CASE \E h \in Handlers : BeginClearFailed(h)
  BY <1>4 DEF BeginClearFailed
<1>5. CASE \E h \in Handlers, d \in Downloads : BeginRemove(h, d)
  BY <1>5 DEF BeginRemove
<1> QED BY <1>1, <1>2, <1>3, <1>4, <1>5 DEF Request

LEMMA DoomedWorker ==
    ASSUME NEW w \in Workers, NEW v \in Workers, TypeOK, Doomed(w), WorkerStep(v)
    PROVE  DoomedStep(w)
<1> USE NoneIsFresh, KeptIsFresh DEF TypeOK, Doomed, FlagSet, DoomedStep, dbVars, rowVars, workerVars, handlerVars, boundVars, histVars
<1>1. CASE Claim(v)
  BY <1>1 DEF Claim, GoTo, Oldest
<1>2. CASE FindNothing(v)
  BY <1>2 DEF FindNothing, GoTo
<1>3. CASE Listen(v)
  BY <1>3 DEF Listen, GoTo
<1>4. CASE Resume(v)
  BY <1>4 DEF Resume, GoTo
<1>5. CASE Register(v)
  BY <1>5 DEF Register, GoTo
<1>6. CASE Fail(v)
  BY <1>6 DEF Fail, End, GoTo
<1>7. CASE NoticeCancel(v)
  BY <1>7 DEF NoticeCancel, End, GoTo
<1>8. CASE Prepare(v)
  BY <1>8 DEF Prepare, GoTo
<1>9. CASE WriteFetching(v)
  BY <1>9 DEF WriteFetching, WriteStage, End, GoTo, Writable, IndexAllows
<1>10. CASE FetchPages(v)
  BY <1>10 DEF FetchPages, GoTo
<1>11. CASE WriteTransforming(v)
  BY <1>11 DEF WriteTransforming, WriteStage, End, GoTo, Writable, IndexAllows
<1>12. CASE WriteArchiving(v)
  BY <1>12 DEF WriteArchiving, WriteStage, End, GoTo, Writable, IndexAllows
<1>13. CASE BuildArchive(v)
  BY <1>13 DEF BuildArchive, GoTo
<1>14. CASE Publish(v)
  BY <1>14 DEF Publish, GoTo
<1>15. CASE CheckPublished(v)
  BY <1>15 DEF CheckPublished, End, GoTo
<1>16. CASE Unregister(v)
  BY <1>16 DEF Unregister, Detach, GoTo
<1>17. CASE RecordCompleted(v)
  BY <1>17 DEF RecordCompleted, Rest, GoTo
<1>18. CASE RecordStopped(v)
  BY <1>18 DEF RecordStopped, Rest, GoTo
<1>19. CASE RecordMissing(v)
  BY <1>19 DEF RecordMissing, Rest, GoTo
<1> QED BY <1>1, <1>2, <1>3, <1>4, <1>5, <1>6, <1>7, <1>8, <1>9, <1>10,
           <1>11, <1>12, <1>13, <1>14, <1>15, <1>16, <1>17, <1>18, <1>19 DEF WorkerStep

LEMMA DoomedFault ==
    ASSUME NEW w \in Workers, NEW v \in Workers, TypeOK, Doomed(w), Fault(v)
    PROVE  DoomedStep(w)
<1> USE NoneIsFresh, KeptIsFresh DEF TypeOK, Doomed, FlagSet, DoomedStep, dbVars, rowVars, workerVars, handlerVars, boundVars, histVars
<1>1. CASE ClaimStrands(v)
  BY <1>1 DEF ClaimStrands, Oldest, GoTo
<1>2. CASE RecordStrands(v)
  BY <1>2 DEF RecordStrands, Rest, GoTo
<1> QED BY <1>1, <1>2 DEF Fault

LEMMA DoomedHandler ==
    ASSUME NEW w \in Workers, NEW h \in Handlers, TypeOK, Doomed(w), HandlerStep(h)
    PROVE  DoomedStep(w)
<1> USE NoneIsFresh, KeptIsFresh DEF TypeOK, Doomed, FlagSet, DoomedStep, dbVars, rowVars, workerVars, handlerVars, boundVars, histVars
<1>1. CASE SetCancelFlag(h)
  BY <1>1 DEF SetCancelFlag
<1>2. CASE MarkCancelRequested(h)
  BY <1>2 DEF MarkCancelRequested, Writable, IndexAllows
<1>3. CASE RecheckCompleted(h)
  BY <1>3 DEF RecheckCompleted
<1>4. CASE RemoveFile(h)
  BY <1>4 DEF RemoveFile
<1>5. CASE DropRow(h)
  BY <1>5 DEF DropRow
<1> QED BY <1>1, <1>2, <1>3, <1>4, <1>5 DEF HandlerStep

LEMMA DoomedNext ==
    ASSUME NEW w \in Workers, TypeOK, Doomed(w), [Next]_vars
    PROVE  DoomedStep(w)
<1>1. CASE UNCHANGED vars
  BY <1>1 DEF vars, Doomed, FlagSet, DoomedStep
<1>2. CASE Restart
  BY <1>2 DEF Restart, TypeOK, DoomedStep
<1>3. CASE Next
  BY <1>2, <1>3, DoomedRequest, DoomedWorker, DoomedFault, DoomedHandler DEF Next
<1> QED BY <1>1, <1>3

(* A cancel that reached the flag of a running attempt is final, whatever  *)
(* other requests, retries and workers do with the row and the map entry:  *)
(* the attempt ends cancelled or failed, or the process restarts.          *)
THEOREM CancelIsFinal == Spec => CancelledAttemptNeverCompletes
<1>1. ASSUME TypeOK, [Next]_vars
      PROVE  [\A w \in Workers : Doomed(w) => DoomedStep(w)]_vars
  BY <1>1, DoomedNext
<1>2. TypeOK /\ [Next]_vars
         => [\A w \in Workers :
                Doomed(w) => \/ Doomed(w)'
                             \/ pc'[w] = "ended" /\ outcome'[w] # "ok"
                             \/ crashes' # crashes]_vars
  BY <1>1 DEF DoomedStep
<1> QED BY <1>2, TypeCorrect, PTL DEF Spec, CancelledAttemptNeverCompletes

-----------------------------------------------------------------------------
(* A settled row keeps its result: a worker writes over a row it holds,    *)
(* and a live held row is active unless a retry overtook its worker.       *)

StaysSettled(d) ==
    (status[d] \in Terminal /\ status'[d] # status[d])
        => \/ status'[d] = "deleted"
           \/ Retried(d)
           \/ LateCancel(d)
           \/ d \in overtaken /\ WorkedOn(d)

LEMMA SettledRequest ==
    ASSUME TypeOK, Request, NEW d \in Downloads
    PROVE  StaysSettled(d)
<1> USE NoneIsFresh, KeptIsFresh DEF StaysSettled, TypeOK, rowVars, dbVars
<1>1. CASE \E c \in Chapters : Enqueue(c)
  BY <1>1 DEF Enqueue
<1>2. CASE \E c \in Chapters : RemoveFromLibrary(c)
  BY <1>2 DEF RemoveFromLibrary
<1>3. CASE \E e \in Downloads : Retry(e)
  BY <1>3 DEF Retry, Retried
<1>4. CASE \E h \in Handlers : BeginClearFailed(h) \/ \E e \in Downloads : BeginRemove(h, e)
  BY <1>4 DEF BeginClearFailed, BeginRemove
<1> QED BY <1>1, <1>2, <1>3, <1>4 DEF Request

LEMMA SettledWorker ==
    ASSUME TypeOK, ExclusiveInv, NEW w \in Workers, WorkerStep(w) \/ Fault(w),
           NEW d \in Downloads
    PROVE  StaysSettled(d)
<1> USE DEF TypeOK
<1>1. CASE Claim(w) \/ ClaimStrands(w)
  BY <1>1 DEF StaysSettled, Claim, ClaimStrands, Oldest
<1>2. CASE \/ WriteFetching(w) \/ WriteTransforming(w) \/ WriteArchiving(w)
           \/ RecordCompleted(w) \/ RecordStopped(w)
  <2>1. pc[w] \in Busy
    BY <1>2 DEF WriteFetching, WriteTransforming, WriteArchiving, WriteStage, RecordCompleted,
       RecordStopped
  <2>2. status'[d] # status[d] => task[w] = d /\ Present(d)
    BY <1>2, <2>1 DEF WriteFetching, WriteTransforming, WriteArchiving, WriteStage, RecordCompleted,
       RecordStopped, Writable
  <2>3. HoldsLive(w, d) /\ status[d] \in Terminal => d \in overtaken /\ WorkedOn(d)
    BY DEF ExclusiveInv, HeldRowIsActive, HoldsLive, WorkedOn
  <2>4. QED BY <2>1, <2>2, <2>3 DEF StaysSettled, HoldsLive
<1>3. CASE \/ FindNothing(w) \/ Listen(w) \/ Resume(w) \/ Register(w) \/ Fail(w)
           \/ NoticeCancel(w) \/ Prepare(w) \/ FetchPages(w) \/ BuildArchive(w)
           \/ Publish(w) \/ CheckPublished(w) \/ Unregister(w) \/ RecordMissing(w)
           \/ RecordStrands(w)
  BY <1>3 DEF StaysSettled, FindNothing, Listen, Resume, Register, Fail, NoticeCancel, Prepare,
     FetchPages, BuildArchive, Publish, CheckPublished, Unregister, RecordMissing, RecordStrands,
     dbVars
<1> QED BY <1>1, <1>2, <1>3 DEF WorkerStep, Fault

LEMMA SettledHandler ==
    ASSUME TypeOK, ExclusiveInv, NEW h \in Handlers, HandlerStep(h),
           NEW d \in Downloads
    PROVE  StaysSettled(d)
<1> USE DEF TypeOK, dbVars, HGoTo, HDone
<1>1. CASE SetCancelFlag(h) \/ RecheckCompleted(h) \/ RemoveFile(h)
  BY <1>1 DEF StaysSettled, SetCancelFlag, RecheckCompleted, RemoveFile
<1>2. CASE DropRow(h)
  BY <1>2 DEF StaysSettled, DropRow
<1>3. CASE MarkCancelRequested(h)
  <2>1. SUFFICES ASSUME status[d] \in Terminal, status'[d] # status[d]
                 PROVE  LateCancel(d) \/ (d \in overtaken /\ WorkedOn(d))
    BY DEF StaysSettled
  <2>2. hpc[h] = "mark" /\ hrow[h] = d /\ hpc'[h] = "idle" /\ status'[d] = "cancel_requested"
    BY <1>3, <2>1 DEF MarkCancelRequested
  <2>3. Present(d)
    BY <2>1 DEF Present
  <2>4. WorkedOn(d) => d \in overtaken
    BY <2>1, <2>3 DEF WorkedOn, ExclusiveInv, HeldRowIsActive, HoldsLive
  <2>5. ~WorkedOn(d) => d \in late'
    BY <1>3, <2>1, <2>2 DEF MarkCancelRequested
  <2>6. QED BY <2>2, <2>4, <2>5 DEF LateCancel
<1> QED BY <1>1, <1>2, <1>3 DEF HandlerStep

LEMMA SettledStep ==
    ASSUME TypeOK, ExclusiveInv, [Next]_vars, NEW d \in Downloads
    PROVE  StaysSettled(d)
<1>1. CASE UNCHANGED vars
  BY <1>1 DEF vars, StaysSettled
<1>2. CASE Restart
  BY <1>2 DEF Restart, Recovered, StaysSettled, TypeOK
<1>3. QED BY <1>1, <1>2, SettledRequest, SettledWorker, SettledHandler DEF Next

(* For any number of workers, rows and requests: the result a row was      *)
(* settled with stays until the row is removed or retried; only a cancel   *)
(* request that comes too late, or the older of two attempts that a retry  *)
(* set going at once, writes over it (update_download_status,              *)
(* complete_download).                                                     *)
THEOREM SettledRowsStaySettled == Spec => SettledStaysSettled
<1>1. Init => ExclusiveInv
  BY DEF Init, ExclusiveInv, HeldRowIsActive, OneHolder, OneActivePerChapter, HoldsLive
<1>2. TypeOK /\ ExclusiveInv /\ [Next]_vars => ExclusiveInv'
  BY ExclusiveStep
<1>3. ASSUME TypeOK, ExclusiveInv, [Next]_vars
      PROVE  [\A d \in Downloads : StaysSettled(d)]_vars
  BY <1>3, SettledStep
<1>4. TypeOK /\ ExclusiveInv /\ [Next]_vars
         => [\A d \in Downloads :
               (status[d] \in Terminal /\ status'[d] # status[d])
                   => \/ status'[d] = "deleted"
                      \/ Retried(d)
                      \/ LateCancel(d)
                      \/ d \in overtaken /\ WorkedOn(d)]_vars
  BY <1>3 DEF StaysSettled
<1> QED BY <1>1, <1>2, <1>4, TypeCorrect, PTL DEF Spec, SettledStaysSettled

-----------------------------------------------------------------------------
(* The file of a row that was not completed is its worker's, who will      *)
(* record the row as completed or take the file back.                      *)

FilesAreOfRows ==
    \A c \in Chapters : archive[c] \in Downloads =>
        status[archive[c]] # "absent" /\ chapterOf[archive[c]] = c

HasFile(d) == archive[chapterOf[d]] = d /\ Present(d) /\ d \notin overtaken

Finishing(w) == pc[w] = "published" \/ outcome[w] = "ok"

FileIsAccounted(d) ==
    HasFile(d) =>
        /\ \A w \in Workers : HoldsLive(w, d) => Finishing(w)
        /\ \/ status[d] \in {"completed", "cancel_requested"}
           \/ status[d] \in Working /\ d \in stranded
           \/ \E w \in Workers : HoldsLive(w, d)

FileInv == FilesAreOfRows /\ \A d \in Downloads : FileIsAccounted(d)

LEMMA FileRequest ==
    ASSUME TypeOK, ExclusiveInv, FileInv, Request
    PROVE  FileInv'
<1> USE NoneIsFresh, KeptIsFresh DEF TypeOK, FileInv, FilesAreOfRows, FileIsAccounted, HasFile,
         Finishing, HeldRowIsActive, HoldsLive, Present, dbVars, rowVars, workerVars,
         handlerVars, boundVars, histVars
<1>1. ASSUME NEW c \in Chapters, Enqueue(c) PROVE FileInv'
  <2>1. /\ UNCHANGED <<archive, task, outcome, stranded, overtaken>>
        /\ \A w \in Workers : HoldsLive(w, task[w]) => (pc'[w] = pc[w] /\ pc[w] \in Busy)
        /\ \A w \in Workers : pc'[w] \in Busy <=> pc[w] \in Busy
        /\ \A w \in Workers : pc'[w] = "published" <=> pc[w] = "published"
    BY <1>1 DEF Enqueue, Wake
  <2>2. CASE UNCHANGED <<status, chapterOf>>
    BY <2>1, <2>2
  <2>3. ASSUME NEW d \in Downloads, status[d] = "absent",
               status' = [status EXCEPT ![d] = "queued"],
               chapterOf' = [chapterOf EXCEPT ![d] = c]
        PROVE  FileInv'
    BY <2>1, <2>3
  <2>4. QED BY <1>1, <2>2, <2>3 DEF Enqueue
<1>2. CASE \E c \in Chapters : RemoveFromLibrary(c)
  BY <1>2 DEF RemoveFromLibrary
<1>3. CASE \E d \in Downloads : Retry(d)
  <2>1. PICK d \in Downloads : Retry(d)
    BY <1>3
  <2>2. /\ UNCHANGED <<chapterOf, task, outcome, stranded>>
        /\ \A w \in Workers : pc'[w] \in Busy <=> pc[w] \in Busy
        /\ \A w \in Workers : pc'[w] = "published" <=> pc[w] = "published"
        /\ status' = [status EXCEPT ![d] = "queued"]
        /\ overtaken' \cup {d} = overtaken \cup {d}
    BY <2>1 DEF Retry, Wake
  <2>3. archive' = FileKept(d) /\ Present(d)
    BY <2>1 DEF Retry, Writable
  <2>4. \A c \in Chapters : archive'[c] \in Downloads => archive'[c] = archive[c] /\ archive[c] # d
    BY <2>3 DEF FileKept
  <2>5. FilesAreOfRows'
    BY <2>2, <2>4
  <2>6. ASSUME NEW e \in Downloads PROVE FileIsAccounted(e)'
    <3>1. CASE e = d
      BY <2>2, <2>3, <2>4, <3>1
    <3>2. CASE e # d
      BY <2>2, <2>3, <2>4, <3>2
    <3>3. QED BY <3>1, <3>2
  <2>7. QED BY <2>5, <2>6
<1>4. CASE \E h \in Handlers : BeginClearFailed(h)
  BY <1>4 DEF BeginClearFailed
<1>5. CASE \E h \in Handlers, d \in Downloads : BeginRemove(h, d)
  BY <1>5 DEF BeginRemove
<1> QED BY <1>1, <1>2, <1>3, <1>4, <1>5 DEF Request

LEMMA FileWorker ==
    ASSUME NEW w \in Workers, TypeOK, ExclusiveInv, FileInv, WorkerStep(w)
    PROVE  FileInv'
<1> USE NoneIsFresh, KeptIsFresh DEF TypeOK, FileInv, FilesAreOfRows, FileIsAccounted, HasFile,
         Finishing, HoldsLive, Present, dbVars, rowVars, workerVars,
         handlerVars, boundVars, histVars
<1>1. CASE Claim(w)
  BY <1>1 DEF Claim, GoTo, Oldest, ExclusiveInv, HeldRowIsActive
<1>2. CASE FindNothing(w) \/ Listen(w) \/ Resume(w)
  BY <1>2 DEF FindNothing, Listen, Resume, GoTo
<1>3. CASE Register(w) \/ Prepare(w) \/ FetchPages(w) \/ BuildArchive(w) \/ Unregister(w)
  BY <1>3 DEF Register, Prepare, FetchPages, BuildArchive, Unregister, GoTo
<1>4. CASE Fail(w) \/ NoticeCancel(w)
  BY <1>4 DEF Fail, NoticeCancel, End, GoTo
<1>5. CASE WriteFetching(w)
  BY <1>5, SMTT(60) DEF WriteFetching, WriteStage, End, GoTo, Writable
<1>6. CASE WriteTransforming(w)
  BY <1>6, SMTT(60) DEF WriteTransforming, WriteStage, End, GoTo, Writable
<1>7. CASE WriteArchiving(w)
  BY <1>7, SMTT(60) DEF WriteArchiving, WriteStage, End, GoTo, Writable
<1>8. CASE Publish(w)
  BY <1>8 DEF Publish, GoTo, ExclusiveInv, OneHolder
<1>9. CASE CheckPublished(w)
  BY <1>9 DEF CheckPublished, End, GoTo
<1>10. CASE RecordCompleted(w)
  BY <1>10 DEF RecordCompleted, Rest, GoTo, ExclusiveInv, OneHolder
<1>11. CASE RecordStopped(w)
  BY <1>11 DEF RecordStopped, Rest, GoTo, ExclusiveInv, OneHolder
<1>12. CASE RecordMissing(w)
  BY <1>12 DEF RecordMissing, Rest, GoTo
<1> QED BY <1>1, <1>2, <1>3, <1>4, <1>5, <1>6, <1>7, <1>8, <1>9, <1>10, <1>11, <1>12
        DEF WorkerStep

LEMMA FileFault ==
    ASSUME NEW w \in Workers, TypeOK, ExclusiveInv, FileInv, Fault(w)
    PROVE  FileInv'
<1> USE NoneIsFresh, KeptIsFresh DEF TypeOK, FileInv, FilesAreOfRows, FileIsAccounted, HasFile,
         Finishing, HoldsLive, Present, dbVars, rowVars, workerVars,
         handlerVars, boundVars, histVars
<1>1. CASE ClaimStrands(w)
  BY <1>1 DEF ClaimStrands, Oldest, GoTo
<1>2. CASE RecordStrands(w)
  BY <1>2 DEF RecordStrands, Rest, GoTo, ExclusiveInv, HeldRowIsActive, OneHolder
<1> QED BY <1>1, <1>2 DEF Fault

LEMMA FileHandler ==
    ASSUME NEW h \in Handlers, TypeOK, ExclusiveInv, FileInv, HandlerStep(h)
    PROVE  FileInv'
<1> USE NoneIsFresh, KeptIsFresh DEF TypeOK, FileInv, FilesAreOfRows, FileIsAccounted, HasFile,
         Finishing, HoldsLive, Present, dbVars, rowVars, workerVars,
         handlerVars, boundVars, histVars
<1>1. CASE SetCancelFlag(h)
  BY <1>1 DEF SetCancelFlag
<1>2. CASE MarkCancelRequested(h)
  BY <1>2 DEF MarkCancelRequested, Writable
<1>3. CASE RecheckCompleted(h)
  BY <1>3 DEF RecheckCompleted
<1>4. CASE RemoveFile(h)
  BY <1>4 DEF RemoveFile
<1>5. CASE DropRow(h)
  BY <1>5 DEF DropRow
<1> QED BY <1>1, <1>2, <1>3, <1>4, <1>5 DEF HandlerStep

LEMMA FileRestart ==
    ASSUME TypeOK, FileInv, Restart
    PROVE  FileInv'
<1>1. \A c \in Chapters : archive'[c] \notin Downloads
  BY NoneIsFresh, KeptIsFresh DEF Restart
<1>2. \A d \in Downloads : Present(d)' => chapterOf'[d] \in Chapters
  BY DEF TypeOK, Restart, Recovered, Present
<1> QED BY <1>1, <1>2 DEF FileInv, FilesAreOfRows, FileIsAccounted, HasFile

LEMMA FileStep ==
    ASSUME TypeOK, ExclusiveInv, FileInv, [Next]_vars
    PROVE  FileInv'
<1>1. CASE UNCHANGED vars
  BY <1>1 DEF vars, FileInv, FilesAreOfRows, FileIsAccounted, HasFile, Finishing,
     HoldsLive, Present
<1>2. CASE Next
  BY <1>2, FileRequest, FileWorker, FileFault, FileHandler, FileRestart DEF Next
<1> QED BY <1>1, <1>2

(* For any number of workers, rows and requests: a row that is cancelled   *)
(* or failed has no file of its present attempt in the library, whenever   *)
(* the cancel or the error came, unless a retry overtook a worker that     *)
(* held the row (download_chapter).                                        *)
THEOREM StoppedAttemptsLeaveNothing == Spec => []StoppedLeavesNoArchive
<1>1. Init => ExclusiveInv /\ FileInv
  BY NoneIsFresh, KeptIsFresh DEF Init, ExclusiveInv, HeldRowIsActive, OneHolder, OneActivePerChapter,
     HoldsLive, FileInv, FilesAreOfRows, FileIsAccounted, HasFile, Present
<1>2. TypeOK /\ ExclusiveInv /\ [Next]_vars => ExclusiveInv'
  BY ExclusiveStep
<1>3. TypeOK /\ ExclusiveInv /\ FileInv /\ [Next]_vars => FileInv'
  BY FileStep
<1>4. ExclusiveInv /\ FileInv => StoppedLeavesNoArchive
  BY DEF ExclusiveInv, HeldRowIsActive, FileInv, FileIsAccounted, HasFile, HoldsLive, Present,
     StoppedLeavesNoArchive
<1> QED BY <1>1, <1>2, <1>3, <1>4, TypeCorrect, PTL DEF Spec

=============================================================================
