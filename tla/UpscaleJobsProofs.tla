--------------------------- MODULE UpscaleJobsProofs ---------------------------
(***************************************************************************)
(* The upscale queue for any number of downloads, jobs, attempts, restarts *)
(* and pauses, on either database.                                         *)
(***************************************************************************)
EXTENDS UpscaleJobs, TLAPS

Shown == {"running", "paused"}
Settled == {"skipped", "completed", "failed"}
Archives == [orig : Nat, section : Nat]

(* The types, and the worker's hold on its job.                            *)
JobShapes ==
    /\ jobStatus \in [Jobs -> {"absent", "pending", "fetched", "running", "retryable",
                            "completed", "failed"}]
    /\ jobOf \in [Jobs -> Downloads \cup {None}]
    /\ \A j \in Jobs : jobStatus[j] # "absent" => jobOf[j] \in Downloads
    /\ epc # "idle" => erow \in Downloads

WorkerShapes ==
    /\ wpc \in BootSteps \cup RunSteps \cup {"idle", "stopped"}
    /\ wpc \in RunSteps => wjob \in Jobs /\ jobStatus[wjob] = "running"
    /\ wpc \notin RunSteps => wjob = None

(* One job is running at most: the worker's, or the one that a restart has *)
(* left for the startup to recover.                                        *)
RunningInv ==
    /\ \A j \in Jobs : jobStatus[j] = "running" =>
          \/ j = wjob
          \/ Backend = "postgres" /\ wpc = "boot_requeue"
          \/ Backend = "sqlite" /\ wpc \in {"boot_progress", "boot_jobs"}
    /\ \A i, j \in Jobs : jobStatus[i] = "running" /\ jobStatus[j] = "running" => i = j
    /\ wpc \in {"boot_requeue", "boot_mark"} => Backend = "postgres"
    /\ wpc = "boot_jobs" => Backend = "sqlite"

Running == JobShapes /\ WorkerShapes /\ RunningInv

USE DEF Shown, Settled, BootSteps, RunSteps, BeginEnqueue, EnqueueEnds, CutInTwo, jobVars, rowVars, diskVars, runVars, workerVars,
        enqueueVars, pauseVars, lifeVars, WorkerAt, EnqueueAt

-----------------------------------------------------------------------------
LEMMA RunningInit == Init => Running
<1> SUFFICES ASSUME Init PROVE Running
  OBVIOUS
<1>1. JobShapes
  BY DEF Init, JobShapes
<1>2. WorkerShapes /\ RunningInv
  BY BackendIsKnown DEF Init, WorkerShapes, RunningInv, FirstBootStep
<1> QED BY <1>1, <1>2 DEF Running

(* Jobs and enqueues keep their types.                                      *)
LEMMA JobShapesStep == JobShapes /\ WorkerShapes /\ [Next]_vars => JobShapes'
<1> SUFFICES ASSUME JobShapes, WorkerShapes, [Next]_vars PROVE JobShapes'
  OBVIOUS
<1> USE NoneIsFresh DEF JobShapes, WorkerShapes
<1>1. CASE BootRequeue
  BY <1>1 DEF BootRequeue, StoppedByRestart, GivenBack
<1>2. CASE BootRecover
  BY <1>2 DEF BootRecover, AfterAttempt
<1>3. ASSUME NEW j \in Jobs, Lease(j) PROVE JobShapes'
  BY <1>3 DEF Lease, Leasable
<1>4. CASE AckDone
  BY <1>4 DEF AckDone, Idle
<1>5. CASE AckFailed
  BY <1>5 DEF AckFailed, Idle, AfterAttempt
<1>6. CASE ResumeForNewWork
  BY <1>6 DEF ResumeForNewWork
<1>7. CASE MarkQueued
  BY <1>7 DEF MarkQueued
<1>8. CASE Push
  BY <1>8 DEF Push, Absent
<1>9. CASE PushFails
  BY <1>9 DEF PushFails, Absent
<1>10. CASE MarkPushFailed
  BY <1>10 DEF MarkPushFailed
<1>11. ASSUME NEW d \in Downloads, CompleteDownload(d) PROVE JobShapes'
  BY <1>11 DEF CompleteDownload
<1>12. ASSUME NEW d \in Downloads, EnqueueRequest(d) PROVE JobShapes'
  BY <1>12 DEF EnqueueRequest
<1>13. CASE Restart
  BY <1>13 DEF Restart, FirstBootStep
<1>f. ASSUME NEW j \in Jobs, Fetch(j) PROVE JobShapes'
  BY <1>f DEF Fetch, Leasable
<1>a. CASE AbandonEnqueue
  BY <1>a DEF AbandonEnqueue
<1>14. CASE UNCHANGED <<jobStatus, jobOf, epc, erow>>
  BY <1>14
<1>15. CASE WorkerStep
  BY <1>15, <1>f, <1>1, <1>2, <1>3, <1>4, <1>5, <1>6, <1>7, <1>8, <1>9, <1>10, <1>11, <1>12, <1>13, <1>14 DEF WorkerStep, BootMarkRequeued, BootFailProgress, StopWorker, WaitWhilePaused, Proceed, Start, InspectRow, OpenArchive, UpscalePages, AppendUpscaled, MarkUpscaled, Settle
<1>16. CASE EnqueueStep
  BY <1>16, <1>1, <1>2, <1>3, <1>4, <1>5, <1>6, <1>7, <1>8, <1>9, <1>10, <1>11, <1>12, <1>13, <1>14 DEF EnqueueStep
<1>17. CASE Environment
  BY <1>17, <1>a, <1>1, <1>2, <1>3, <1>4, <1>5, <1>6, <1>7, <1>8, <1>9, <1>10, <1>11, <1>12, <1>13, <1>14 DEF Environment, RetryDownload, PublishOriginals, RemoveArchive, DropRow, PauseNotify, ResumeUpscaling, BeginDrain
<1>18. CASE PauseStep
  BY <1>18, <1>1, <1>2, <1>3, <1>4, <1>5, <1>6, <1>7, <1>8, <1>9, <1>10, <1>11, <1>12, <1>13, <1>14 DEF PauseStep, PauseWrite, TimerCancelled, TimerFires, TimerResumes
<1>19. CASE UNCHANGED vars
  BY <1>19, <1>14 DEF vars
<1> QED
  BY <1>15, <1>16, <1>17, <1>18, <1>19 DEF Next

LEMMA WorkerShapesStep == JobShapes /\ WorkerShapes /\ [Next]_vars => WorkerShapes'
<1> SUFFICES ASSUME JobShapes, WorkerShapes, [Next]_vars PROVE WorkerShapes'
  OBVIOUS
<1> USE NoneIsFresh DEF JobShapes, WorkerShapes
<1>1. CASE BootRequeue
  BY <1>1 DEF BootRequeue, StoppedByRestart, GivenBack
<1>2. CASE BootMarkRequeued
  BY <1>2 DEF BootMarkRequeued
<1>3. CASE BootFailProgress
  BY <1>3 DEF BootFailProgress, InterruptedRows
<1>4. CASE BootRecover
  BY <1>4 DEF BootRecover, AfterAttempt
<1>5. ASSUME NEW j \in Jobs, Lease(j) PROVE WorkerShapes'
  BY <1>5 DEF Lease, Leasable
<1>6. CASE StopWorker
  BY <1>6 DEF StopWorker
<1>7. CASE WaitWhilePaused
  BY <1>7 DEF WaitWhilePaused, Show
<1>8. CASE Proceed
  BY <1>8 DEF Proceed
<1>9. CASE Start
  BY <1>9 DEF Start, Show
<1>10. CASE InspectRow
  BY <1>10 DEF InspectRow, SettleOn
<1>11. CASE OpenArchive
  BY <1>11 DEF OpenArchive, SettleOn
<1>12. CASE UpscalePages
  BY <1>12 DEF UpscalePages, SettleOn
<1>13. CASE AppendUpscaled
  BY <1>13 DEF AppendUpscaled, SettleOn
<1>14. CASE MarkUpscaled
  BY <1>14 DEF MarkUpscaled, SettleOn
<1>15. CASE Settle
  BY <1>15 DEF Settle, Show
<1>16. CASE AckDone
  BY <1>16 DEF AckDone, Idle
<1>17. CASE AckFailed
  BY <1>17 DEF AckFailed, Idle, AfterAttempt
<1>18. CASE Push
  BY <1>18 DEF Push, Absent
<1>19. CASE PushFails
  BY <1>19 DEF PushFails, Absent
<1>20. CASE Restart
  BY <1>20 DEF Restart, FirstBootStep
<1>f. ASSUME NEW j \in Jobs, Fetch(j) PROVE WorkerShapes'
  BY <1>f DEF Fetch, Leasable
<1>21. CASE UNCHANGED <<jobStatus, wpc, wjob>>
  BY <1>21
<1>22. CASE WorkerStep
  BY <1>22, <1>f, <1>1, <1>2, <1>3, <1>4, <1>5, <1>6, <1>7, <1>8, <1>9, <1>10, <1>11, <1>12, <1>13, <1>14, <1>15, <1>16, <1>17, <1>18, <1>19, <1>20, <1>21 DEF WorkerStep
<1>23. CASE EnqueueStep
  BY <1>23, <1>1, <1>2, <1>3, <1>4, <1>5, <1>6, <1>7, <1>8, <1>9, <1>10, <1>11, <1>12, <1>13, <1>14, <1>15, <1>16, <1>17, <1>18, <1>19, <1>20, <1>21 DEF EnqueueStep, ResumeForNewWork, MarkQueued, MarkPushFailed
<1>24. CASE Environment
  BY <1>24, <1>1, <1>2, <1>3, <1>4, <1>5, <1>6, <1>7, <1>8, <1>9, <1>10, <1>11, <1>12, <1>13, <1>14, <1>15, <1>16, <1>17, <1>18, <1>19, <1>20, <1>21 DEF Environment, AbandonEnqueue, RetryDownload, PublishOriginals, CompleteDownload, RemoveArchive, DropRow, EnqueueRequest, PauseNotify, ResumeUpscaling, BeginDrain
<1>25. CASE PauseStep
  BY <1>25, <1>1, <1>2, <1>3, <1>4, <1>5, <1>6, <1>7, <1>8, <1>9, <1>10, <1>11, <1>12, <1>13, <1>14, <1>15, <1>16, <1>17, <1>18, <1>19, <1>20, <1>21 DEF PauseStep, PauseWrite, TimerCancelled, TimerFires, TimerResumes
<1>26. CASE UNCHANGED vars
  BY <1>26, <1>21 DEF vars
<1> QED
  BY <1>22, <1>23, <1>24, <1>25, <1>26 DEF Next

LEMMA RunningInvStep == JobShapes /\ WorkerShapes /\ RunningInv /\ [Next]_vars => RunningInv'
<1> SUFFICES ASSUME JobShapes, WorkerShapes, RunningInv, [Next]_vars PROVE RunningInv'
  OBVIOUS
<1> USE NoneIsFresh, BackendIsKnown DEF JobShapes, WorkerShapes, RunningInv
<1>1. CASE BootRequeue
  BY <1>1 DEF BootRequeue, StoppedByRestart, GivenBack
<1>2. CASE BootMarkRequeued
  BY <1>2 DEF BootMarkRequeued
<1>3. CASE BootFailProgress
  BY <1>3 DEF BootFailProgress, InterruptedRows
<1>4. CASE BootRecover
  BY <1>4 DEF BootRecover, AfterAttempt
<1>5. ASSUME NEW j \in Jobs, Lease(j) PROVE RunningInv'
  BY <1>5 DEF Lease, Leasable
<1>6. CASE StopWorker
  BY <1>6 DEF StopWorker
<1>7. CASE WaitWhilePaused
  BY <1>7 DEF WaitWhilePaused, Show
<1>8. CASE Proceed
  BY <1>8 DEF Proceed
<1>9. CASE Start
  BY <1>9 DEF Start, Show
<1>10. CASE InspectRow
  BY <1>10 DEF InspectRow, SettleOn
<1>11. CASE OpenArchive
  BY <1>11 DEF OpenArchive, SettleOn
<1>12. CASE UpscalePages
  BY <1>12 DEF UpscalePages, SettleOn
<1>13. CASE AppendUpscaled
  BY <1>13 DEF AppendUpscaled, SettleOn
<1>14. CASE MarkUpscaled
  BY <1>14 DEF MarkUpscaled, SettleOn
<1>15. CASE Settle
  BY <1>15 DEF Settle, Show
<1>16. CASE AckDone
  BY <1>16 DEF AckDone, Idle
<1>17. CASE AckFailed
  BY <1>17 DEF AckFailed, Idle, AfterAttempt
<1>18. CASE Push
  BY <1>18 DEF Push, Absent
<1>19. CASE PushFails
  BY <1>19 DEF PushFails, Absent
<1>20. CASE Restart
  BY <1>20 DEF Restart, FirstBootStep
<1>f. ASSUME NEW j \in Jobs, Fetch(j) PROVE RunningInv'
  BY <1>f DEF Fetch, Leasable
<1>21. CASE UNCHANGED <<jobStatus, wpc, wjob>>
  BY <1>21
<1>22. CASE WorkerStep
  BY <1>22, <1>f, <1>1, <1>2, <1>3, <1>4, <1>5, <1>6, <1>7, <1>8, <1>9, <1>10, <1>11, <1>12, <1>13, <1>14, <1>15, <1>16, <1>17, <1>18, <1>19, <1>20, <1>21 DEF WorkerStep
<1>23. CASE EnqueueStep
  BY <1>23, <1>1, <1>2, <1>3, <1>4, <1>5, <1>6, <1>7, <1>8, <1>9, <1>10, <1>11, <1>12, <1>13, <1>14, <1>15, <1>16, <1>17, <1>18, <1>19, <1>20, <1>21 DEF EnqueueStep, ResumeForNewWork, MarkQueued, MarkPushFailed
<1>24. CASE Environment
  BY <1>24, <1>1, <1>2, <1>3, <1>4, <1>5, <1>6, <1>7, <1>8, <1>9, <1>10, <1>11, <1>12, <1>13, <1>14, <1>15, <1>16, <1>17, <1>18, <1>19, <1>20, <1>21 DEF Environment, AbandonEnqueue, RetryDownload, PublishOriginals, CompleteDownload, RemoveArchive, DropRow, EnqueueRequest, PauseNotify, ResumeUpscaling, BeginDrain
<1>25. CASE PauseStep
  BY <1>25, <1>1, <1>2, <1>3, <1>4, <1>5, <1>6, <1>7, <1>8, <1>9, <1>10, <1>11, <1>12, <1>13, <1>14, <1>15, <1>16, <1>17, <1>18, <1>19, <1>20, <1>21 DEF PauseStep, PauseWrite, TimerCancelled, TimerFires, TimerResumes
<1>26. CASE UNCHANGED vars
  BY <1>26, <1>21 DEF vars
<1> QED
  BY <1>22, <1>23, <1>24, <1>25, <1>26 DEF Next

LEMMA RunningStep == Running /\ [Next]_vars => Running'
BY JobShapesStep, WorkerShapesStep, RunningInvStep DEF Running

-----------------------------------------------------------------------------
(* What is shown as worked on: the run settles the row before it gives the *)
(* job back.                                                               *)
ShownInv ==
    /\ progress \in [Downloads -> {"none", "queued", "failed"} \cup Shown \cup Settled]
    /\ \A d \in Downloads : progress[d] \in Shown =>
          \/ wjob \in Jobs /\ wpc # "ack" /\ jobOf[wjob] = d
          \/ wpc \in {"boot_requeue", "boot_mark", "boot_progress"}
    /\ wpc = "settle" => result \in Settled

LEMMA ShownInit == Init => ShownInv
BY BackendIsKnown DEF Init, ShownInv, FirstBootStep

LEMMA ShownInvStep == Running /\ ShownInv /\ [Next]_vars => ShownInv'
<1> SUFFICES ASSUME Running, ShownInv, [Next]_vars PROVE ShownInv'
  OBVIOUS
<1> USE NoneIsFresh, BackendIsKnown DEF Running, JobShapes, WorkerShapes, ShownInv
<1>1. CASE BootRequeue
  BY <1>1 DEF BootRequeue, StoppedByRestart, GivenBack, Mine
<1>2. CASE BootMarkRequeued
  BY <1>2 DEF BootMarkRequeued, Mine
<1>3. CASE BootFailProgress
  BY <1>3 DEF BootFailProgress, InterruptedRows, Mine
<1>4. CASE BootRecover
  BY <1>4 DEF BootRecover, AfterAttempt, Mine
<1>5. ASSUME NEW j \in Jobs, Lease(j) PROVE ShownInv'
  BY <1>5 DEF Lease, Leasable, Mine
<1>6. CASE StopWorker
  BY <1>6 DEF StopWorker, Mine
<1>7. CASE WaitWhilePaused
  BY <1>7 DEF WaitWhilePaused, Show, Mine
<1>8. CASE Proceed
  BY <1>8 DEF Proceed, Mine
<1>9. CASE Start
  BY <1>9 DEF Start, Show, Mine
<1>10. CASE InspectRow
  BY <1>10 DEF InspectRow, SettleOn, Mine
<1>11. CASE OpenArchive
  BY <1>11 DEF OpenArchive, SettleOn, Mine
<1>12. CASE UpscalePages
  BY <1>12 DEF UpscalePages, SettleOn, Mine
<1>13. CASE AppendUpscaled
  BY <1>13 DEF AppendUpscaled, SettleOn, Mine
<1>14. CASE MarkUpscaled
  BY <1>14 DEF MarkUpscaled, SettleOn, Mine
<1>15. CASE Settle
  BY <1>15 DEF Settle, Show, Mine
<1>16. CASE AckDone
  BY <1>16 DEF AckDone, Idle, Mine
<1>17. CASE AckFailed
  BY <1>17 DEF AckFailed, Idle, AfterAttempt, Mine
<1>18. CASE ResumeForNewWork
  BY <1>18 DEF ResumeForNewWork
<1>19. CASE MarkQueued
  BY <1>19 DEF MarkQueued
<1>20. CASE Push
  BY <1>20 DEF Push, Absent
<1>21. CASE PushFails
  BY <1>21 DEF PushFails, Absent
<1>22. CASE MarkPushFailed
  BY <1>22 DEF MarkPushFailed
<1>23. CASE Restart
  BY <1>23 DEF Restart, FirstBootStep
<1>f. ASSUME NEW j \in Jobs, Fetch(j) PROVE ShownInv'
  BY <1>f DEF Fetch, Leasable, Mine
<1>24. CASE UNCHANGED <<jobOf, wpc, wjob, result, progress>>
  BY <1>24
<1>25. CASE WorkerStep
  BY <1>25, <1>f, <1>1, <1>2, <1>3, <1>4, <1>5, <1>6, <1>7, <1>8, <1>9, <1>10, <1>11, <1>12, <1>13, <1>14, <1>15, <1>16, <1>17, <1>18, <1>19, <1>20, <1>21, <1>22, <1>23, <1>24 DEF WorkerStep
<1>26. CASE EnqueueStep
  BY <1>26, <1>1, <1>2, <1>3, <1>4, <1>5, <1>6, <1>7, <1>8, <1>9, <1>10, <1>11, <1>12, <1>13, <1>14, <1>15, <1>16, <1>17, <1>18, <1>19, <1>20, <1>21, <1>22, <1>23, <1>24 DEF EnqueueStep
<1>27. CASE Environment
  BY <1>27, <1>1, <1>2, <1>3, <1>4, <1>5, <1>6, <1>7, <1>8, <1>9, <1>10, <1>11, <1>12, <1>13, <1>14, <1>15, <1>16, <1>17, <1>18, <1>19, <1>20, <1>21, <1>22, <1>23, <1>24 DEF Environment, AbandonEnqueue, RetryDownload, PublishOriginals, CompleteDownload, RemoveArchive, DropRow, EnqueueRequest, PauseNotify, ResumeUpscaling, BeginDrain
<1>28. CASE PauseStep
  BY <1>28, <1>1, <1>2, <1>3, <1>4, <1>5, <1>6, <1>7, <1>8, <1>9, <1>10, <1>11, <1>12, <1>13, <1>14, <1>15, <1>16, <1>17, <1>18, <1>19, <1>20, <1>21, <1>22, <1>23, <1>24 DEF PauseStep, PauseWrite, TimerCancelled, TimerFires, TimerResumes
<1>29. CASE UNCHANGED vars
  BY <1>29, <1>24 DEF vars
<1> QED
  BY <1>25, <1>26, <1>27, <1>28, <1>29 DEF Next

LEMMA ShownImplies == Running /\ ShownInv => ShownWorkIsWorkedOn
BY NoneIsFresh DEF Running, WorkerShapes, ShownInv, ShownWorkIsWorkedOn, Mine

-----------------------------------------------------------------------------
(* The archives: what an archive holds is its last version; a run stages   *)
(* pages of the version it has inspected or of a later one.                *)
ArchiveShapes ==
    /\ file \in [Downloads -> Archives] /\ published \in [Downloads -> Nat]
    /\ seen \in Archives /\ made \in Nat

SectionInv ==
    /\ \A d \in Downloads :
          /\ file[d] = Missing \/ file[d].orig = published[d]
          /\ file[d].orig <= published[d]
          /\ file[d].section \in {0, file[d].orig}
    /\ wpc \in {"pages", "saving"} => 0 < seen.orig /\ seen.orig <= published[jobOf[wjob]]
    /\ wpc = "saving" => seen.orig <= made /\ made <= published[jobOf[wjob]]

LEMMA ArchiveInit == Init => ArchiveShapes /\ SectionInv
<1> SUFFICES ASSUME Init PROVE ArchiveShapes /\ SectionInv
  OBVIOUS
<1>1. wpc \notin {"pages", "saving"}
  BY BackendIsKnown DEF Init, FirstBootStep
<1> QED BY <1>1 DEF Init, ArchiveShapes, Archives, SectionInv, Missing

LEMMA ArchiveShapesStep == Running /\ ArchiveShapes /\ [Next]_vars => ArchiveShapes'
<1> SUFFICES ASSUME Running, ArchiveShapes, [Next]_vars PROVE ArchiveShapes'
  OBVIOUS
<1> USE DEF Running, JobShapes, WorkerShapes, ArchiveShapes, Archives, Missing
<1>1. ASSUME NEW d \in Downloads, PublishOriginals(d) PROVE ArchiveShapes'
  BY <1>1 DEF PublishOriginals
<1>2. ASSUME NEW d \in Downloads, RemoveArchive(d) PROVE ArchiveShapes'
  BY <1>2 DEF RemoveArchive
<1>3. CASE OpenArchive
  BY <1>3 DEF OpenArchive, SettleOn, Mine
<1>4. CASE UpscalePages
  BY <1>4 DEF UpscalePages, SettleOn, Mine
<1>5. CASE AppendUpscaled
  BY <1>5 DEF AppendUpscaled, SettleOn, Mine
<1>6. CASE AckDone
  BY <1>6 DEF AckDone, Idle, Mine
<1>7. CASE AckFailed
  BY <1>7 DEF AckFailed, Idle, AfterAttempt, Mine
<1>8. CASE Restart
  BY <1>8 DEF Restart, FirstBootStep
<1>9. CASE UNCHANGED <<file, published, seen, made>>
  BY <1>9
<1>10. CASE WorkerStep
  BY <1>10, <1>1, <1>2, <1>3, <1>4, <1>5, <1>6, <1>7, <1>8, <1>9 DEF WorkerStep, Fetch, BootRequeue, BootMarkRequeued, BootFailProgress, BootRecover, Lease, StopWorker, WaitWhilePaused, Proceed, Start, InspectRow, MarkUpscaled, Settle
<1>11. CASE EnqueueStep
  BY <1>11, <1>1, <1>2, <1>3, <1>4, <1>5, <1>6, <1>7, <1>8, <1>9 DEF EnqueueStep, ResumeForNewWork, MarkQueued, Push, PushFails, MarkPushFailed
<1>12. CASE Environment
  BY <1>12, <1>1, <1>2, <1>3, <1>4, <1>5, <1>6, <1>7, <1>8, <1>9 DEF Environment, AbandonEnqueue, RetryDownload, CompleteDownload, DropRow, EnqueueRequest, PauseNotify, ResumeUpscaling, BeginDrain
<1>13. CASE PauseStep
  BY <1>13, <1>1, <1>2, <1>3, <1>4, <1>5, <1>6, <1>7, <1>8, <1>9 DEF PauseStep, PauseWrite, TimerCancelled, TimerFires, TimerResumes
<1>14. CASE UNCHANGED vars
  BY <1>14, <1>9 DEF vars
<1> QED
  BY <1>10, <1>11, <1>12, <1>13, <1>14 DEF Next

LEMMA SectionInvStep == Running /\ ArchiveShapes /\ SectionInv /\ [Next]_vars => SectionInv'
<1> SUFFICES ASSUME Running, ArchiveShapes, SectionInv, [Next]_vars PROVE SectionInv'
  OBVIOUS
<1> USE DEF Running, JobShapes, WorkerShapes, ArchiveShapes, Archives, Missing, SectionInv
<1>1. ASSUME NEW d \in Downloads, PublishOriginals(d) PROVE SectionInv'
  BY <1>1 DEF PublishOriginals
<1>2. ASSUME NEW d \in Downloads, RemoveArchive(d) PROVE SectionInv'
  BY <1>2 DEF RemoveArchive
<1>3. CASE BootRequeue
  BY <1>3 DEF BootRequeue, StoppedByRestart, GivenBack, Mine
<1>4. CASE BootMarkRequeued
  BY <1>4 DEF BootMarkRequeued, Mine
<1>5. CASE BootFailProgress
  BY <1>5 DEF BootFailProgress, InterruptedRows, Mine
<1>6. CASE BootRecover
  BY <1>6 DEF BootRecover, AfterAttempt, Mine
<1>7. ASSUME NEW j \in Jobs, Lease(j) PROVE SectionInv'
  BY <1>7 DEF Lease, Leasable, Mine
<1>8. CASE StopWorker
  BY <1>8 DEF StopWorker, Mine
<1>9. CASE WaitWhilePaused
  BY <1>9 DEF WaitWhilePaused, Show, Mine
<1>10. CASE Proceed
  BY <1>10 DEF Proceed, Mine
<1>11. CASE Start
  BY <1>11 DEF Start, Show, Mine
<1>12. CASE InspectRow
  BY <1>12 DEF InspectRow, SettleOn, Mine
<1>13. CASE OpenArchive
  BY <1>13 DEF OpenArchive, SettleOn, Mine
<1>14. CASE UpscalePages
  BY <1>14 DEF UpscalePages, SettleOn, Mine
<1>15. CASE AppendUpscaled
  BY <1>15 DEF AppendUpscaled, SettleOn, Mine
<1>16. CASE MarkUpscaled
  BY <1>16 DEF MarkUpscaled, SettleOn, Mine
<1>17. CASE Settle
  BY <1>17 DEF Settle, Show, Mine
<1>18. CASE AckDone
  BY <1>18 DEF AckDone, Idle, Mine
<1>19. CASE AckFailed
  BY <1>19 DEF AckFailed, Idle, AfterAttempt, Mine
<1>20. CASE Push
  BY <1>20 DEF Push, Absent
<1>21. CASE PushFails
  BY <1>21 DEF PushFails, Absent
<1>22. CASE Restart
  BY <1>22 DEF Restart, FirstBootStep
<1>f. ASSUME NEW j \in Jobs, Fetch(j) PROVE SectionInv'
  BY <1>f DEF Fetch, Leasable, Mine
<1>23. CASE UNCHANGED <<file, published, seen, made, wpc, wjob, jobOf>>
  BY <1>23
<1>24. CASE WorkerStep
  BY <1>24, <1>f, <1>1, <1>2, <1>3, <1>4, <1>5, <1>6, <1>7, <1>8, <1>9, <1>10, <1>11, <1>12, <1>13, <1>14, <1>15, <1>16, <1>17, <1>18, <1>19, <1>20, <1>21, <1>22, <1>23 DEF WorkerStep
<1>25. CASE EnqueueStep
  BY <1>25, <1>1, <1>2, <1>3, <1>4, <1>5, <1>6, <1>7, <1>8, <1>9, <1>10, <1>11, <1>12, <1>13, <1>14, <1>15, <1>16, <1>17, <1>18, <1>19, <1>20, <1>21, <1>22, <1>23 DEF EnqueueStep, ResumeForNewWork, MarkQueued, MarkPushFailed
<1>26. CASE Environment
  BY <1>26, <1>1, <1>2, <1>3, <1>4, <1>5, <1>6, <1>7, <1>8, <1>9, <1>10, <1>11, <1>12, <1>13, <1>14, <1>15, <1>16, <1>17, <1>18, <1>19, <1>20, <1>21, <1>22, <1>23 DEF Environment, AbandonEnqueue, RetryDownload, CompleteDownload, DropRow, EnqueueRequest, PauseNotify, ResumeUpscaling, BeginDrain
<1>27. CASE PauseStep
  BY <1>27, <1>1, <1>2, <1>3, <1>4, <1>5, <1>6, <1>7, <1>8, <1>9, <1>10, <1>11, <1>12, <1>13, <1>14, <1>15, <1>16, <1>17, <1>18, <1>19, <1>20, <1>21, <1>22, <1>23 DEF PauseStep, PauseWrite, TimerCancelled, TimerFires, TimerResumes
<1>28. CASE UNCHANGED vars
  BY <1>28, <1>23 DEF vars
<1> QED
  BY <1>24, <1>25, <1>26, <1>27, <1>28 DEF Next

LEMMA SectionImplies == SectionInv => SectionMatchesOriginals
BY DEF SectionInv, SectionMatchesOriginals

-----------------------------------------------------------------------------
(* The attempts: SQLite charges one with the lease, Postgres with the      *)
(* acknowledgement, and only an attempt that was cut short is given back.  *)
ChargeShapes ==
    /\ attempts \in [Jobs -> Nat] /\ tries \in [Jobs -> Nat] /\ refunds \in [Jobs -> Nat]
    /\ cutShort \in SUBSET Jobs

Charged(j) ==
    /\ tries[j] <= attempts[j] + refunds[j] /\ attempts[j] <= MaxAttempts
    /\ jobStatus[j] = "failed" => attempts[j] = MaxAttempts
    /\ jobStatus[j] \in {"absent", "pending", "fetched", "retryable"} => attempts[j] < MaxAttempts
    /\ Backend = "sqlite" =>
          /\ jobStatus[j] = "running" => tries[j] < attempts[j] + refunds[j]
          /\ jobStatus[j] \notin {"fetched", "retryable"} /\ j \notin cutShort
    /\ Backend = "postgres" =>
          /\ jobStatus[j] = "running" => attempts[j] < MaxAttempts
          /\ jobStatus[j] \in {"retryable", "failed"} /\ j \in cutShort =>
                tries[j] < attempts[j] + refunds[j]

ChargeInv == \A j \in Jobs : Charged(j)

LEMMA ChargeInit == Init => ChargeShapes /\ ChargeInv
BY BackendIsKnown, SomeAttempt DEF Init, ChargeShapes, ChargeInv, Charged

LEMMA ChargeShapesStep == Running /\ ChargeShapes /\ [Next]_vars => ChargeShapes'
<1> SUFFICES ASSUME Running, ChargeShapes, [Next]_vars PROVE ChargeShapes'
  OBVIOUS
<1> USE DEF Running, JobShapes, WorkerShapes, ChargeShapes
<1>1. CASE BootRequeue
  BY <1>1 DEF BootRequeue, StoppedByRestart, GivenBack, Mine
<1>2. ASSUME NEW j \in Jobs, Lease(j) PROVE ChargeShapes'
  BY <1>2 DEF Lease, Leasable, Mine
<1>3. CASE AckDone
  BY <1>3 DEF AckDone, Idle, Mine
<1>4. CASE AckFailed
  BY <1>4 DEF AckFailed, Idle, AfterAttempt, Mine
<1>5. CASE UNCHANGED <<attempts, tries, refunds, cutShort>>
  BY <1>5
<1>6. CASE WorkerStep
  BY <1>6, <1>1, <1>2, <1>3, <1>4, <1>5 DEF WorkerStep, Fetch, BootMarkRequeued, BootFailProgress, BootRecover, StopWorker, WaitWhilePaused, Proceed, Start, InspectRow, OpenArchive, UpscalePages, AppendUpscaled, MarkUpscaled, Settle
<1>7. CASE EnqueueStep
  BY <1>7, <1>1, <1>2, <1>3, <1>4, <1>5 DEF EnqueueStep, ResumeForNewWork, MarkQueued, Push, PushFails, MarkPushFailed
<1>8. CASE Environment
  BY <1>8, <1>1, <1>2, <1>3, <1>4, <1>5 DEF Environment, AbandonEnqueue, RetryDownload, PublishOriginals, CompleteDownload, RemoveArchive, DropRow, EnqueueRequest, PauseNotify, ResumeUpscaling, BeginDrain, Restart
<1>9. CASE PauseStep
  BY <1>9, <1>1, <1>2, <1>3, <1>4, <1>5 DEF PauseStep, PauseWrite, TimerCancelled, TimerFires, TimerResumes
<1>10. CASE UNCHANGED vars
  BY <1>10, <1>5 DEF vars
<1> QED
  BY <1>6, <1>7, <1>8, <1>9, <1>10 DEF Next

(* The run failed, or was cut short by the drain.                          *)
LEMMA AckFailedCharges ==
    ASSUME Running, ChargeShapes, ChargeInv, AckFailed
    PROVE  ChargeInv'
<1>1. wjob \in Jobs /\ jobStatus[wjob] = "running"
  BY DEF AckFailed, Running, WorkerShapes
<1>2. jobStatus \in [Jobs -> {"absent", "pending", "fetched", "running", "retryable",
                            "completed", "failed"}]
  BY DEF Running, JobShapes
<1>3. tries' = [tries EXCEPT ![wjob] = IF cause = "error" THEN @ + 1 ELSE @]
  BY DEF AckFailed
<1>4. /\ \A j \in Jobs : j # wjob => tries'[j] = tries[j]
      /\ tries'[wjob] \in {tries[wjob], tries[wjob] + 1}
      /\ cause = "shutdown" => tries'[wjob] = tries[wjob]
  BY <1>1, <1>3 DEF ChargeShapes
<1>5. attempts[wjob] \in Nat /\ tries[wjob] \in Nat /\ refunds[wjob] \in Nat /\ MaxAttempts \in Nat
  BY <1>1, SomeAttempt DEF ChargeShapes
<1>6. CASE Backend = "sqlite"
  <2>1. jobStatus' = [jobStatus EXCEPT ![wjob] = AfterAttempt(wjob)] /\ UNCHANGED <<attempts, cutShort, refunds>>
    BY <1>6 DEF AckFailed
  <2>2. ASSUME NEW j \in Jobs, j # wjob PROVE Charged(j)'
    BY <1>2, <1>4, <2>1, <2>2 DEF Charged, ChargeInv
  <2>3. jobStatus'[wjob] = IF attempts[wjob] < MaxAttempts THEN "pending" ELSE "failed"
    BY <1>1, <1>2, <2>1 DEF AfterAttempt
  <2>4. ASSUME NEW j \in Jobs, j = wjob PROVE Charged(j)'
    BY <1>1, <1>4, <1>5, <1>6, <2>1, <2>3, <2>4 DEF Charged, ChargeInv
  <2> QED BY <2>2, <2>4 DEF ChargeInv
<1>7. CASE Backend = "postgres"
  <2>1. /\ attempts' = [attempts EXCEPT ![wjob] = @ + 1]
        /\ jobStatus' = [jobStatus EXCEPT ![wjob] =
                            IF attempts[wjob] + 1 < MaxAttempts THEN "retryable" ELSE "failed"]
        /\ cutShort' = IF cause = "shutdown" THEN cutShort \cup {wjob} ELSE cutShort \ {wjob}
        /\ refunds' = refunds
    BY <1>7 DEF AckFailed
  <2>2. ASSUME NEW j \in Jobs, j # wjob PROVE Charged(j)'
    <3>1. attempts'[j] = attempts[j] /\ refunds'[j] = refunds[j] /\ jobStatus'[j] = jobStatus[j] /\ tries'[j] = tries[j]
      BY <1>2, <1>4, <2>1, <2>2 DEF ChargeShapes
    <3>2. j \in cutShort' <=> j \in cutShort
      BY <2>1, <2>2
    <3> QED BY <3>1, <3>2 DEF Charged, ChargeInv
  <2>3. /\ attempts'[wjob] = attempts[wjob] + 1 /\ refunds'[wjob] = refunds[wjob]
        /\ jobStatus'[wjob] = IF attempts[wjob] + 1 < MaxAttempts THEN "retryable" ELSE "failed"
    BY <1>1, <1>2, <2>1 DEF ChargeShapes
  <2>4. wjob \in cutShort' => cause = "shutdown"
    BY <2>1
  <2>5. attempts[wjob] < MaxAttempts /\ tries[wjob] <= attempts[wjob] + refunds[wjob]
    BY <1>1, <1>7 DEF Charged, ChargeInv
  <2>6. ASSUME NEW j \in Jobs, j = wjob PROVE Charged(j)'
    BY <1>4, <1>5, <1>7, <2>3, <2>4, <2>5, <2>6 DEF Charged
  <2> QED BY <2>2, <2>6 DEF ChargeInv
<1> QED BY <1>6, <1>7, BackendIsKnown

LEMMA ChargeInvStep == Running /\ ChargeShapes /\ ChargeInv /\ [Next]_vars => ChargeInv'
<1> SUFFICES ASSUME Running, ChargeShapes, ChargeInv, [Next]_vars PROVE ChargeInv'
  OBVIOUS
<1> USE BackendIsKnown, SomeAttempt DEF Running, JobShapes, WorkerShapes, ChargeShapes, ChargeInv, Charged
<1>1. CASE BootRequeue
  <2>1. Backend = "postgres"
    BY <1>1 DEF BootRequeue, RunningInv
  <2> TAKE j \in Jobs
  <2>2. CASE StoppedByRestart(j)
    BY <1>1, <2>1, <2>2 DEF BootRequeue, StoppedByRestart, GivenBack
  <2>3. CASE ~StoppedByRestart(j)
    BY <1>1, <2>1, <2>3 DEF BootRequeue, GivenBack
  <2> QED BY <2>2, <2>3
<1>2. CASE BootRecover
  BY <1>2 DEF BootRecover, AfterAttempt, Mine
<1>3. ASSUME NEW j \in Jobs, Lease(j) PROVE ChargeInv'
  BY <1>3 DEF Lease, Leasable, Mine
<1>4. CASE AckDone
  BY <1>4 DEF AckDone, Idle, Mine
<1>5. CASE AckFailed
  BY <1>5, AckFailedCharges
<1>6. CASE Push
  BY <1>6 DEF Push, Absent
<1>7. CASE PushFails
  BY <1>7 DEF PushFails, Absent
<1>f. ASSUME NEW j \in Jobs, Fetch(j) PROVE ChargeInv'
  BY <1>f DEF Fetch, Leasable, Mine
<1>8. CASE UNCHANGED <<attempts, tries, refunds, cutShort, jobStatus>>
  BY <1>8
<1>9. CASE WorkerStep
  BY <1>9, <1>f, <1>1, <1>2, <1>3, <1>4, <1>5, <1>6, <1>7, <1>8 DEF WorkerStep, BootMarkRequeued, BootFailProgress, StopWorker, WaitWhilePaused, Proceed, Start, InspectRow, OpenArchive, UpscalePages, AppendUpscaled, MarkUpscaled, Settle
<1>10. CASE EnqueueStep
  BY <1>10, <1>1, <1>2, <1>3, <1>4, <1>5, <1>6, <1>7, <1>8 DEF EnqueueStep, ResumeForNewWork, MarkQueued, MarkPushFailed
<1>11. CASE Environment
  BY <1>11, <1>1, <1>2, <1>3, <1>4, <1>5, <1>6, <1>7, <1>8 DEF Environment, AbandonEnqueue, RetryDownload, PublishOriginals, CompleteDownload, RemoveArchive, DropRow, EnqueueRequest, PauseNotify, ResumeUpscaling, BeginDrain, Restart
<1>12. CASE PauseStep
  BY <1>12, <1>1, <1>2, <1>3, <1>4, <1>5, <1>6, <1>7, <1>8 DEF PauseStep, PauseWrite, TimerCancelled, TimerFires, TimerResumes
<1>13. CASE UNCHANGED vars
  BY <1>13, <1>8 DEF vars
<1> QED
  BY <1>9, <1>10, <1>11, <1>12, <1>13 DEF Next

LEMMA ChargeImplies == ChargeInv => FailuresAreCharged
BY DEF ChargeInv, Charged, FailuresAreCharged

-----------------------------------------------------------------------------
(* Queued rows, on Postgres: there is a job that has not been settled, or  *)
(* an enqueue between its row and its job.                                 *)
JobFor(d) ==
    \E j \in Jobs : /\ jobOf[j] = d /\ jobStatus[j] \in {"pending", "fetched", "retryable", "running"}
                    /\ wpc = "ack" => j # wjob

QueuedInv ==
    /\ \A d \in Downloads : progress[d] = "queued" =>
          JobFor(d) \/ (epc \in {"push", "mark_failed"} /\ erow = d) \/ d \in orphaned
    /\ wpc = "boot_mark" =>
          \A d \in requeued : \E j \in Jobs : jobOf[j] = d /\ jobStatus[j] = "pending"

LEMMA QueuedInit == Init => QueuedInv
BY BackendIsKnown DEF Init, QueuedInv, FirstBootStep

LEMMA QueuedInvStep == Backend = "postgres" /\ Running /\ ShownInv /\ QueuedInv /\ [Next]_vars => QueuedInv'
<1> SUFFICES ASSUME Backend = "postgres", Running, ShownInv, QueuedInv, [Next]_vars PROVE QueuedInv'
  OBVIOUS
<1> USE NoneIsFresh DEF Running, JobShapes, WorkerShapes, RunningInv, ShownInv, QueuedInv, JobFor
<1>1. CASE BootRequeue
  BY <1>1 DEF BootRequeue, StoppedByRestart, GivenBack, Mine
<1>2. CASE BootMarkRequeued
  BY <1>2 DEF BootMarkRequeued, Mine
<1>3. CASE BootFailProgress
  BY <1>3 DEF BootFailProgress, InterruptedRows, Mine
<1>4. CASE BootRecover
  BY <1>4 DEF BootRecover, AfterAttempt, Mine
<1>5. ASSUME NEW j \in Jobs, Lease(j) PROVE QueuedInv'
  BY <1>5 DEF Lease, Leasable, Mine
<1>6. CASE StopWorker
  BY <1>6 DEF StopWorker, Mine
<1>7. CASE WaitWhilePaused
  BY <1>7 DEF WaitWhilePaused, Show, Mine
<1>8. CASE Proceed
  BY <1>8 DEF Proceed, Mine
<1>9. CASE Start
  BY <1>9 DEF Start, Show, Mine
<1>10. CASE InspectRow
  BY <1>10 DEF InspectRow, SettleOn, Mine
<1>11. CASE OpenArchive
  BY <1>11 DEF OpenArchive, SettleOn, Mine
<1>12. CASE UpscalePages
  BY <1>12 DEF UpscalePages, SettleOn, Mine
<1>13. CASE AppendUpscaled
  BY <1>13 DEF AppendUpscaled, SettleOn, Mine
<1>14. CASE MarkUpscaled
  BY <1>14 DEF MarkUpscaled, SettleOn, Mine
<1>15. CASE Settle
  BY <1>15 DEF Settle, Show, Mine
<1>16. CASE AckDone
  BY <1>16 DEF AckDone, Idle, Mine
<1>17. CASE AckFailed
  BY <1>17 DEF AckFailed, Idle, AfterAttempt, Mine
<1>18. CASE ResumeForNewWork
  BY <1>18 DEF ResumeForNewWork
<1>19. CASE MarkQueued
  BY <1>19 DEF MarkQueued
<1>20. CASE Push
  BY <1>20 DEF Push, Absent
<1>21. CASE PushFails
  BY <1>21 DEF PushFails, Absent
<1>22. CASE MarkPushFailed
  BY <1>22 DEF MarkPushFailed
<1>23. ASSUME NEW d \in Downloads, CompleteDownload(d) PROVE QueuedInv'
  BY <1>23 DEF CompleteDownload
<1>24. ASSUME NEW d \in Downloads, EnqueueRequest(d) PROVE QueuedInv'
  BY <1>24 DEF EnqueueRequest
<1>25. CASE Restart
  BY <1>25 DEF Restart, FirstBootStep
<1>f. ASSUME NEW j \in Jobs, Fetch(j) PROVE QueuedInv'
  BY <1>f DEF Fetch, Leasable, Mine
<1>a. CASE AbandonEnqueue
  BY <1>a DEF AbandonEnqueue
<1>26. CASE UNCHANGED <<jobStatus, jobOf, wpc, wjob, progress, requeued, epc, erow, orphaned>>
  BY <1>26
<1>27. CASE WorkerStep
  BY <1>27, <1>f, <1>1, <1>2, <1>3, <1>4, <1>5, <1>6, <1>7, <1>8, <1>9, <1>10, <1>11, <1>12, <1>13, <1>14, <1>15, <1>16, <1>17, <1>18, <1>19, <1>20, <1>21, <1>22, <1>23, <1>24, <1>25, <1>26 DEF WorkerStep
<1>28. CASE EnqueueStep
  BY <1>28, <1>1, <1>2, <1>3, <1>4, <1>5, <1>6, <1>7, <1>8, <1>9, <1>10, <1>11, <1>12, <1>13, <1>14, <1>15, <1>16, <1>17, <1>18, <1>19, <1>20, <1>21, <1>22, <1>23, <1>24, <1>25, <1>26 DEF EnqueueStep
<1>29. CASE Environment
  BY <1>29, <1>a, <1>1, <1>2, <1>3, <1>4, <1>5, <1>6, <1>7, <1>8, <1>9, <1>10, <1>11, <1>12, <1>13, <1>14, <1>15, <1>16, <1>17, <1>18, <1>19, <1>20, <1>21, <1>22, <1>23, <1>24, <1>25, <1>26 DEF Environment, RetryDownload, PublishOriginals, RemoveArchive, DropRow, PauseNotify, ResumeUpscaling, BeginDrain
<1>30. CASE PauseStep
  BY <1>30, <1>1, <1>2, <1>3, <1>4, <1>5, <1>6, <1>7, <1>8, <1>9, <1>10, <1>11, <1>12, <1>13, <1>14, <1>15, <1>16, <1>17, <1>18, <1>19, <1>20, <1>21, <1>22, <1>23, <1>24, <1>25, <1>26 DEF PauseStep, PauseWrite, TimerCancelled, TimerFires, TimerResumes
<1>31. CASE UNCHANGED vars
  BY <1>31, <1>26 DEF vars
<1> QED
  BY <1>27, <1>28, <1>29, <1>30, <1>31 DEF Next

LEMMA QueuedImplies == QueuedInv => QueuedHasJob
BY DEF QueuedInv, JobFor, QueuedHasJob, Leasable

-----------------------------------------------------------------------------
(* The theorems.                                                           *)

LEMMA RunningImplies == Running => RunningJobHasWorker
BY DEF Running, RunningInv, RunningJobHasWorker

(* No job stays leased to a process that is gone, on either database       *)
(* (recover_interrupted_background_jobs, server/src/jobs.rs).              *)
THEOREM RunningJobsAreHeld == Spec => []RunningJobHasWorker
<1> DEFINE IInv == Running
<1>1. Init => IInv
  BY RunningInit
<1>2. IInv /\ [Next]_vars => IInv'
  BY RunningStep
<1>3. IInv => RunningJobHasWorker
  BY RunningImplies
<1> QED BY <1>1, <1>2, <1>3, PTL DEF Spec

(* A row that says "running" or "paused" is the worker's, or the startup   *)
(* will correct it (fail_interrupted_upscale_progress).                    *)
THEOREM ShownWorkIsReal == Spec => []ShownWorkIsWorkedOn
<1> DEFINE IInv == Running /\ ShownInv
<1>1. Init => IInv
  BY RunningInit, ShownInit
<1>2. IInv /\ [Next]_vars => IInv'
  BY RunningStep, ShownInvStep
<1>3. IInv => ShownWorkIsWorkedOn
  BY ShownImplies
<1> QED BY <1>1, <1>2, <1>3, PTL DEF Spec

(* No archive ever holds upscaled pages of other originals than its own,   *)
(* however downloads, removals and runs interleave (append_upscaled).      *)
THEOREM SectionsMatch == Spec => []SectionMatchesOriginals
<1> DEFINE IInv == Running /\ ArchiveShapes /\ SectionInv
<1>1. Init => IInv
  BY RunningInit, ArchiveInit
<1>2. IInv /\ [Next]_vars => IInv'
  BY RunningStep, ArchiveShapesStep, SectionInvStep
<1>3. IInv => SectionMatchesOriginals
  BY SectionImplies
<1> QED BY <1>1, <1>2, <1>3, PTL DEF Spec

(* A failure costs an attempt, and a restart gives one of those back only  *)
(* to a job it finds fetched and not begun; a job is given up when all are *)
(* spent (fail_background_job, requeue_upscale_jobs_a_restart_stopped).    *)
THEOREM FailuresAreCountedOnce == Spec => []FailuresAreCharged
<1> DEFINE IInv == Running /\ ChargeShapes /\ ChargeInv
<1>1. Init => IInv
  BY RunningInit, ChargeInit
<1>2. IInv /\ [Next]_vars => IInv'
  BY RunningStep, ChargeShapesStep, ChargeInvStep
<1>3. IInv => FailuresAreCharged
  BY ChargeImplies
<1> QED BY <1>1, <1>2, <1>3, PTL DEF Spec

(* On Postgres a row that says "queued" has a job that will run, an        *)
(* enqueue on its way, or one that ended between the row and the job: by a *)
(* restart, a client that left or a correction that failed                 *)
(* (enqueue_upscale, queue_requeued_upscale_progress).                     *)
THEOREM QueuedRowsHaveJobs == Backend = "postgres" => (Spec => []QueuedHasJob)
<1> SUFFICES ASSUME Backend = "postgres" PROVE Spec => []QueuedHasJob
  OBVIOUS
<1> DEFINE IInv == Running /\ ShownInv /\ QueuedInv
<1>1. Init => IInv
  BY RunningInit, ShownInit, QueuedInit
<1>2. IInv /\ [Next]_vars => IInv'
  BY RunningStep, ShownInvStep, QueuedInvStep
<1>3. IInv => QueuedHasJob
  BY QueuedImplies
<1> QED BY <1>1, <1>2, <1>3, PTL DEF Spec
=============================================================================
