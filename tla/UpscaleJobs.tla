---------------------------- MODULE UpscaleJobs ----------------------------
(***************************************************************************)
(* The durable upscale queue: the jobs of one queue, the progress row of   *)
(* each download, the single worker that runs one chapter at a time, the   *)
(* pause switch with its auto-resume timer, and restarts.                  *)
(*                                                                         *)
(* On SQLite the queue is the background_jobs table and is all the         *)
(* server's own code.  On Postgres it is apalis.jobs: leasing and          *)
(* acknowledging are the library's, the recovery at startup is the         *)
(* server's.  One step is one await point: a database statement, a file    *)
(* operation under its lock, or a look at the drain flag.                  *)
(***************************************************************************)
EXTENDS Naturals, Sequences, FiniteSets

CONSTANTS
    Backend,      \* "sqlite" or "postgres"
    Downloads,    \* downloads, each with its own archive
    Jobs,         \* job identities
    MaxAttempts,  \* DEFAULT_MAX_ATTEMPTS
    AutoResume,   \* upscale_auto_resume_minutes is set
    MaxVersions,  \* bound: downloads of one chapter
    MaxRestarts,  \* bound: restarts
    MaxPauses,    \* bound: pause and resume requests
    None

ASSUME BackendIsKnown == Backend \in {"sqlite", "postgres"}
ASSUME SomeAttempt == MaxAttempts \in Nat \ {0}
ASSUME NoneIsFresh == None \notin Jobs \cup Downloads
ASSUME AutoResumeIsBoolean == AutoResume \in BOOLEAN

VARIABLES
    (* the database *)
    jobStatus,    \* "fetched" is apalis' Queued under the worker's lock,
                  \* "retryable" its Failed, "failed" its Killed
    attempts,     \* attempt_count
    jobOf,        \* the download in the payload
    queue,        \* SQLite: pending jobs by run_after
    cutShort,     \* Postgres: the jobs whose last_result is SHUTDOWN_INTERRUPTION
    progress,     \* upscale_progress.status, "none" without a row
    row,          \* the download's status as far as a job looks at it
    upscaledAt,   \* downloads.upscaled_at is set
    paused,       \* the upscale_paused setting
    (* the disk: which originals the archive holds, and which originals *)
    (* its upscaled section was made from; 0 is none *)
    file,
    (* the process *)
    wpc, wjob,    \* the worker: where it is and the job it leased
    seen,         \* the archive it inspected (footer hash)
    made,         \* the originals its staged pages were made from
    result,       \* the progress status the run settles on
    cause,        \* why the run failed
    requeued,     \* downloads whose jobs the startup requeued
    epc, erow, eby,  \* the enqueue: its place, row, and who waits for it
    ppc,          \* the pause request
    timer, permit,   \* the auto-resume task; Notify's stored permit
    draining,     \* ShutdownDrain
    (* history and bounds *)
    tries,        \* attempts that ended in a failure of their own
    refunds,      \* attempts a startup gave back to a job nobody had begun
    orphaned,     \* downloads whose last enqueue ended between row and job
    published,    \* how often each archive was published
    restarts, pauses

jobVars == <<jobStatus, attempts, jobOf, queue, cutShort, tries, refunds>>
rowVars == <<row, upscaledAt>>
diskVars == <<file, published>>
runVars == <<seen, made, result, cause>>
workerVars == <<wpc, wjob, seen, made, result, cause, requeued>>
enqueueVars == <<epc, erow, eby, orphaned>>
pauseVars == <<paused, ppc, timer, permit, pauses>>
lifeVars == <<draining, restarts>>
vars == <<jobStatus, attempts, jobOf, queue, cutShort, tries, refunds, progress, row,
          upscaledAt, file, published, wpc, wjob, seen, made, result, cause, requeued, epc,
          erow, eby, orphaned, paused, ppc, timer, permit, pauses,
          draining, restarts>>

Missing == [orig |-> 0, section |-> 0]
Absent == {j \in Jobs : jobStatus[j] = "absent"}
Leasable(j) == jobStatus[j] \in {"pending", "retryable"}

BootSteps == {"boot_requeue", "boot_mark", "boot_progress", "boot_jobs"}
RunSteps == {"leased", "waiting", "starting", "inspect", "open", "pages",
             "saving", "appended", "settle", "ack"}
FirstBootStep == IF Backend = "sqlite" THEN "boot_progress" ELSE "boot_requeue"

Init ==
    /\ jobStatus = [j \in Jobs |-> "absent"]
    /\ attempts = [j \in Jobs |-> 0]
    /\ jobOf = [j \in Jobs |-> None]
    /\ queue = <<>>
    /\ cutShort = {}
    /\ tries = [j \in Jobs |-> 0]
    /\ refunds = [j \in Jobs |-> 0]
    /\ progress = [d \in Downloads |-> "none"]
    /\ row = [d \in Downloads |-> "working"]
    /\ upscaledAt = [d \in Downloads |-> FALSE]
    /\ file = [d \in Downloads |-> Missing]
    /\ published = [d \in Downloads |-> 0]
    /\ wpc = FirstBootStep
    /\ wjob = None
    /\ seen = Missing
    /\ made = 0
    /\ result = "none"
    /\ cause = "none"
    /\ requeued = {}
    /\ epc = "idle"
    /\ erow = None
    /\ eby = "none"
    /\ orphaned = {}
    /\ paused = TRUE
    /\ ppc = "idle"
    /\ timer = IF AutoResume THEN "armed" ELSE "off"
    /\ permit = FALSE
    /\ pauses = 0
    /\ draining = FALSE
    /\ restarts = 0

-----------------------------------------------------------------------------
(* The download and its archive.                                           *)

(* retry_work_record takes any row back to work; upscaled_at stays.        *)
RetryDownload(d) ==
    /\ row[d] = "completed"
    /\ row' = [row EXCEPT ![d] = "working"]
    /\ UNCHANGED <<jobVars, progress, upscaledAt, diskVars, workerVars, enqueueVars,
                   pauseVars, lifeVars>>

(* A working download replaces the archive: fresh originals, no section.   *)
PublishOriginals(d) ==
    /\ row[d] = "working"
    /\ published[d] < MaxVersions
    /\ published' = [published EXCEPT ![d] = @ + 1]
    /\ file' = [file EXCEPT ![d] = [orig |-> published[d] + 1, section |-> 0]]
    /\ UNCHANGED <<jobVars, progress, rowVars, workerVars, enqueueVars,
                   pauseVars, lifeVars>>

(* An enqueue runs inline in the route's handler, or in a download worker. *)
BeginEnqueue(d, who) == epc' = "resume" /\ erow' = d /\ eby' = who

(* downloaded_archive_created: the row completes and, when the series is   *)
(* upscaled automatically, the download worker enqueues a job.             *)
CompleteDownload(d) ==
    /\ row[d] = "working"
    /\ file[d] # Missing
    /\ row' = [row EXCEPT ![d] = "completed"]
    /\ \/ UNCHANGED <<epc, erow, eby>>
       \/ epc = "idle" /\ Absent # {} /\ BeginEnqueue(d, "worker")
    /\ UNCHANGED <<jobVars, progress, upscaledAt, diskVars, workerVars, orphaned,
                   pauseVars, lifeVars>>

(* downloaded_archive_deleted, up to the row; remove_from_library deletes  *)
(* the row and keeps the file.                                             *)
RemoveArchive(d) ==
    /\ row[d] = "completed"
    /\ file' = [file EXCEPT ![d] = Missing]
    /\ UNCHANGED <<published, jobVars, progress, rowVars, workerVars, enqueueVars,
                   pauseVars, lifeVars>>

DropRow(d) ==
    /\ row[d] = "completed"
    /\ row' = [row EXCEPT ![d] = "deleted"]
    /\ UNCHANGED <<jobVars, progress, upscaledAt, diskVars, workerVars, enqueueVars,
                   pauseVars, lifeVars>>

-----------------------------------------------------------------------------
(* enqueue_upscale: three statements and the push.                         *)

EnqueueAt(place) == epc' = place
EnqueueEnds == EnqueueAt("idle") /\ erow' = None /\ eby' = "none"

(* The upscale route wants a completed download with its archive.          *)
EnqueueRequest(d) ==
    /\ epc = "idle"
    /\ Absent # {}
    /\ row[d] = "completed"
    /\ file[d] # Missing
    /\ BeginEnqueue(d, "route")
    /\ UNCHANGED <<jobVars, progress, rowVars, diskVars, workerVars, orphaned,
                   pauseVars, lifeVars>>

ResumeForNewWork ==
    /\ epc = "resume"
    /\ paused' = FALSE
    /\ EnqueueAt("mark")
    /\ UNCHANGED <<jobVars, progress, rowVars, diskVars, workerVars, erow, eby, orphaned,
                   ppc, timer, permit, pauses, lifeVars>>

MarkQueued ==
    /\ epc = "mark"
    /\ progress' = [progress EXCEPT ![erow] = "queued"]
    /\ orphaned' = orphaned \ {erow}
    /\ EnqueueAt("push")
    /\ UNCHANGED <<jobVars, rowVars, diskVars, workerVars, erow, eby, pauseVars,
                   lifeVars>>

Push ==
    /\ epc = "push"
    /\ \E j \in Absent :
          /\ jobStatus' = [jobStatus EXCEPT ![j] = "pending"]
          /\ jobOf' = [jobOf EXCEPT ![j] = erow]
          /\ queue' = IF Backend = "sqlite" THEN Append(queue, j) ELSE queue
    /\ EnqueueEnds
    /\ UNCHANGED <<attempts, cutShort, tries, refunds, progress, rowVars, diskVars, workerVars,
                   orphaned, pauseVars, lifeVars>>

(* A slip: the error is returned with the row still "queued".              *)
PushFailsSilently ==
    /\ epc = "push"
    /\ EnqueueEnds
    /\ UNCHANGED <<jobVars, progress, rowVars, diskVars, workerVars, orphaned,
                   pauseVars, lifeVars>>

(* On Postgres the job is there already when setting its priority fails.   *)
PushFails ==
    /\ epc = "push"
    /\ \/ UNCHANGED <<jobStatus, jobOf>>
       \/ /\ Backend = "postgres"
          /\ \E j \in Absent :
                /\ jobStatus' = [jobStatus EXCEPT ![j] = "pending"]
                /\ jobOf' = [jobOf EXCEPT ![j] = erow]
    /\ EnqueueAt("mark_failed")
    /\ UNCHANGED <<attempts, queue, cutShort, tries, refunds, progress, rowVars, diskVars,
                   workerVars, erow, eby, orphaned, pauseVars, lifeVars>>

MarkPushFailed ==
    /\ epc = "mark_failed"
    /\ progress' = [progress EXCEPT ![erow] = "failed"]
    /\ EnqueueEnds
    /\ UNCHANGED <<jobVars, rowVars, diskVars, workerVars, orphaned, pauseVars, lifeVars>>

(* The enqueue ends early: the client left and its handler was dropped, or *)
(* a statement on the settings or the progress row failed.  Past the row   *)
(* that says "queued", nobody takes it back.                               *)
CutInTwo == IF epc \in {"push", "mark_failed"} THEN {erow} ELSE {}

AbandonEnqueue ==
    /\ \/ eby = "route"
       \/ epc \in {"resume", "mark", "mark_failed"}
    /\ orphaned' = orphaned \cup CutInTwo
    /\ EnqueueEnds
    /\ UNCHANGED <<jobVars, progress, rowVars, diskVars, workerVars, pauseVars, lifeVars>>

-----------------------------------------------------------------------------
(* Pause, resume and the startup timer.                                    *)

(* pause_upscaling: notify_one, which stores a permit when nobody waits,   *)
(* then the setting.                                                       *)
PauseNotify ==
    /\ ppc = "idle"
    /\ pauses < MaxPauses
    /\ permit' = TRUE
    /\ ppc' = "write"
    /\ pauses' = pauses + 1
    /\ UNCHANGED <<jobVars, progress, rowVars, diskVars, workerVars, enqueueVars,
                   paused, timer, lifeVars>>

PauseWrite ==
    /\ ppc = "write"
    /\ paused' = TRUE
    /\ ppc' = "idle"
    /\ UNCHANGED <<jobVars, progress, rowVars, diskVars, workerVars, enqueueVars,
                   timer, permit, pauses, lifeVars>>

ResumeUpscaling ==
    /\ pauses < MaxPauses
    /\ paused' = FALSE
    /\ pauses' = pauses + 1
    /\ UNCHANGED <<jobVars, progress, rowVars, diskVars, workerVars, enqueueVars,
                   ppc, timer, permit, lifeVars>>

(* The select of the timer: the pause's permit, or the sleep is over.      *)
TimerCancelled ==
    /\ timer = "armed"
    /\ permit
    /\ permit' = FALSE
    /\ timer' = "off"
    /\ UNCHANGED <<jobVars, progress, rowVars, diskVars, workerVars, enqueueVars,
                   paused, ppc, pauses, lifeVars>>

TimerFires ==
    /\ timer = "armed"
    /\ timer' = "fired"
    /\ UNCHANGED <<jobVars, progress, rowVars, diskVars, workerVars, enqueueVars,
                   paused, ppc, permit, pauses, lifeVars>>

TimerResumes ==
    /\ timer = "fired"
    /\ timer' = "off"
    /\ paused' = FALSE
    /\ UNCHANGED <<jobVars, progress, rowVars, diskVars, workerVars, enqueueVars,
                   ppc, permit, pauses, lifeVars>>

-----------------------------------------------------------------------------
(* The startup of the worker: run_upscale_worker.                          *)

WorkerAt(place) == wpc' = place

(* Slips: every failed job is put back; only cut short jobs are.           *)
StoppedOrFailed(j) == jobStatus[j] \in {"running", "fetched", "retryable", "failed"}
CutShortOnly(j) == jobStatus[j] \in {"retryable", "failed"} /\ j \in cutShort

(* Postgres: locked jobs, and jobs the drain cut short, are pending again; *)
(* an attempt is given back unless the job was running, also to a job that *)
(* was fetched after real failures and not begun.                          *)
StoppedByRestart(j) ==
    \/ jobStatus[j] \in {"running", "fetched"}
    \/ jobStatus[j] \in {"retryable", "failed"} /\ j \in cutShort

GivenBack(j) ==
    IF StoppedByRestart(j) /\ jobStatus[j] # "running" /\ attempts[j] > 0 THEN 1 ELSE 0

BootRequeue ==
    /\ wpc = "boot_requeue"
    /\ jobStatus' = [j \in Jobs |-> IF StoppedByRestart(j) THEN "pending" ELSE jobStatus[j]]
    /\ attempts' = [j \in Jobs |-> attempts[j] - GivenBack(j)]
    /\ refunds' = [j \in Jobs |->
                      IF jobStatus[j] = "fetched" THEN refunds[j] + GivenBack(j) ELSE refunds[j]]
    /\ requeued' = {jobOf[j] : j \in {i \in Jobs : StoppedByRestart(i)}}
    /\ WorkerAt("boot_mark")
    /\ UNCHANGED <<jobOf, queue, cutShort, tries, progress, rowVars, diskVars, wjob,
                   runVars, enqueueVars, pauseVars, lifeVars>>

BootMarkRequeued ==
    /\ wpc = "boot_mark"
    /\ progress' = [d \in Downloads |->
                       IF d \in requeued /\ progress[d] # "none" THEN "queued"
                       ELSE progress[d]]
    /\ requeued' = {}
    /\ WorkerAt("boot_progress")
    /\ UNCHANGED <<jobVars, rowVars, diskVars, wjob, runVars, enqueueVars,
                   pauseVars, lifeVars>>

(* A slip: the rows of a run that was not paused are not thought of.       *)
PausedRowsOnly == {"paused"}

InterruptedRows == {"running", "paused"}

BootFailProgress ==
    /\ wpc = "boot_progress"
    /\ progress' = [d \in Downloads |->
                       IF progress[d] \in InterruptedRows THEN "failed" ELSE progress[d]]
    /\ WorkerAt(IF Backend = "sqlite" THEN "boot_jobs" ELSE "idle")
    /\ UNCHANGED <<jobVars, rowVars, diskVars, wjob, runVars, requeued, enqueueVars,
                   pauseVars, lifeVars>>

(* A slip: a job without attempts left stays as it is.                     *)
KeepExhausted(j) == IF attempts[j] < MaxAttempts THEN "pending" ELSE jobStatus[j]

(* SQLite, at startup and after a failure: pending while attempts are      *)
(* left, the one just interrupted included.                                *)
AfterAttempt(j) == IF attempts[j] < MaxAttempts THEN "pending" ELSE "failed"

Requeue(j) == IF attempts[j] < MaxAttempts THEN Append(queue, j) ELSE queue

(* One worker leases one job at a time, so at most one is running.         *)
BootRecover ==
    /\ wpc = "boot_jobs"
    /\ \/ \E j \in Jobs :
             /\ jobStatus[j] = "running"
             /\ jobStatus' = [jobStatus EXCEPT ![j] = AfterAttempt(j)]
             /\ queue' = Requeue(j)
       \/ /\ \A j \in Jobs : jobStatus[j] # "running"
          /\ UNCHANGED <<jobStatus, queue>>
    /\ WorkerAt("idle")
    /\ UNCHANGED <<attempts, jobOf, cutShort, tries, refunds, progress, rowVars, diskVars,
                   wjob, runVars, requeued, enqueueVars, pauseVars, lifeVars>>

-----------------------------------------------------------------------------
(* The worker.                                                             *)

(* apalis locks a waiting job for the worker, one at a time (the buffer is *)
(* 1, and the concurrency limit stops the polling while a job runs).       *)
Fetch(j) ==
    /\ Backend = "postgres"
    /\ wpc = "idle"
    /\ ~draining
    /\ Leasable(j)
    /\ \A i \in Jobs : jobStatus[i] # "fetched"
    /\ jobStatus' = [jobStatus EXCEPT ![j] = "fetched"]
    /\ UNCHANGED <<attempts, jobOf, queue, cutShort, tries, refunds, progress, rowVars,
                   diskVars, workerVars, enqueueVars, pauseVars, lifeVars>>

(* lease_next_background_job takes the oldest job and charges the attempt; *)
(* apalis begins the job it fetched and charges at the acknowledgement.    *)
(* The signal that starts the drain also ends the worker's polling.        *)
Lease(j) ==
    /\ wpc = "idle"
    /\ ~draining
    /\ \/ Backend = "sqlite" /\ Leasable(j) /\ j = Head(queue)
       \/ Backend = "postgres" /\ jobStatus[j] = "fetched"
    /\ jobStatus' = [jobStatus EXCEPT ![j] = "running"]
    /\ attempts' = [attempts EXCEPT ![j] = IF Backend = "sqlite" THEN @ + 1 ELSE @]
    /\ queue' = IF Backend = "sqlite" THEN Tail(queue) ELSE queue
    /\ wjob' = j
    /\ WorkerAt("leased")
    /\ UNCHANGED <<jobOf, cutShort, tries, refunds, progress, rowVars, diskVars, runVars,
                   requeued, enqueueVars, pauseVars, lifeVars>>

(* run_until ends once no job is in hand.                                  *)
StopWorker ==
    /\ wpc = "idle"
    /\ draining
    /\ WorkerAt("stopped")
    /\ UNCHANGED <<jobVars, progress, rowVars, diskVars, wjob, runVars, requeued,
                   enqueueVars, pauseVars, lifeVars>>

Mine == jobOf[wjob]

Show(status) == progress' = [progress EXCEPT ![Mine] = status]

(* wait_while_paused: says so once, then polls the setting.                *)
WaitWhilePaused ==
    /\ wpc = "leased"
    /\ paused
    /\ Show("paused")
    /\ WorkerAt("waiting")
    /\ UNCHANGED <<jobVars, rowVars, diskVars, wjob, runVars, requeued, enqueueVars,
                   pauseVars, lifeVars>>

Proceed ==
    /\ wpc \in {"leased", "waiting"}
    /\ ~paused
    /\ WorkerAt("starting")
    /\ UNCHANGED <<jobVars, progress, rowVars, diskVars, wjob, runVars, requeued,
                   enqueueVars, pauseVars, lifeVars>>

Start ==
    /\ wpc = "starting"
    /\ Show("running")
    /\ WorkerAt("inspect")
    /\ UNCHANGED <<jobVars, rowVars, diskVars, wjob, runVars, requeued, enqueueVars,
                   pauseVars, lifeVars>>

(* The run ends: the progress row first, then the acknowledgement.         *)
SettleOn(status, why) ==
    /\ WorkerAt("settle")
    /\ result' = status
    /\ cause' = why

(* The row decides whether there is anything to do.                        *)
InspectRow ==
    /\ wpc = "inspect"
    /\ \/ row[Mine] # "completed" /\ SettleOn("skipped", "none")
       \/ row[Mine] = "completed" /\ upscaledAt[Mine] /\ SettleOn("completed", "none")
       \/ /\ row[Mine] = "completed" /\ ~upscaledAt[Mine]
          /\ WorkerAt("open")
          /\ UNCHANGED <<result, cause>>
    /\ UNCHANGED <<jobVars, progress, rowVars, diskVars, wjob, seen, made, requeued,
                   enqueueVars, pauseVars, lifeVars>>

(* The row and the file are looked up again; wide originals are skipped.   *)
OpenArchive ==
    /\ wpc = "open"
    /\ \/ /\ row[Mine] # "completed" \/ file[Mine] = Missing
          /\ SettleOn("failed", "error")
          /\ UNCHANGED seen
       \/ /\ row[Mine] = "completed" /\ file[Mine] # Missing
          /\ \/ SettleOn("skipped", "none") /\ UNCHANGED seen
             \/ WorkerAt("pages") /\ seen' = file[Mine] /\ UNCHANGED <<result, cause>>
    /\ UNCHANGED <<jobVars, progress, rowVars, diskVars, wjob, made, requeued,
                   enqueueVars, pauseVars, lifeVars>>

(* The page loop: the drain, then the row, then the page, until all pages  *)
(* are staged.  No usable model ends the run as well.                      *)
UpscalePages ==
    /\ wpc = "pages"
    /\ \/ draining /\ SettleOn("failed", "shutdown") /\ UNCHANGED made
       \/ ~draining /\ row[Mine] = "deleted" /\ SettleOn("skipped", "none") /\ UNCHANGED made
       \/ ~draining /\ SettleOn("failed", "error") /\ UNCHANGED made
       \/ ~draining /\ SettleOn("skipped", "none") /\ UNCHANGED made
       \/ /\ ~draining
          /\ file[Mine] # Missing
          /\ made' = file[Mine].orig
          /\ WorkerAt("saving")
          /\ UNCHANGED <<result, cause>>
    /\ UNCHANGED <<jobVars, progress, rowVars, diskVars, wjob, seen, requeued,
                   enqueueVars, pauseVars, lifeVars>>

(* A slip: the footer hash is not compared.                                *)
AppendUnchecked ==
    /\ wpc = "saving"
    /\ ~draining
    /\ file[Mine] # Missing
    /\ file' = [file EXCEPT ![Mine].section = made]
    /\ WorkerAt("appended")
    /\ UNCHANGED <<jobVars, progress, rowVars, published, wjob, runVars,
                   requeued, enqueueVars, pauseVars, lifeVars>>

(* append_upscaled, under the exclusive lock: the archive is the one that  *)
(* was inspected, or nothing is written.                                   *)
AppendUpscaled ==
    /\ wpc = "saving"
    /\ \/ /\ file[Mine] # seen \/ file[Mine] = Missing
          /\ SettleOn("failed", "error")
          /\ UNCHANGED file
       \/ /\ file[Mine] = seen /\ draining
          /\ SettleOn("failed", "append_canceled")
          /\ UNCHANGED file
       \/ /\ file[Mine] = seen /\ ~draining
          /\ file' = [file EXCEPT ![Mine].section = made]
          /\ WorkerAt("appended")
          /\ UNCHANGED <<result, cause>>
    /\ UNCHANGED <<jobVars, progress, rowVars, published, wjob, seen, made,
                   requeued, enqueueVars, pauseVars, lifeVars>>

(* inspect fails when the archive is gone; mark_upscaled touches only a    *)
(* completed row.                                                          *)
MarkUpscaled ==
    /\ wpc = "appended"
    /\ \/ /\ file[Mine] = Missing
          /\ SettleOn("failed", "error")
          /\ UNCHANGED upscaledAt
       \/ /\ file[Mine] # Missing
          /\ upscaledAt' = [upscaledAt EXCEPT ![Mine] = @ \/ row[Mine] = "completed"]
          /\ SettleOn("completed", "none")
    /\ UNCHANGED <<jobVars, progress, row, diskVars, wjob, seen, made, requeued,
                   enqueueVars, pauseVars, lifeVars>>

Settle ==
    /\ wpc = "settle"
    /\ Show(result)
    /\ WorkerAt("ack")
    /\ UNCHANGED <<jobVars, rowVars, diskVars, wjob, runVars, requeued, enqueueVars,
                   pauseVars, lifeVars>>

Idle ==
    /\ WorkerAt("idle")
    /\ wjob' = None
    /\ seen' = Missing
    /\ made' = 0
    /\ result' = "none"
    /\ cause' = "none"

(* complete_background_job.                                                *)
AckDone ==
    /\ wpc = "ack"
    /\ cause = "none"
    /\ jobStatus' = [jobStatus EXCEPT ![wjob] = "completed"]
    /\ attempts' = [attempts EXCEPT ![wjob] = IF Backend = "sqlite" THEN @ ELSE @ + 1]
    /\ Idle
    /\ UNCHANGED <<jobOf, queue, cutShort, tries, refunds, progress, rowVars, diskVars,
                   requeued, enqueueVars, pauseVars, lifeVars>>

(* fail_background_job; apalis charges now and keeps the error's text.     *)
AckFailed ==
    /\ wpc = "ack"
    /\ cause # "none"
    /\ tries' = [tries EXCEPT ![wjob] = IF cause = "error" THEN @ + 1 ELSE @]
    /\ \/ /\ Backend = "sqlite"
          /\ jobStatus' = [jobStatus EXCEPT ![wjob] = AfterAttempt(wjob)]
          /\ queue' = Requeue(wjob)
          /\ UNCHANGED <<attempts, cutShort>>
       \/ /\ Backend = "postgres"
          /\ attempts' = [attempts EXCEPT ![wjob] = @ + 1]
          /\ jobStatus' = [jobStatus EXCEPT ![wjob] =
                              IF attempts[wjob] + 1 < MaxAttempts THEN "retryable"
                              ELSE "failed"]
          /\ cutShort' = IF cause = "shutdown" THEN cutShort \cup {wjob} ELSE cutShort \ {wjob}
          /\ UNCHANGED queue
    /\ Idle
    /\ UNCHANGED <<jobOf, refunds, progress, rowVars, diskVars, requeued, enqueueVars,
                   pauseVars, lifeVars>>

-----------------------------------------------------------------------------
(* The process.                                                            *)

BeginDrain ==
    /\ ~draining
    /\ restarts < MaxRestarts
    /\ draining' = TRUE
    /\ UNCHANGED <<jobVars, progress, rowVars, diskVars, workerVars, enqueueVars,
                   pauseVars, restarts>>

(* The process ends, at any moment or after a drain, and boots again: the  *)
(* boot parks the queue.                                                   *)
Restart ==
    /\ restarts < MaxRestarts
    /\ restarts' = restarts + 1
    /\ draining' = FALSE
    /\ paused' = TRUE
    /\ timer' = IF AutoResume THEN "armed" ELSE "off"
    /\ permit' = FALSE
    /\ ppc' = "idle"
    /\ EnqueueEnds
    /\ orphaned' = orphaned \cup CutInTwo
    /\ wpc' = FirstBootStep
    /\ wjob' = None
    /\ seen' = Missing
    /\ made' = 0
    /\ result' = "none"
    /\ cause' = "none"
    /\ requeued' = {}
    /\ UNCHANGED <<jobVars, progress, rowVars, diskVars, pauses>>

-----------------------------------------------------------------------------
(* Specification.                                                          *)

WorkerStep ==
    \/ BootRequeue \/ BootMarkRequeued \/ BootFailProgress \/ BootRecover
    \/ (\E j \in Jobs : Fetch(j) \/ Lease(j)) \/ StopWorker
    \/ WaitWhilePaused \/ Proceed \/ Start \/ InspectRow \/ OpenArchive
    \/ UpscalePages \/ AppendUpscaled \/ MarkUpscaled \/ Settle
    \/ AckDone \/ AckFailed

EnqueueStep == ResumeForNewWork \/ MarkQueued \/ Push \/ PushFails \/ MarkPushFailed

Environment ==
    \/ \E d \in Downloads :
          \/ RetryDownload(d) \/ PublishOriginals(d) \/ CompleteDownload(d)
          \/ RemoveArchive(d) \/ DropRow(d) \/ EnqueueRequest(d)
    \/ AbandonEnqueue
    \/ PauseNotify \/ ResumeUpscaling
    \/ BeginDrain \/ Restart

PauseStep == PauseWrite \/ TimerCancelled \/ TimerFires \/ TimerResumes

Next == WorkerStep \/ EnqueueStep \/ PauseStep \/ Environment

Spec == Init /\ [][Next]_vars

(* The worker task, a started request and the timer task are scheduled;    *)
(* nobody has to send a request, and nothing has to fail.                  *)
FairSpec ==
    /\ Spec
    /\ WF_vars(WorkerStep)
    /\ WF_vars(EnqueueStep)
    /\ WF_vars(PauseStep)

-----------------------------------------------------------------------------
(* Properties.                                                             *)

(* Every variable keeps its type, and the worker holds a job exactly while *)
(* it runs one; on SQLite the queue lists the pending jobs, each once.     *)
TypeOK ==
    /\ jobStatus \in [Jobs -> {"absent", "pending", "fetched", "running", "retryable",
                               "completed", "failed"}]
    /\ attempts \in [Jobs -> 0..MaxAttempts]
    /\ tries \in [Jobs -> Nat]
    /\ refunds \in [Jobs -> Nat]
    /\ jobOf \in [Jobs -> Downloads \cup {None}]
    /\ \A j \in Jobs : jobStatus[j] # "absent" => jobOf[j] \in Downloads
    /\ queue \in Seq(Jobs)
    /\ Backend = "sqlite" =>
          /\ \A j \in Jobs : jobStatus[j] = "pending" <=> \E i \in DOMAIN queue : queue[i] = j
          /\ \A i, k \in DOMAIN queue : queue[i] = queue[k] => i = k
    /\ cutShort \in SUBSET Jobs
    /\ progress \in [Downloads -> {"none", "queued", "running", "paused", "failed",
                                   "skipped", "completed"}]
    /\ row \in [Downloads -> {"working", "completed", "deleted"}]
    /\ upscaledAt \in [Downloads -> BOOLEAN]
    /\ paused \in BOOLEAN
    /\ file \in [Downloads -> [orig : Nat, section : Nat]]
    /\ published \in [Downloads -> Nat]
    /\ wpc \in BootSteps \cup RunSteps \cup {"idle", "stopped"}
    /\ wpc \in RunSteps <=> wjob \in Jobs
    /\ wjob \in Jobs \cup {None}
    /\ seen \in [orig : Nat, section : Nat]
    /\ made \in Nat
    /\ result \in {"none", "skipped", "completed", "failed"}
    /\ cause \in {"none", "error", "shutdown", "append_canceled"}
    /\ requeued \in SUBSET Downloads
    /\ epc \in {"idle", "resume", "mark", "push", "mark_failed"}
    /\ erow \in Downloads \cup {None}
    /\ eby \in {"none", "route", "worker"}
    /\ epc # "idle" <=> erow # None
    /\ epc # "idle" <=> eby # "none"
    /\ ppc \in {"idle", "write"}
    /\ timer \in {"off", "armed", "fired"}
    /\ {permit, draining} \subseteq BOOLEAN
    /\ orphaned \in SUBSET Downloads
    /\ {restarts, pauses} \subseteq Nat

(* A running job is the worker's, or it is about to be recovered by the    *)
(* startup: whatever a restart interrupts, no job stays leased to a        *)
(* process that is gone (recover_interrupted_background_jobs).             *)
RunningJobHasWorker ==
    \A j \in Jobs : jobStatus[j] = "running" =>
        j = wjob \/ wpc \in {"boot_requeue", "boot_progress", "boot_jobs"}

(* A row that says "running" or "paused" has the worker behind it, or the  *)
(* startup has not come to it yet: the queue view never shows work that    *)
(* will not move as being worked on (fail_interrupted_upscale_progress).   *)
ShownWorkIsWorkedOn ==
    \A d \in Downloads : progress[d] \in {"running", "paused"} =>
        \/ wjob # None /\ Mine = d
        \/ wpc \in {"boot_requeue", "boot_mark", "boot_progress"}

(* Every failure of its own costs a job an attempt, and a job is given up  *)
(* only when all attempts are charged.  Restarts and drains give back what *)
(* they interrupted and nothing else, but for one case: a startup that     *)
(* finds a job fetched and not begun takes it for an interrupted one, and  *)
(* gives back an attempt that had really failed.                           *)
FailuresAreCharged ==
    \A j \in Jobs :
        /\ tries[j] <= attempts[j] + refunds[j]
        /\ jobStatus[j] = "failed" => attempts[j] = MaxAttempts

(* The upscaled section of an archive was made from the originals it holds,*)
(* although the archive is replaced while the pages are staged: the footer *)
(* hash under the exclusive lock decides (append_upscaled).                *)
SectionMatchesOriginals ==
    \A d \in Downloads : file[d].section \in {0, file[d].orig}

(* A row that says "queued" has a job that will run, or its enqueue is on  *)
(* the way.  The exception is an enqueue that ended between its row and    *)
(* its job: the process stopped, the client left, or the write that should *)
(* have corrected the row failed.                                          *)
QueuedHasJob ==
    \A d \in Downloads : progress[d] = "queued" =>
        \/ \E j \in Jobs :
              jobOf[j] = d /\ (Leasable(j) \/ jobStatus[j] \in {"fetched", "running"})
        \/ erow = d
        \/ d \in orphaned

(* Once nothing pauses or stops the worker any more, every waiting job is  *)
(* completed or given up: retries are finite and the queue is not starved. *)
JobSettles ==
    <>[](~paused /\ ~draining) =>
        \A j \in Jobs : Leasable(j) ~> jobStatus[j] \in {"completed", "failed"}
=============================================================================
