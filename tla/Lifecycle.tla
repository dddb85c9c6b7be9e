------------------------------ MODULE Lifecycle ------------------------------
(***************************************************************************)
(* One life of the server process: the boot, the background tasks under    *)
(* the shutdown guard, the HTTP server that stays open until they have     *)
(* ended, and the order in which everything is given back.  The upscale    *)
(* worker is one of the tasks; a job that waits for the end of a pause is  *)
(* not interrupted by a shutdown.                                          *)
(***************************************************************************)
EXTENDS Naturals, Sequences

CONSTANTS
    Tasks,        \* the background tasks of the instance besides the upscale worker
    AutoResume,   \* upscale_auto_resume_delay is set
    WarmSearches, \* SEARCH_CACHE_WARM_ENABLED_ENV
    MaxRequests,  \* bound: requests at a time
    MaxToggles,   \* bound: pauses and resumes an operator asks for
    MaxWarmed,    \* bound: pages a detached task warms
    MaxPanics     \* bound: tasks that panic

VARIABLES
    main,      \* where run_server is
    joined,    \* background tasks that were joined
    error,     \* what join brought back is an error
    draining,  \* the ShutdownDrain
    cancelled, \* the shutdown signal was observed
    task,      \* the background tasks besides the worker
    worker,    \* the upscale worker
    http,      \* the HTTP server
    requests,  \* requests at work
    released,  \* http_shutdown was sent
    paused,    \* the setting
    resumer,   \* the auto-resume timer
    toggles,
    warming,   \* [left, calling]: a detached task that warms pages
    upscaler, cache,
    panics,
    stuck      \* who waits for good: tasks, a request, the detached task

processVars == <<main, joined, error, draining, cancelled, task, worker, http, requests,
                 released, paused, resumer, toggles, warming, upscaler, cache, panics, stuck>>

mainVars == <<main, joined, error, released, upscaler, cache>>
workVars == <<task, worker, panics, stuck>>
webVars == <<http, requests, warming>>
signalVars == <<draining, cancelled>>
pauseVars == <<paused, resumer, toggles>>

BackgroundTasks ==
    <<"downloads", "scheduler", "search_cache", "database_cleanup", "upscale", "metrics">>

JoinOrder == SelectSeq(BackgroundTasks, LAMBDA t : t \in Tasks \cup {"upscale"})

ProcessInit ==
    /\ main = "database" /\ joined = 0 /\ error = FALSE
    /\ draining = FALSE /\ cancelled = FALSE
    /\ task = [t \in Tasks |-> "none"] /\ worker = "none"
    /\ http = "none" /\ requests = 0 /\ released = FALSE
    /\ paused \in BOOLEAN /\ resumer = "none" /\ toggles = 0
    /\ warming = [left |-> 0, calling |-> FALSE]
    /\ upscaler = "none" /\ cache = "none" /\ panics = 0 /\ stuck = {}

-----------------------------------------------------------------------------
(* The boot.  Every step may fail, and the process ends.                   *)

BootFails ==
    /\ main \in {"database", "recovery", "inference", "listener"}
    /\ main' = "failed"
    /\ UNCHANGED <<joined, error, released, upscaler, cache, workVars, webVars, signalVars, pauseVars>>

(* What was left to upscale waits until somebody or the timer resumes.     *)
OpenDatabase ==
    /\ main = "database" /\ main' = "recovery"
    /\ paused' = TRUE
    /\ UNCHANGED <<joined, error, released, upscaler, cache, workVars, webVars, signalVars,
                   resumer, toggles>>

(* Directories, the source catalog and recover_interrupted_downloads.      *)
Recover ==
    /\ main = "recovery" /\ main' = "inference"
    /\ cache' = "open"
    /\ UNCHANGED <<joined, error, released, upscaler, workVars, webVars, signalVars, pauseVars>>

StartUpscaler ==
    /\ main = "inference" /\ main' = "listener"
    /\ upscaler' = "running"
    /\ resumer' = IF AutoResume THEN "waiting" ELSE "none"
    /\ UNCHANGED <<joined, error, released, cache, workVars, webVars, signalVars, paused, toggles>>

Started(t) ==
    CASE t = "search_cache" -> IF WarmSearches THEN "busy" ELSE "ended"
      [] OTHER -> "idle"

SpawnTasks ==
    /\ main = "listener" /\ main' = "serving"
    /\ task' = [t \in Tasks |-> Started(t)]
    /\ worker' = "idle"
    /\ http' = "open"
    /\ UNCHANGED <<joined, error, released, upscaler, cache, panics, stuck, requests, warming,
                   signalVars, pauseVars>>

-----------------------------------------------------------------------------
(* The signal.                                                             *)

Signal ==
    /\ main = "serving" /\ ~cancelled
    /\ draining' = TRUE /\ cancelled' = TRUE
    /\ UNCHANGED <<mainVars, workVars, webVars, pauseVars>>

(* A server that fails ends the process too, but nobody begins the drain.  *)
ServerFails ==
    /\ http = "open"
    /\ http' = "error" /\ requests' = 0
    /\ cancelled' = TRUE /\ stuck' = stuck \ {"request"}
    /\ UNCHANGED <<mainVars, task, worker, panics, warming, draining, pauseVars>>

-----------------------------------------------------------------------------
(* The background tasks.  The select between the signal and the next       *)
(* occasion takes either; what was begun is finished.                      *)

Begin(t) ==
    /\ task[t] = "idle" /\ t # "metrics"
    /\ task' = [task EXCEPT ![t] = "busy"]
    /\ UNCHANGED <<mainVars, worker, panics, stuck, webVars, signalVars, pauseVars>>

Finish(t) ==
    /\ task[t] = "busy" /\ t \notin stuck
    /\ task' = [task EXCEPT ![t] = "idle"]
    /\ UNCHANGED <<mainVars, worker, panics, stuck, webVars, signalVars, pauseVars>>

Stop(t) ==
    /\ task[t] = "idle" /\ cancelled
    /\ task' = [task EXCEPT ![t] = "ended"]
    /\ UNCHANGED <<mainVars, worker, panics, stuck, webVars, signalVars, pauseVars>>

(* A panic ends the task; the join reports it.                             *)
Panic(t) ==
    /\ task[t] = "busy" /\ t \notin stuck /\ t # "downloads" /\ panics < MaxPanics
    /\ task' = [task EXCEPT ![t] = "panicked"]
    /\ panics' = panics + 1
    /\ UNCHANGED <<mainVars, worker, stuck, webVars, signalVars, pauseVars>>

-----------------------------------------------------------------------------
(* The upscale worker: it takes no job once the signal was observed, and   *)
(* the one it has looks at the drain before every page only.               *)

Work(from, to) == worker = from /\ worker' = to
WorkOnly == UNCHANGED <<mainVars, task, panics, stuck, webVars, signalVars, pauseVars>>

TakeJob == ~cancelled /\ Work("idle", IF paused THEN "parked" ELSE "pages") /\ WorkOnly

Parked == worker = "parked"

Unpark == ~paused /\ Work("parked", "pages") /\ WorkOnly

StartPage == ~draining /\ upscaler = "running" /\ Work("pages", "inference") /\ WorkOnly

FinishPage == Work("inference", "pages") /\ WorkOnly

(* After the last page, at an error, or at the drain.                      *)
EndJob == Work("pages", "idle") /\ WorkOnly

StopWorker == cancelled /\ Work("idle", "ended") /\ WorkOnly

-----------------------------------------------------------------------------
(* HTTP.                                                                   *)

BeginRequest ==
    /\ http = "open" /\ ~released /\ requests < MaxRequests
    /\ requests' = requests + 1
    /\ UNCHANGED <<mainVars, workVars, http, warming, signalVars, pauseVars>>

(* Requests that go on.                                                    *)
Going == IF "request" \in stuck THEN requests - 1 ELSE requests

EndRequest ==
    /\ Going > 0
    /\ requests' = requests - 1
    /\ UNCHANGED <<mainVars, workVars, http, warming, signalVars, pauseVars>>

(* The client of a request that waits for good gives up.                   *)
ClientLeaves ==
    /\ "request" \in stuck
    /\ requests' = requests - 1 /\ stuck' = stuck \ {"request"}
    /\ UNCHANGED <<mainVars, task, worker, panics, http, warming, signalVars, pauseVars>>

(* A request that pauses or resumes; a pause ends the timer.               *)
Toggle ==
    /\ Going > 0 /\ toggles < MaxToggles
    /\ paused' = ~paused
    /\ resumer' = IF paused' /\ resumer = "waiting" THEN "none" ELSE resumer
    /\ toggles' = toggles + 1
    /\ UNCHANGED <<mainVars, workVars, webVars, signalVars>>

Resume ==
    /\ resumer = "waiting"
    /\ resumer' = "none" /\ paused' = FALSE
    /\ UNCHANGED <<mainVars, workVars, webVars, signalVars, toggles>>

(* A request leaves a task that warms pages, and nobody waits for it.      *)
Warm ==
    /\ Going > 0 /\ warming.left = 0
    /\ warming' = [left |-> MaxWarmed, calling |-> FALSE]
    /\ UNCHANGED <<mainVars, workVars, http, requests, signalVars, pauseVars>>

WarmPage ==
    /\ warming.left > 0 /\ "warming" \notin stuck
    /\ warming' = IF warming.calling THEN [left |-> warming.left - 1, calling |-> FALSE]
                  ELSE [warming EXCEPT !.calling = TRUE]
    /\ UNCHANGED <<mainVars, workVars, http, requests, signalVars, pauseVars>>

(* axum stops to accept when it is released, and ends with its requests.   *)
EndHttp ==
    /\ http = "open" /\ released /\ requests = 0
    /\ http' = "ended"
    /\ UNCHANGED <<mainVars, workVars, requests, warming, signalVars, pauseVars>>

-----------------------------------------------------------------------------
(* Who asks a source may wait for good: for a browser that does not answer *)
(* or for the session that a dropped request was to solve (SourceFetch);   *)
(* and nothing hurries a client that does not read what it is sent.  The   *)
(* runs of the scheduler ask none before the shutdown (LibraryUpdate).     *)

Fetching == Tasks \cap {"downloads", "search_cache"}
Callers == Fetching \cup {"request", "warming"}

AsksASource(who) ==
    \/ who = "request" /\ Going > 0
    \/ who = "warming" /\ warming.calling
    \/ who \in Fetching /\ task[who] = "busy"

WaitForGood(who) ==
    /\ who \notin stuck /\ AsksASource(who)
    /\ stuck' = stuck \cup {who}
    /\ UNCHANGED <<mainVars, task, worker, panics, webVars, signalVars, pauseVars>>

-----------------------------------------------------------------------------
(* run_until_shutdown.                                                     *)

EndOf(t) == IF t = "upscale" THEN worker ELSE task[t]

MainOnly == UNCHANGED <<workVars, webVars, signalVars, pauseVars>>

ObserveSignal ==
    /\ main = "serving" /\ cancelled
    /\ main' = "join"
    /\ UNCHANGED <<joined, error, released, upscaler, cache>> /\ MainOnly

(* The first error ends the join and leaves the other tasks alone.         *)
JoinTask ==
    /\ main = "join" /\ joined < Len(JoinOrder)
    /\ \/ /\ EndOf(JoinOrder[joined + 1]) = "ended"
          /\ joined' = joined + 1
          /\ UNCHANGED <<main, error>>
       \/ /\ EndOf(JoinOrder[joined + 1]) = "panicked"
          /\ main' = "release" /\ error' = TRUE
          /\ UNCHANGED joined
    /\ UNCHANGED <<released, upscaler, cache>> /\ MainOnly

(* Every task holds a guard until it ends.                                 *)
TasksEnded ==
    /\ \A t \in Tasks : task[t] \in {"ended", "panicked"}
    /\ worker = "ended"
    /\ http \in {"ended", "error"}

(* A slip: the server is released when every guard was dropped, its own    *)
(* among them.                                                             *)
AllJoined == main \in {"join", "release"} /\ TasksEnded

Joined == main = "release" \/ (main = "join" /\ joined = Len(JoinOrder))

ReleaseHttp ==
    /\ Joined
    /\ released' = TRUE /\ main' = "guards"
    /\ UNCHANGED <<joined, error, upscaler, cache>> /\ MainOnly

(* A slip: nobody waits for what the join has left alone.                  *)
NoGuards == http \in {"ended", "error"}

GuardsDropped == TasksEnded

WaitForGuards ==
    /\ main = "guards" /\ GuardsDropped
    /\ main' = IF error \/ http = "error" THEN "failed" ELSE "plugins"
    /\ UNCHANGED <<joined, error, released, upscaler, cache>> /\ MainOnly

WaitForPlugins ==
    /\ main = "plugins" /\ ~warming.calling
    /\ main' = "upscaler"
    /\ UNCHANGED <<joined, error, released, upscaler, cache>> /\ MainOnly

StopUpscaler ==
    /\ main = "upscaler"
    /\ main' = "cache" /\ upscaler' = "stopped"
    /\ UNCHANGED <<joined, error, released, cache>> /\ MainOnly

CloseCache ==
    /\ main = "cache"
    /\ main' = "exited" /\ cache' = "closed"
    /\ UNCHANGED <<joined, error, released, upscaler>> /\ MainOnly

MainSteps ==
    \/ ObserveSignal \/ JoinTask \/ ReleaseHttp \/ WaitForGuards \/ WaitForPlugins
    \/ StopUpscaler \/ CloseCache

BootSteps == OpenDatabase \/ Recover \/ StartUpscaler \/ SpawnTasks \/ BootFails

WorkerSteps == Unpark \/ StartPage \/ FinishPage \/ EndJob

Over == main \in {"exited", "failed"}

(* Nothing of the process is left when run_server has returned.            *)
ProcessNext ==
    /\ ~Over
    /\ \/ BootSteps \/ Signal \/ ServerFails
       \/ \E t \in Tasks : Begin(t) \/ Finish(t) \/ Stop(t) \/ Panic(t)
       \/ TakeJob \/ WorkerSteps \/ StopWorker
       \/ BeginRequest \/ EndRequest \/ ClientLeaves \/ Toggle \/ Resume \/ Warm \/ WarmPage \/ EndHttp
       \/ \E who \in Callers : WaitForGood(who)
       \/ MainSteps

(* What was begun comes to an end unless it is stuck; a select that is     *)
(* asked again and again takes the signal some time; a job has an end of   *)
(* its pages.                                                              *)
Fairness ==
    /\ WF_processVars(MainSteps) /\ WF_processVars(EndHttp)
    /\ WF_processVars(EndRequest) /\ WF_processVars(WarmPage)
    /\ \A t \in Tasks : WF_processVars(Finish(t)) /\ SF_processVars(Stop(t))
    /\ WF_processVars(Unpark) /\ WF_processVars(FinishPage)
    /\ SF_processVars(EndJob) /\ WF_processVars(StopWorker)

ProcessSpec == ProcessInit /\ [][ProcessNext]_processVars
FairProcess == ProcessSpec /\ Fairness

-----------------------------------------------------------------------------
TypeOK ==
    /\ main \in {"database", "recovery", "inference", "listener", "serving", "join", "release",
                 "guards", "plugins", "upscaler", "cache", "exited", "failed"}
    /\ joined \in 0 .. Len(JoinOrder) /\ error \in BOOLEAN /\ draining \in BOOLEAN
    /\ task \in [Tasks -> {"none", "idle", "busy", "ended", "panicked"}]
    /\ worker \in {"none", "idle", "parked", "pages", "inference", "ended"}
    /\ http \in {"none", "open", "ended", "error"} /\ requests \in 0 .. MaxRequests
    /\ warming \in [left : 0 .. MaxWarmed, calling : BOOLEAN]
    /\ stuck \subseteq Callers

(* Whatever ends the process after it has served, and whichever task has   *)
(* panicked, no task and no request is cut off, and no resource is closed  *)
(* before.                                                                 *)
NothingIsCutOff ==
    (Over /\ cancelled) \/ upscaler = "stopped" \/ cache = "closed" =>
        TasksEnded /\ requests = 0

(* A shutdown comes to its end, unless a job waits for the end of a pause  *)
(* or somebody who was served waits for good.                              *)
ShutdownEnds == <>[]~Parked => (cancelled ~> (Over \/ stuck # {}))
=============================================================================
