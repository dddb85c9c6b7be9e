--------------------------- MODULE LibraryUpdate ---------------------------
(***************************************************************************)
(* Library Update Runs: the fan-out of one run over the series of the      *)
(* library, the runs that requests start, and the scheduler that starts a  *)
(* run when the interval has passed.  What a check does to one series is   *)
(* the task of ChapterSync; here it succeeds, fails or panics.             *)
(***************************************************************************)
EXTENDS Naturals, FiniteSets

CONSTANTS
    Manga,          \* series that may be in the library
    ManualRuns,     \* POST /v1/library/update requests
    Scheduled,      \* the run of the scheduler
    MaxConcurrent   \* MAX_CONCURRENT_UPDATE_CHECKS

ASSUME RunsDiffer == Scheduled \notin ManualRuns
ASSUME SomeConcurrency == MaxConcurrent \in Nat \ {0}

Runs == ManualRuns \cup {Scheduled}

VARIABLES
    shutdown,    \* the shutdown signal was given
    schedPc,     \* where run_scheduler is
    pc,          \* where each run is
    slots,       \* turns left in the first fan-out loop
    library,     \* get_library_manga at the start of the run
    pending,     \* the iterator over it
    checking,    \* tasks of the JoinSet that have not ended
    ended,       \* tasks that ended and were not joined
    checks       \* history: how often a run checked a series

runVars == <<pc, slots, library, pending, checking, ended, checks>>
vars == <<shutdown, schedPc, pc, slots, library, pending, checking, ended, checks>>

Init ==
    /\ shutdown = FALSE
    /\ schedPc = "tick"
    /\ pc = [r \in Runs |-> "idle"]
    /\ slots = [r \in Runs |-> 0]
    /\ library = [r \in Runs |-> {}]
    /\ pending = [r \in Runs |-> {}]
    /\ checking = [r \in Runs |-> {}]
    /\ ended = [r \in Runs |-> {}]
    /\ checks = [r \in Runs |-> [m \in Manga |-> 0]]

-----------------------------------------------------------------------------
(* run_with_shutdown.                                                      *)

Start(r) ==
    /\ pc[r] = "idle"
    /\ \E lib \in SUBSET Manga :
         /\ library' = [library EXCEPT ![r] = lib]
         /\ pending' = [pending EXCEPT ![r] = lib]
    /\ pc' = [pc EXCEPT ![r] = "fill"]
    /\ slots' = [slots EXCEPT ![r] = MaxConcurrent]
    /\ checks' = [checks EXCEPT ![r] = [m \in Manga |-> 0]]
    /\ UNCHANGED <<checking, ended>>

(* A slip: the scheduled run never hears of the shutdown.                  *)
Deaf(r) == r # Scheduled

(* shutdown_requested answers: the run of a request has no guard to ask.   *)
(* The select of the scheduled one waits for the shutdown, because its     *)
(* else is taken only when every branch is disabled; so its answer is yes. *)
Answers(r) == r # Scheduled \/ shutdown

Spawn(r) ==
    \E m \in pending[r] :
        /\ pending' = [pending EXCEPT ![r] = @ \ {m}]
        /\ checking' = [checking EXCEPT ![r] = @ \cup {m}]
        /\ checks' = [checks EXCEPT ![r][m] = @ + 1]

(* spawn_next_update_check returns false.                                  *)
NothingToSpawn(r) == r = Scheduled \/ pending[r] = {}

TurnLeft(r) == slots[r] > 0

(* The first loop: MaxConcurrent turns, or until there is nothing to spawn. *)
Fill(r) ==
    /\ pc[r] = "fill" /\ Answers(r)
    /\ IF TurnLeft(r) /\ ~NothingToSpawn(r)
       THEN Spawn(r) /\ slots' = [slots EXCEPT ![r] = @ - 1] /\ UNCHANGED pc
       ELSE /\ pc' = [pc EXCEPT ![r] = "join"]
            /\ slots' = [slots EXCEPT ![r] = 0]
            /\ UNCHANGED <<pending, checking, checks>>
    /\ UNCHANGED <<library, ended>>

(* A slip: a check that fails puts its series back.                        *)
CheckEndsOrRetries(r, m) ==
    /\ m \in checking[r]
    /\ checking' = [checking EXCEPT ![r] = @ \ {m}]
    /\ ended' = [ended EXCEPT ![r] = @ \cup {m}]
    /\ \E ok \in BOOLEAN : pending' = [pending EXCEPT ![r] = IF ok THEN @ ELSE @ \cup {m}]
    /\ UNCHANGED <<pc, slots, library, checks>>

(* A check succeeds, fails or panics.                                      *)
CheckEnds(r, m) ==
    /\ m \in checking[r]
    /\ checking' = [checking EXCEPT ![r] = @ \ {m}]
    /\ ended' = [ended EXCEPT ![r] = @ \cup {m}]
    /\ UNCHANGED <<pc, slots, library, pending, checks>>

(* A slip: only a check that succeeded makes room for the next.            *)
RefillAfterSuccess(ok) == IF ok THEN "refill" ELSE "join"

AfterJoin(ok) == "refill"

Join(r) ==
    /\ pc[r] = "join"
    /\ \E m \in ended[r], ok \in BOOLEAN :
         /\ ended' = [ended EXCEPT ![r] = @ \ {m}]
         /\ pc' = [pc EXCEPT ![r] = AfterJoin(ok)]
    /\ UNCHANGED <<slots, library, pending, checking, checks>>

Refill(r) ==
    /\ pc[r] = "refill" /\ Answers(r)
    /\ IF NothingToSpawn(r) THEN UNCHANGED <<pending, checking, checks>> ELSE Spawn(r)
    /\ pc' = [pc EXCEPT ![r] = "join"]
    /\ UNCHANGED <<slots, library, ended>>

(* join_next has no task left.                                             *)
RunEnds(r) ==
    /\ pc[r] = "join" /\ checking[r] = {} /\ ended[r] = {}
    /\ pc' = [pc EXCEPT ![r] = "done"]
    /\ UNCHANGED <<slots, library, pending, checking, ended, checks>>

-----------------------------------------------------------------------------
(* The request of a manual run.                                            *)

Request(r) == r # Scheduled /\ Start(r) /\ UNCHANGED <<shutdown, schedPc>>

Respond(r) ==
    /\ r # Scheduled /\ pc[r] = "done"
    /\ pc' = [pc EXCEPT ![r] = "idle"]
    /\ UNCHANGED <<shutdown, schedPc, slots, library, pending, checking, ended, checks>>

(* A slip: the tasks are not in the JoinSet that goes away with the run.   *)
Detached(r, tasks) == tasks

(* What a dropped JoinSet leaves running.                                  *)
Aborted(r, tasks) == [tasks EXCEPT ![r] = {}]

(* The client goes away and the handler's future is dropped.               *)
Disconnect(r) ==
    /\ r # Scheduled /\ pc[r] \in {"fill", "join", "refill"}
    /\ pc' = [pc EXCEPT ![r] = "idle"]
    /\ checking' = Aborted(r, checking)
    /\ ended' = [ended EXCEPT ![r] = {}]
    /\ pending' = [pending EXCEPT ![r] = {}]
    /\ slots' = [slots EXCEPT ![r] = 0]
    /\ UNCHANGED <<shutdown, schedPc, library, checks>>

-----------------------------------------------------------------------------
(* run_scheduler.  A tick that finds the interval zero or not yet passed   *)
(* changes nothing; both branches of the select may be ready.              *)

SchedulerStarts ==
    /\ schedPc = "tick" /\ Start(Scheduled)
    /\ schedPc' = "run"
    /\ UNCHANGED shutdown

SchedulerReturns ==
    /\ schedPc = "run" /\ pc[Scheduled] = "done"
    /\ schedPc' = "tick"
    /\ pc' = [pc EXCEPT ![Scheduled] = "idle"]
    /\ UNCHANGED <<shutdown, slots, library, pending, checking, ended, checks>>

SchedulerStops ==
    /\ schedPc = "tick" /\ shutdown
    /\ schedPc' = "stopped"
    /\ UNCHANGED <<shutdown, runVars>>

ShutdownSignal ==
    /\ ~shutdown /\ shutdown' = TRUE
    /\ UNCHANGED <<schedPc, runVars>>

RunStep(r) ==
    /\ Fill(r) \/ Join(r) \/ Refill(r) \/ RunEnds(r)
    /\ UNCHANGED <<shutdown, schedPc>>

Check(r, m) == CheckEnds(r, m) /\ UNCHANGED <<shutdown, schedPc>>

Next ==
    \/ \E r \in Runs : RunStep(r) \/ (\E m \in Manga : Check(r, m))
    \/ \E r \in ManualRuns : Request(r) \/ Respond(r) \/ Disconnect(r)
    \/ SchedulerStarts \/ SchedulerReturns \/ SchedulerStops \/ ShutdownSignal

Spec == Init /\ [][Next]_vars

(* The server goes on by itself with what it has begun; a check may wait   *)
(* for a source for good.  A select picks at random, so it does not pass   *)
(* over the shutdown for ever.                                             *)
FairSpec ==
    /\ Spec
    /\ \A r \in Runs : WF_vars(RunStep(r))
    /\ WF_vars(SchedulerStarts) /\ WF_vars(SchedulerReturns) /\ SF_vars(SchedulerStops)

-----------------------------------------------------------------------------
(* Properties.                                                             *)

InFlight(r) == checking[r] \cup ended[r]

(* A run has at most MaxConcurrent checks in flight, and as long as there  *)
(* are series to check it keeps that many, failed and panicked checks      *)
(* notwithstanding.                                                        *)
FanOutIsKept ==
    \A r \in Runs :
        /\ Cardinality(InFlight(r)) <= MaxConcurrent
        /\ pc[r] = "join" /\ r # Scheduled /\ pending[r] # {}
              => Cardinality(InFlight(r)) = MaxConcurrent

(* When the run of a request reports, each series of the library has been  *)
(* checked exactly once, whatever became of the checks of others.          *)
ReportCoversLibrary ==
    \A r \in ManualRuns : pc[r] = "done" =>
        \A m \in Manga : checks[r][m] = IF m \in library[r] THEN 1 ELSE 0

(* No check outlives its run: what a run in progress does not own is not   *)
(* running, also when its client has gone away.                            *)
NoStrayChecks ==
    \A r \in Runs : pc[r] \in {"idle", "done"} => checking[r] = {}

(* The scheduler ends after the shutdown signal, also out of a run: the    *)
(* graceful shutdown waits for its guard.                                  *)
ShutdownEndsScheduler == shutdown ~> schedPc = "stopped"

(* What crates/server/src/app/library_update.rs:28 says of                 *)
(* run_with_shutdown, "Check all Local Library manga for new chapters,     *)
(* stopping early during shutdown.": a scheduled run of a library that is  *)
(* not empty checks a series, or the server is shut down.                  *)
ScheduledRunChecks ==
    (schedPc = "run" /\ library[Scheduled] # {})
        ~> (shutdown \/ \E m \in Manga : checks[Scheduled][m] > 0)
=============================================================================
