---------------------------- MODULE ServerProofs ----------------------------
(***************************************************************************)
(* The server's own tasks: the library update runs, and the shutdown that  *)
(* joins them.                                                             *)
(*                                                                         *)
(* Update runs, for any library, any number of runs and any fan-out: a run *)
(* that reports has checked each of its series exactly once, and no check  *)
(* outlives its run.  The invariant behind both follows one run: a turn of *)
(* the first loop that was used, or a joined check that was replaced, left *)
(* a check in flight, so join_next cannot find the set empty while series  *)
(* are pending.                                                            *)
(*                                                                         *)
(* The shutdown cuts nothing off: for any background tasks, any number of  *)
(* requests and of panics, and whether or not the server itself fails.     *)
(***************************************************************************)
EXTENDS LibraryUpdate, Lifecycle, FiniteSetTheorems, TLAPS

Types ==
    /\ pc \in [Runs -> {"idle", "fill", "join", "refill", "done"}]
    /\ slots \in [Runs -> Nat]
    /\ library \in [Runs -> SUBSET Manga]
    /\ pending \in [Runs -> SUBSET Manga]
    /\ checking \in [Runs -> SUBSET Manga]
    /\ ended \in [Runs -> SUBSET Manga]
    /\ checks \in [Runs -> [Manga -> Nat]]

(* A run that does not run has no check in flight.                         *)
Quiet(r) == pc[r] \in {"idle", "done"} => checking[r] = {} /\ ended[r] = {}

(* A check is in flight after the first turn, and between two joins as     *)
(* long as series are pending.                                             *)
Busy(r) ==
    /\ pc[r] = "fill" /\ slots[r] # MaxConcurrent => checking[r] # {} \/ ended[r] # {}
    /\ pc[r] = "join" /\ r # Scheduled
          => pending[r] = {} \/ checking[r] # {} \/ ended[r] # {}
    /\ pc[r] = "done" /\ r # Scheduled => pending[r] = {}

(* The series that are not pending any more were checked once.             *)
Counted(r) ==
    pc[r] # "idle" =>
        /\ pending[r] \subseteq library[r]
        /\ \A m \in Manga :
             checks[r][m] = IF m \in library[r] \ pending[r] THEN 1 ELSE 0

IInv == Types /\ \A r \in Runs : Quiet(r) /\ Busy(r) /\ Counted(r)

LEMMA InitIInv == Init => IInv
  BY DEF Init, IInv, Types, Quiet, Busy, Counted

(* One step of one run, the others unchanged.                              *)
Others(r) ==
    \A s \in Runs \ {r} :
        /\ pc'[s] = pc[s] /\ slots'[s] = slots[s] /\ library'[s] = library[s]
        /\ pending'[s] = pending[s] /\ checking'[s] = checking[s]
        /\ ended'[s] = ended[s] /\ checks'[s] = checks[s]

LEMMA OneRun ==
  ASSUME IInv, NEW r \in Runs, Types', Others(r),
         Quiet(r)', Busy(r)', Counted(r)'
  PROVE  IInv'
<1>1. ASSUME NEW s \in Runs, s # r PROVE Quiet(s)' /\ Busy(s)' /\ Counted(s)'
  BY <1>1 DEF IInv, Others, Quiet, Busy, Counted
<1> QED BY <1>1 DEF IInv

LEMMA StartStep ==
  ASSUME IInv, NEW r \in Runs, Start(r) PROVE IInv'
<1>1. Types' BY SomeConcurrency DEF IInv, Types, Start
<1>2. Others(r) BY DEF IInv, Types, Start, Others
<1>3. Quiet(r)' /\ Busy(r)' /\ Counted(r)'
  BY DEF IInv, Types, Start, Quiet, Busy, Counted
<1> QED BY <1>1, <1>2, <1>3, OneRun

(* What a spawn does to the run.                                           *)
LEMMA SpawnFacts ==
  ASSUME IInv, NEW r \in Runs, pc[r] # "idle", Spawn(r)
  PROVE  /\ pending' \in [Runs -> SUBSET Manga]
         /\ checking' \in [Runs -> SUBSET Manga]
         /\ checks' \in [Runs -> [Manga -> Nat]]
         /\ checking'[r] # {}
         /\ pending'[r] \subseteq library[r]
         /\ \A m \in Manga :
              checks'[r][m] = IF m \in library[r] \ pending'[r] THEN 1 ELSE 0
         /\ \A s \in Runs \ {r} : /\ pending'[s] = pending[s]
                                  /\ checking'[s] = checking[s]
                                  /\ checks'[s] = checks[s]
<1>1. PICK m \in pending[r] :
        /\ pending' = [pending EXCEPT ![r] = @ \ {m}]
        /\ checking' = [checking EXCEPT ![r] = @ \cup {m}]
        /\ checks' = [checks EXCEPT ![r][m] = @ + 1]
  BY DEF Spawn
<1>2. m \in Manga /\ checks[r] \in [Manga -> Nat] BY DEF IInv, Types
<1>3. checks'[r] = [checks[r] EXCEPT ![m] = @ + 1] BY <1>1 DEF IInv, Types
<1>4. Counted(r) BY DEF IInv
<1>5. checks[r][m] = 0 BY <1>2, <1>4 DEF Counted
<1>6. pending'[r] = pending[r] \ {m} BY <1>1 DEF IInv, Types
<1>7. ASSUME NEW n \in Manga
      PROVE  checks'[r][n] = IF n \in library[r] \ pending'[r] THEN 1 ELSE 0
  <2>1. CASE n = m BY <2>1, <1>2, <1>3, <1>4, <1>5, <1>6 DEF Counted
  <2>2. CASE n # m BY <2>2, <1>2, <1>3, <1>4, <1>6 DEF Counted
  <2> QED BY <2>1, <2>2
<1>8. checking'[r] # {} BY <1>1 DEF IInv, Types
<1>9. checks' \in [Runs -> [Manga -> Nat]] BY <1>1, <1>2, <1>3 DEF IInv, Types
<1>10. pending'[r] \subseteq library[r] BY <1>4, <1>6 DEF Counted
<1> QED BY <1>1, <1>2, <1>7, <1>8, <1>9, <1>10 DEF IInv, Types

LEMMA FillStep ==
  ASSUME IInv, NEW r \in Runs, Fill(r) PROVE IInv'
<1>1. CASE TurnLeft(r) /\ ~NothingToSpawn(r)
  <2>1. Spawn(r) /\ slots' = [slots EXCEPT ![r] = @ - 1]
        /\ UNCHANGED <<pc, library, ended>>
    BY <1>1 DEF Fill
  <2>2. pc[r] = "fill" /\ slots[r] \in Nat /\ slots[r] > 0
    BY <1>1 DEF Fill, TurnLeft, IInv, Types
  <2>3. Types' BY <2>1, <2>2, SpawnFacts DEF IInv, Types
  <2>4. Others(r) BY <2>1, <2>2, SpawnFacts DEF IInv, Types, Others
  <2>5. Quiet(r)' /\ Busy(r)' /\ Counted(r)'
    BY <2>1, <2>2, SpawnFacts DEF Quiet, Busy, Counted
  <2> QED BY <2>3, <2>4, <2>5, OneRun
<1>2. CASE ~(TurnLeft(r) /\ ~NothingToSpawn(r))
  <2>1. /\ pc[r] = "fill"
        /\ pc' = [pc EXCEPT ![r] = "join"] /\ slots' = [slots EXCEPT ![r] = 0]
        /\ UNCHANGED <<library, pending, checking, ended, checks>>
    BY <1>2 DEF Fill
  <2>2. Types' BY <2>1 DEF IInv, Types
  <2>3. Others(r) BY <2>1 DEF IInv, Types, Others
  <2>4. pending[r] = {} \/ r = Scheduled \/ slots[r] # MaxConcurrent
    BY <1>2, SomeConcurrency DEF TurnLeft, NothingToSpawn, IInv, Types
  <2>5. Quiet(r)' /\ Busy(r)' /\ Counted(r)'
    BY <2>1, <2>4 DEF IInv, Types, Quiet, Busy, Counted
  <2> QED BY <2>2, <2>3, <2>5, OneRun
<1> QED BY <1>1, <1>2

LEMMA CheckEndsStep ==
  ASSUME IInv, NEW r \in Runs, NEW m \in Manga, CheckEnds(r, m) PROVE IInv'
<1>1. Types' BY DEF IInv, Types, CheckEnds
<1>2. Others(r) BY DEF IInv, Types, CheckEnds, Others
<1>3. Quiet(r)' /\ Busy(r)' /\ Counted(r)'
  BY DEF IInv, Types, CheckEnds, Quiet, Busy, Counted
<1> QED BY <1>1, <1>2, <1>3, OneRun

LEMMA JoinStep ==
  ASSUME IInv, NEW r \in Runs, Join(r) PROVE IInv'
<1>1. Types' BY DEF IInv, Types, Join, AfterJoin
<1>2. Others(r) BY DEF IInv, Types, Join, Others
<1>3. Quiet(r)' /\ Busy(r)' /\ Counted(r)'
  BY DEF IInv, Types, Join, AfterJoin, Quiet, Busy, Counted
<1> QED BY <1>1, <1>2, <1>3, OneRun

LEMMA RefillStep ==
  ASSUME IInv, NEW r \in Runs, Refill(r) PROVE IInv'
<1>1. pc[r] = "refill" /\ pc' = [pc EXCEPT ![r] = "join"]
      /\ UNCHANGED <<slots, library, ended>>
  BY DEF Refill
<1>2. CASE NothingToSpawn(r)
  <2>1. UNCHANGED <<pending, checking, checks>> BY <1>2 DEF Refill
  <2>2. Types' BY <1>1, <2>1 DEF IInv, Types
  <2>3. Others(r) BY <1>1, <2>1 DEF IInv, Types, Others
  <2>4. Quiet(r)' /\ Busy(r)' /\ Counted(r)'
    BY <1>1, <1>2, <2>1 DEF IInv, Types, Quiet, Busy, Counted, NothingToSpawn
  <2> QED BY <2>2, <2>3, <2>4, OneRun
<1>3. CASE ~NothingToSpawn(r)
  <2>1. Spawn(r) BY <1>3 DEF Refill
  <2>2. Types' BY <1>1, <2>1, SpawnFacts DEF IInv, Types
  <2>3. Others(r) BY <1>1, <2>1, SpawnFacts DEF IInv, Types, Others
  <2>4. pc'[r] = "join" BY <1>1 DEF IInv, Types
  <2>5. Quiet(r)' /\ Busy(r)' /\ Counted(r)'
    BY <1>1, <2>1, <2>4, SpawnFacts DEF Quiet, Busy, Counted
  <2> QED BY <2>2, <2>3, <2>5, OneRun
<1> QED BY <1>2, <1>3

LEMMA RunEndsStep ==
  ASSUME IInv, NEW r \in Runs, RunEnds(r) PROVE IInv'
<1>1. Types' BY DEF IInv, Types, RunEnds
<1>2. Others(r) BY DEF IInv, Types, RunEnds, Others
<1>3. Quiet(r)' /\ Busy(r)' /\ Counted(r)'
  BY DEF IInv, Types, RunEnds, Quiet, Busy, Counted
<1> QED BY <1>1, <1>2, <1>3, OneRun

LEMMA DisconnectStep ==
  ASSUME IInv, NEW r \in ManualRuns, Disconnect(r) PROVE IInv'
<1>0. r \in Runs BY DEF Runs
<1>1. Types' BY <1>0 DEF IInv, Types, Disconnect, Aborted
<1>2. Others(r) BY <1>0 DEF IInv, Types, Disconnect, Aborted, Others
<1>3. Quiet(r)' /\ Busy(r)' /\ Counted(r)'
  BY <1>0 DEF IInv, Types, Disconnect, Aborted, Quiet, Busy, Counted
<1> QED BY <1>0, <1>1, <1>2, <1>3, OneRun

(* A run that was done becomes idle: the answer was sent.                  *)
LEMMA ReturnStep ==
  ASSUME IInv, NEW r \in Runs, pc[r] = "done",
         pc' = [pc EXCEPT ![r] = "idle"],
         UNCHANGED <<slots, library, pending, checking, ended, checks>>
  PROVE  IInv'
<1>1. Types' BY DEF IInv, Types
<1>2. Others(r) BY DEF IInv, Types, Others
<1>3. Quiet(r)' /\ Busy(r)' /\ Counted(r)'
  BY DEF IInv, Types, Quiet, Busy, Counted
<1> QED BY <1>1, <1>2, <1>3, OneRun

LEMMA NextIInv == IInv /\ [Next]_vars => IInv'
<1> SUFFICES ASSUME IInv, [Next]_vars PROVE IInv'
  OBVIOUS
<1>0. Scheduled \in Runs /\ ManualRuns \subseteq Runs BY DEF Runs
<1>1. ASSUME NEW r \in Runs, RunStep(r) PROVE IInv'
  BY <1>1, FillStep, JoinStep, RefillStep, RunEndsStep DEF RunStep
<1>2. ASSUME NEW r \in Runs, NEW m \in Manga, Check(r, m) PROVE IInv'
  BY <1>2, CheckEndsStep DEF Check
<1>3. ASSUME NEW r \in ManualRuns, Request(r) PROVE IInv'
  BY <1>3, <1>0, StartStep DEF Request
<1>4. ASSUME NEW r \in ManualRuns, Respond(r) PROVE IInv'
  BY <1>4, <1>0, ReturnStep DEF Respond
<1>5. ASSUME NEW r \in ManualRuns, Disconnect(r) PROVE IInv'
  BY <1>5, DisconnectStep
<1>6. CASE SchedulerStarts BY <1>6, <1>0, StartStep DEF SchedulerStarts
<1>7. CASE SchedulerReturns BY <1>7, <1>0, ReturnStep DEF SchedulerReturns
<1>8. CASE runVars' = runVars
  BY <1>8 DEF runVars, IInv, Types, Quiet, Busy, Counted
<1>9. SchedulerStops \/ ShutdownSignal \/ UNCHANGED vars => runVars' = runVars
  BY DEF SchedulerStops, ShutdownSignal, vars, runVars
<1> QED BY <1>1, <1>2, <1>3, <1>4, <1>5, <1>6, <1>7, <1>8, <1>9 DEF Next

(* IInv is inductive.                                                      *)
LEMMA Invariance == Spec => []IInv
<1> QED BY InitIInv, NextIInv, PTL DEF Spec

(* The report of a requested run (library_update.rs:58-140) covers the     *)
(* library: each series was checked exactly once, for any number of series *)
(* and any fan-out.                                                        *)
THEOREM ReportsAreComplete == Spec => []ReportCoversLibrary
<1>1. IInv => ReportCoversLibrary
  <2> SUFFICES ASSUME IInv, NEW r \in ManualRuns, pc[r] = "done", NEW m \in Manga
               PROVE  checks[r][m] = IF m \in library[r] THEN 1 ELSE 0
    BY DEF ReportCoversLibrary
  <2>1. r \in Runs /\ r # Scheduled BY RunsDiffer DEF Runs
  <2> QED BY <2>1 DEF IInv, Busy, Counted
<1> QED BY <1>1, Invariance, PTL

(* Dropping a run drops its JoinSet: no check outlives its run, for any    *)
(* number of concurrent runs.                                              *)
THEOREM ChecksEndWithTheirRun == Spec => []NoStrayChecks
<1>1. IInv => NoStrayChecks BY DEF IInv, Quiet, NoStrayChecks
<1> QED BY <1>1, Invariance, PTL

-----------------------------------------------------------------------------
(* The size of the fan-out.  The turns of the first loop that are left and *)
(* the checks in flight add up to the limit, and a refill puts back what a *)
(* join took.                                                              *)

Sized(r) ==
    /\ IsFiniteSet(InFlight(r))
    /\ checking[r] \cap ended[r] = {} /\ pending[r] \cap InFlight(r) = {}
    /\ pc[r] = "fill" => Cardinality(InFlight(r)) + slots[r] = MaxConcurrent
    /\ pc[r] = "join" =>
          /\ Cardinality(InFlight(r)) <= MaxConcurrent
          /\ pending[r] # {} /\ r # Scheduled => Cardinality(InFlight(r)) = MaxConcurrent
    /\ pc[r] = "refill" =>
          /\ Cardinality(InFlight(r)) + 1 <= MaxConcurrent
          /\ pending[r] # {} /\ r # Scheduled
                => Cardinality(InFlight(r)) + 1 = MaxConcurrent

SInv == \A r \in Runs : Sized(r)

LEMMA InitSInv == Init => SInv
  BY FS_EmptySet DEF Init, SInv, Sized, InFlight

LEMMA OtherSizes ==
  ASSUME SInv, NEW r \in Runs, Others(r), Sized(r)' PROVE SInv'
<1>1. ASSUME NEW s \in Runs, s # r PROVE Sized(s)'
  BY <1>1 DEF SInv, Others, Sized, InFlight
<1> QED BY <1>1 DEF SInv

(* A run without a check in flight has a size of 0.                        *)
LEMMA EmptySize ==
  ASSUME NEW r \in Runs, checking'[r] = {}, ended'[r] = {},
         pc'[r] \in {"idle", "done"} \/ (pc'[r] = "fill" /\ slots'[r] = MaxConcurrent)
  PROVE  Sized(r)'
  BY FS_EmptySet, SomeConcurrency DEF Sized, InFlight

(* A spawn adds one check.                                                 *)
LEMMA SpawnSize ==
  ASSUME IInv, NEW r \in Runs, Sized(r), Spawn(r), ended' = ended
  PROVE  /\ IsFiniteSet(InFlight(r)')
         /\ Cardinality(InFlight(r)') = Cardinality(InFlight(r)) + 1
         /\ checking'[r] \cap ended'[r] = {}
         /\ pending'[r] \cap InFlight(r)' = {}
<1>1. PICK m \in pending[r] :
        /\ pending' = [pending EXCEPT ![r] = @ \ {m}]
        /\ checking' = [checking EXCEPT ![r] = @ \cup {m}]
  BY DEF Spawn
<1>2. pending'[r] = pending[r] \ {m} /\ checking'[r] = checking[r] \cup {m}
  BY <1>1 DEF IInv, Types
<1>3. m \notin InFlight(r) BY DEF Sized
<1>4. InFlight(r)' = InFlight(r) \cup {m} BY <1>2 DEF InFlight
<1>5. IsFiniteSet(InFlight(r)') /\ Cardinality(InFlight(r)') = Cardinality(InFlight(r)) + 1
  BY <1>3, <1>4, FS_AddElement DEF Sized
<1> QED BY <1>2, <1>3, <1>4, <1>5 DEF Sized, InFlight

LEMMA SizeType ==
  ASSUME NEW r \in Runs, Sized(r) PROVE Cardinality(InFlight(r)) \in Nat
  BY FS_CardinalityType DEF Sized

LEMMA FillSize ==
  ASSUME IInv, SInv, NEW r \in Runs, Fill(r) PROVE Sized(r)'
<1>1. Sized(r) /\ pc[r] = "fill" /\ slots[r] \in Nat /\ Cardinality(InFlight(r)) \in Nat
  BY SizeType DEF SInv, Fill, IInv, Types
<1>2. CASE TurnLeft(r) /\ ~NothingToSpawn(r)
  <2>1. Spawn(r) /\ slots' = [slots EXCEPT ![r] = @ - 1] /\ UNCHANGED <<pc, ended>>
        /\ slots[r] > 0
    BY <1>2 DEF Fill, TurnLeft
  <2>2. slots'[r] = slots[r] - 1 /\ pc'[r] = "fill"
    BY <2>1, <1>1 DEF IInv, Types
  <2>3. Cardinality(InFlight(r)') + slots'[r] = MaxConcurrent
    BY <2>1, <2>2, <1>1, SpawnSize, SomeConcurrency DEF Sized
  <2> QED BY <1>1, <2>1, <2>2, <2>3, SpawnSize DEF Sized
<1>3. CASE ~(TurnLeft(r) /\ ~NothingToSpawn(r))
  <2>1. pc' = [pc EXCEPT ![r] = "join"] /\ UNCHANGED <<pending, checking, ended>>
    BY <1>3 DEF Fill
  <2>2. pc'[r] = "join" BY <2>1 DEF IInv, Types
  <2>3. pending[r] = {} \/ r = Scheduled \/ slots[r] = 0
    BY <1>1, <1>3 DEF TurnLeft, NothingToSpawn
  <2>4. Cardinality(InFlight(r)) + slots[r] = MaxConcurrent BY <1>1 DEF Sized
  <2>5. InFlight(r)' = InFlight(r) BY <2>1 DEF InFlight
  <2> QED BY <1>1, <2>1, <2>2, <2>3, <2>4, <2>5, SomeConcurrency DEF Sized
<1> QED BY <1>2, <1>3

LEMMA CheckEndsSize ==
  ASSUME IInv, SInv, NEW r \in Runs, NEW m \in Manga, CheckEnds(r, m) PROVE Sized(r)'
<1>1. /\ m \in checking[r]
      /\ checking'[r] = checking[r] \ {m} /\ ended'[r] = ended[r] \cup {m}
      /\ UNCHANGED <<pc, slots, pending>>
  BY DEF CheckEnds, IInv, Types
<1>2. InFlight(r)' = InFlight(r) BY <1>1 DEF InFlight
<1>3. Sized(r) BY DEF SInv
<1>4. checking'[r] \cap ended'[r] = {} BY <1>1, <1>3 DEF Sized
<1> QED BY <1>1, <1>2, <1>3, <1>4 DEF Sized

LEMMA JoinSize ==
  ASSUME IInv, SInv, NEW r \in Runs, Join(r) PROVE Sized(r)'
<1>1. PICK m \in ended[r] :
        /\ ended' = [ended EXCEPT ![r] = @ \ {m}]
        /\ pc' = [pc EXCEPT ![r] = "refill"]
  BY DEF Join, AfterJoin
<1>2. /\ pc[r] = "join" /\ pc'[r] = "refill" /\ ended'[r] = ended[r] \ {m}
      /\ UNCHANGED <<pending, checking>>
  BY <1>1 DEF Join, IInv, Types
<1>3. Sized(r) BY DEF SInv
<1>4. InFlight(r)' = InFlight(r) \ {m} BY <1>2, <1>3 DEF InFlight, Sized
<1>5. m \in InFlight(r)
  BY DEF InFlight
<1>6. /\ IsFiniteSet(InFlight(r)')
      /\ Cardinality(InFlight(r)') = Cardinality(InFlight(r)) - 1
  BY <1>3, <1>4, <1>5, FS_RemoveElement DEF Sized
<1>7. Cardinality(InFlight(r)') + 1 = Cardinality(InFlight(r))
  BY <1>3, <1>6, SizeType
<1>8. /\ checking'[r] \cap ended'[r] = {} /\ pending'[r] \cap InFlight(r)' = {}
  BY <1>2, <1>3, <1>4 DEF Sized
<1> QED BY <1>2, <1>3, <1>6, <1>7, <1>8 DEF Sized

LEMMA RefillSize ==
  ASSUME IInv, SInv, NEW r \in Runs, Refill(r) PROVE Sized(r)'
<1>1. /\ pc[r] = "refill" /\ pc'[r] = "join" /\ UNCHANGED ended
      /\ Sized(r) /\ Cardinality(InFlight(r)) \in Nat
  BY SizeType DEF Refill, IInv, Types, SInv
<1>2. CASE NothingToSpawn(r)
  <2>1. UNCHANGED <<pending, checking>> BY <1>2 DEF Refill
  <2>2. InFlight(r)' = InFlight(r) BY <1>1, <2>1 DEF InFlight
  <2> QED BY <1>1, <1>2, <2>1, <2>2, SomeConcurrency DEF Sized, NothingToSpawn
<1>3. CASE ~NothingToSpawn(r)
  <2>1. Spawn(r) BY <1>3 DEF Refill
  <2>2. pending[r] # {} /\ r # Scheduled BY <1>3 DEF NothingToSpawn
  <2>3. Cardinality(InFlight(r)') = MaxConcurrent
    BY <1>1, <2>1, <2>2, SpawnSize, SomeConcurrency DEF Sized
  <2> QED BY <1>1, <2>1, <2>3, SpawnSize, SomeConcurrency DEF Sized
<1> QED BY <1>2, <1>3

LEMMA NextSInv == IInv /\ SInv /\ [Next]_vars => SInv'
<1> SUFFICES ASSUME IInv, SInv, [Next]_vars PROVE SInv'
  OBVIOUS
<1>0. Scheduled \in Runs /\ ManualRuns \subseteq Runs BY DEF Runs
<1>1. ASSUME NEW r \in Runs, Start(r) PROVE SInv'
  <2>1. Others(r) BY <1>1 DEF IInv, Types, Start, Others
  <2>2. checking'[r] = {} /\ ended'[r] = {} /\ pc'[r] = "fill" /\ slots'[r] = MaxConcurrent
    BY <1>1 DEF IInv, Types, Start, Quiet
  <2> QED BY <2>1, <2>2, EmptySize, OtherSizes
<1>2. ASSUME NEW r \in Runs, Fill(r) PROVE SInv'
  <2>1. Others(r) BY <1>2 DEF IInv, Types, Fill, Spawn, Others
  <2> QED BY <1>2, <2>1, FillSize, OtherSizes
<1>3. ASSUME NEW r \in Runs, NEW m \in Manga, CheckEnds(r, m) PROVE SInv'
  <2>1. Others(r) BY <1>3 DEF IInv, Types, CheckEnds, Others
  <2> QED BY <1>3, <2>1, CheckEndsSize, OtherSizes
<1>4. ASSUME NEW r \in Runs, Join(r) PROVE SInv'
  <2>1. Others(r) BY <1>4 DEF IInv, Types, Join, Others
  <2> QED BY <1>4, <2>1, JoinSize, OtherSizes
<1>5. ASSUME NEW r \in Runs, Refill(r) PROVE SInv'
  <2>1. Others(r) BY <1>5 DEF IInv, Types, Refill, Spawn, Others
  <2> QED BY <1>5, <2>1, RefillSize, OtherSizes
<1>6. ASSUME NEW r \in Runs, RunEnds(r) PROVE SInv'
  <2>1. Others(r) BY <1>6 DEF IInv, Types, RunEnds, Others
  <2>2. checking'[r] = {} /\ ended'[r] = {} /\ pc'[r] = "done"
    BY <1>6 DEF IInv, Types, RunEnds
  <2> QED BY <2>1, <2>2, EmptySize, OtherSizes
<1>7. ASSUME NEW r \in ManualRuns, Disconnect(r) PROVE SInv'
  <2>0. r \in Runs BY <1>0
  <2>1. Others(r) BY <1>7, <2>0 DEF IInv, Types, Disconnect, Aborted, Others
  <2>2. checking'[r] = {} /\ ended'[r] = {} /\ pc'[r] = "idle"
    BY <1>7, <2>0 DEF IInv, Types, Disconnect, Aborted
  <2> QED BY <2>0, <2>1, <2>2, EmptySize, OtherSizes
<1>8. ASSUME NEW r \in Runs, pc[r] = "done", pc' = [pc EXCEPT ![r] = "idle"],
             UNCHANGED <<slots, library, pending, checking, ended, checks>>
      PROVE  SInv'
  <2>1. Others(r) BY <1>8 DEF IInv, Types, Others
  <2>2. checking'[r] = {} /\ ended'[r] = {} /\ pc'[r] = "idle"
    BY <1>8 DEF IInv, Types, Quiet
  <2> QED BY <2>1, <2>2, EmptySize, OtherSizes
<1>9. CASE runVars' = runVars BY <1>9 DEF runVars, SInv, Sized, InFlight
<1>10. SchedulerStops \/ ShutdownSignal \/ UNCHANGED vars => runVars' = runVars
  BY DEF SchedulerStops, ShutdownSignal, vars, runVars
<1> QED BY <1>0, <1>1, <1>2, <1>3, <1>4, <1>5, <1>6, <1>7, <1>8, <1>9, <1>10
        DEF Next, RunStep, Check, Request, Respond, SchedulerStarts, SchedulerReturns

(* At most MaxConcurrent checks of a run are in flight, and exactly that   *)
(* many while series are pending (library_update.rs:45-110), for any       *)
(* fan-out and any library.                                                *)
THEOREM FanOutHolds == Spec => []FanOutIsKept
<1>1. IInv /\ SInv => FanOutIsKept
  <2> SUFFICES ASSUME IInv, SInv, NEW r \in Runs
               PROVE  /\ Cardinality(InFlight(r)) <= MaxConcurrent
                      /\ pc[r] = "join" /\ r # Scheduled /\ pending[r] # {}
                            => Cardinality(InFlight(r)) = MaxConcurrent
    BY DEF FanOutIsKept
  <2>1. Sized(r) /\ Cardinality(InFlight(r)) \in Nat /\ slots[r] \in Nat
    BY SizeType DEF SInv, IInv, Types
  <2>2. CASE pc[r] \in {"idle", "done"}
    <3>1. InFlight(r) = {} BY <2>2 DEF IInv, Quiet, InFlight
    <3> QED BY <2>2, <3>1, FS_EmptySet, SomeConcurrency
  <2>3. CASE pc[r] \in {"fill", "join", "refill"}
    BY <2>1, <2>3, SomeConcurrency DEF Sized
  <2> QED BY <2>2, <2>3 DEF IInv, Types
<1> QED BY <1>1, Invariance, InitSInv, NextSInv, PTL DEF Spec

-----------------------------------------------------------------------------
(* One life of the process.                                                *)

Boot == {"database", "recovery", "inference", "listener"}

(* run_until_shutdown is past its guards.                                  *)
Down == {"plugins", "upscaler", "cache", "exited"}

LifeShapes ==
    /\ task \in [Tasks -> {"none", "idle", "busy", "ended", "panicked"}]
    /\ requests \in Nat

(* Only an open server has requests at work, and only one of these waits.  *)
RequestsAreServed ==
    /\ http # "open" => requests = 0
    /\ "request" \in stuck => requests > 0

(* Nobody signals before the tasks are there.                              *)
BootIsQuiet == main \in Boot => ~cancelled /\ http = "none"

(* Who is past the guards found that every task had dropped its own, and   *)
(* so did whoever failed after a signal.                                   *)
GuardsWereDropped == main \in Down \/ (main = "failed" /\ cancelled) => TasksEnded

(* The resources are given back in their order.                            *)
GivenBack ==
    /\ upscaler = "stopped" => main \in {"cache", "exited"}
    /\ cache = "closed" => main = "exited"

LifeInv ==
    LifeShapes /\ RequestsAreServed /\ BootIsQuiet /\ GuardsWereDropped /\ GivenBack

USE DEF Boot, Down

-----------------------------------------------------------------------------
LEMMA InitLifeInv == ProcessInit => LifeInv
<1> SUFFICES ASSUME ProcessInit PROVE LifeInv
  OBVIOUS
<1>1. LifeShapes /\ RequestsAreServed
  BY DEF ProcessInit, LifeShapes, RequestsAreServed
<1>2. BootIsQuiet /\ GuardsWereDropped /\ GivenBack
  BY DEF ProcessInit, BootIsQuiet, GuardsWereDropped, GivenBack
<1> QED BY <1>1, <1>2 DEF LifeInv

(* What every kind of step leaves alone.                                   *)
USE DEF mainVars, workVars, webVars, signalVars, pauseVars, MainOnly, WorkOnly

Cond == <<main, cancelled, task, worker, http, requests, upscaler, cache, stuck>>

LEMMA SameIsKept == LifeInv /\ UNCHANGED Cond => LifeInv'
<1> SUFFICES ASSUME LifeInv, UNCHANGED Cond PROVE LifeInv'
  OBVIOUS
<1>1. UNCHANGED <<main, cancelled, task, worker, http, requests, upscaler, cache, stuck>>
  BY DEF Cond
<1>2. LifeShapes' /\ RequestsAreServed'
  BY <1>1 DEF LifeInv, LifeShapes, RequestsAreServed
<1>3. BootIsQuiet' /\ GivenBack'
  BY <1>1 DEF LifeInv, BootIsQuiet, GivenBack
<1>4. TasksEnded' <=> TasksEnded
  BY <1>1 DEF TasksEnded
<1>5. GuardsWereDropped'
  BY <1>1, <1>4 DEF LifeInv, GuardsWereDropped
<1> QED BY <1>2, <1>3, <1>5 DEF LifeInv

(* The boot: there is no signal, and no task yet.                          *)
LEMMA BootKeeps == LifeInv /\ BootSteps => LifeInv'
<1> SUFFICES ASSUME LifeInv, BootSteps PROVE LifeInv'
  OBVIOUS
<1>1. main \in Boot /\ UNCHANGED <<cancelled, requests, stuck>> /\ upscaler' # "stopped" /\ cache' # "closed"
  BY DEF LifeInv, GivenBack, BootSteps, OpenDatabase, Recover, StartUpscaler, SpawnTasks, BootFails
<1>2. ~cancelled' /\ main' \notin Down
  BY <1>1 DEF LifeInv, BootIsQuiet, BootSteps, OpenDatabase, Recover, StartUpscaler, SpawnTasks, BootFails
<1>3. main' \in Boot => http' = "none"
  BY <1>1 DEF LifeInv, BootIsQuiet, BootSteps, OpenDatabase, Recover, StartUpscaler, SpawnTasks, BootFails
<1>4. http = "none" /\ requests = 0 /\ "request" \notin stuck
  BY <1>1 DEF LifeInv, BootIsQuiet, RequestsAreServed
<1>5. task' \in [Tasks -> {"none", "idle", "busy", "ended", "panicked"}]
  <2>1. CASE SpawnTasks
    BY <2>1 DEF SpawnTasks, Started
  <2>2. CASE ~SpawnTasks
    BY <2>2 DEF LifeInv, LifeShapes, BootSteps, OpenDatabase, Recover, StartUpscaler, BootFails
  <2> QED BY <2>1, <2>2
<1>6. LifeShapes' /\ RequestsAreServed'
  BY <1>1, <1>4, <1>5 DEF LifeShapes, RequestsAreServed
<1>7. BootIsQuiet' /\ GuardsWereDropped' /\ GivenBack'
  BY <1>1, <1>2, <1>3 DEF BootIsQuiet, GuardsWereDropped, GivenBack
<1> QED BY <1>6, <1>7 DEF LifeInv

(* No step beside run_server's own takes back the end of a task, or        *)
(* signals or serves during the boot.                                      *)
LEMMA Beside ==
    ASSUME LifeInv, main \notin {"exited", "failed"},
           UNCHANGED <<main, upscaler, cache>>, LifeShapes', RequestsAreServed',
           TasksEnded => TasksEnded',
           main \in Boot => UNCHANGED <<cancelled, http>>
    PROVE  LifeInv'
<1>1. BootIsQuiet' /\ GivenBack'
  BY DEF LifeInv, BootIsQuiet, GivenBack
<1>2. GuardsWereDropped'
  BY DEF LifeInv, GuardsWereDropped
<1> QED BY <1>1, <1>2 DEF LifeInv

LEMMA TasksKeep ==
    ASSUME LifeInv, ~Over, NEW t \in Tasks,
           Begin(t) \/ Finish(t) \/ Stop(t) \/ Panic(t)
    PROVE  LifeInv'
<1>1. UNCHANGED <<main, upscaler, cache, http, requests, worker, cancelled, stuck>>
  BY DEF Begin, Finish, Stop, Panic
<1>2. PICK to \in {"idle", "busy", "ended", "panicked"} : task' = [task EXCEPT ![t] = to]
  BY DEF Begin, Finish, Stop, Panic
<1>3. task[t] \in {"idle", "busy"}
  BY DEF Begin, Finish, Stop, Panic
<1>4. LifeShapes' /\ RequestsAreServed'
  BY <1>1, <1>2 DEF LifeInv, LifeShapes, RequestsAreServed
<1>5. ~TasksEnded
  BY <1>3 DEF TasksEnded
<1> QED BY <1>1, <1>4, <1>5, Beside DEF Over

LEMMA WorkerKeeps ==
    ASSUME LifeInv, ~Over, TakeJob \/ WorkerSteps \/ StopWorker
    PROVE  LifeInv'
<1>1. UNCHANGED <<main, upscaler, cache, http, requests, task, cancelled, stuck>> /\ worker # "ended"
  BY DEF TakeJob, WorkerSteps, Unpark, StartPage, FinishPage, EndJob, StopWorker, Work
<1>2. LifeShapes' /\ RequestsAreServed'
  BY <1>1 DEF LifeInv, LifeShapes, RequestsAreServed
<1>3. ~TasksEnded
  BY <1>1 DEF TasksEnded
<1> QED BY <1>1, <1>2, <1>3, Beside DEF Over

LEMMA WebKeeps ==
    ASSUME LifeInv, ~Over,
           ServerFails \/ BeginRequest \/ EndRequest \/ ClientLeaves \/ EndHttp
    PROVE  LifeInv'
<1>1. UNCHANGED <<main, upscaler, cache, task, worker>>
  BY DEF ServerFails, BeginRequest, EndRequest, ClientLeaves, EndHttp, Going
<1>2. http = "open" \/ (http' = http /\ requests > 0 /\ requests' = requests - 1 /\ cancelled' = cancelled)
  BY DEF LifeInv, LifeShapes, RequestsAreServed, ServerFails, BeginRequest, EndRequest,
         ClientLeaves, EndHttp, Going
<1>3. LifeShapes' /\ RequestsAreServed'
  <2>1. requests \in Nat /\ task' = task
    BY <1>1 DEF LifeInv, LifeShapes
  <2>2. CASE ServerFails
    BY <1>1, <2>1, <2>2 DEF LifeInv, LifeShapes, RequestsAreServed, ServerFails
  <2>3. CASE BeginRequest
    BY <1>1, <2>1, <2>3 DEF LifeInv, LifeShapes, RequestsAreServed, BeginRequest
  <2>4. CASE EndRequest
    BY <1>1, <2>1, <2>4 DEF LifeInv, LifeShapes, RequestsAreServed, EndRequest, Going
  <2>5. CASE ClientLeaves
    BY <1>1, <2>1, <2>5 DEF LifeInv, LifeShapes, RequestsAreServed, ClientLeaves
  <2>6. CASE EndHttp
    BY <1>1, <2>1, <2>6 DEF LifeInv, LifeShapes, RequestsAreServed, EndHttp
  <2> QED BY <2>2, <2>3, <2>4, <2>5, <2>6
<1>5. TasksEnded => TasksEnded'
  BY <1>1, <1>2 DEF TasksEnded
<1>6. main \in Boot => UNCHANGED <<cancelled, http>>
  BY <1>2 DEF LifeInv, BootIsQuiet
<1> QED BY <1>1, <1>3, <1>5, <1>6, Beside DEF Over

(* The signal, the pauses and the detached task touch none of this.        *)
LEMMA OthersKeep ==
    ASSUME LifeInv, ~Over,
           Signal \/ Toggle \/ Resume \/ Warm \/ WarmPage \/ \E who \in Callers : WaitForGood(who)
    PROVE  LifeInv'
<1>1. UNCHANGED <<main, upscaler, cache, task, worker, http, requests>>
  BY DEF Signal, Toggle, Resume, Warm, WarmPage, WaitForGood
<1>2. "request" \in stuck' => "request" \in stuck \/ requests > 0
  <2>1. ASSUME NEW who \in Callers, WaitForGood(who)
        PROVE  "request" \in stuck' => "request" \in stuck \/ requests > 0
    <3>1. stuck' = stuck \cup {who}
      BY <2>1 DEF WaitForGood
    <3>2. CASE who = "request"
      BY <2>1, <3>2 DEF WaitForGood, AsksASource, Fetching, Going
    <3> QED BY <3>1, <3>2
  <2> QED BY <2>1 DEF Signal, Toggle, Resume, Warm, WarmPage
<1>5. LifeShapes' /\ RequestsAreServed'
  BY <1>1, <1>2 DEF LifeInv, LifeShapes, RequestsAreServed
<1>3. TasksEnded => TasksEnded'
  BY <1>1 DEF TasksEnded
<1>4. main \in Boot => UNCHANGED <<cancelled, http>>
  BY DEF Signal, Toggle, Resume, Warm, WarmPage, WaitForGood
<1> QED BY <1>1, <1>3, <1>4, <1>5, Beside DEF Over

(* run_until_shutdown passes its guards when they were dropped, and gives  *)
(* back in order.                                                          *)
LEMMA MainKeeps == LifeInv /\ MainSteps => LifeInv'
<1> SUFFICES ASSUME LifeInv, MainSteps PROVE LifeInv'
  OBVIOUS
<1>1. UNCHANGED <<task, worker, http, requests, cancelled, stuck>> /\ main \notin Boot /\ main' \notin Boot
  BY DEF MainSteps, ObserveSignal, JoinTask, ReleaseHttp, Joined, WaitForGuards, WaitForPlugins,
         StopUpscaler, CloseCache
<1>2. LifeShapes' /\ RequestsAreServed' /\ BootIsQuiet'
  BY <1>1 DEF LifeInv, LifeShapes, RequestsAreServed, BootIsQuiet
<1>3. TasksEnded' <=> TasksEnded
  BY <1>1 DEF TasksEnded
<1>4. main' \in Down \/ main' = "failed" => TasksEnded
  BY DEF MainSteps, ObserveSignal, JoinTask, ReleaseHttp, Joined, WaitForGuards, WaitForPlugins,
         StopUpscaler, CloseCache, GuardsDropped, LifeInv, GuardsWereDropped
<1>5. GivenBack'
  BY DEF MainSteps, ObserveSignal, JoinTask, ReleaseHttp, Joined, WaitForGuards, WaitForPlugins,
         StopUpscaler, CloseCache, LifeInv, GivenBack
<1>6. GuardsWereDropped'
  BY <1>1, <1>3, <1>4 DEF GuardsWereDropped
<1> QED BY <1>2, <1>5, <1>6 DEF LifeInv

LEMMA LifeInvStep == LifeInv /\ [ProcessNext]_processVars => LifeInv'
<1> SUFFICES ASSUME LifeInv, [ProcessNext]_processVars PROVE LifeInv'
  OBVIOUS
<1>1. CASE UNCHANGED processVars
  BY <1>1, SameIsKept DEF processVars, Cond
<1>2. CASE ProcessNext
  <2>1. ~Over
    BY <1>2 DEF ProcessNext
  <2>2. CASE BootSteps
    BY <2>2, BootKeeps
  <2>3. ASSUME NEW t \in Tasks, Begin(t) \/ Finish(t) \/ Stop(t) \/ Panic(t) PROVE LifeInv'
    BY <2>1, <2>3, TasksKeep
  <2>4. CASE TakeJob \/ WorkerSteps \/ StopWorker
    BY <2>1, <2>4, WorkerKeeps
  <2>5. CASE ServerFails \/ BeginRequest \/ EndRequest \/ ClientLeaves \/ EndHttp
    BY <2>1, <2>5, WebKeeps
  <2>6. CASE Signal \/ Toggle \/ Resume \/ Warm \/ WarmPage \/ \E who \in Callers : WaitForGood(who)
    BY <2>1, <2>6, OthersKeep
  <2>7. CASE MainSteps
    BY <2>7, MainKeeps
  <2> QED BY <1>2, <2>2, <2>3, <2>4, <2>5, <2>6, <2>7 DEF ProcessNext
<1> QED BY <1>1, <1>2

LEMMA LifeInvImplies == LifeInv => NothingIsCutOff
<1> SUFFICES ASSUME LifeInv, (Over /\ cancelled) \/ upscaler = "stopped" \/ cache = "closed"
             PROVE  TasksEnded /\ requests = 0
  BY DEF NothingIsCutOff
<1>1. main \in Down \/ (main = "failed" /\ cancelled)
  BY DEF LifeInv, GivenBack, Over
<1>2. TasksEnded
  BY <1>1 DEF LifeInv, GuardsWereDropped
<1> QED BY <1>2 DEF LifeInv, RequestsAreServed, TasksEnded

-----------------------------------------------------------------------------
(* When the process ends after it has served, by a signal, by an error of  *)
(* the server or after a panic, every background task and every request    *)
(* has ended, and no resource was closed before them                       *)
(* (run_until_shutdown and ShutdownGuard, server/src/server).              *)
THEOREM NothingIsCutOffHolds == ProcessSpec => []NothingIsCutOff
<1>1. ProcessInit => LifeInv
  BY InitLifeInv
<1>2. LifeInv /\ [ProcessNext]_processVars => LifeInv'
  BY LifeInvStep
<1>3. LifeInv => NothingIsCutOff
  BY LifeInvImplies
<1> QED BY <1>1, <1>2, <1>3, PTL DEF ProcessSpec
=============================================================================
