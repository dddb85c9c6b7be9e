---------------------------- MODULE SourceFetch ----------------------------
(***************************************************************************)
(* Requests to one host that may answer with a browser challenge: the      *)
(* outbound calls identical requests share, the clearance session of the   *)
(* host that one request solves and the others wait for, the cookies it    *)
(* leaves in the jar, the retries with them and the invalidation of a      *)
(* session that did not help.  A request is a future: its client may go    *)
(* away and it is dropped where it waits.                                  *)
(*                                                                         *)
(* What the host answers is left open.  A solution is named by the order   *)
(* in which it was recorded; the browser that finds it is BrowserClient.   *)
(***************************************************************************)
EXTENDS Naturals, FiniteSets

CONSTANTS
    Requests,
    Profiles,    \* the kinds of requests there may be together
    MediaLimit,  \* MEDIA_FETCH_CONCURRENCY_LIMIT
    None

ASSUME ProfilesAreKnown == Profiles \subseteq [Requests -> {"api", "page", "post", "media"}]
ASSUME MediaLimitIsPositive == MediaLimit \in Nat \ {0}
ASSUME NoneIsNoRequest == None \notin Requests

VARIABLES
    kind,      \* the profile and method of each request
    req,       \* where each request is and what it holds
    entry,     \* the session of the host
    jar,       \* the solution whose cookies the jar holds
    solved,    \* solutions recorded so far
    hung,      \* requests whose browser never answers
    stranded,  \* history: waiters whose notification is past or never comes
    dropped,   \* history: requests dropped while they were solving
    displaced  \* history: solvers whose session somebody else removed

vars == <<kind, req, entry, jar, solved, hung, stranded, dropped, displaced>>

(* turn: 0 for the first send, then the user agent of a retry; call: who   *)
(* leads the outbound call; cookie: the solution a leader sent it with;    *)
(* waits: whose Notify; held: the solution given; tried (history): the     *)
(* newest solution an answered retry carried.                              *)
Idle == [pc |-> "idle", turn |-> 0, call |-> None, cookie |-> 0,
         waits |-> None, held |-> 0, tried |-> 0]
Done == [Idle EXCEPT !.pc = "done"]

NoSession == [state |-> "none"]
Pending(r) == [state |-> "pending", by |-> r]
Ready(n) == [state |-> "ready", solution |-> n, fresh |-> TRUE]

Init ==
    /\ kind \in Profiles
    /\ req = [r \in Requests |-> Idle]
    /\ entry = NoSession
    /\ jar = 0 /\ solved = 0
    /\ hung = {} /\ stranded = {} /\ dropped = {} /\ displaced = {}

histories == <<stranded, dropped, displaced>>
others == <<hung, stranded, dropped, displaced>>

At(r, pc) == req[r].pc = pc
Goto(r, pc) == [req EXCEPT ![r].pc = pc]

-----------------------------------------------------------------------------
(* Outbound calls.                                                         *)

MediaInFlight ==
    {r \in Requests : kind[r] = "media" /\ req[r].pc \notin {"idle", "queued", "done"}}

Call(r) ==
    /\ At(r, "idle")
    /\ req' = Goto(r, "queued")
    /\ UNCHANGED <<kind, entry, jar, solved, others>>

(* The permit of a media fetch is held until the request ends.             *)
Admit(r) ==
    /\ At(r, "queued")
    /\ kind[r] = "media" => Cardinality(MediaInFlight) < MediaLimit
    /\ req' = Goto(r, "send")
    /\ UNCHANGED <<kind, entry, jar, solved, others>>

(* A slip: of the candidates only the agent of the solution is tried.      *)
FirstTurnOnly(r) == 1

(* user_agent_candidates: the agent of the solution and the default one,   *)
(* which are the same, and for a GET also none.                            *)
LastTurn(r) == IF kind[r] = "post" THEN 2 ELSE 3

(* outbound_coalesce_key: what is sent twice only if it may be.            *)
CoalesceKey(r) ==
    <<IF kind[r] = "post" THEN r ELSE kind[r], req[r].turn \in {1, 2}>>

Leads(l) == req[l].call = l
Riders(l) == {r \in Requests : req[r].call = l}

Send(r) ==
    /\ At(r, "send")
    /\ LET leaders == {l \in Requests : Leads(l) /\ CoalesceKey(l) = CoalesceKey(r)}
       IN IF leaders = {}
          THEN req' = [req EXCEPT ![r] = [@ EXCEPT !.pc = "sent", !.call = r, !.cookie = jar]]
          ELSE \E l \in leaders : req' = [req EXCEPT ![r] = [@ EXCEPT !.pc = "sent", !.call = l]]
    /\ UNCHANGED <<kind, entry, jar, solved, others>>

(* The retry layer repeats what may be repeated, with the jar as it is.    *)
Reattempt(l) ==
    /\ Leads(l) /\ kind[l] # "post"
    /\ req' = [req EXCEPT ![l].cookie = jar]
    /\ UNCHANGED <<kind, entry, jar, solved, others>>

(* What execute_text_request and execute_binary_request do with a          *)
(* response: "failed" is none at all.                                      *)
NextStage(r, outcome) ==
    CASE outcome \in {"ok", "failed"} -> "done"
      [] req[r].turn = 0 /\ outcome = "error" -> "done"
      [] req[r].turn = 0 /\ outcome = "challenge" ->
            IF kind[r] = "api" THEN "capture" ELSE "solve"
      [] OTHER -> IF req[r].turn < LastTurn(r) THEN "send" ELSE "invalidate"

Larger(m, n) == IF m > n THEN m ELSE n

Answered(r, outcome, sentWith) ==
    LET stage == NextStage(r, outcome)
        retry == req[r].turn > 0
    IN IF stage = "done" THEN Done
       ELSE [req[r] EXCEPT
               !.pc = stage, !.call = None, !.cookie = 0,
               !.turn = IF retry /\ stage = "send" THEN @ + 1 ELSE @,
               !.tried = IF retry THEN Larger(@, sentWith) ELSE @]

(* What a response is to a request: accepted, a challenge (by status,      *)
(* headers or body), another refusal, or none.                             *)
Outcomes == {"ok", "challenge", "error", "failed"}

(* Everyone on the call gets its outcome.                                  *)
Respond(l) ==
    /\ Leads(l)
    /\ \E outcome \in Outcomes :
         req' = [r \in Requests |->
                    IF r \in Riders(l) THEN Answered(r, outcome, req[l].cookie) ELSE req[r]]
    /\ UNCHANGED <<kind, entry, jar, solved, others>>

(* What waits on the browser without a timeout, to connect, to send or to  *)
(* close, and on a command whose timeout every message starts anew, may    *)
(* wait for good.                                                          *)
Hang(r) ==
    /\ req[r].pc \in {"capture", "solving"} /\ r \notin hung
    /\ hung' = hung \cup {r}
    /\ UNCHANGED <<kind, req, entry, jar, solved, histories>>

(* The text of an API response, read from a browser page.                  *)
Capture(r) ==
    /\ At(r, "capture") /\ r \notin hung
    /\ req' \in {[req EXCEPT ![r] = Done], Goto(r, "solve")}
    /\ UNCHANGED <<kind, entry, jar, solved, others>>

-----------------------------------------------------------------------------
(* ClearanceSolver::solve.                                                 *)

Solving == {r \in Requests : At(r, "solving")}

(* Whose pending session r removes; a solver that is done is forgotten.    *)
Displacing(r) ==
    displaced' = (IF entry.state = "pending" THEN displaced \cup {entry.by}
                  ELSE displaced) \ {r}

(* A slip: the session is entered when it is solved.                       *)
Unclaimed(r) == NoSession
Claimed(r) == Pending(r)

(* One look at the sessions, under their lock.                             *)
LookUp(r) ==
    /\ At(r, "solve")
    /\ \/ /\ entry.state = "ready" /\ entry.fresh
          /\ jar' = entry.solution
          /\ req' = [req EXCEPT ![r] = [@ EXCEPT !.pc = "send", !.turn = 1,
                                                       !.held = entry.solution]]
          /\ UNCHANGED entry
       \/ /\ entry.state = "ready" /\ ~entry.fresh
          /\ entry' = NoSession
          /\ UNCHANGED <<req, jar>>
       \/ /\ entry.state = "pending"
          /\ req' = [req EXCEPT ![r] = [@ EXCEPT !.pc = "parking", !.waits = entry.by]]
          /\ UNCHANGED <<entry, jar>>
       \/ /\ entry.state = "none"
          /\ entry' = Claimed(r)
          /\ req' = Goto(r, "solving")
          /\ UNCHANGED jar
    /\ UNCHANGED <<kind, solved, others>>

(* notified(), after the lock was released: what has been notified by now  *)
(* is missed, and a solver that was dropped never notifies.                *)
Park(r) ==
    /\ At(r, "parking")
    /\ req' = Goto(r, "parked")
    /\ stranded' = IF req[req[r].waits].pc \in {"solving", "notify"} THEN stranded
                   ELSE stranded \cup {r}
    /\ UNCHANGED <<kind, entry, jar, solved, hung, dropped, displaced>>

JarAfter(ok) == IF ok THEN solved + 1 ELSE jar

(* A slip: a failure leaves the entry for the next request to clear.       *)
EntryKept(ok) == IF ok THEN Ready(solved + 1) ELSE entry
EntryAfter(ok) == IF ok THEN Ready(solved + 1) ELSE NoSession

(* solve_once has returned; its outcome is recorded under the lock.        *)
Record(r) ==
    /\ At(r, "solving") /\ r \notin hung
    /\ \E ok \in BOOLEAN :
         /\ entry' = EntryAfter(ok)
         /\ jar' = JarAfter(ok)
         /\ solved' = IF ok THEN solved + 1 ELSE solved
         /\ req' = [req EXCEPT ![r] = [@ EXCEPT !.pc = "notify",
                                                  !.held = IF ok THEN solved + 1 ELSE 0]]
    /\ Displacing(r)
    /\ UNCHANGED <<kind, hung, stranded, dropped>>

Waiters(r) == {w \in Requests : At(w, "parked") /\ req[w].waits = r /\ w \notin stranded}

(* A slip: a solver that failed tells nobody.                              *)
WokenAfterSuccess(r) == IF req[r].held > 0 THEN Waiters(r) ELSE {}
Woken(r) == Waiters(r)

NotifyWaiters(r) ==
    /\ At(r, "notify")
    /\ req' = [q \in Requests |->
                  IF q \in Woken(r) THEN [req[q] EXCEPT !.pc = "solve", !.waits = None]
                  ELSE IF q # r THEN req[q]
                  ELSE IF req[r].held > 0 THEN [req[r] EXCEPT !.pc = "send", !.turn = 1]
                  ELSE Done]
    /\ UNCHANGED <<kind, entry, jar, solved, others>>

(* No retry was accepted: the session goes, whichever it is by now.        *)
Invalidate(r) ==
    /\ At(r, "invalidate")
    /\ entry' = NoSession
    /\ Displacing(r)
    /\ req' = [req EXCEPT ![r] = Done]
    /\ UNCHANGED <<kind, jar, solved, hung, stranded, dropped>>

(* CLEARANCE_SESSION_TTL passes.                                           *)
Expire ==
    /\ entry.state = "ready" /\ entry.fresh
    /\ entry' = [entry EXCEPT !.fresh = FALSE]
    /\ UNCHANGED <<kind, req, jar, solved, others>>

-----------------------------------------------------------------------------
EndsWith(r) == {r} \cup Riders(r)

(* A dropped future gives back its permit and ends the call it leads, for  *)
(* everyone on it; a session it was solving stays pending.                 *)
Drop(r) ==
    /\ req[r].pc \in {"queued", "sent", "capture", "solve", "parked", "solving", "invalidate"}
    /\ req' = [q \in Requests |-> IF q \in EndsWith(r) THEN Done ELSE req[q]]
    /\ IF At(r, "solving")
       THEN /\ dropped' = dropped \cup {r}
            /\ stranded' = stranded \cup Waiters(r)
       ELSE /\ stranded' = stranded \ {r}
            /\ UNCHANGED dropped
    /\ displaced' = displaced \ {r}
    /\ hung' = hung \ {r}
    /\ UNCHANGED <<kind, entry, jar, solved>>

RequestStep(r) ==
    \/ Admit(r) \/ Send(r) \/ Respond(r) \/ Capture(r) \/ LookUp(r) \/ Park(r)
    \/ Record(r) \/ NotifyWaiters(r) \/ Invalidate(r)

Next ==
    \/ \E r \in Requests : Call(r) \/ RequestStep(r) \/ Reattempt(r) \/ Hang(r) \/ Drop(r)
    \/ Expire

Spec == Init /\ [][Next]_vars

(* Outbound calls end within their timeout, a browser that does not hang   *)
(* answers, and the runtime polls what is ready.                           *)
FairSpec == Spec /\ \A r \in Requests : WF_vars(RequestStep(r))

-----------------------------------------------------------------------------
(* Properties.                                                             *)

(* A pending session has a solver at work, who will settle it and wake the *)
(* waiters, unless that solver was dropped.                                *)
PendingHasSolver ==
    entry.state = "pending" => entry.by \in Solving \cup dropped

(* Only the removal of its session by somebody else lets a second request  *)
(* of the host start a challenge beside the first.                         *)
SecondSolverWasLetIn == Cardinality(Solving \ displaced) <= 1

(* A request gives its session up only after the host has refused a send   *)
(* that carried it or a newer one: a retry that joined an older call is    *)
(* followed by one that did not.                                           *)
SessionWasTried == \A r \in Requests : At(r, "invalidate") => req[r].tried >= req[r].held

(* Who waits for good: for a browser, for a session whose solver hangs or  *)
(* will never notify it, or for a permit that one of these may hold.       *)
WaitsForSession(r) == r \in stranded \/ (At(r, "parked") /\ req[r].waits \in hung)
HasStopped(r) == r \in hung \/ WaitsForSession(r)
Starved(r) ==
    At(r, "queued") /\ kind[r] = "media" /\ \E m \in MediaInFlight : HasStopped(m)

(* Every request ends, unless it waits for good: a browser that hangs, a   *)
(* lost notification or a dropped solver is the only way not to end, and   *)
(* it stops only those who wait for it and, through the permits, media.    *)
RequestsEnd ==
    \A r \in Requests :
        At(r, "queued") ~> (At(r, "done") \/ HasStopped(r) \/ Starved(r))
=============================================================================
