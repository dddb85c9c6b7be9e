--------------------------- MODULE RemoteBrowser ---------------------------
(***************************************************************************)
(* The shared connection to a remote CDP browser: operations take it from  *)
(* its slot or launch it, each opens a page of its own, and one whose      *)
(* browser failed takes the connection out of the slot and shuts it down,  *)
(* which closes the browser (external) under every other page.             *)
(***************************************************************************)
EXTENDS Naturals, FiniteSets

CONSTANTS
    Users,         \* solves and captures in flight
    MaxPolls,      \* bound: polls until the timeout
    MaxOperations  \* bound: operations begun

VARIABLES
    slot,      \* the runtime in the slot, 0 for none
    launched,  \* runtimes launched so far
    alive,     \* runtimes whose browser is there
    user,      \* where each operation is, with which runtime, and its polls
    begun,     \* operations so far
    reported   \* history: runtimes that an operation has reported as broken

vars == <<slot, launched, alive, user, begun, reported>>

Runtimes == 1 .. launched
Resting == [pc |-> "idle", runtime |-> 0, polls |-> 0, challenge |-> FALSE, stable |-> 0]

Init ==
    /\ slot = 0 /\ launched = 0 /\ alive = {} /\ begun = 0 /\ reported = {}
    /\ user = [u \in Users |-> Resting]

Goto(u, pc) == user' = [user EXCEPT ![u].pc = pc]
Rest(u) == user' = [user EXCEPT ![u] = Resting]

Begin(u) ==
    /\ user[u].pc = "idle" /\ begun < MaxOperations
    /\ begun' = begun + 1
    /\ Goto(u, "ensure")
    /\ UNCHANGED <<slot, launched, alive, reported>>

(* ensure_browser; the slot is unlocked while a browser is launched, and   *)
(* the configuration does not change.                                      *)
Ensure(u) ==
    /\ user[u].pc = "ensure"
    /\ user' = [user EXCEPT ![u].pc = IF slot # 0 THEN "open" ELSE "launch",
                            ![u].runtime = slot]
    /\ UNCHANGED <<slot, launched, alive, begun, reported>>

Launch(u) ==
    /\ user[u].pc = "launch"
    /\ \/ /\ launched' = launched + 1
          /\ alive' = alive \cup {launched + 1}
          /\ user' = [user EXCEPT ![u].pc = "insert", ![u].runtime = launched + 1]
       \/ user' = [user EXCEPT ![u] = Resting] /\ UNCHANGED <<launched, alive>>
    /\ UNCHANGED <<slot, begun, reported>>

Insert(u) ==
    /\ user[u].pc = "insert"
    /\ slot' = user[u].runtime
    /\ Goto(u, "open")
    /\ UNCHANGED <<launched, alive, begun, reported>>

Fails(u) == Goto(u, "invalidate")

(* The new page, stealth mode, scripts and the navigation.                 *)
OpenPage(u) ==
    /\ user[u].pc = "open"
    /\ \/ user[u].runtime \in alive /\ Goto(u, "poll")
       \/ Fails(u)
    /\ UNCHANGED <<slot, launched, alive, begun, reported>>

(* wait_for_clearance: a sight of the page, whether a challenge is there,  *)
(* cleared by a cookie, or gone from a page that stays elsewhere.          *)
Sights == {"denied", "challenge", "cookie", "asked", "elsewhere", "transient"}

StableAt(u, sight) ==
    CASE sight \in {"challenge", "asked"} -> 0
      [] sight = "elsewhere" -> user[u].stable + 1
      [] OTHER -> user[u].stable

Cleared(u, sight) ==
    \/ sight \in {"cookie", "asked", "elsewhere"} /\ ~user[u].challenge
    \/ sight = "cookie"
    \/ sight = "elsewhere" /\ StableAt(u, sight) >= 2

Poll(u) ==
    /\ user[u].pc = "poll"
    /\ \/ /\ user[u].runtime \in alive
          /\ \E sight \in Sights :
               IF sight = "denied" THEN Rest(u)
               ELSE IF Cleared(u, sight) THEN Goto(u, "read")
               ELSE IF user[u].polls + 1 < MaxPolls
                    THEN user' = [user EXCEPT
                            ![u].polls = @ + 1, ![u].stable = StableAt(u, sight),
                            ![u].challenge = @ \/ sight = "challenge"]
                    ELSE Rest(u)
       \/ Fails(u)
    /\ UNCHANGED <<slot, launched, alive, begun, reported>>

(* The cookies of a solve, or the payloads of a capture or its timeout.    *)
Read(u) ==
    /\ user[u].pc = "read"
    /\ \/ user[u].runtime \in alive /\ Rest(u)
       \/ Fails(u)
    /\ UNCHANGED <<slot, launched, alive, begun, reported>>

IsCurrent(u) == slot = user[u].runtime

(* A slip: the runtime is read from the slot and not taken.                *)
LeftIn == slot
TakenOut == 0

(* invalidate_browser_if_current, under the lock; then the shutdown.       *)
Invalidate(u) ==
    /\ user[u].pc = "invalidate"
    /\ reported' = reported \cup {user[u].runtime}
    /\ IF IsCurrent(u)
       THEN /\ slot' = TakenOut
            /\ user' = [user EXCEPT ![u] = [Resting EXCEPT !.pc = "shutdown", !.runtime = slot]]
       ELSE Rest(u) /\ UNCHANGED slot
    /\ UNCHANGED <<launched, alive, begun>>

(* Browser.close ends the browser for every connection there is.           *)
Shutdown(u) ==
    /\ user[u].pc = "shutdown"
    /\ alive' = IF user[u].runtime \in alive THEN {} ELSE alive
    /\ Rest(u)
    /\ UNCHANGED <<slot, launched, begun, reported>>

BrowserDies ==
    /\ alive # {} /\ alive' = {}
    /\ UNCHANGED <<slot, launched, user, begun, reported>>

(* The future of an operation is dropped.                                  *)
Drop(u) ==
    /\ user[u].pc # "idle"
    /\ Rest(u)
    /\ UNCHANGED <<slot, launched, alive, begun, reported>>

Next ==
    \/ \E u \in Users :
          \/ Begin(u) \/ Ensure(u) \/ Launch(u) \/ Insert(u) \/ OpenPage(u) \/ Poll(u)
          \/ Read(u) \/ Invalidate(u) \/ Shutdown(u) \/ Drop(u)
    \/ BrowserDies

Spec == Init /\ [][Next]_vars

-----------------------------------------------------------------------------
(* Properties.                                                             *)

(* Every variable has its type; who uses a runtime uses a launched one.    *)
TypeOK ==
    /\ slot \in {0} \cup Runtimes /\ alive \subseteq Runtimes /\ reported \subseteq Runtimes
    /\ \A u \in Users :
          /\ user[u].pc \in {"open", "poll", "read", "invalidate", "shutdown"} =>
                user[u].runtime \in Runtimes
          /\ user[u].polls \in 0 .. MaxPolls

(* A runtime that an operation has reported as broken is out of the slot   *)
(* for good, also when two operations launched at once.                    *)
ReportedIsGone == slot \notin reported

=============================================================================
