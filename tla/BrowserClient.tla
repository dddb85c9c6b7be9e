--------------------------- MODULE BrowserClient ---------------------------
(***************************************************************************)
(* The one client of the remote browser behind its mutex: the challenge    *)
(* solves and JSON captures that use it in turn, the commands they send    *)
(* over its socket and the replies they pick out by number, the page that  *)
(* is set up once and used again, and the loop that watches a challenge    *)
(* clear.  An operation is a future: it may be dropped at every command,   *)
(* while the browser goes on with what it was sent.                        *)
(*                                                                         *)
(* The browser (external) executes commands in order and replies to each;  *)
(* a page runs its scripts whenever it navigates.                          *)
(***************************************************************************)
EXTENDS Naturals, Sequences, SequencesExt

CONSTANTS
    MaxOperations,  \* bound: solves and captures
    MaxPolls        \* bound: polls until CLEARANCE_TIMEOUT or the capture's

VARIABLES
    client,      \* the Option<BrowserUseCdpClient> behind the mutex
    operation,   \* the solve or capture that holds the mutex
    started,     \* operations so far
    connections, \* sockets so far
    wire,        \* commands the browser has not executed
    inbox,       \* replies the client has not read
    page,        \* the scripts of the target and the operation it navigated for
    failedOn,    \* history: connections an operation reported as broken
    interrupted  \* history: an operation was dropped with its page half set up

vars == <<client, operation, started, connections, wire, inbox, page,
          failedOn, interrupted>>

NoClient == [connection |-> 0, alive |-> FALSE, target |-> FALSE, session |-> FALSE,
             capture |-> 0, nextId |-> 1]
NoPage == [stealth |-> FALSE, captures |-> {}, of |-> 0]
NoOperation == [kind |-> "none", step |-> "none", awaits |-> 0,
                script |-> 0, challenge |-> FALSE, stable |-> 0, polls |-> 0]

Init ==
    /\ client = NoClient /\ operation = NoOperation
    /\ started = 0 /\ connections = 0
    /\ wire = <<>> /\ inbox = <<>> /\ page = NoPage
    /\ failedOn = {} /\ interrupted = FALSE

Connected == client.connection > 0

-----------------------------------------------------------------------------
(* Getting the client.                                                     *)

(* ensure_page_target: what has a target and a session is set up.          *)
FirstStep == IF client.target /\ client.session THEN "agent" ELSE "create"

Begin(kind) ==
    /\ operation = NoOperation /\ started < MaxOperations
    /\ started' = started + 1
    /\ operation' = [NoOperation EXCEPT
                        !.kind = kind, !.step = IF Connected THEN FirstStep ELSE "connect"]
    /\ UNCHANGED <<client, connections, wire, inbox, page, failedOn, interrupted>>

Connect ==
    /\ operation.step = "connect"
    /\ \/ /\ connections' = connections + 1
          /\ client' = [NoClient EXCEPT !.connection = connections + 1, !.alive = TRUE]
          /\ operation' = [operation EXCEPT !.step = "create"]
          /\ page' = NoPage /\ interrupted' = FALSE
       \/ /\ operation' = NoOperation
          /\ UNCHANGED <<client, connections, page, interrupted>>
    /\ UNCHANGED <<started, wire, inbox, failedOn>>

-----------------------------------------------------------------------------
(* Commands.  "enable" stands for the three domains; a poll or a collect   *)
(* for the evaluations of one turn of its loop.                            *)

HookOrGo == IF operation.kind = "capture" THEN "hook" ELSE "navigate"

NextStep(step) ==
    CASE step = "create" -> "attach"
      [] step = "attach" -> "enable"
      [] step = "enable" -> "stealth"
      [] step = "stealth" -> "agent"
      [] step = "agent" -> IF client.capture > 0 THEN "unhook" ELSE HookOrGo
      [] step = "unhook" -> HookOrGo
      [] step = "hook" -> "navigate"
      [] step = "navigate" -> "poll"

(* The identifier of the capture script is taken before it is removed.     *)
Taken(step) == IF step = "unhook" THEN 0 ELSE client.capture

Command == [id |-> client.nextId, step |-> operation.step, by |-> started,
            kind |-> operation.kind, script |-> operation.script]

Send ==
    /\ operation.step \notin {"none", "connect"} /\ operation.awaits = 0 /\ client.alive
    /\ operation' = [operation EXCEPT !.awaits = client.nextId, !.script = 0]
    /\ client' = [client EXCEPT !.nextId = @ + 1]
    /\ wire' = Append(wire, Command)
    /\ UNCHANGED <<started, connections, inbox, page, failedOn, interrupted>>

(* What the page shows: asked and elsewhere are URLs without a challenge.  *)
Sights == {"denied", "challenge", "cookie", "asked", "elsewhere", "transient"}

Replies(step) ==
    CASE step = "poll" -> Sights \cup {"error"}
      [] step = "collect" -> {"payloads", "nothing", "transient", "error"}
      [] OTHER -> {"ok", "error"}

(* The browser executes the next command and replies.                      *)
Execute ==
    /\ wire # <<>>
    /\ LET c == Head(wire)
       IN \E reply \in Replies(c.step) :
            /\ inbox' = Append(inbox, [id |-> c.id, says |-> reply, of |-> page.of])
            /\ page' = IF reply = "error" THEN page
                       ELSE CASE c.step = "create" -> NoPage
                              [] c.step = "stealth" -> [page EXCEPT !.stealth = TRUE]
                              [] c.step = "hook" -> [page EXCEPT !.captures = @ \cup {[id |-> c.id, by |-> c.by]}]
                              [] c.step = "unhook" -> [page EXCEPT !.captures = {h \in @ : h.id # c.script}]
                              [] c.step = "navigate" -> [page EXCEPT !.of = c.by]
                              [] OTHER -> page
    /\ wire' = Tail(wire)
    /\ UNCHANGED <<client, operation, started, connections, failedOn, interrupted>>

SocketDies ==
    /\ client.alive
    /\ client' = [client EXCEPT !.alive = FALSE]
    /\ wire' = <<>> /\ inbox' = <<>>
    /\ UNCHANGED <<operation, started, connections, page, failedOn, interrupted>>

-----------------------------------------------------------------------------
(* Replies.                                                                *)

Answers(reply) == reply.id = operation.awaits

Ignore ==
    /\ operation.awaits > 0 /\ inbox # <<>> /\ ~Answers(Head(inbox))
    /\ inbox' = Tail(inbox)
    /\ UNCHANGED <<client, operation, started, connections, wire, page,
                   failedOn, interrupted>>

(* SolveError::Browser: the client is taken out of its slot and closed.    *)
Fails ==
    /\ operation' = NoOperation
    /\ failedOn' = failedOn \cup {client.connection}
    /\ client' = NoClient /\ wire' = <<>> /\ inbox' = <<>>
    /\ UNCHANGED <<started, connections, page, interrupted>>

(* No reply within CLEARANCE_TIMEOUT, or no socket.                        *)
TimesOut ==
    /\ operation.step \notin {"none", "connect"}
    /\ operation.awaits > 0 \/ ~client.alive
    /\ Fails

Rejected ==
    /\ operation.awaits > 0 /\ inbox # <<>> /\ Answers(Head(inbox))
    /\ Head(inbox).says = "error"
    /\ Fails

(* The next step; the removal of a script holds its number.                *)
Goes(step) ==
    operation' = [operation EXCEPT !.awaits = 0, !.step = step, !.polls = 0,
                     !.script = IF step = "unhook" THEN client.capture ELSE 0]

SetUp ==
    /\ operation.awaits > 0 /\ inbox # <<>> /\ Answers(Head(inbox))
    /\ Head(inbox).says # "error"
    /\ operation.step \notin {"poll", "cookies", "collect"}
    /\ Goes(NextStep(operation.step))
    /\ client' = [client EXCEPT
                     !.target = @ \/ operation.step = "create",
                     !.session = @ \/ operation.step = "attach",
                     !.capture = IF operation.step = "hook" THEN operation.awaits
                                 ELSE Taken(NextStep(operation.step))]
    /\ inbox' = Tail(inbox)
    /\ UNCHANGED <<started, connections, wire, page, failedOn, interrupted>>

(* An operation that ends without breaking the client.                     *)
Ends ==
    /\ operation' = NoOperation
    /\ UNCHANGED <<started, connections, wire, page, failedOn, interrupted>>

-----------------------------------------------------------------------------
(* wait_for_browser_use_clearance.                                         *)

StablePolls == 2    \* POST_CHALLENGE_STABLE_POLLS

(* How often the page was at this URL in a row after the challenge.        *)
StableAt(sight) ==
    CASE sight \in {"challenge", "asked"} -> 0
      [] sight = "elsewhere" -> operation.stable + 1
      [] OTHER -> operation.stable

Cleared(sight) ==
    \/ sight \in {"cookie", "asked", "elsewhere"} /\ ~operation.challenge
    \/ sight = "cookie"
    \/ sight = "elsewhere" /\ StableAt(sight) >= StablePolls

Poll ==
    /\ operation.step = "poll" /\ operation.awaits > 0
    /\ inbox # <<>> /\ Answers(Head(inbox)) /\ Head(inbox).says # "error"
    /\ LET sight == Head(inbox).says
       IN \/ /\ sight = "denied"
             /\ Ends
          \/ /\ sight # "denied" /\ Cleared(sight)
             /\ Goes(IF operation.kind = "capture" THEN "collect" ELSE "cookies")
             /\ UNCHANGED <<started, connections, wire, page, failedOn, interrupted>>
          \/ /\ sight # "denied" /\ ~Cleared(sight)
             /\ IF operation.polls + 1 < MaxPolls
                THEN operation' = [operation EXCEPT
                        !.awaits = 0, !.polls = @ + 1, !.stable = StableAt(sight),
                        !.challenge = @ \/ sight = "challenge"]
                ELSE operation' = NoOperation
             /\ UNCHANGED <<started, connections, wire, page, failedOn, interrupted>>
    /\ inbox' = Tail(inbox)
    /\ UNCHANGED <<client>>

(* The cookies of a solve, and the payloads of a capture.                  *)
ReadCookies ==
    /\ operation.step = "cookies" /\ operation.awaits > 0
    /\ inbox # <<>> /\ Answers(Head(inbox)) /\ Head(inbox).says # "error"
    /\ Ends
    /\ inbox' = Tail(inbox)
    /\ UNCHANGED client

Collect ==
    /\ operation.step = "collect" /\ operation.awaits > 0
    /\ inbox # <<>> /\ Answers(Head(inbox)) /\ Head(inbox).says # "error"
    /\ \/ /\ Head(inbox).says = "payloads"
                /\ operation' = NoOperation
       \/ /\ Head(inbox).says # "payloads"
          /\ IF operation.polls + 1 < MaxPolls
             THEN operation' = [operation EXCEPT !.awaits = 0, !.polls = @ + 1]
             ELSE operation' = NoOperation
    /\ inbox' = Tail(inbox)
    /\ UNCHANGED <<client, started, connections, wire, page, failedOn, interrupted>>

(* The future is dropped: the client stays in its slot as it is.           *)
HalfSetUp ==
    \/ client.session /\ operation.step \in {"enable", "stealth", "unhook"}
    \/ operation.step = "hook" /\ operation.awaits > 0

Drop ==
    /\ operation # NoOperation
    /\ operation' = NoOperation
    /\ interrupted' = (interrupted \/ HalfSetUp)
    /\ UNCHANGED <<client, started, connections, wire, inbox, page, failedOn>>

Next ==
    \/ \E kind \in {"solve", "capture"} : Begin(kind)
    \/ Connect \/ Send \/ Execute \/ SocketDies \/ Ignore \/ TimesOut \/ Rejected
    \/ SetUp \/ Poll \/ ReadCookies \/ Collect \/ Drop

Spec == Init /\ [][Next]_vars

-----------------------------------------------------------------------------
(* Properties.                                                             *)

(* Every variable has its type; what is awaited, under way or unread       *)
(* bears a number that this client gave out.                               *)
TypeOK ==
    /\ client.connection \in {0, connections}
    /\ operation.awaits > 0 => operation.awaits < client.nextId
    /\ \A m \in ToSet(wire) \cup ToSet(inbox) : m.id < client.nextId
    /\ operation.polls \in 0 .. MaxPolls /\ operation.stable \in Nat
    /\ page.of \in 0 .. started

(* A page navigates with the stealth script, and with the capture script   *)
(* of its own operation and no other, whatever was dropped before, unless  *)
(* that left it half set up.                                               *)
PagesArePrepared ==
    [][page'.of # page.of /\ page'.of > 0 /\ ~interrupted =>
          /\ page.stealth
          /\ {h.by : h \in page.captures} =
                IF Head(wire).kind = "capture" THEN {page'.of} ELSE {}]_vars

(* What a solve or a capture judges and returns was read from the page it  *)
(* opened, never from the one of an operation dropped before it.           *)
ReadsItsOwnPage == [][Poll \/ ReadCookies \/ Collect => Head(inbox).of = started]_vars

(* A connection that failed an operation is not used by another.           *)
FailedClientIsGone == client.connection \notin failedOn
=============================================================================
