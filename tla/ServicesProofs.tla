--------------------------- MODULE ServicesProofs ---------------------------
(* Proofs about the parts of MCParts that answer from something outside or *)
(* from what they kept: the one client and the shared connection of the    *)
(* remote browser, the inference worker with its cache of models, the      *)
(* calls to Comix, and the snapshots of the routes. Each has an inductive  *)
(* invariant of its own; the last section is about their types.            *)
EXTENDS MCParts, Sequences, TLAPS, FiniteSetTheorems, WellFoundedInduction

-----------------------------------------------------------------------------
(* The one client of the remote browser (BrowserClient).                   *)

SetUpSteps == {"create", "attach", "enable", "stealth", "agent", "unhook", "hook", "navigate"}
ReadSteps == {"poll", "cookies", "collect"}
AnyStep == SetUpSteps \cup ReadSteps \cup {"none", "connect"}
AnyKind == {"none", "solve", "capture"}

ClientShape == [connection : Nat, alive : BOOLEAN, target : BOOLEAN, session : BOOLEAN,
                capture : Nat, nextId : Nat]
OperationShape == [kind : AnyKind, step : AnyStep, awaits : Nat, script : Nat,
                   challenge : BOOLEAN, stable : Nat, polls : Nat]
CommandShape == [id : Nat, step : AnyStep, by : Nat, kind : AnyKind, script : Nat]
ReplyShape == [id : Nat, says : Client!Sights \cup {"ok", "error", "payloads", "nothing"},
               of : Nat]
PageShape == [stealth : BOOLEAN, captures : SUBSET [id : Nat, by : Nat], of : Nat]

ClientShapes ==
    /\ client \in ClientShape /\ operation \in OperationShape /\ page \in PageShape
    /\ started \in Nat /\ connections \in Nat
    /\ wire \in Seq(CommandShape) /\ inbox \in Seq(ReplyShape)
    /\ client.nextId > 0 /\ interrupted \in BOOLEAN

(* Who works has a connection, and a connection that failed is not it.     *)
OneConnection ==
    /\ client.connection \in {0, connections} /\ failedOn \subseteq 1 .. connections
    /\ client.connection \notin failedOn
    /\ client.connection = 0 => client = Client!NoClient
    /\ ~client.alive => wire = <<>> /\ inbox = <<>>
    /\ operation.step \notin {"none", "connect"} => client.connection > 0
    /\ operation.step = "connect" => client.connection = 0
    /\ operation.step \in {"none", "connect"} => operation.awaits = 0
    /\ operation.step # "none" => operation.kind # "none"

(* Commands are executed in the order of their numbers, and the awaited    *)
(* one is the last that was given out.                                     *)
InOrder ==
    /\ \A i \in 1 .. Len(wire) :
        /\ wire[i].id < client.nextId
        /\ \A j \in 1 .. Len(wire) : i < j => wire[i].id < wire[j].id
        /\ \A k \in 1 .. Len(inbox) : inbox[k].id < wire[i].id
        /\ i > 1 => wire[i].step \in {"create", "agent"}
    /\ \A k \in 1 .. Len(inbox) : inbox[k].id < client.nextId
    /\ operation.awaits > 0 => operation.awaits = client.nextId - 1

Own(m) == operation.awaits > 0 /\ m.id = operation.awaits

OwnIsTheStep ==
    \A i \in 1 .. Len(wire) : Own(wire[i]) =>
        /\ wire[i].step = operation.step /\ wire[i].by = started
        /\ wire[i].kind = operation.kind

(* Past its first reply an operation has the browser for itself.           *)
Early == operation.step \in {"none", "connect", "create", "agent"}
AloneOnTheWire == ~Early => \A i \in 1 .. Len(wire) : Own(wire[i])

RepliedWell == \E k \in 1 .. Len(inbox) : Own(inbox[k]) /\ inbox[k].says # "error"

(* What is read is of the page this operation opened.                      *)
ReadsOwn ==
    /\ operation.step \in ReadSteps =>
          page.of = started /\ \A k \in 1 .. Len(inbox) : Own(inbox[k]) => inbox[k].of = started
    /\ operation.step = "navigate" /\ RepliedWell => page.of = started

(* Until a session is attached the page has nothing, and afterwards the    *)
(* browser is asked for no other.                                          *)
Attached ==
    client.connection > 0 =>
        /\ operation.step = "attach" => client.target
        /\ client.session => client.target /\ operation.step \notin {"create", "attach"}
        /\ ~client.session =>
              /\ page = Client!NoPage /\ client.capture = 0
              /\ operation.step \in {"none", "create", "attach"}
        /\ \A i \in 1 .. Len(wire) :
              client.session <=> wire[i].step \notin {"create", "attach"}

(* What the scripts of the page are at each step.                          *)
ScriptsAt(step) ==
    /\ step \notin {"enable", "stealth"} => page.stealth
    /\ step = "stealth" /\ RepliedWell => page.stealth
    /\ step \in {"enable", "stealth"} => page.captures = {} /\ client.capture = 0
    /\ step = "unhook" =>
          /\ client.capture = 0
          /\ operation.awaits = 0 => \A h \in page.captures : h.id = operation.script
          /\ \A i \in 1 .. Len(wire) : \A h \in page.captures : h.id = wire[i].script
          /\ RepliedWell => page.captures = {}
    /\ step = "hook" =>
          /\ client.capture = 0 /\ operation.kind = "capture"
          /\ operation.awaits = 0 \/ wire # <<>> => page.captures = {}
          /\ RepliedWell => page.captures = {[id |-> operation.awaits, by |-> started]}
    /\ step = "navigate" =>
          page.captures = IF operation.kind = "capture"
                          THEN {[id |-> client.capture, by |-> started]} ELSE {}
    /\ step \notin {"enable", "stealth", "unhook", "hook"} =>
          \A h \in page.captures : h.id = client.capture /\ client.capture > 0

(* A navigation under way finds its page prepared.                         *)
WireIsPrepared ==
    \A i \in 1 .. Len(wire) :
        /\ wire[i].step \in {"enable", "stealth", "unhook", "hook"} => Own(wire[i])
        /\ wire[i].step = "navigate" =>
              /\ page.stealth
              /\ {h.by : h \in page.captures} =
                    IF wire[i].kind = "capture" THEN {wire[i].by} ELSE {}

Scripts == client.session /\ ~interrupted => ScriptsAt(operation.step) /\ WireIsPrepared

ClientInv ==
    /\ ClientShapes /\ OneConnection /\ InOrder /\ OwnIsTheStep /\ AloneOnTheWire /\ ReadsOwn
    /\ Attached /\ Scripts

LEMMA TailIsPart ==
    ASSUME NEW S, NEW s \in Seq(S), s # <<>>
    PROVE  /\ Head(s) \in S /\ Head(s) = s[1] /\ 1 \in 1 .. Len(s)
           /\ Tail(s) \in Seq(S) /\ Len(Tail(s)) = Len(s) - 1
           /\ \A i \in 1 .. Len(s) - 1 : Tail(s)[i] = s[i + 1] /\ i + 1 \in 1 .. Len(s)
OBVIOUS

LEMMA OnTheWire ==
    ASSUME ClientShapes
    PROVE  /\ Len(wire) \in Nat /\ Len(inbox) \in Nat
           /\ \A i \in 1 .. Len(wire) : wire[i] \in CommandShape /\ wire[i].id \in Nat
           /\ \A k \in 1 .. Len(inbox) : inbox[k] \in ReplyShape /\ inbox[k].id \in Nat
<1>1. \A i \in 1 .. Len(wire) : wire[i] \in CommandShape
  BY DEF ClientShapes
<1>2. \A k \in 1 .. Len(inbox) : inbox[k] \in ReplyShape
  BY DEF ClientShapes
<1> QED BY <1>1, <1>2 DEF ClientShapes, CommandShape, ReplyShape

LEMMA InitClientInv == Client!Init => ClientInv
<1> SUFFICES ASSUME Client!Init PROVE ClientInv
  OBVIOUS
<1> USE DEF Client!Init
<1>1. /\ client \in ClientShape /\ client.connection = 0 /\ ~client.alive /\ ~client.session
      /\ client.nextId > 0
  BY DEF Client!NoClient, ClientShape
<1>2. /\ operation \in OperationShape /\ operation.step = "none" /\ operation.awaits = 0
  BY DEF Client!NoOperation, OperationShape, AnyKind, AnyStep
<1>3. page \in PageShape
  BY DEF Client!NoPage, PageShape
<1>4. ClientShapes
  <2>1. wire \in Seq(CommandShape) /\ inbox \in Seq(ReplyShape)
    OBVIOUS
  <2>2. started \in Nat /\ connections \in Nat /\ interrupted \in BOOLEAN
    OBVIOUS
  <2> QED BY <1>1, <1>2, <1>3, <2>1, <2>2 DEF ClientShapes
<1>5. OneConnection /\ InOrder /\ OwnIsTheStep /\ AloneOnTheWire /\ ReadsOwn /\ Attached /\ Scripts
  BY <1>1, <1>2 DEF OneConnection, InOrder, OwnIsTheStep, AloneOnTheWire, ReadsOwn, Attached,
     Scripts, Early, RepliedWell, Own, ReadSteps
<1> QED BY <1>4, <1>5 DEF ClientInv

(* An operation is over, and the client and the browser stay as they are.  *)
LEMMA OperationLeaves ==
    ASSUME ClientInv, operation' = Client!NoOperation,
           UNCHANGED <<client, started, connections, wire, page, failedOn>>,
           inbox' = inbox \/ (inbox # <<>> /\ inbox' = Tail(inbox)),
           interrupted' \in BOOLEAN, interrupted => interrupted',
           Client!HalfSetUp => interrupted'
    PROVE  ClientInv'
<1> USE DEF ClientInv
<1>1. operation' \in OperationShape /\ operation'.step = "none" /\ operation'.awaits = 0
  BY DEF Client!NoOperation, OperationShape, AnyKind, AnyStep
<1>2. /\ inbox' \in Seq(ReplyShape)
      /\ \A k \in 1 .. Len(inbox') : \E l \in 1 .. Len(inbox) : inbox'[k] = inbox[l]
      /\ inbox = <<>> => inbox' = <<>>
  <2>1. CASE inbox' = inbox
    BY <2>1 DEF ClientShapes
  <2>2. CASE inbox # <<>> /\ inbox' = Tail(inbox)
    BY <2>2, TailIsPart DEF ClientShapes
  <2> QED BY <2>1, <2>2
<1>3. ClientShapes'
  BY <1>1, <1>2 DEF ClientShapes
<1>4. OneConnection'
  BY <1>1, <1>2 DEF OneConnection
<1>5. InOrder'
  <2>1. \A k \in 1 .. Len(inbox') :
          /\ inbox'[k].id < client.nextId
          /\ \A i \in 1 .. Len(wire) : inbox'[k].id < wire[i].id
    <3>1. SUFFICES ASSUME NEW k \in 1 .. Len(inbox')
                   PROVE  /\ inbox'[k].id < client.nextId
                          /\ \A i \in 1 .. Len(wire) : inbox'[k].id < wire[i].id
      OBVIOUS
    <3>2. PICK l \in 1 .. Len(inbox) : inbox'[k] = inbox[l]
      BY <1>2
    <3> QED BY <3>2 DEF InOrder
  <2> QED BY <1>1, <2>1 DEF InOrder
<1>6. OwnIsTheStep' /\ AloneOnTheWire' /\ ReadsOwn' /\ ~RepliedWell'
  BY <1>1 DEF OwnIsTheStep, AloneOnTheWire, ReadsOwn, RepliedWell, Own, Early, ReadSteps
<1>7. Attached'
  BY <1>1 DEF Attached
<1>8. Scripts'
  <2>1. SUFFICES ASSUME client.session, ~interrupted, ~Client!HalfSetUp
                 PROVE  ScriptsAt(operation.step)' /\ WireIsPrepared'
    BY DEF Scripts
  <2>2. operation.step \notin {"enable", "stealth", "unhook"}
        /\ (operation.step = "hook" => operation.awaits = 0)
    BY <2>1 DEF Client!HalfSetUp, ClientShapes, OperationShape
  <2>3. ScriptsAt(operation.step) /\ WireIsPrepared
    BY <2>1 DEF Scripts
  <2>4. ScriptsAt(operation.step)'
    BY <1>1, <2>2, <2>3 DEF ScriptsAt
  <2>5. \A i \in 1 .. Len(wire) : wire[i].step \notin {"enable", "stealth", "unhook", "hook"}
    BY <2>2, <2>3 DEF WireIsPrepared, OwnIsTheStep, Own
  <2>6. WireIsPrepared'
    BY <2>3, <2>5 DEF WireIsPrepared
  <2> QED BY <2>4, <2>6
<1> QED BY <1>3, <1>4, <1>5, <1>6, <1>7, <1>8

LEMMA ClientBegins ==
    ASSUME ClientInv, NEW kind_1 \in {"solve", "capture"}, Client!Begin(kind_1)
    PROVE  ClientInv'
<1> USE DEF ClientInv
<1> DEFINE step == IF Client!Connected THEN Client!FirstStep ELSE "connect"
<1>0. /\ operation.step = "none" /\ operation.awaits = 0
      /\ UNCHANGED <<client, connections, wire, inbox, page, failedOn, interrupted>>
      /\ started' = started + 1
  BY DEF Client!Begin, Client!NoOperation
<1>1. /\ operation' \in OperationShape /\ operation'.step = step /\ operation'.awaits = 0
      /\ operation'.kind = kind_1
  BY DEF Client!Begin, Client!NoOperation, OperationShape, AnyKind, AnyStep, SetUpSteps,
     Client!FirstStep
<1>2. /\ step \in {"connect", "create", "agent"}
      /\ step = "connect" <=> client.connection = 0
      /\ step = "agent" => client.session
      /\ step = "create" => ~(client.target /\ client.session)
  BY DEF Client!FirstStep, Client!Connected, ClientShapes, ClientShape
<1> HIDE DEF step
<1>3. ClientShapes'
  BY <1>0, <1>1 DEF ClientShapes
<1>4. OneConnection'
  BY <1>0, <1>1, <1>2 DEF OneConnection, ClientShapes, ClientShape
<1>5. InOrder'
  BY <1>0, <1>1 DEF InOrder
<1>6. OwnIsTheStep' /\ AloneOnTheWire' /\ ReadsOwn' /\ ~RepliedWell'
  BY <1>1, <1>2 DEF OwnIsTheStep, AloneOnTheWire, ReadsOwn, RepliedWell, Own, Early, ReadSteps
<1>7. Attached'
  BY <1>0, <1>1, <1>2 DEF Attached
<1>8. Scripts'
  <2>1. SUFFICES ASSUME client.session, ~interrupted
                 PROVE  ScriptsAt(operation.step)' /\ WireIsPrepared'
    BY <1>0 DEF Scripts
  <2>2. ScriptsAt("none") /\ WireIsPrepared
    BY <1>0, <2>1 DEF Scripts
  <2>3. ScriptsAt(operation.step)'
    BY <1>0, <1>1, <1>2, <1>6, <2>2 DEF ScriptsAt
  <2>4. WireIsPrepared'
    BY <1>0, <1>1, <2>2 DEF WireIsPrepared, Own
  <2> QED BY <2>3, <2>4
<1> QED BY <1>3, <1>4, <1>5, <1>6, <1>7, <1>8

LEMMA ClientConnects ==
    ASSUME ClientInv, Client!Connect
    PROVE  ClientInv'
<1> USE DEF ClientInv
<1>0. /\ operation.step = "connect" /\ client = Client!NoClient /\ operation.awaits = 0
      /\ UNCHANGED <<started, wire, inbox, failedOn>> /\ operation \in OperationShape
  BY DEF Client!Connect, OneConnection, ClientShapes
<1>1. /\ client.connection = 0 /\ ~client.session /\ wire = <<>> /\ inbox = <<>>
  BY <1>0 DEF Client!NoClient, OneConnection
<1>2. CASE operation' = Client!NoOperation /\ UNCHANGED <<client, connections, page, interrupted>>
  <2>1. ~Client!HalfSetUp
    BY <1>0, <1>1 DEF Client!HalfSetUp
  <2>2. interrupted' \in BOOLEAN
    BY <1>2 DEF ClientShapes
  <2> QED BY <1>0, <1>2, <2>1, <2>2, OperationLeaves
<1>3. ASSUME connections' = connections + 1,
             client' = [Client!NoClient EXCEPT !.connection = connections + 1, !.alive = TRUE],
             operation' = [operation EXCEPT !.step = "create"],
             page' = Client!NoPage, interrupted' = FALSE
      PROVE  ClientInv'
  <2> DEFINE n == connections + 1
  <2>0. n \in Nat /\ n > connections /\ n > 0 /\ connections \in Nat
    BY DEF ClientShapes
  <2>1. client' = [Client!NoClient EXCEPT !.connection = n, !.alive = TRUE] /\ connections' = n
    BY <1>3, Zenon
  <2> HIDE DEF n
  <2>2. /\ client' \in ClientShape /\ client'.connection = n /\ client'.alive = TRUE
        /\ client'.session = FALSE /\ client'.capture = 0 /\ client'.nextId > 0
    <3>1. client' = [connection |-> n, alive |-> TRUE, target |-> FALSE, session |-> FALSE,
                     capture |-> 0, nextId |-> 1]
      BY <2>1 DEF Client!NoClient
    <3> QED BY <2>0, <3>1 DEF ClientShape
  <2>3. /\ operation' \in OperationShape /\ operation'.step = "create"
        /\ operation'.awaits = 0 /\ operation'.kind = operation.kind
    BY <1>0, <1>3 DEF OperationShape, AnyStep, SetUpSteps
  <2>4. page' \in PageShape
    BY <1>3 DEF Client!NoPage, PageShape
  <2>5. ClientShapes'
    BY <1>0, <1>3, <2>0, <2>1, <2>2, <2>3, <2>4 DEF ClientShapes
  <2>6. OneConnection'
    BY <1>0, <2>0, <2>1, <2>2, <2>3 DEF OneConnection
  <2>7. InOrder' /\ OwnIsTheStep' /\ AloneOnTheWire' /\ ReadsOwn'
    BY <1>0, <1>1, <2>3 DEF InOrder, OwnIsTheStep, AloneOnTheWire, ReadsOwn, RepliedWell, Own,
       Early, ReadSteps
  <2>8. Attached'
    BY <1>0, <1>1, <1>3, <2>2, <2>3 DEF Attached
  <2>9. Scripts'
    BY <2>2 DEF Scripts
  <2> QED BY <2>5, <2>6, <2>7, <2>8, <2>9
<1> QED BY <1>2, <1>3 DEF Client!Connect

LEMMA ClientFails ==
    ASSUME ClientInv, Client!Fails, operation.step \notin {"none", "connect"}
    PROVE  ClientInv'
<1> USE DEF ClientInv, Client!Fails
<1>1. /\ client' \in ClientShape /\ client'.connection = 0 /\ ~client'.alive /\ ~client'.session
      /\ client'.nextId > 0 /\ client' = Client!NoClient
  BY DEF Client!NoClient, ClientShape
<1>2. /\ operation' \in OperationShape /\ operation'.step = "none" /\ operation'.awaits = 0
  BY DEF Client!NoOperation, OperationShape, AnyKind, AnyStep
<1>3. ClientShapes'
  BY <1>1, <1>2 DEF ClientShapes
<1>4. OneConnection'
  <2>1. client.connection \in 1 .. connections /\ failedOn \subseteq 1 .. connections
        /\ connections \in Nat
    BY DEF OneConnection, ClientShapes
  <2>2. failedOn' = failedOn \cup {client.connection} /\ connections' = connections
    OBVIOUS
  <2>3. failedOn' \subseteq 1 .. connections' /\ client'.connection \notin failedOn'
    <3>1. \A c \in failedOn' : c \in 1 .. connections
      BY <2>1, <2>2
    <3>2. 0 \notin failedOn'
      BY <3>1
    <3> QED BY <1>1, <2>2, <3>1, <3>2
  <2> QED BY <1>1, <1>2, <2>3 DEF OneConnection
<1>5. InOrder' /\ OwnIsTheStep' /\ AloneOnTheWire' /\ ReadsOwn' /\ Attached' /\ Scripts'
  BY <1>1, <1>2 DEF InOrder, OwnIsTheStep, AloneOnTheWire, ReadsOwn, Attached,
     Scripts, Early, RepliedWell, Own, ReadSteps
<1> QED BY <1>3, <1>4, <1>5

LEMMA ClientSocketDies ==
    ASSUME ClientInv, Client!SocketDies
    PROVE  ClientInv'
<1> USE DEF ClientInv
<1>0. UNCHANGED <<operation, started, connections, page, failedOn, interrupted>>
      /\ wire' = <<>> /\ inbox' = <<>> /\ client.alive
  BY DEF Client!SocketDies
<1>1. /\ client' \in ClientShape /\ client'.connection = client.connection
      /\ client'.session = client.session /\ client'.target = client.target
      /\ client'.capture = client.capture /\ client'.nextId = client.nextId
  BY DEF Client!SocketDies, ClientShapes, ClientShape
<1>2. ClientShapes'
  BY <1>0, <1>1 DEF ClientShapes
<1>3. client.connection # 0
  BY <1>0 DEF OneConnection, Client!NoClient
<1>4. OneConnection'
  BY <1>0, <1>1, <1>3 DEF OneConnection
<1>5. InOrder' /\ OwnIsTheStep' /\ AloneOnTheWire' /\ ReadsOwn' /\ ~RepliedWell'
  BY <1>0, <1>1 DEF InOrder, OwnIsTheStep, AloneOnTheWire, ReadsOwn, RepliedWell, Own, Early
<1>6. Attached'
  BY <1>0, <1>1 DEF Attached
<1>7. Scripts'
  BY <1>0, <1>1, <1>5 DEF Scripts, ScriptsAt, WireIsPrepared
<1> QED BY <1>2, <1>4, <1>5, <1>6, <1>7

LEMMA ClientIgnores ==
    ASSUME ClientInv, Client!Ignore
    PROVE  ClientInv'
<1> USE DEF ClientInv
<1>0. UNCHANGED <<client, operation, started, connections, wire, page, failedOn, interrupted>>
      /\ inbox # <<>> /\ inbox' = Tail(inbox)
  BY DEF Client!Ignore
<1>1. /\ inbox' \in Seq(ReplyShape)
      /\ \A k \in 1 .. Len(inbox') : \E l \in 1 .. Len(inbox) : inbox'[k] = inbox[l]
  BY <1>0, TailIsPart DEF ClientShapes
<1>2. RepliedWell' => RepliedWell
  BY <1>0, <1>1 DEF RepliedWell, Own
<1>3. ClientShapes' /\ OneConnection'
  BY <1>0, <1>1 DEF ClientShapes, OneConnection
<1>4. InOrder'
  BY <1>0, <1>1 DEF InOrder
<1>5. OwnIsTheStep' /\ AloneOnTheWire'
  BY <1>0 DEF OwnIsTheStep, AloneOnTheWire, Own, Early
<1>6. ReadsOwn'
  BY <1>0, <1>1, <1>2 DEF ReadsOwn, Own
<1>7. Attached'
  BY <1>0 DEF Attached
<1>8. Scripts'
  BY <1>0, <1>2 DEF Scripts, ScriptsAt, WireIsPrepared, Own
<1> QED BY <1>3, <1>4, <1>5, <1>6, <1>7, <1>8

LEMMA ClientSends ==
    ASSUME ClientInv, Client!Send
    PROVE  ClientInv'
<1> USE DEF ClientInv
<1> DEFINE n == client.nextId
           next == n + 1
           m == Len(wire) + 1
<1>0. /\ operation.step \notin {"none", "connect"} /\ operation.awaits = 0 /\ client.alive
      /\ UNCHANGED <<started, connections, inbox, page, failedOn, interrupted>>
      /\ wire' = Append(wire, Client!Command)
  BY DEF Client!Send
<1>1. /\ n \in Nat /\ n > 0 /\ next \in Nat /\ next > n /\ operation \in OperationShape
      /\ client \in ClientShape
  BY DEF ClientShapes, ClientShape
<1>2. /\ operation' \in OperationShape /\ operation'.step = operation.step
      /\ operation'.awaits = n /\ operation'.kind = operation.kind
  BY <1>1 DEF Client!Send, OperationShape
<1>3. client' = [client EXCEPT !.nextId = next]
  BY Zenon DEF Client!Send
<1>4. n = next - 1
  BY <1>1
<1> HIDE DEF next
<1>5. /\ client' \in ClientShape /\ client'.connection = client.connection
      /\ client'.session = client.session /\ client'.target = client.target
      /\ client'.capture = client.capture /\ client'.nextId = next
      /\ client'.alive = client.alive
  BY <1>1, <1>3 DEF ClientShape
<1>6. /\ Client!Command \in CommandShape /\ Client!Command.id = n
      /\ Client!Command.step = operation.step /\ Client!Command.by = started
      /\ Client!Command.kind = operation.kind /\ Client!Command.script = operation.script
  BY <1>1 DEF Client!Command, CommandShape, OperationShape, ClientShapes
<1>7. /\ wire' \in Seq(CommandShape) /\ Len(wire') = m /\ m \in 1 .. Len(wire')
      /\ wire'[m] = Client!Command
      /\ \A i \in 1 .. Len(wire) : wire'[i] = wire[i] /\ i # m
      /\ \A i \in 1 .. Len(wire') : i = m \/ i \in 1 .. Len(wire)
      /\ Len(wire) \in Nat /\ (~(m > 1) <=> wire = <<>>) /\ wire' # <<>>
  BY <1>0, <1>6 DEF ClientShapes
<1> HIDE DEF n, m
<1>8. /\ \A i \in 1 .. Len(wire) : ~Own(wire[i]) /\ wire[i].id < n
      /\ \A k \in 1 .. Len(inbox) : inbox[k].id < n
  BY <1>0 DEF InOrder, Own, n
<1>19. /\ \A i \in 1 .. Len(wire') : Own(wire[i])' <=> i = m
       /\ \A k \in 1 .. Len(inbox') : ~Own(inbox[k])'
  BY <1>0, <1>1, <1>2, <1>6, <1>7, <1>8, OnTheWire DEF Own
<1>9. ~Early => wire = <<>>
  BY <1>8 DEF AloneOnTheWire, ClientShapes
<1>10. ~RepliedWell'
  BY <1>19 DEF RepliedWell
<1>11. ClientShapes'
  BY <1>0, <1>1, <1>2, <1>5, <1>7 DEF ClientShapes
<1>12. OneConnection'
  BY <1>0, <1>2, <1>5, <1>7 DEF OneConnection, Client!NoClient
<1>13. InOrder'
  <2>1. \A i \in 1 .. Len(wire) : wire[i].id < n /\ wire[i].id \in Nat
    BY OnTheWire DEF InOrder, n
  <2>2. \A k \in 1 .. Len(inbox) : inbox[k].id < n /\ inbox[k].id \in Nat
    BY OnTheWire DEF InOrder, n
  <2>3. \A i \in 1 .. Len(wire') : wire'[i].id < next
    BY <1>1, <1>6, <1>7, <2>1
  <2>4. \A k \in 1 .. Len(inbox') : inbox'[k].id < next
    BY <1>0, <1>1, <2>2
  <2>5. ASSUME NEW i \in 1 .. Len(wire'), NEW j \in 1 .. Len(wire'), i < j
        PROVE  wire'[i].id < wire'[j].id
    <3>1. i \in 1 .. Len(wire) /\ wire'[i] = wire[i]
      BY <1>7, <2>5 DEF m
    <3>2. CASE j = m
      BY <1>6, <1>7, <2>1, <3>1, <3>2
    <3>3. CASE j \in 1 .. Len(wire)
      BY <1>7, <2>5, <3>1, <3>3 DEF InOrder
    <3> QED BY <1>7, <3>2, <3>3
  <2>6. ASSUME NEW i \in 1 .. Len(wire'), NEW k \in 1 .. Len(inbox')
        PROVE  inbox'[k].id < wire'[i].id
    <3>2. CASE i = m
      BY <1>0, <1>6, <1>7, <2>2, <3>2
    <3>3. CASE i \in 1 .. Len(wire)
      BY <1>0, <1>7, <3>3 DEF InOrder
    <3> QED BY <1>7, <3>2, <3>3
  <2>7. ASSUME NEW i \in 1 .. Len(wire'), i > 1
        PROVE  wire'[i].step \in {"create", "agent"}
    <3>2. CASE i = m
      BY <1>0, <1>6, <1>7, <1>9, <2>7, <3>2 DEF Early
    <3>3. CASE i \in 1 .. Len(wire)
      BY <1>7, <2>7, <3>3 DEF InOrder
    <3> QED BY <1>7, <3>2, <3>3
  <2> QED BY <1>2, <1>4, <1>5, <2>3, <2>4, <2>5, <2>6, <2>7 DEF InOrder
<1>14. OwnIsTheStep'
  BY <1>0, <1>2, <1>6, <1>7, <1>19 DEF OwnIsTheStep
<1>15. AloneOnTheWire'
  <2>1. CASE ~Early
    <3>1. \A i \in 1 .. Len(wire') : i = m
      BY <1>7, <1>9, <2>1
    <3> QED BY <1>19, <3>1 DEF AloneOnTheWire
  <2>2. CASE Early
    BY <1>2, <2>2 DEF AloneOnTheWire, Early
  <2> QED BY <2>1, <2>2
<1>16. ReadsOwn'
  BY <1>0, <1>2, <1>19, <1>10 DEF ReadsOwn
<1>17. Attached'
  BY <1>0, <1>2, <1>5, <1>6, <1>7 DEF Attached
<1>18. Scripts'
  <2>1. SUFFICES ASSUME client.session, ~interrupted
                 PROVE  ScriptsAt(operation.step)' /\ WireIsPrepared'
    BY <1>0, <1>5 DEF Scripts
  <2>2. ScriptsAt(operation.step) /\ WireIsPrepared
    BY <2>1 DEF Scripts
  <2>3. operation.step = "unhook" =>
          \A i \in 1 .. Len(wire') : \A h \in page.captures : h.id = wire'[i].script
    BY <1>0, <1>6, <1>7, <1>9, <2>2 DEF ScriptsAt, Early
  <2>4. ScriptsAt(operation.step)'
    BY <1>0, <1>1, <1>2, <1>5, <1>10, <2>2, <2>3 DEF ScriptsAt
  <2>5. \A i \in 1 .. Len(wire') :
          wire'[i].step \in {"enable", "stealth", "unhook", "hook"} => Own(wire[i])'
    BY <1>7, <1>8, <1>19, <2>2 DEF WireIsPrepared
  <2>6. ASSUME NEW i \in 1 .. Len(wire'), wire'[i].step = "navigate"
        PROVE  /\ page.stealth
               /\ {h.by : h \in page.captures} =
                     IF wire'[i].kind = "capture" THEN {wire'[i].by} ELSE {}
    <3>1. CASE i = m
      <4>1. operation.step = "navigate" /\ page.stealth
        BY <1>6, <1>7, <2>2, <2>6, <3>1 DEF ScriptsAt
      <4>2. page.captures = IF operation.kind = "capture"
                            THEN {[id |-> client.capture, by |-> started]} ELSE {}
        BY <2>2, <4>1 DEF ScriptsAt
      <4>3. CASE operation.kind = "capture"
        <5>1. {h.by : h \in page.captures} = {started}
          BY <4>2, <4>3
        <5> QED BY <1>6, <1>7, <3>1, <4>1, <4>3, <5>1
      <4>4. CASE operation.kind # "capture"
        <5>1. {h.by : h \in page.captures} = {}
          BY <4>2, <4>4
        <5> QED BY <1>6, <1>7, <3>1, <4>1, <4>4, <5>1
      <4> QED BY <4>3, <4>4
    <3>2. CASE i \in 1 .. Len(wire)
      BY <1>7, <2>2, <2>6, <3>2 DEF WireIsPrepared
    <3> QED BY <1>7, <3>1, <3>2
  <2>7. page' = page
    BY <1>0
  <2>8. WireIsPrepared'
    BY <2>5, <2>6, <2>7 DEF WireIsPrepared
  <2> QED BY <2>4, <2>8
<1> QED BY <1>11, <1>12, <1>13, <1>14, <1>15, <1>16, <1>17, <1>18

(* What the browser does with a command, and what it does not.             *)
LEMMA BrowserExecutes ==
    ASSUME ClientInv, NEW c \in CommandShape, NEW reply,
           page' = IF reply = "error" THEN page
                   ELSE CASE c.step = "create" -> Client!NoPage
                          [] c.step = "stealth" -> [page EXCEPT !.stealth = TRUE]
                          [] c.step = "hook" ->
                                [page EXCEPT !.captures = @ \cup {[id |-> c.id, by |-> c.by]}]
                          [] c.step = "unhook" ->
                                [page EXCEPT !.captures = {h \in @ : h.id # c.script}]
                          [] c.step = "navigate" -> [page EXCEPT !.of = c.by]
                          [] OTHER -> page
    PROVE  /\ page' \in PageShape
           /\ c.step \notin {"create", "stealth", "hook", "unhook", "navigate"} => page' = page
           /\ reply = "error" => page' = page
           /\ c.step = "create" => page' \in {page, Client!NoPage}
           /\ c.step \notin {"create", "navigate"} => page'.of = page.of
           /\ c.step \notin {"create", "stealth"} => page'.stealth = page.stealth
           /\ c.step \notin {"create", "hook", "unhook"} => page'.captures = page.captures
           /\ c.step = "stealth" /\ reply # "error" => page'.stealth
           /\ c.step = "hook" /\ reply # "error" =>
                 page'.captures = page.captures \cup {[id |-> c.id, by |-> c.by]}
           /\ c.step = "unhook" /\ reply # "error" =>
                 page'.captures = {h \in page.captures : h.id # c.script}
           /\ c.step = "navigate" /\ reply # "error" => page'.of = c.by
<1>0. page \in PageShape /\ Client!NoPage \in PageShape
  BY DEF ClientInv, ClientShapes, PageShape, Client!NoPage
<1>1. CASE reply = "error"
  BY <1>0, <1>1
<1>2. CASE reply # "error" /\ c.step = "create"
  BY <1>0, <1>2
<1>3. CASE reply # "error" /\ c.step = "stealth"
  BY <1>0, <1>3 DEF PageShape
<1>4. CASE reply # "error" /\ c.step = "hook"
  <2>1. page' = [page EXCEPT !.captures = page.captures \cup {[id |-> c.id, by |-> c.by]}]
    BY <1>4
  <2>2. [id |-> c.id, by |-> c.by] \in [id : Nat, by : Nat]
    BY DEF CommandShape
  <2> QED BY <1>0, <1>4, <2>1, <2>2 DEF PageShape
<1>5. CASE reply # "error" /\ c.step = "unhook"
  <2>1. page' = [page EXCEPT !.captures = {h \in page.captures : h.id # c.script}]
    BY <1>5
  <2> QED BY <1>0, <1>5, <2>1 DEF PageShape
<1>6. CASE reply # "error" /\ c.step = "navigate"
  BY <1>0, <1>6 DEF PageShape, CommandShape
<1>7. CASE reply # "error" /\ c.step \notin {"create", "stealth", "hook", "unhook", "navigate"}
  BY <1>0, <1>7
<1> QED BY <1>1, <1>2, <1>3, <1>4, <1>5, <1>6, <1>7

LEMMA ClientExecutes ==
    ASSUME ClientInv, Client!Execute
    PROVE  ClientInv'
<1> USE DEF ClientInv
<1> DEFINE c == wire[1]
           l == Len(inbox) + 1
<1>0. /\ wire # <<>> /\ wire' = Tail(wire) /\ Head(wire) = c /\ 1 \in 1 .. Len(wire)
      /\ UNCHANGED <<client, operation, started, connections, failedOn, interrupted>>
  BY TailIsPart DEF Client!Execute, ClientShapes
<1>1. PICK reply \in Client!Replies(c.step) :
        /\ inbox' = Append(inbox, [id |-> c.id, says |-> reply, of |-> page.of])
        /\ page' = IF reply = "error" THEN page
                   ELSE CASE c.step = "create" -> Client!NoPage
                          [] c.step = "stealth" -> [page EXCEPT !.stealth = TRUE]
                          [] c.step = "hook" ->
                                [page EXCEPT !.captures = @ \cup {[id |-> c.id, by |-> c.by]}]
                          [] c.step = "unhook" ->
                                [page EXCEPT !.captures = {h \in @ : h.id # c.script}]
                          [] c.step = "navigate" -> [page EXCEPT !.of = c.by]
                          [] OTHER -> page
  BY <1>0 DEF Client!Execute
<1> DEFINE m == [id |-> c.id, says |-> reply, of |-> page.of]
<1>2. c \in CommandShape /\ c.id \in Nat /\ c.by \in Nat
  BY <1>0, OnTheWire DEF CommandShape
<1>3. m \in ReplyShape /\ m.id = c.id /\ m.says = reply /\ m.of = page.of
  <2>1. reply \in Client!Sights \cup {"ok", "error", "payloads", "nothing"}
    BY DEF Client!Replies, Client!Sights
  <2>2. page.of \in Nat
    BY DEF ClientShapes, PageShape
  <2> QED BY <1>2, <2>1, <2>2 DEF ReplyShape
<1>4. /\ wire' \in Seq(CommandShape)
      /\ \A i \in 1 .. Len(wire') : wire'[i] = wire[i + 1] /\ i + 1 \in 1 .. Len(wire) /\ i + 1 > 1
      /\ \A i, j \in 1 .. Len(wire') : i < j => i + 1 < j + 1
  BY <1>0, TailIsPart DEF ClientShapes
<1> HIDE DEF m
<1>5. /\ inbox' \in Seq(ReplyShape) /\ l \in 1 .. Len(inbox') /\ inbox'[l] = m
      /\ \A k \in 1 .. Len(inbox) : inbox'[k] = inbox[k] /\ k \in 1 .. Len(inbox')
      /\ \A k \in 1 .. Len(inbox') : k = l \/ k \in 1 .. Len(inbox)
  <2>1. inbox \in Seq(ReplyShape) /\ inbox' = Append(inbox, m)
    BY <1>1 DEF m, ClientShapes
  <2> QED BY <1>3, <2>1
<1> HIDE DEF l
<1>6. /\ page' \in PageShape
      /\ c.step \notin {"create", "stealth", "hook", "unhook", "navigate"} => page' = page
      /\ reply = "error" => page' = page
      /\ c.step = "create" => page' \in {page, Client!NoPage}
      /\ c.step \notin {"create", "navigate"} => page'.of = page.of
      /\ c.step \notin {"create", "stealth"} => page'.stealth = page.stealth
      /\ c.step \notin {"create", "hook", "unhook"} => page'.captures = page.captures
      /\ c.step = "stealth" /\ reply # "error" => page'.stealth
      /\ c.step = "hook" /\ reply # "error" =>
            page'.captures = page.captures \cup {[id |-> c.id, by |-> c.by]}
      /\ c.step = "unhook" /\ reply # "error" =>
            page'.captures = {h \in page.captures : h.id # c.script}
      /\ c.step = "navigate" /\ reply # "error" => page'.of = c.by
  BY <1>1, <1>2, BrowserExecutes
<1>7. Own(c) => c.step = operation.step /\ c.by = started /\ c.kind = operation.kind
  BY <1>0 DEF OwnIsTheStep
<1>8. ~Early => Own(c) /\ wire' = <<>> /\ (\A k \in 1 .. Len(inbox) : ~Own(inbox[k]))
  <2>1. SUFFICES ASSUME ~Early
                 PROVE  Own(c) /\ wire' = <<>> /\ (\A k \in 1 .. Len(inbox) : ~Own(inbox[k]))
    OBVIOUS
  <2>2. \A i \in 1 .. Len(wire) : Own(wire[i])
    BY <2>1 DEF AloneOnTheWire
  <2>3. Own(c)
    BY <1>0, <2>2
  <2>4. \A i \in 1 .. Len(wire') : FALSE
    <3>1. SUFFICES ASSUME NEW i \in 1 .. Len(wire') PROVE FALSE
      OBVIOUS
    <3>2. wire[1].id < wire[i + 1].id
      BY <1>0, <1>4 DEF InOrder
    <3> QED BY <1>0, <1>4, <2>2, <3>2, OnTheWire DEF Own
  <2>5. wire' = <<>>
    BY <1>4, <2>4
  <2>6. \A k \in 1 .. Len(inbox) : ~Own(inbox[k])
    BY <1>0, <2>3, OnTheWire DEF InOrder, Own
  <2> QED BY <2>3, <2>5, <2>6
<1>10. ClientShapes'
  BY <1>0, <1>4, <1>5, <1>6 DEF ClientShapes
<1>11. OneConnection'
  BY <1>0, <1>1 DEF OneConnection
<1>12. InOrder'
  <2>1. \A i \in 1 .. Len(wire') : c.id < wire'[i].id
    BY <1>0, <1>4 DEF InOrder
  <2>2. ASSUME NEW i \in 1 .. Len(wire') PROVE
          /\ wire'[i].id < client'.nextId
          /\ \A j \in 1 .. Len(wire') : i < j => wire'[i].id < wire'[j].id
          /\ \A k \in 1 .. Len(inbox') : inbox'[k].id < wire'[i].id
          /\ wire'[i].step \in {"create", "agent"}
    <3>1. wire'[i].id < client'.nextId /\ wire'[i].step \in {"create", "agent"}
      BY <1>0, <1>4 DEF InOrder
    <3>2. \A j \in 1 .. Len(wire') : i < j => wire'[i].id < wire'[j].id
      BY <1>4 DEF InOrder
    <3>3. \A k \in 1 .. Len(inbox) : inbox[k].id < wire'[i].id
      BY <1>4 DEF InOrder
    <3> QED BY <1>3, <1>5, <2>1, <3>1, <3>2, <3>3
  <2>3. \A k \in 1 .. Len(inbox') : inbox'[k].id < client'.nextId
    BY <1>0, <1>3, <1>5 DEF InOrder
  <2> QED BY <1>0, <2>2, <2>3 DEF InOrder
<1>13. OwnIsTheStep'
  BY <1>0, <1>4 DEF OwnIsTheStep, Own
<1>14. AloneOnTheWire'
  BY <1>0, <1>4 DEF AloneOnTheWire, Early, Own
<1>15. ReadsOwn'
  <2>1. CASE operation.step \in ReadSteps
    <3>1. Own(c) /\ c.step = operation.step /\ \A k \in 1 .. Len(inbox) : ~Own(inbox[k])
      BY <1>7, <1>8, <2>1 DEF Early, ReadSteps
    <3>2. page' = page
      BY <1>6, <2>1, <3>1 DEF ReadSteps
    <3> QED BY <1>0, <1>3, <1>5, <2>1, <3>1, <3>2 DEF ReadsOwn, Own, ReadSteps
  <2>2. CASE operation.step = "navigate"
    <3>1. Own(c) /\ c.step = "navigate" /\ c.by = started
              /\ \A k \in 1 .. Len(inbox) : ~Own(inbox[k])
      BY <1>7, <1>8, <2>2 DEF Early
    <3>2. RepliedWell' => reply # "error"
      BY <1>0, <1>3, <1>5, <3>1 DEF RepliedWell, Own
    <3> QED BY <1>0, <1>6, <2>2, <3>1, <3>2 DEF ReadsOwn, ReadSteps
  <2>3. CASE operation.step \notin ReadSteps \cup {"navigate"}
    BY <1>0, <2>3 DEF ReadsOwn
  <2> QED BY <2>1, <2>2, <2>3
<1>16. Attached'
  <2>1. SUFFICES ASSUME client.connection > 0 PROVE Attached'
    BY <1>0 DEF Attached
  <2>2. ~client.session => page' = Client!NoPage
    BY <1>0, <1>6, <2>1 DEF Attached
  <2> QED BY <1>0, <1>4, <2>1, <2>2 DEF Attached
<1>17. Scripts'
  <2>1. SUFFICES ASSUME client.session, ~interrupted
                 PROVE  ScriptsAt(operation.step)' /\ WireIsPrepared'
    BY <1>0 DEF Scripts
  <2>2. ScriptsAt(operation.step) /\ WireIsPrepared
    BY <2>1 DEF Scripts
  <2>3. client.connection > 0 /\ c.step # "create"
    <3>1. client.connection > 0
      BY <2>1 DEF OneConnection, Client!NoClient, ClientShapes, ClientShape
    <3> QED BY <1>0, <2>1, <3>1 DEF Attached
  <2>4. c.step \in {"enable", "stealth", "unhook", "hook"} => Own(c)
    BY <1>0, <2>2 DEF WireIsPrepared
  <2>5. CASE operation.step \notin {"stealth", "unhook", "hook"}
    <3>1. page'.captures = page.captures /\ page'.stealth = page.stealth
      BY <1>6, <1>7, <2>3, <2>4, <2>5
    <3>2. ScriptsAt(operation.step)'
      BY <1>0, <2>2, <2>5, <3>1 DEF ScriptsAt
    <3>3. ASSUME NEW i \in 1 .. Len(wire')
          PROVE  /\ wire'[i].step \in {"enable", "stealth", "unhook", "hook"} => Own(wire[i])'
                 /\ wire'[i].step = "navigate" =>
                       /\ page'.stealth
                       /\ {h.by : h \in page'.captures} =
                             IF wire'[i].kind = "capture" THEN {wire'[i].by} ELSE {}
      <4>1. wire'[i] = wire[i + 1] /\ i + 1 \in 1 .. Len(wire)
        BY <1>4
      <4>2. wire[i + 1].step \in {"enable", "stealth", "unhook", "hook"} => Own(wire[i])'
        BY <1>0, <2>2, <4>1 DEF WireIsPrepared, Own
      <4>3. wire[i + 1].step = "navigate" =>
                       /\ page.stealth
                       /\ {h.by : h \in page.captures} =
                             IF wire[i + 1].kind = "capture" THEN {wire[i + 1].by} ELSE {}
        BY <2>2, <4>1 DEF WireIsPrepared
      <4> QED BY <3>1, <4>1, <4>2, <4>3
    <3>4. WireIsPrepared'
      BY <3>3 DEF WireIsPrepared
    <3> QED BY <3>2, <3>4
  <2>6. CASE operation.step \in {"stealth", "unhook", "hook"}
    <3>1. Own(c) /\ c.step = operation.step /\ wire' = <<>> /\ c.by = started
          /\ (\A k \in 1 .. Len(inbox) : ~Own(inbox[k])) /\ c.id = operation.awaits
          /\ operation.awaits > 0
      BY <1>7, <1>8, <2>6 DEF Early, Own
    <3>2. RepliedWell' => reply # "error"
      BY <1>0, <1>3, <1>5, <3>1 DEF RepliedWell, Own
    <3>3. WireIsPrepared'
      BY <3>1 DEF WireIsPrepared
    <3>4. CASE operation.step = "stealth"
      BY <1>0, <1>6, <2>2, <3>1, <3>2, <3>3, <3>4 DEF ScriptsAt
    <3>5. CASE operation.step = "unhook"
      <4>1. \A h \in page.captures : h.id = c.script
        BY <1>0, <2>2, <3>5 DEF ScriptsAt
      <4>2. reply # "error" => page'.captures = {}
        BY <1>6, <3>1, <3>5, <4>1
      <4> QED BY <1>0, <1>6, <2>2, <3>1, <3>2, <3>5, <4>2, <3>3 DEF ScriptsAt
    <3>6. CASE operation.step = "hook"
      <4>1. page.captures = {}
        BY <1>0, <2>2, <3>6 DEF ScriptsAt
      <4>2. reply # "error" => page'.captures = {[id |-> operation.awaits, by |-> started]}
        BY <1>6, <3>1, <3>6, <4>1
      <4> QED BY <1>0, <1>6, <2>2, <3>1, <3>2, <3>6, <4>2, <3>3 DEF ScriptsAt
    <3> QED BY <2>6, <3>3, <3>4, <3>5, <3>6
  <2> QED BY <2>5, <2>6
<1> QED BY <1>10, <1>11, <1>12, <1>13, <1>14, <1>15, <1>16, <1>17

(* The awaited reply is there, and nothing else is under way.              *)
LEMMA RepliedIsAlone ==
    ASSUME ClientInv, operation.awaits > 0, inbox # <<>>, Client!Answers(Head(inbox))
    PROVE  /\ wire = <<>> /\ Own(Head(inbox)) /\ Head(inbox) = inbox[1] /\ 1 \in 1 .. Len(inbox)
           /\ Head(inbox).says # "error" => RepliedWell
<1> USE DEF ClientInv
<1>1. Head(inbox) = inbox[1] /\ 1 \in 1 .. Len(inbox) /\ Own(inbox[1])
  BY TailIsPart DEF ClientShapes, Client!Answers, Own
<1>2. \A i \in 1 .. Len(wire) : FALSE
  <2>1. SUFFICES ASSUME NEW i \in 1 .. Len(wire) PROVE FALSE
    OBVIOUS
  <2>2. inbox[1].id < wire[i].id /\ wire[i].id < client.nextId
        /\ operation.awaits = client.nextId - 1
    BY <1>1 DEF InOrder
  <2> QED BY <1>1, <2>2, OnTheWire DEF Own, ClientShapes, ClientShape
<1>3. wire = <<>>
  BY <1>2 DEF ClientShapes
<1> QED BY <1>1, <1>3 DEF RepliedWell

(* One more look at the page, or the last.                                 *)
LEMMA ClientReads ==
    ASSUME ClientInv, operation.awaits > 0, inbox # <<>>, Client!Answers(Head(inbox)),
           operation.step \in ReadSteps,
           operation' \in OperationShape, operation'.step \in ReadSteps,
           operation'.awaits = 0, operation'.kind = operation.kind,
           inbox' = Tail(inbox),
           UNCHANGED <<client, started, connections, wire, page, failedOn, interrupted>>
    PROVE  ClientInv'
<1> USE DEF ClientInv
<1>0. wire = <<>>
  BY RepliedIsAlone
<1>1. /\ inbox' \in Seq(ReplyShape)
      /\ \A k \in 1 .. Len(inbox') : \E l \in 1 .. Len(inbox) : inbox'[k] = inbox[l]
  BY TailIsPart DEF ClientShapes
<1>2. ClientShapes'
  BY <1>1 DEF ClientShapes
<1>3. OneConnection'
  BY DEF OneConnection, ReadSteps
<1>4. InOrder'
  BY <1>0, <1>1 DEF InOrder
<1>5. OwnIsTheStep' /\ AloneOnTheWire' /\ ~RepliedWell'
  BY <1>0 DEF OwnIsTheStep, AloneOnTheWire, RepliedWell, Own
<1>6. ReadsOwn'
  BY <1>5 DEF ReadsOwn, Own
<1>7. Attached'
  BY <1>0 DEF Attached, ReadSteps
<1>8. Scripts'
  BY <1>0, <1>5 DEF Scripts, ScriptsAt, WireIsPrepared, ReadSteps
<1> QED BY <1>2, <1>3, <1>4, <1>5, <1>6, <1>7, <1>8

LEMMA ClientSetsUp ==
    ASSUME ClientInv, Client!SetUp
    PROVE  ClientInv'
<1> USE DEF ClientInv
<1> DEFINE step == Client!NextStep(operation.step)
           script == IF step = "unhook" THEN client.capture ELSE 0
           target == client.target \/ operation.step = "create"
           session == client.session \/ operation.step = "attach"
           capture == IF operation.step = "hook" THEN operation.awaits ELSE Client!Taken(step)
<1>0. /\ operation.awaits > 0 /\ inbox # <<>> /\ Client!Answers(Head(inbox))
      /\ Head(inbox).says # "error" /\ operation.step \notin ReadSteps /\ inbox' = Tail(inbox)
      /\ UNCHANGED <<started, connections, wire, page, failedOn, interrupted>>
      /\ operation \in OperationShape /\ client \in ClientShape
  BY DEF Client!SetUp, ReadSteps, ClientShapes
<1>1. wire = <<>> /\ RepliedWell
  BY <1>0, RepliedIsAlone
<1>2. /\ operation.step \in SetUpSteps /\ client.connection > 0
          /\ operation.kind \in {"solve", "capture"}
  BY <1>0 DEF OneConnection, OperationShape, AnyStep, AnyKind
<1>3. /\ operation.step = "create" => step = "attach"
      /\ operation.step = "attach" => step = "enable"
      /\ operation.step = "enable" => step = "stealth"
      /\ operation.step = "stealth" => step = "agent"
      /\ operation.step = "agent" =>
            step = IF client.capture > 0 THEN "unhook"
                   ELSE IF operation.kind = "capture" THEN "hook" ELSE "navigate"
      /\ operation.step = "unhook" =>
            step = IF operation.kind = "capture" THEN "hook" ELSE "navigate"
      /\ operation.step = "hook" => step = "navigate"
      /\ operation.step = "navigate" => step = "poll"
  BY DEF Client!NextStep, Client!HookOrGo
<1>4. step \in SetUpSteps \cup {"poll"}
  BY <1>2, <1>3 DEF SetUpSteps
<1>5. /\ script \in Nat /\ target \in BOOLEAN /\ session \in BOOLEAN /\ capture \in Nat
      /\ step # "unhook" => capture = IF operation.step = "hook" THEN operation.awaits
            ELSE client.capture
      /\ step = "unhook" => script = client.capture
      /\ step = "unhook" /\ operation.step # "hook" => capture = 0
  BY <1>0 DEF ClientShape, OperationShape, Client!Taken
<1>6. operation' = [operation EXCEPT !.awaits = 0, !.step = step, !.polls = 0, !.script = script]
      /\ client' = [client EXCEPT !.target = target, !.session = session, !.capture = capture]
  BY DEF Client!SetUp, Client!Goes
<1> HIDE DEF step, script, target, session, capture
<1>7. /\ operation' \in OperationShape /\ operation'.step = step /\ operation'.awaits = 0
      /\ operation'.kind = operation.kind /\ operation'.script = script
  <2>1. step \in AnyStep
    BY <1>4 DEF AnyStep, ReadSteps
  <2> QED BY <1>0, <1>5, <1>6, <2>1 DEF OperationShape
<1>8. /\ client' \in ClientShape /\ client'.target = target /\ client'.session = session
      /\ client'.capture = capture /\ client'.connection = client.connection
      /\ client'.nextId = client.nextId /\ client'.alive = client.alive
  BY <1>0, <1>5, <1>6 DEF ClientShape
<1>9. /\ inbox' \in Seq(ReplyShape)
      /\ \A k \in 1 .. Len(inbox') : \E l \in 1 .. Len(inbox) : inbox'[k] = inbox[l]
  BY <1>0, TailIsPart DEF ClientShapes
<1>10. ClientShapes'
  BY <1>0, <1>7, <1>8, <1>9 DEF ClientShapes
<1>11. client.alive
  BY <1>0 DEF OneConnection
<1>12. OneConnection'
  BY <1>0, <1>2, <1>4, <1>7, <1>8, <1>11 DEF OneConnection, SetUpSteps
<1>13. InOrder'
  BY <1>0, <1>1, <1>7, <1>8, <1>9 DEF InOrder
<1>14. OwnIsTheStep' /\ AloneOnTheWire' /\ ~RepliedWell'
  BY <1>0, <1>1, <1>7 DEF OwnIsTheStep, AloneOnTheWire, RepliedWell, Own
<1>15. ReadsOwn'
  <2>1. step \in ReadSteps => operation.step = "navigate"
    BY <1>2, <1>3 DEF ReadSteps, SetUpSteps
  <2> QED BY <1>0, <1>1, <1>7, <1>14, <2>1 DEF ReadsOwn, Own
<1>16. Attached'
  <2>1. /\ step = "attach" => target
        /\ session => target /\ step \notin {"create", "attach"}
        /\ ~session =>
              /\ page = Client!NoPage /\ capture = 0
              /\ step \in {"none", "create", "attach"}
    BY <1>2, <1>3, <1>5 DEF Attached, SetUpSteps, target, session
  <2> QED BY <1>0, <1>1, <1>7, <1>8, <2>1 DEF Attached
<1>17. Scripts'
  <2>1. SUFFICES ASSUME session, ~interrupted
                 PROVE  ScriptsAt(operation.step)' /\ WireIsPrepared'
    BY <1>0, <1>8 DEF Scripts
  <2>2. WireIsPrepared'
    BY <1>0, <1>1 DEF WireIsPrepared
  <2>3. CASE operation.step = "attach"
    <3>1. page.captures = {} /\ client.capture = 0
      BY <1>2, <2>3 DEF Attached, Client!NoPage
    <3> QED BY <1>0, <1>3, <1>5, <1>7, <1>8, <1>14, <2>2, <2>3, <3>1 DEF ScriptsAt
  <2>4. CASE operation.step # "attach"
    <3>1. client.session /\ operation.step # "create"
      BY <1>2, <2>1, <2>4 DEF session, Attached
    <3>2. ScriptsAt(operation.step)
      BY <2>1, <3>1 DEF Scripts
    <3>3. CASE operation.step = "enable"
      BY <1>0, <1>3, <1>5, <1>7, <1>8, <1>14, <2>2, <3>2, <3>3 DEF ScriptsAt
    <3>4. CASE operation.step = "stealth"
      BY <1>0, <1>1, <1>3, <1>5, <1>7, <1>8, <2>2, <3>2, <3>4 DEF ScriptsAt
    <3>5. CASE operation.step = "agent"
      <4>1. page.stealth /\ \A h \in page.captures : h.id = client.capture /\ client.capture > 0
        BY <3>2, <3>5 DEF ScriptsAt
      <4>2. ~(client.capture > 0) => page.captures = {} /\ client.capture = 0
        BY <1>0, <4>1 DEF ClientShape
      <4>3. CASE client.capture > 0
        BY <1>0, <1>1, <1>3, <1>5, <1>7, <1>8, <1>14, <2>2, <3>5, <4>1, <4>3 DEF ScriptsAt
      <4>4. CASE ~(client.capture > 0)
        BY <1>0, <1>3, <1>5, <1>7, <1>8, <1>14, <2>2, <3>5, <4>1, <4>2, <4>4 DEF ScriptsAt
      <4> QED BY <4>3, <4>4
    <3>6. CASE operation.step = "unhook"
      <4>1. page.stealth /\ page.captures = {} /\ client.capture = 0
        BY <1>1, <3>2, <3>6 DEF ScriptsAt
      <4> QED BY <1>0, <1>3, <1>5, <1>7, <1>8, <1>14, <2>2, <3>6, <4>1 DEF ScriptsAt
    <3>7. CASE operation.step = "hook"
      <4>1. /\ page.stealth /\ operation.kind = "capture"
            /\ page.captures = {[id |-> operation.awaits, by |-> started]}
        BY <1>1, <3>2, <3>7 DEF ScriptsAt
      <4> QED BY <1>0, <1>3, <1>5, <1>7, <1>8, <1>14, <2>2, <3>7, <4>1 DEF ScriptsAt
    <3>8. CASE operation.step = "navigate"
      BY <1>0, <1>3, <1>5, <1>7, <1>8, <1>14, <2>2, <3>2, <3>8 DEF ScriptsAt
    <3> QED BY <1>2, <2>4, <3>1, <3>3, <3>4, <3>5, <3>6, <3>7, <3>8 DEF SetUpSteps
  <2> QED BY <2>3, <2>4
<1> QED BY <1>10, <1>12, <1>13, <1>14, <1>15, <1>16, <1>17

(* The end of an operation drops nothing that was half set up.             *)
LEMMA ReadingIsSetUp ==
    ASSUME operation.step \in ReadSteps
    PROVE  ~Client!HalfSetUp
BY DEF ReadSteps, Client!HalfSetUp

LEMMA ClientPolls ==
    ASSUME ClientInv, Client!Poll
    PROVE  ClientInv'
<1>0. /\ operation.step = "poll" /\ operation.awaits > 0 /\ inbox # <<>>
      /\ Client!Answers(Head(inbox)) /\ inbox' = Tail(inbox) /\ UNCHANGED client
      /\ operation \in OperationShape /\ operation.step \in ReadSteps /\ interrupted \in BOOLEAN
  BY DEF Client!Poll, ClientInv, ClientShapes, ReadSteps
<1>1. UNCHANGED <<started, connections, wire, page, failedOn, interrupted>>
  BY DEF Client!Poll, Client!Ends
<1>2. CASE operation' = Client!NoOperation
  BY <1>0, <1>1, <1>2, ReadingIsSetUp, OperationLeaves
<1>3. ASSUME NEW step \in {"collect", "cookies"}, Client!Goes(step)
      PROVE  ClientInv'
  <2> DEFINE script == IF step = "unhook" THEN client.capture ELSE 0
  <2>1. script \in Nat
    OBVIOUS
  <2>2. operation' = [operation EXCEPT !.awaits = 0, !.step = step, !.polls = 0, !.script = script]
    BY <1>3 DEF Client!Goes
  <2> HIDE DEF script
  <2>3. /\ operation' \in OperationShape /\ operation'.step = step /\ operation'.awaits = 0
        /\ operation'.kind = operation.kind
    BY <1>0, <2>1, <2>2 DEF OperationShape, AnyStep, ReadSteps
  <2>4. operation'.step \in ReadSteps
    BY <2>3 DEF ReadSteps
  <2> QED BY <1>0, <1>1, <2>3, <2>4, ClientReads
<1>4. ASSUME NEW sight, operation' = [operation EXCEPT
                !.awaits = 0, !.polls = @ + 1, !.stable = Client!StableAt(sight),
                !.challenge = @ \/ sight = "challenge"]
      PROVE  ClientInv'
  <2> DEFINE n == operation.polls + 1
             stable == Client!StableAt(sight)
             challenge == operation.challenge \/ sight = "challenge"
  <2>1. n \in Nat /\ stable \in Nat /\ challenge \in BOOLEAN
    BY <1>0 DEF OperationShape, Client!StableAt
  <2>2. operation' = [operation EXCEPT !.awaits = 0, !.polls = n, !.stable = stable,
                                       !.challenge = challenge]
    BY <1>4, Zenon
  <2> HIDE DEF n, stable, challenge
  <2>3. /\ operation' \in OperationShape /\ operation'.step = operation.step
            /\ operation'.awaits = 0
        /\ operation'.kind = operation.kind
    BY <1>0, <2>1, <2>2 DEF OperationShape
  <2> QED BY <1>0, <1>1, <2>3, ClientReads
<1> QED BY <1>2, <1>3, <1>4 DEF Client!Poll, Client!Ends

LEMMA ClientCollects ==
    ASSUME ClientInv, Client!Collect
    PROVE  ClientInv'
<1>0. /\ operation.awaits > 0 /\ inbox # <<>>
      /\ Client!Answers(Head(inbox)) /\ inbox' = Tail(inbox)
      /\ operation \in OperationShape /\ operation.step \in ReadSteps /\ interrupted \in BOOLEAN
      /\ UNCHANGED <<client, started, connections, wire, page, failedOn, interrupted>>
  BY DEF Client!Collect, ClientInv, ClientShapes, ReadSteps
<1>1. CASE operation' = Client!NoOperation
  BY <1>0, <1>1, ReadingIsSetUp, OperationLeaves
<1>2. CASE operation' = [operation EXCEPT !.awaits = 0, !.polls = @ + 1]
  <2> DEFINE n == operation.polls + 1
  <2>1. n \in Nat
    BY <1>0 DEF OperationShape
  <2>2. operation' = [operation EXCEPT !.awaits = 0, !.polls = n]
    BY <1>2, Zenon
  <2> HIDE DEF n
  <2>3. /\ operation' \in OperationShape /\ operation'.step = operation.step
            /\ operation'.awaits = 0
        /\ operation'.kind = operation.kind
    BY <1>0, <2>1, <2>2 DEF OperationShape
  <2> QED BY <1>0, <2>3, ClientReads
<1> QED BY <1>1, <1>2 DEF Client!Collect

LEMMA ClientReadsCookies ==
    ASSUME ClientInv, Client!ReadCookies
    PROVE  ClientInv'
<1>1. operation.step \in ReadSteps /\ interrupted \in BOOLEAN
  BY DEF Client!ReadCookies, ReadSteps, ClientInv, ClientShapes
<1> QED BY <1>1, ReadingIsSetUp, OperationLeaves DEF Client!ReadCookies, Client!Ends

LEMMA ClientDrops ==
    ASSUME ClientInv, Client!Drop
    PROVE  ClientInv'
<1>1. interrupted' \in BOOLEAN /\ (interrupted => interrupted')
          /\ (Client!HalfSetUp => interrupted')
  BY DEF Client!Drop, ClientInv, ClientShapes
<1> QED BY <1>1, OperationLeaves DEF Client!Drop

LEMMA ClientInvStep ==
    ASSUME ClientInv, [Client!Next]_(Client!vars)
    PROVE  ClientInv'
<1>1. CASE UNCHANGED Client!vars
  <2> USE <1>1 DEF Client!vars, Own, Early, RepliedWell
  <2>1. ClientShapes'
    BY DEF ClientInv, ClientShapes
  <2>2. OneConnection' /\ InOrder'
    BY DEF ClientInv, OneConnection, InOrder
  <2>3. OwnIsTheStep' /\ AloneOnTheWire' /\ ReadsOwn' /\ Attached'
    BY DEF ClientInv, OwnIsTheStep, AloneOnTheWire, ReadsOwn, Attached
  <2>4. WireIsPrepared <=> WireIsPrepared'
    BY DEF WireIsPrepared
  <2>5. Scripts'
    BY <2>4 DEF ClientInv, Scripts, ScriptsAt
  <2> QED BY <2>1, <2>2, <2>3, <2>5 DEF ClientInv
<1>2. CASE Client!TimesOut \/ Client!Rejected
  <2>1. operation.step \notin {"none", "connect"}
    BY <1>2 DEF Client!TimesOut, Client!Rejected, ClientInv, OneConnection
  <2> QED BY <1>2, <2>1, ClientFails DEF Client!TimesOut, Client!Rejected
<1> QED BY <1>1, <1>2, ClientBegins, ClientConnects, ClientSends, ClientExecutes, ClientSocketDies,
           ClientIgnores, ClientSetsUp, ClientPolls, ClientReadsCookies, ClientCollects,
           ClientDrops DEF Client!Next

LEMMA OwnPageIsRead ==
    ASSUME ClientInv, [Client!Next]_(Client!vars)
    PROVE  [Client!Poll \/ Client!ReadCookies \/ Client!Collect =>
          Head(inbox).of = started]_(Client!vars)
<1> SUFFICES ASSUME Client!Poll \/ Client!ReadCookies \/ Client!Collect
             PROVE  Head(inbox).of = started
  OBVIOUS
<1>1. operation.awaits > 0 /\ inbox # <<>> /\ Client!Answers(Head(inbox))
      /\ operation.step \in ReadSteps
  BY DEF Client!Poll, Client!ReadCookies, Client!Collect, ReadSteps
<1> QED BY <1>1, RepliedIsAlone DEF ClientInv, ReadsOwn

LEMMA PreparedPageNavigates ==
    ASSUME ClientInv, [Client!Next]_(Client!vars)
    PROVE  [page'.of # page.of /\ page'.of > 0 /\ ~interrupted =>
               /\ page.stealth
               /\ {h.by : h \in page.captures} =
                     IF Head(wire).kind = "capture" THEN {page'.of} ELSE {}]_(Client!vars)
<1> SUFFICES ASSUME page'.of # page.of, page'.of > 0, ~interrupted, Client!Next
             PROVE  /\ page.stealth
                    /\ {h.by : h \in page.captures} =
                          IF Head(wire).kind = "capture" THEN {page'.of} ELSE {}
  BY DEF Client!vars
<1>1. Client!NoPage.of = 0
  BY DEF Client!NoPage
<1>2. Client!Execute
  BY <1>1
  DEF Client!Next, Client!Begin, Client!Connect, Client!Send, Client!SocketDies, Client!Ignore,
     Client!TimesOut, Client!Rejected, Client!Fails, Client!SetUp, Client!Poll, Client!Ends,
     Client!ReadCookies, Client!Collect, Client!Drop
<1> DEFINE c == Head(wire)
<1>3. c = wire[1] /\ 1 \in 1 .. Len(wire) /\ c \in CommandShape
  BY <1>2, TailIsPart, OnTheWire DEF Client!Execute, ClientInv, ClientShapes
<1>4. PICK reply :
        page' = IF reply = "error" THEN page
                ELSE CASE c.step = "create" -> Client!NoPage
                       [] c.step = "stealth" -> [page EXCEPT !.stealth = TRUE]
                       [] c.step = "hook" ->
                             [page EXCEPT !.captures = @ \cup {[id |-> c.id, by |-> c.by]}]
                       [] c.step = "unhook" ->
                             [page EXCEPT !.captures = {h \in @ : h.id # c.script}]
                       [] c.step = "navigate" -> [page EXCEPT !.of = c.by]
                       [] OTHER -> page
  BY <1>2, Zenon DEF Client!Execute
<1>5. c.step = "navigate" /\ page'.of = c.by
  <2> HIDE DEF c
  <2>1. /\ reply = "error" => page' = page
        /\ c.step = "create" => page' \in {page, Client!NoPage}
        /\ c.step \notin {"create", "navigate"} => page'.of = page.of
        /\ c.step = "navigate" /\ reply # "error" => page'.of = c.by
    BY <1>3, <1>4, BrowserExecutes, Zenon
  <2> QED BY <1>1, <2>1
<1>6. client.session
  <2>1. client.connection > 0
    BY <1>3 DEF ClientInv, OneConnection, ClientShapes, ClientShape, Client!NoClient
  <2> QED BY <1>3, <1>5, <2>1 DEF ClientInv, Attached
<1> QED BY <1>3, <1>5, <1>6 DEF ClientInv, Scripts, WireIsPrepared

LEMMA ClientHolds ==
    Client!Spec => /\ Client!PagesArePrepared /\ Client!ReadsItsOwnPage
                   /\ []Client!FailedClientIsGone
<1>1. ClientInv => Client!FailedClientIsGone
  BY DEF ClientInv, OneConnection, Client!FailedClientIsGone
<1> QED BY <1>1, InitClientInv, ClientInvStep, OwnPageIsRead, PreparedPageNavigates, PTL
        DEF Client!Spec, Client!PagesArePrepared, Client!ReadsItsOwnPage

-----------------------------------------------------------------------------
(* The shared connection to a remote browser (RemoteBrowser).              *)

UserShape == [pc : {"idle", "ensure", "launch", "insert", "open", "poll", "read", "invalidate",
                    "shutdown"},
              runtime : Nat, polls : Nat, challenge : BOOLEAN, stable : Nat]

RemoteShapes ==
    /\ launched \in Nat /\ slot \in 0 .. launched /\ broken \subseteq 1 .. launched
    /\ user \in [Users -> UserShape]

Uses(q) == q.pc \in {"insert", "open", "poll", "read", "invalidate"}

(* A runtime that is not yet in the slot has one user and no complaint.    *)
NotShared(u) ==
    user[u].pc = "insert" =>
        /\ user[u].runtime \notin broken /\ user[u].runtime # slot
        /\ \A v \in Users : v # u /\ Uses(user[v]) => user[v].runtime # user[u].runtime

RemoteInv ==
    /\ RemoteShapes /\ slot \notin broken
    /\ \A u \in Users : NotShared(u) /\ (Uses(user[u]) => user[u].runtime \in 1 .. launched)

LEMMA RestingIsShaped == Remote!Resting \in UserShape /\ Remote!Resting.pc = "idle"
BY DEF Remote!Resting, UserShape

LEMMA InitRemoteInv == Remote!Init => RemoteInv
BY RestingIsShaped DEF Remote!Init, RemoteInv, RemoteShapes, NotShared, Uses

(* One operation goes on with the runtime it has, or gives it up.          *)
LEMMA UserGoes ==
    ASSUME RemoteInv, NEW u \in Users, NEW to \in UserShape, user' = [user EXCEPT ![u] = to],
           UNCHANGED <<launched, slot, broken>>, to.pc # "insert",
           Uses(to) => \/ Uses(user[u]) /\ to.runtime = user[u].runtime
                       \/ slot # 0 /\ to.runtime = slot
    PROVE  RemoteInv'
<1> USE DEF RemoteInv
<1>1. RemoteShapes'
  BY DEF RemoteShapes
<1>2. \A v \in Users : user'[v] = IF v = u THEN to ELSE user[v]
  BY DEF RemoteShapes
<1>3. ASSUME NEW v \in Users
      PROVE  NotShared(v)' /\ (Uses(user'[v]) => user'[v].runtime \in 1 .. launched)
  <2>1. Uses(to) => to.runtime \in 1 .. launched
    BY DEF RemoteShapes
  <2>2. NotShared(v)'
    <3>1. CASE v = u
      BY <1>2, <3>1 DEF NotShared
    <3>2. CASE v # u /\ user[v].pc = "insert"
      BY <1>2, <3>2 DEF NotShared
    <3>3. CASE v # u /\ user[v].pc # "insert"
      BY <1>2, <3>3 DEF NotShared
    <3> QED BY <3>1, <3>2, <3>3
  <2> QED BY <1>2, <2>1, <2>2
<1> QED BY <1>1, <1>3 DEF Uses

LEMMA UserRests ==
    ASSUME RemoteInv, NEW u \in Users, Remote!Rest(u), UNCHANGED <<launched, slot, broken>>
    PROVE  RemoteInv'
BY RestingIsShaped, UserGoes DEF Remote!Rest, Uses

LEMMA UserGoesTo ==
    ASSUME RemoteInv, NEW u \in Users,
           NEW next \in {"ensure", "open", "poll", "read", "invalidate"}, Remote!Goto(u, next),
           Uses([pc |-> next]) => Uses(user[u]),
           UNCHANGED <<launched, slot, broken>>
    PROVE  RemoteInv'
<1> DEFINE to == [user[u] EXCEPT !.pc = next]
<1>1. user' = [user EXCEPT ![u] = to]
  BY DEF Remote!Goto
<1>2. to \in UserShape /\ to.pc = next /\ to.runtime = user[u].runtime
  BY DEF RemoteInv, RemoteShapes, UserShape
<1> HIDE DEF to
<1> QED BY <1>1, <1>2, UserGoes DEF Uses

LEMMA EnsureKeeps ==
    ASSUME RemoteInv, NEW u \in Users, Remote!Ensure(u)
    PROVE  RemoteInv'
<1> DEFINE next == IF slot # 0 THEN "open" ELSE "launch"
           to == [user[u] EXCEPT !.pc = next, !.runtime = slot]
<1>1. user[u] \in UserShape /\ user \in [Users -> UserShape] /\ slot \in Nat
      /\ UNCHANGED <<launched, slot, broken>>
  BY DEF RemoteInv, RemoteShapes, Remote!Ensure
<1>2. user' = [user EXCEPT ![u] = to]
  BY <1>1 DEF Remote!Ensure
<1>3. next \in {"open", "launch"} /\ (next = "open" => slot # 0)
  OBVIOUS
<1> HIDE DEF next
<1>4. to \in UserShape /\ to.pc = next /\ to.runtime = slot
  BY <1>1, <1>3 DEF UserShape
<1> HIDE DEF to
<1> QED BY <1>1, <1>2, <1>3, <1>4, UserGoes DEF Uses

LEMMA LaunchKeeps ==
    ASSUME RemoteInv, NEW u \in Users, Remote!Launch(u)
    PROVE  RemoteInv'
<1> USE DEF RemoteInv
<1>1. CASE user' = [user EXCEPT ![u] = Remote!Resting] /\ UNCHANGED <<launched, alive>>
  BY <1>1, UserRests DEF Remote!Launch, Remote!Rest
<1>2. CASE launched' = launched + 1
           /\ user' = [user EXCEPT ![u].pc = "insert", ![u].runtime = launched + 1]
  <2> DEFINE n == launched + 1
             to == [user[u] EXCEPT !.pc = "insert", !.runtime = n]
  <2>1. /\ n \in Nat /\ n > launched /\ launched \in Nat /\ n > 0
        /\ user[u] \in UserShape /\ user \in [Users -> UserShape]
        /\ n \notin broken /\ n # slot /\ UNCHANGED <<slot, broken>>
    BY DEF RemoteShapes, Remote!Launch
  <2>2. user' = [user EXCEPT ![u].pc = "insert", ![u].runtime = n] /\ launched' = n
    BY <1>2, Zenon
  <2> HIDE DEF n
  <2>3. user' = [user EXCEPT ![u] = to]
    BY <2>1, <2>2
  <2>4. to \in UserShape /\ to.pc = "insert" /\ to.runtime = n
    BY <2>1 DEF UserShape
  <2> HIDE DEF to
  <2>5. \A v \in Users : user'[v] = IF v = u THEN to ELSE user[v]
    BY <2>1, <2>3
  <2>6. RemoteShapes'
    <3>1. slot \in 0 .. n /\ \A b \in broken : b \in 1 .. n
      BY <2>1 DEF RemoteShapes
    <3>2. user' \in [Users -> UserShape]
      BY <2>1, <2>3, <2>4
    <3> QED BY <2>1, <2>2, <3>1, <3>2 DEF RemoteShapes
  <2>7. ASSUME NEW v \in Users
        PROVE  NotShared(v)' /\ (Uses(user'[v]) => user'[v].runtime \in 1 .. launched')
    <3>1. Uses(user[v]) => user[v].runtime # n /\ user[v].runtime \in 1 .. launched'
      BY <2>1, <2>2
    <3>2. CASE v = u
      BY <2>1, <2>2, <2>4, <2>5, <3>2 DEF NotShared, Uses
    <3>3. CASE v # u
      BY <2>1, <2>4, <2>5, <3>1, <3>3 DEF NotShared, Uses
    <3> QED BY <3>2, <3>3
  <2> QED BY <2>1, <2>6, <2>7 DEF Uses
<1> QED BY <1>1, <1>2 DEF Remote!Launch

LEMMA InsertKeeps ==
    ASSUME RemoteInv, NEW u \in Users, Remote!Insert(u)
    PROVE  RemoteInv'
<1> USE DEF RemoteInv
<1> DEFINE to == [user[u] EXCEPT !.pc = "open"]
<1>1. /\ user[u].pc = "insert" /\ slot' = user[u].runtime /\ UNCHANGED <<launched, broken>>
      /\ user[u] \in UserShape /\ user' = [user EXCEPT ![u] = to]
  BY DEF Remote!Insert, Remote!Goto, RemoteShapes
<1>2. to \in UserShape /\ to.pc = "open" /\ to.runtime = user[u].runtime
  BY <1>1 DEF UserShape
<1> HIDE DEF to
<1>3. \A v \in Users : user'[v] = IF v = u THEN to ELSE user[v]
  BY <1>1 DEF RemoteShapes
<1>4. slot' \in 1 .. launched /\ slot' \notin broken
  BY <1>1 DEF NotShared, Uses
<1>5. RemoteShapes'
  BY <1>1, <1>2, <1>4 DEF RemoteShapes
<1>6. ASSUME NEW v \in Users
      PROVE  NotShared(v)' /\ (Uses(user'[v]) => user'[v].runtime \in 1 .. launched)
  <2>1. CASE v = u
    BY <1>1, <1>2, <1>3, <1>4, <2>1 DEF NotShared
  <2>2. CASE v # u
    <3>1. user[v].pc = "insert" => user[v].runtime # user[u].runtime
      BY <1>1, <2>2 DEF NotShared, Uses
    <3> QED BY <1>1, <1>2, <1>3, <2>2, <3>1 DEF NotShared, Uses
  <2> QED BY <2>1, <2>2
<1> QED BY <1>1, <1>4, <1>5, <1>6 DEF Uses

LEMMA InvalidateKeeps ==
    ASSUME RemoteInv, NEW u \in Users, Remote!Invalidate(u)
    PROVE  RemoteInv'
<1> USE DEF RemoteInv
<1>1. /\ user[u].pc = "invalidate" /\ broken' = broken \cup {user[u].runtime}
      /\ UNCHANGED launched /\ user[u].runtime \in 1 .. launched
      /\ slot' = (IF slot = user[u].runtime THEN 0 ELSE slot)
  BY DEF Remote!Invalidate, Remote!IsCurrent, Remote!TakenOut, Uses
<1>2. PICK to \in UserShape : user' = [user EXCEPT ![u] = to] /\ ~Uses(to)
  <2>1. CASE Remote!IsCurrent(u)
    <3> DEFINE to == [Remote!Resting EXCEPT !.pc = "shutdown", !.runtime = slot]
    <3>1. to \in UserShape /\ ~Uses(to)
      <4>1. slot \in Nat
        BY DEF RemoteShapes
      <4> QED BY <4>1 DEF Remote!Resting, UserShape, Uses
    <3> QED BY <2>1, <3>1 DEF Remote!Invalidate
  <2>2. CASE ~Remote!IsCurrent(u)
    BY <2>2, RestingIsShaped DEF Remote!Invalidate, Remote!Rest, Uses
  <2> QED BY <2>1, <2>2
<1>3. \A v \in Users : user'[v] = IF v = u THEN to ELSE user[v]
  BY <1>2 DEF RemoteShapes
<1>4. RemoteShapes' /\ slot' \notin broken'
  <2>1. launched \in Nat /\ slot \in 0 .. launched
        /\ (\A b \in broken' : b \in 1 .. launched) /\ slot \notin broken
    BY <1>1 DEF RemoteShapes
  <2>2. 0 \notin broken' /\ (slot # user[u].runtime => slot \notin broken')
    BY <1>1, <2>1
  <2>3. user' \in [Users -> UserShape]
    BY <1>2 DEF RemoteShapes
  <2>4. slot' \notin broken' /\ slot' \in 0 .. launched
    BY <1>1, <2>1, <2>2
  <2>5. launched' = launched /\ broken' \subseteq 1 .. launched
    BY <1>1, <2>1
  <2> QED BY <2>1, <2>3, <2>4, <2>5 DEF RemoteShapes
<1>5. ASSUME NEW v \in Users
      PROVE  NotShared(v)' /\ (Uses(user'[v]) => user'[v].runtime \in 1 .. launched)
  <2>1. CASE v = u
    BY <1>2, <1>3, <2>1 DEF NotShared, Uses
  <2>2. CASE v # u
    <3>1. user[v].pc = "insert" => user[v].runtime # user[u].runtime /\ user[v].runtime # 0
      BY <1>1, <2>2 DEF NotShared, Uses
    <3> QED BY <1>1, <1>2, <1>3, <2>2, <3>1 DEF NotShared
  <2> QED BY <2>1, <2>2
<1> QED BY <1>1, <1>4, <1>5 DEF Uses

LEMMA PollKeeps ==
    ASSUME RemoteInv, NEW u \in Users, Remote!Poll(u)
    PROVE  RemoteInv'
<1>0. /\ user[u].pc = "poll" /\ user[u] \in UserShape /\ user \in [Users -> UserShape]
      /\ UNCHANGED <<launched, slot, broken>>
  BY DEF Remote!Poll, RemoteInv, RemoteShapes
<1>1. CASE Remote!Rest(u)
  BY <1>0, <1>1, UserRests
<1>2. CASE Remote!Goto(u, "read") \/ Remote!Goto(u, "invalidate")
  BY <1>0, <1>2, UserGoesTo DEF Uses
<1>3. ASSUME NEW sight, user' = [user EXCEPT
                ![u].polls = @ + 1, ![u].stable = Remote!StableAt(u, sight),
                ![u].challenge = @ \/ sight = "challenge"]
      PROVE  RemoteInv'
  <2> DEFINE n == user[u].polls + 1
             stable == Remote!StableAt(u, sight)
             challenge == user[u].challenge \/ sight = "challenge"
             to == [user[u] EXCEPT !.polls = n, !.stable = stable, !.challenge = challenge]
  <2>1. n \in Nat /\ stable \in Nat /\ challenge \in BOOLEAN
    BY <1>0 DEF UserShape, Remote!StableAt
  <2>2. user' = [user EXCEPT ![u].polls = n, ![u].stable = stable, ![u].challenge = challenge]
    BY <1>3, Zenon
  <2> HIDE DEF n, stable, challenge
  <2>3. user' = [user EXCEPT ![u] = to]
    BY <1>0, <2>2
  <2>4. to \in UserShape /\ to.pc = "poll" /\ to.runtime = user[u].runtime
    BY <1>0, <2>1 DEF UserShape
  <2> HIDE DEF to
  <2> QED BY <1>0, <2>3, <2>4, UserGoes DEF Uses
<1> QED BY <1>1, <1>2, <1>3 DEF Remote!Poll, Remote!Fails

LEMMA RemoteInvStep ==
    ASSUME RemoteInv, [Remote!Next]_(Remote!vars)
    PROVE  RemoteInv'
<1>1. CASE UNCHANGED <<slot, launched, user, broken>>
  BY <1>1 DEF RemoteInv, RemoteShapes, NotShared, Uses
<1>2. CASE UNCHANGED Remote!vars \/ Remote!BrowserDies
  BY <1>1, <1>2 DEF Remote!vars, Remote!BrowserDies
<1>3. ASSUME NEW u \in Users,
             Remote!Begin(u) \/ Remote!OpenPage(u) \/ Remote!Read(u) \/ Remote!Shutdown(u)
                   \/ Remote!Drop(u)
      PROVE  RemoteInv'
  BY <1>3, UserRests, UserGoesTo DEF Remote!Begin, Remote!OpenPage, Remote!Read, Remote!Shutdown,
     Remote!Drop, Remote!Fails, Uses
<1> QED BY <1>2, <1>3, EnsureKeeps, LaunchKeeps, InsertKeeps, PollKeeps, InvalidateKeeps
        DEF Remote!Next

LEMMA RemoteHolds == Remote!Spec => []Remote!ReportedIsGone
<1>1. RemoteInv => Remote!ReportedIsGone
  BY DEF RemoteInv, Remote!ReportedIsGone
<1> QED BY <1>1, InitRemoteInv, RemoteInvStep, PTL DEF Remote!Spec

-----------------------------------------------------------------------------
(* The inference worker and its cache of models (Upscaler).                *)

AnyManifest == [version : Nat, select : [Scales -> Models \cup {None}]]
AnyModelFile == [version : Nat, scale : Scales]
Directories == [manifest : AnyManifest \cup {None}, model : [Models -> AnyModelFile \cup {None}]]
KeptManifests == [stamp : Nat, is : AnyManifest]
LoadedModels == [path : Models, stamp : Nat, is : AnyModelFile]
UpscaleCall == [at : {"idle", "sending", "waiting"}, scale : Scales \cup {0}]
QueuedShape == [of : Callers \cup {None}, scale : Scales \cup {0}]
WorkerShape ==
    [at : {"idle", "manifest", "parse", "select", "open", "infer", "ended"},
     of : Callers \cup {None}, scale : Scales \cup {0}, model : Models \cup {None}, stamp : Nat]

(* What a file shows is what it showed, or was written later.              *)
Later(is, was) ==
    /\ is.manifest # None /\ was.manifest # None => is.manifest.version >= was.manifest.version
    /\ \A m \in Models : is.model[m] # None /\ was.model[m] # None =>
            is.model[m].version >= was.model[m].version

Written(files) ==
    /\ files.manifest # None => files.manifest.version <= edits
    /\ \A m \in Models : files.model[m] # None => files.model[m].version <= edits

FilesInv ==
    /\ edits \in Nat /\ disk \in Directories /\ shown \in Directories
    /\ Written(disk) /\ Written(shown) /\ Later(disk, shown)

QueueInv == queue \in Seq(QueuedShape) /\ caller \in [Callers -> UpscaleCall]

(* A model is in memory once, and is no older than its stamp.              *)
Tidy(loaded) ==
    /\ loaded \in Seq(LoadedModels)
    /\ \A i \in 1 .. Len(loaded) :
        /\ loaded[i].is.version >= loaded[i].stamp
        /\ \A j \in 1 .. Len(loaded) : loaded[i].path = loaded[j].path => i = j

CacheInv ==
    /\ cache \in [manifest : KeptManifests \cup {None}, loaded : Seq(LoadedModels)]
    /\ cache.manifest # None => cache.manifest.is.version >= cache.manifest.stamp
    /\ Len(cache.loaded) <= MaxLoaded /\ Tidy(cache.loaded)

(* What the worker knows of the files that it has stamped or chosen.       *)
WorkerInv ==
    /\ worker \in WorkerShape
    /\ worker.at \notin {"idle", "ended"} => worker.scale \in Scales
    /\ worker.at = "parse" =>
        worker.stamp <= edits /\ (disk.manifest # None => disk.manifest.version >= worker.stamp)
    /\ worker.at \in {"select", "open", "infer"} =>
        /\ cache.manifest \in KeptManifests
        /\ Inference!NotOlder(cache.manifest.is, shown.manifest)
    /\ worker.at \in {"open", "infer"} =>
        worker.model \in Models /\ cache.manifest.is.select[worker.scale] = worker.model
    /\ worker.at = "open" =>
        /\ ~Inference!Resident(worker.model, cache.loaded) /\ worker.stamp <= edits
        /\ disk.model[worker.model] # None => disk.model[worker.model].version >= worker.stamp
    /\ worker.at = "infer" =>
        /\ Inference!Resident(worker.model, cache.loaded)
        /\ Inference!NotOlder(Inference!Entry(worker.model).is, shown.model[worker.model])

UpscalerInv == FilesInv /\ QueueInv /\ CacheInv /\ WorkerInv

LEMMA NothingIsShaped ==
    /\ Inference!NoFiles \in Directories /\ Inference!NoFiles.manifest = None
    /\ \A m \in Models : Inference!NoFiles.model[m] = None
    /\ Inference!NoRequest \in WorkerShape /\ Inference!NoRequest.at = "idle"
    /\ Inference!NoCall \in UpscaleCall
    /\ Inference!Shutdown \in QueuedShape
BY
DEF Inference!NoFiles, Directories, Inference!NoRequest, WorkerShape, Inference!NoCall, UpscaleCall,
       Inference!Shutdown, QueuedShape

(* The sequence of the loaded models without one of them.                  *)
LEMMA RemovedOne ==
    ASSUME NEW S, NEW s \in Seq(S), NEW n \in 1 .. Len(s)
    PROVE  /\ Inference!RemoveAt(s, n) \in Seq(S) /\ Len(Inference!RemoveAt(s, n)) = Len(s) - 1
           /\ \A i \in 1 .. Len(s) - 1 :
                 Inference!RemoveAt(s, n)[i] = IF i < n THEN s[i] ELSE s[i + 1]
<1> DEFINE a == SubSeq(s, 1, n - 1)
           b == SubSeq(s, n + 1, Len(s))
<1>1. a \in Seq(S) /\ Len(a) = n - 1 /\ \A i \in 1 .. n - 1 : a[i] = s[i]
  OBVIOUS
<1>2. b \in Seq(S) /\ Len(b) = Len(s) - n /\ \A i \in 1 .. Len(s) - n : b[i] = s[n + i]
  OBVIOUS
<1> DEFINE len == Len(s)
<1>3. len \in Nat /\ n \in Nat /\ n >= 1 /\ n <= len
  OBVIOUS
<1> HIDE DEF a, b
<1>4. a \o b \in Seq(S)
  BY <1>1, <1>2
<1>5. Len(a \o b) = Len(a) + Len(b)
  <2>1. \A x, y \in Seq(S) : Len(x \o y) = Len(x) + Len(y)
    OBVIOUS
  <2> QED BY <1>1, <1>2, <2>1, Zenon
<1>6. Len(a \o b) = len - 1
  BY <1>1, <1>2, <1>3, <1>5
<1>7. ASSUME NEW i \in 1 .. len - 1
      PROVE  (a \o b)[i] = IF i < n THEN s[i] ELSE s[i + 1]
  <2>1. i \in Nat /\ i >= 1 /\ i <= len - 1 /\ i \in 1 .. Len(a) + Len(b)
    BY <1>1, <1>2, <1>3
  <2>2. (a \o b)[i] = IF i <= Len(a) THEN a[i] ELSE b[i - Len(a)]
    BY <1>1, <1>2, <2>1
  <2>3. CASE i < n
    BY <1>1, <1>3, <2>1, <2>2, <2>3
  <2>4. CASE i >= n
    <3>1. i - (n - 1) \in 1 .. len - n /\ ~(i <= n - 1) /\ n + (i - (n - 1)) = i + 1
      BY <1>3, <2>1, <2>4
    <3>2. (a \o b)[i] = b[i - (n - 1)]
      BY <1>1, <2>2, <3>1
    <3>3. b[i - (n - 1)] = s[n + (i - (n - 1))]
      BY <1>2, <3>1
    <3> QED BY <1>3, <2>1, <2>4, <3>1, <3>2, <3>3
  <2> QED BY <1>3, <2>1, <2>3, <2>4
<1>8. Inference!RemoveAt(s, n) = a \o b
  BY DEF Inference!RemoveAt, a, b
<1> QED BY <1>4, <1>6, <1>7, <1>8

LEMMA InitUpscalerInv == ASSUME MaxLoaded \in Nat \ {0} PROVE Inference!Init => UpscalerInv
<1> SUFFICES ASSUME Inference!Init PROVE UpscalerInv
  OBVIOUS
<1> USE NothingIsShaped DEF Inference!Init
<1>1. FilesInv
  BY DEF FilesInv, Written, Later
<1>2. QueueInv
  BY DEF QueueInv
<1>3. CacheInv
  <2>1. cache.manifest = None /\ cache.loaded = <<>>
    BY DEF Inference!NoCache
  <2>2. cache \in [manifest : KeptManifests \cup {None}, loaded : Seq(LoadedModels)]
    BY DEF Inference!NoCache
  <2> QED BY <2>1, <2>2 DEF CacheInv, Tidy
<1>4. WorkerInv
  BY DEF WorkerInv
<1> QED BY <1>1, <1>2, <1>3, <1>4 DEF UpscalerInv

-----------------------------------------------------------------------------
(* Somebody replaces a file.                                               *)
LEMMA FilesChange ==
    ASSUME UpscalerInv, UNCHANGED <<caller, queue, worker, cache, shown>>,
           edits' \in Nat, edits' >= edits, disk' \in Directories,
           disk'.manifest \in {disk.manifest, None} \/
               (disk'.manifest # None /\ disk'.manifest.version = edits' /\ edits' = edits + 1),
           \A m \in Models : disk'.model[m] \in {disk.model[m], None} \/
               (disk'.model[m] # None /\ disk'.model[m].version = edits' /\ edits' = edits + 1)
    PROVE  UpscalerInv'
<1> USE DEF UpscalerInv
<1>1. FilesInv'
  <2>1. Written(disk)'
    BY DEF Written, FilesInv, Directories, AnyManifest, AnyModelFile
  <2>2. Written(shown)'
    BY DEF Written, FilesInv, Directories, AnyManifest, AnyModelFile
  <2>3. Later(disk, shown)'
    <3>1. disk'.manifest # None /\ shown.manifest # None =>
             disk'.manifest.version >= shown.manifest.version
      BY DEF Written, Later, FilesInv, Directories, AnyManifest
    <3>2. \A m \in Models : disk'.model[m] # None /\ shown.model[m] # None =>
             disk'.model[m].version >= shown.model[m].version
      BY DEF Written, Later, FilesInv, Directories, AnyModelFile
    <3> QED BY <3>1, <3>2 DEF Later
  <2> QED BY <2>1, <2>2, <2>3 DEF FilesInv
<1>2. QueueInv' /\ CacheInv'
  BY DEF QueueInv, CacheInv
<1>3. Inference!Entry(worker.model)' = Inference!Entry(worker.model)
  BY DEF Inference!Entry, Inference!Position
<1>4. WorkerInv'
  <2>1. worker.stamp \in Nat /\ edits \in Nat
    BY DEF WorkerInv, WorkerShape, FilesInv
  <2>2. worker.at = "parse" =>
        worker.stamp <= edits' /\ (disk'.manifest # None => disk'.manifest.version >= worker.stamp)
    BY <2>1 DEF WorkerInv
  <2>3. worker.at = "open" => worker.stamp <= edits' /\
        (disk'.model[worker.model] # None => disk'.model[worker.model].version >= worker.stamp)
    BY <2>1 DEF WorkerInv
  <2> QED BY <1>3, <2>2, <2>3 DEF WorkerInv, Inference!NotOlder, Inference!Resident
<1> QED BY <1>1, <1>2, <1>4

LEMMA EditKeeps ==
    ASSUME UpscalerInv, Inference!Edit
    PROVE  UpscalerInv'
<1> DEFINE n == edits + 1
<1>1. n \in Nat /\ n >= edits /\ edits' = n /\ disk \in Directories
      /\ UNCHANGED <<caller, queue, worker, cache, shown>>
  BY DEF Inference!Edit, UpscalerInv, FilesInv
<1>2. \/ \E s \in [Scales -> Models \cup {None}] :
            disk' = [disk EXCEPT !.manifest = [version |-> n, select |-> s]]
      \/ \E m \in Models, s \in Scales :
            disk' = [disk EXCEPT !.model[m] = [version |-> n, scale |-> s]]
      \/ \E m \in Models : disk' = [disk EXCEPT !.model[m] = None]
      \/ disk' = [disk EXCEPT !.manifest = None]
  BY Zenon DEF Inference!Edit
<1>3. n = edits + 1
  OBVIOUS
<1> HIDE DEF n
<1>4. ASSUME NEW s \in [Scales -> Models \cup {None}],
             disk' = [disk EXCEPT !.manifest = [version |-> n, select |-> s]]
      PROVE  UpscalerInv'
  <2> DEFINE file == [version |-> n, select |-> s]
  <2>1. file \in AnyManifest /\ file.version = n
    BY <1>1 DEF AnyManifest
  <2> HIDE DEF file
  <2>2. disk' \in Directories /\ disk'.manifest = file /\ disk'.model = disk.model
    BY <1>1, <1>4, <2>1 DEF Directories, file
  <2> QED BY <1>1, <1>3, <2>1, <2>2, FilesChange
<1>5. ASSUME NEW m \in Models, NEW file \in AnyModelFile \cup {None}, file # None =>
             file.version = n,
             disk' = [disk EXCEPT !.model[m] = file]
      PROVE  UpscalerInv'
  <2>1. disk' = [disk EXCEPT !.model = [disk.model EXCEPT ![m] = file]]
    BY <1>5
  <2>2. [disk.model EXCEPT ![m] = file] \in [Models -> AnyModelFile \cup {None}]
    BY <1>1 DEF Directories
  <2>3. /\ disk' \in Directories /\ disk'.manifest = disk.manifest
        /\ disk'.model = [disk.model EXCEPT ![m] = file]
    BY <1>1, <2>1, <2>2 DEF Directories
  <2>4. \A o \in Models : disk'.model[o] = IF o = m THEN file ELSE disk.model[o]
    BY <1>1, <2>3 DEF Directories
  <2> QED BY <1>1, <1>3, <1>5, <2>3, <2>4, FilesChange
<1>6. ASSUME NEW m \in Models, NEW s \in Scales,
             disk' = [disk EXCEPT !.model[m] = [version |-> n, scale |-> s]]
      PROVE  UpscalerInv'
  <2>1. [version |-> n, scale |-> s] \in AnyModelFile
    BY <1>1 DEF AnyModelFile
  <2> QED BY <1>5, <1>6, <2>1
<1>7. CASE disk' = [disk EXCEPT !.manifest = None]
  <2>1. disk' \in Directories /\ disk'.manifest = None /\ disk'.model = disk.model
    BY <1>1, <1>7 DEF Directories
  <2> QED BY <1>1, <2>1, FilesChange
<1> QED BY <1>2, <1>4, <1>5, <1>6, <1>7

(* Calls come and go, and the worker keeps what it is at.                  *)
LEMMA CallsChange ==
    ASSUME UpscalerInv, UNCHANGED <<disk, edits, cache, shown>>,
           queue' \in Seq(QueuedShape), caller' \in [Callers -> UpscaleCall],
           worker' \in WorkerShape, worker'.at = worker.at, worker'.scale = worker.scale,
           worker'.model = worker.model, worker'.stamp = worker.stamp
    PROVE  UpscalerInv'
<1> USE DEF UpscalerInv
<1>1. FilesInv' /\ QueueInv' /\ CacheInv'
  BY DEF FilesInv, Written, Later, QueueInv, CacheInv
<1>2. Inference!Entry(worker.model)' = Inference!Entry(worker.model)
  BY DEF Inference!Entry, Inference!Position
<1>3. WorkerInv'
  BY <1>2 DEF WorkerInv, Inference!NotOlder, Inference!Resident
<1> QED BY <1>1, <1>3

LEMMA CallKeeps ==
    ASSUME UpscalerInv, NEW c \in Callers, Inference!Call(c)
    PROVE  UpscalerInv'
<1>1. PICK s \in Scales : caller' = [caller EXCEPT ![c] = [at |-> "sending", scale |-> s]]
  BY DEF Inference!Call
<1>2. caller' \in [Callers -> UpscaleCall]
  BY <1>1 DEF UpscalerInv, QueueInv, UpscaleCall
<1> QED BY <1>2, CallsChange DEF Inference!Call, UpscalerInv, QueueInv, WorkerInv

LEMMA SendKeeps ==
    ASSUME UpscalerInv, NEW c \in Callers, Inference!Send(c)
    PROVE  UpscalerInv'
<1>1. /\ queue \in Seq(QueuedShape) /\ caller \in [Callers -> UpscaleCall] /\ worker \in WorkerShape
      /\ UNCHANGED <<disk, edits, worker, cache, shown>>
  BY DEF UpscalerInv, QueueInv, WorkerInv, Inference!Send
<1>2. CASE /\ queue' = Append(queue, [of |-> c, scale |-> caller[c].scale])
           /\ caller' = [caller EXCEPT ![c].at = "waiting"]
  <2>1. [of |-> c, scale |-> caller[c].scale] \in QueuedShape
    BY <1>1 DEF UpscaleCall, QueuedShape
  <2>2. queue' \in Seq(QueuedShape)
    BY <1>1, <1>2, <2>1
  <2>3. caller' \in [Callers -> UpscaleCall]
    BY <1>1, <1>2 DEF UpscaleCall
  <2> QED BY <1>1, <2>2, <2>3, CallsChange
<1>3. CASE caller' = [caller EXCEPT ![c] = Inference!NoCall] /\ UNCHANGED queue
  BY <1>1, <1>3, NothingIsShaped, CallsChange
<1> QED BY <1>2, <1>3 DEF Inference!Send

LEMMA DropKeeps ==
    ASSUME UpscalerInv, NEW c \in Callers, Inference!Drop(c)
    PROVE  UpscalerInv'
<1>1. /\ queue \in Seq(QueuedShape) /\ caller \in [Callers -> UpscaleCall] /\ worker \in WorkerShape
      /\ UNCHANGED <<disk, edits, cache, shown>>
      /\ caller' = [caller EXCEPT ![c] = Inference!NoCall]
      /\ queue' = [i \in DOMAIN queue |->
                     IF queue[i].of = c THEN [queue[i] EXCEPT !.scale = 0] ELSE queue[i]]
      /\ worker' = IF worker.of = c THEN [worker EXCEPT !.of = None] ELSE worker
  BY DEF UpscalerInv, QueueInv, WorkerInv, Inference!Drop
<1>2. caller' \in [Callers -> UpscaleCall]
  BY <1>1, NothingIsShaped
<1>3. queue' \in Seq(QueuedShape)
  <2>1. \A i \in 1 .. Len(queue) : queue[i] \in QueuedShape
    BY <1>1
  <2>2. \A i \in 1 .. Len(queue) :
          (IF queue[i].of = c THEN [queue[i] EXCEPT !.scale = 0] ELSE queue[i]) \in QueuedShape
    BY <2>1 DEF QueuedShape
  <2>3. DOMAIN queue = 1 .. Len(queue) /\ Len(queue) \in Nat
    BY <1>1
  <2> QED BY <1>1, <2>2, <2>3
<1>4. /\ worker' \in WorkerShape /\ worker'.at = worker.at /\ worker'.scale = worker.scale
      /\ worker'.model = worker.model /\ worker'.stamp = worker.stamp
  BY <1>1 DEF WorkerShape
<1> QED BY <1>1, <1>2, <1>3, <1>4, CallsChange

LEMMA AskToEndKeeps ==
    ASSUME UpscalerInv, Inference!AskToEnd
    PROVE  UpscalerInv'
<1>1. queue' \in Seq(QueuedShape)
  BY NothingIsShaped DEF Inference!AskToEnd, UpscalerInv, QueueInv
<1> QED BY <1>1, CallsChange DEF Inference!AskToEnd, UpscalerInv, QueueInv, WorkerInv

(* The worker answers, with a cache that is in order.                      *)
LEMMA AnswerKeeps ==
    ASSUME UpscalerInv, Inference!Answer, UNCHANGED <<disk, edits, queue>>, CacheInv'
    PROVE  UpscalerInv'
<1> USE NothingIsShaped DEF UpscalerInv, Inference!Answer
<1>1. caller' \in [Callers -> UpscaleCall]
  BY DEF QueueInv
<1>2. FilesInv'
  BY DEF FilesInv, Written, Later
<1>3. QueueInv'
  BY <1>1 DEF QueueInv
<1>4. WorkerInv'
  BY DEF WorkerInv
<1> QED BY <1>2, <1>3, <1>4

LEMMA TakeKeeps ==
    ASSUME UpscalerInv, Inference!Take
    PROVE  UpscalerInv'
<1>1. /\ queue \in Seq(QueuedShape) /\ caller \in [Callers -> UpscaleCall]
      /\ queue # <<>> /\ queue' = Tail(queue) /\ worker.at = "idle"
      /\ UNCHANGED <<disk, edits, cache>>
  BY DEF UpscalerInv, QueueInv, Inference!Take
<1>2. queue' \in Seq(QueuedShape) /\ Head(queue) \in QueuedShape
  BY <1>1
<1>3. CASE /\ worker' = [Inference!NoRequest EXCEPT !.at = "ended"]
           /\ caller' = [d \in Callers |-> IF caller[d].at = "waiting" THEN Inference!NoCall
                 ELSE caller[d]]
           /\ UNCHANGED shown
  <2>1. caller' \in [Callers -> UpscaleCall]
    BY <1>1, <1>3, NothingIsShaped
  <2>2. worker' \in WorkerShape /\ worker'.at = "ended"
    BY <1>3, NothingIsShaped DEF WorkerShape
  <2>3. FilesInv' /\ QueueInv' /\ CacheInv'
    BY <1>1, <1>2, <1>3, <2>1 DEF UpscalerInv, FilesInv, Written, Later, QueueInv, CacheInv
  <2>4. WorkerInv'
    BY <2>2 DEF WorkerInv
  <2> QED BY <2>3, <2>4 DEF UpscalerInv
<1>4. CASE UNCHANGED <<worker, caller, shown>>
  BY <1>1, <1>2, <1>4, CallsChange DEF UpscalerInv, WorkerInv
<1>5. CASE /\ worker' = [Inference!NoRequest EXCEPT !.at = "manifest", !.of = Head(queue).of,
                                                    !.scale = Head(queue).scale]
           /\ shown' = disk /\ UNCHANGED caller
           /\ Head(queue).scale # 0
  <2>1. worker' \in WorkerShape /\ worker'.at = "manifest" /\ worker'.scale \in Scales
    BY <1>2, <1>5, NothingIsShaped DEF WorkerShape, QueuedShape
  <2>2. FilesInv'
    BY <1>1, <1>5 DEF UpscalerInv, FilesInv, Written, Later, Directories, AnyManifest, AnyModelFile
  <2>3. QueueInv' /\ CacheInv'
    BY <1>1, <1>2, <1>5 DEF UpscalerInv, QueueInv, CacheInv
  <2>4. WorkerInv'
    BY <2>1 DEF WorkerInv
  <2> QED BY <2>2, <2>3, <2>4 DEF UpscalerInv
<1> QED BY <1>3, <1>4, <1>5 DEF Inference!Take

LEMMA WithoutOne ==
    ASSUME CacheInv, NEW m, Inference!Resident(m, cache.loaded)
    PROVE  /\ Inference!Entry(m) \in LoadedModels /\ Inference!Entry(m).path = m
           /\ Inference!Entry(m).is.version >= Inference!Entry(m).stamp
           /\ Tidy(Inference!Without(m)) /\ ~Inference!Resident(m, Inference!Without(m))
           /\ Len(Inference!Without(m)) = Len(cache.loaded) - 1
<1> DEFINE s == cache.loaded
           n == Inference!Position(m)
           w == Inference!Without(m)
<1>1. s \in Seq(LoadedModels) /\ Tidy(s)
  BY DEF CacheInv
<1>2. n \in 1 .. Len(s) /\ s[n].path = m
  BY <1>1 DEF Inference!Resident, Inference!Position
<1>3. Inference!Entry(m) = s[n] /\ w = Inference!RemoveAt(s, n)
  BY DEF Inference!Entry, Inference!Without
<1> DEFINE len == Len(s)
           at(i) == IF i < n THEN i ELSE i + 1
<1>4. len \in Nat /\ n \in Nat /\ n >= 1 /\ n <= len
  BY <1>1, <1>2
<1> HIDE DEF s, n, w
<1>5. s[n] \in LoadedModels /\ s[n].is.version >= s[n].stamp
  BY <1>1, <1>2 DEF Tidy
<1>6. w \in Seq(LoadedModels) /\ Len(w) = len - 1
      /\ \A i \in 1 .. len - 1 : w[i] = IF i < n THEN s[i] ELSE s[i + 1]
  BY <1>1, <1>2, <1>3, RemovedOne
<1>7. ASSUME NEW i \in 1 .. len - 1
      PROVE  at(i) \in 1 .. len /\ at(i) # n /\ w[i] = s[at(i)]
  BY <1>4, <1>6
<1>8. ASSUME NEW i \in 1 .. len - 1, NEW j \in 1 .. len - 1, at(i) = at(j)
      PROVE  i = j
  BY <1>4, <1>8
<1> HIDE DEF at
<1>9. \A i, j \in 1 .. len : s[i].path = s[j].path => i = j
  BY <1>1 DEF Tidy
<1>10. \A i \in 1 .. len : s[i].is.version >= s[i].stamp
  BY <1>1 DEF Tidy
<1> HIDE DEF len
<1>11. ASSUME NEW i \in 1 .. Len(w)
       PROVE  /\ w[i].is.version >= w[i].stamp /\ w[i].path # m
              /\ \A j \in 1 .. Len(w) : w[i].path = w[j].path => i = j
  <2>1. i \in 1 .. len - 1 /\ n \in 1 .. len
    BY <1>4, <1>6
  <2>2. w[i].is.version >= w[i].stamp
    BY <1>7, <1>10, <2>1
  <2>3. w[i].path # m
    BY <1>2, <1>7, <1>9, <2>1
  <2>4. ASSUME NEW j \in 1 .. Len(w), w[i].path = w[j].path PROVE i = j
    <3>1. j \in 1 .. len - 1
      BY <1>6
    <3>2. at(i) = at(j)
      BY <1>7, <1>9, <2>1, <2>4, <3>1
    <3> QED BY <1>8, <2>1, <3>1, <3>2
  <2> QED BY <2>2, <2>3, <2>4
<1>12. Tidy(w)
  BY <1>6, <1>11 DEF Tidy
<1>13. ~Inference!Resident(m, w)
  BY <1>6, <1>11 DEF Inference!Resident
<1> QED BY <1>2, <1>3, <1>5, <1>6, <1>12, <1>13 DEF len, s, n, w

LEMMA AddedOne ==
    ASSUME NEW s, Tidy(s), NEW e \in LoadedModels, e.is.version >= e.stamp,
           ~Inference!Resident(e.path, s)
    PROVE  /\ Tidy(Append(s, e)) /\ Len(Append(s, e)) = Len(s) + 1
           /\ Append(s, e)[Len(s) + 1] = e
<1> DEFINE t == Append(s, e)
           len == Len(s)
<1>1. s \in Seq(LoadedModels) /\ len \in Nat
  BY DEF Tidy
<1>2. t \in Seq(LoadedModels) /\ Len(t) = len + 1 /\ t[len + 1] = e
          /\ \A i \in 1 .. len : t[i] = s[i]
  BY <1>1
<1>3. \A i \in 1 .. len : s[i].path # e.path
  BY <1>1 DEF Inference!Resident
<1>4. \A i \in 1 .. len :
        s[i].is.version >= s[i].stamp /\ \A j \in 1 .. len : s[i].path = s[j].path => i = j
  BY DEF Tidy
<1> HIDE DEF t, len
<1>5. \A i \in 1 .. len + 1 : i \in 1 .. len \/ i = len + 1
  BY <1>1
<1>6. ASSUME NEW i \in 1 .. len + 1
      PROVE  t[i].is.version >= t[i].stamp
  BY <1>2, <1>4, <1>5, <1>6
<1>7. ASSUME NEW i \in 1 .. len + 1, NEW j \in 1 .. len + 1, t[i].path = t[j].path
      PROVE  i = j
  <2>1. CASE i \in 1 .. len /\ j \in 1 .. len
    BY <1>2, <1>4, <1>7, <2>1
  <2>2. CASE i = len + 1 \/ j = len + 1
    BY <1>2, <1>3, <1>5, <1>7, <2>2
  <2> QED BY <1>5, <2>1, <2>2
<1>8. Tidy(t)
  BY <1>2, <1>6, <1>7 DEF Tidy
<1> QED BY <1>2, <1>8 DEF t, len

LEMMA OldestGone ==
    ASSUME MaxLoaded \in Nat \ {0}, CacheInv
    PROVE  /\ Tidy(Inference!Kept) /\ Len(Inference!Kept) + 1 <= MaxLoaded
           /\ \A m : ~Inference!Resident(m, cache.loaded) => ~Inference!Resident(m, Inference!Kept)
<1> DEFINE s == cache.loaded
           len == Len(s)
<1>1. s \in Seq(LoadedModels) /\ Tidy(s) /\ len \in Nat /\ len <= MaxLoaded
  BY DEF CacheInv
<1>2. CASE len >= MaxLoaded
  <2>1. s # <<>> /\ Inference!Kept = Tail(s)
    BY <1>1, <1>2 DEF Inference!Kept
  <2>2. Tail(s) \in Seq(LoadedModels) /\ Len(Tail(s)) = len - 1
            /\ \A i \in 1 .. len - 1 : Tail(s)[i] = s[i + 1]
    BY <1>1, <2>1
  <2>3. \A i \in 1 .. len :
        s[i].is.version >= s[i].stamp /\ \A j \in 1 .. len : s[i].path = s[j].path => i = j
    BY <1>1 DEF Tidy
  <2>4. \A i \in 1 .. len - 1 : i + 1 \in 1 .. len /\ i \in Nat
    BY <1>1
  <2> DEFINE t == Tail(s)
  <2> HIDE DEF s, len, t
  <2>5. Tidy(t)
    <3>1. t \in Seq(LoadedModels) /\ Len(t) = len - 1 /\ \A i \in 1 .. len - 1 : t[i] = s[i + 1]
      BY <2>2 DEF t
    <3>2. ASSUME NEW i \in 1 .. len - 1, NEW j \in 1 .. len - 1, t[i].path = t[j].path
          PROVE  i = j
      <4>1. i + 1 = j + 1
        BY <2>3, <2>4, <3>1, <3>2
      <4> QED BY <1>1, <4>1
    <3> QED BY <2>3, <2>4, <3>1, <3>2 DEF Tidy
  <2>6. \A m : Inference!Resident(m, t) => Inference!Resident(m, s)
    <3>1. DOMAIN t = 1 .. len - 1 /\ DOMAIN s = 1 .. len
      BY <1>1, <2>2 DEF t, len
    <3>2. \A i \in 1 .. len - 1 : t[i] = s[i + 1]
      BY <2>2 DEF t
    <3> QED BY <2>4, <3>1, <3>2 DEF Inference!Resident
  <2>7. Len(t) + 1 = len
    BY <1>1, <2>2 DEF t
  <2> QED BY <1>1, <2>1, <2>5, <2>6, <2>7 DEF t, s
<1>3. CASE ~(len >= MaxLoaded)
  BY <1>1, <1>3 DEF Inference!Kept
<1> QED BY <1>2, <1>3

LEMMA StampManifestKeeps ==
    ASSUME UpscalerInv, Inference!StampManifest
    PROVE  UpscalerInv'
<1>1. /\ CacheInv /\ FilesInv /\ QueueInv /\ WorkerInv /\ UNCHANGED <<disk, edits, queue>>
      /\ worker \in WorkerShape
  BY DEF UpscalerInv, WorkerInv, Inference!StampManifest
<1>2. CASE cache' = [cache EXCEPT !.manifest = None] /\ Inference!Answer
  <2>1. CacheInv'
    BY <1>1, <1>2 DEF CacheInv
  <2> QED BY <1>1, <1>2, <2>1, AnswerKeeps
<1>3. CASE UNCHANGED <<cache, caller, shown>>
  <2>1. FilesInv' /\ QueueInv' /\ CacheInv'
    BY <1>1, <1>3 DEF FilesInv, Written, Later, QueueInv, CacheInv
  <2>2. CASE /\ disk.manifest # None /\ cache.manifest # None
             /\ cache.manifest.stamp = disk.manifest.version
             /\ worker' = [worker EXCEPT !.at = "select"]
    <3>1. worker' \in WorkerShape /\ worker'.at = "select" /\ worker'.scale \in Scales
      BY <1>1, <2>2 DEF WorkerShape, WorkerInv, Inference!StampManifest
    <3>2. cache.manifest \in KeptManifests /\ cache.manifest.is.version >= cache.manifest.stamp
      BY <1>1, <2>2 DEF CacheInv
    <3>3. Inference!NotOlder(cache.manifest.is, shown.manifest)
      BY <1>1, <2>2, <3>2
      DEF FilesInv, Later, Directories, AnyManifest, KeptManifests, Inference!NotOlder
    <3>4. WorkerInv'
      BY <1>3, <3>1, <3>2, <3>3 DEF WorkerInv, Inference!NotOlder
    <3> QED BY <2>1, <3>4 DEF UpscalerInv
  <2>3. CASE /\ disk.manifest # None
             /\ worker' = [worker EXCEPT !.at = "parse", !.stamp = disk.manifest.version]
    <3>1. disk.manifest.version \in Nat /\ disk.manifest.version <= edits
      BY <1>1, <2>3 DEF FilesInv, Written, Directories, AnyManifest
    <3>2. /\ worker' \in WorkerShape /\ worker'.at = "parse" /\ worker'.scale \in Scales
          /\ worker'.stamp = disk.manifest.version
      BY <1>1, <2>3, <3>1 DEF WorkerShape, WorkerInv, Inference!StampManifest
    <3>3. WorkerInv'
      BY <1>1, <3>1, <3>2 DEF WorkerInv
    <3> QED BY <2>1, <3>3 DEF UpscalerInv
  <2> QED BY <1>1, <1>3, <2>2, <2>3, <1>2 DEF Inference!StampManifest
<1> QED BY <1>2, <1>3 DEF Inference!StampManifest

LEMMA ParseManifestKeeps ==
    ASSUME UpscalerInv, Inference!ParseManifest
    PROVE  UpscalerInv'
<1>1. /\ CacheInv /\ FilesInv /\ QueueInv /\ WorkerInv /\ UNCHANGED <<disk, edits, queue>>
      /\ worker \in WorkerShape /\ worker.at = "parse"
  BY DEF UpscalerInv, WorkerInv, Inference!ParseManifest
<1>2. CASE Inference!Answer /\ UNCHANGED cache
  BY <1>1, <1>2, AnswerKeeps DEF CacheInv
<1>3. CASE /\ disk.manifest # None
           /\ cache' = [cache EXCEPT !.manifest = [stamp |-> worker.stamp, is |-> disk.manifest]]
           /\ worker' = [worker EXCEPT !.at = "select"]
           /\ UNCHANGED <<caller, shown>>
  <2> DEFINE kept == [stamp |-> worker.stamp, is |-> disk.manifest]
  <2>1. /\ kept \in KeptManifests /\ kept.is = disk.manifest
        /\ kept.is.version >= kept.stamp
    BY <1>1, <1>3 DEF FilesInv, Directories, WorkerShape, WorkerInv, KeptManifests
  <2>2. Inference!NotOlder(kept.is, shown.manifest)
    BY <1>1, <1>3, <2>1 DEF FilesInv, Later, Inference!NotOlder
  <2> HIDE DEF kept
  <2>3. cache' = [cache EXCEPT !.manifest = kept]
    BY <1>3 DEF kept
  <2>4. cache'.manifest = kept /\ CacheInv'
    BY <1>1, <2>1, <2>3 DEF CacheInv
  <2>5. worker' \in WorkerShape /\ worker'.at = "select" /\ worker'.scale \in Scales
    BY <1>1, <1>3 DEF WorkerShape, WorkerInv
  <2>6. FilesInv' /\ QueueInv'
    BY <1>1, <1>3 DEF FilesInv, Written, Later, QueueInv
  <2>7. WorkerInv'
    BY <1>3, <2>1, <2>2, <2>4, <2>5 DEF WorkerInv, Inference!NotOlder
  <2> QED BY <2>4, <2>6, <2>7 DEF UpscalerInv
<1> QED BY <1>2, <1>3 DEF Inference!ParseManifest

LEMMA StampModelKeeps ==
    ASSUME MaxLoaded \in Nat \ {0}, UpscalerInv, Inference!StampModel
    PROVE  UpscalerInv'
<1> DEFINE m == Inference!Selected
           now == Inference!Current(m)
<1>1. /\ CacheInv /\ FilesInv /\ QueueInv /\ WorkerInv /\ UNCHANGED <<disk, edits, queue>>
      /\ worker \in WorkerShape /\ worker.at = "select"
  BY DEF UpscalerInv, WorkerInv, Inference!StampModel
<1>2. cache.manifest \in KeptManifests /\ Inference!NotOlder(cache.manifest.is, shown.manifest)
  BY <1>1 DEF WorkerInv
<1>3. CASE Inference!Answer /\ UNCHANGED cache
  BY <1>1, <1>3, AnswerKeeps DEF CacheInv
<1>4. CASE /\ m # None /\ disk.model[m] # None
           /\ cache' = [cache EXCEPT !.loaded = now]
           /\ worker' = [worker EXCEPT !.model = m, !.stamp = disk.model[m].version,
                            !.at = IF Inference!Resident(m, now) THEN "infer" ELSE "open"]
           /\ UNCHANGED <<caller, shown>>
  <2>1. m \in Models /\ cache.manifest.is.select[worker.scale] = m
    BY <1>1, <1>2, <1>4 DEF Inference!Selected, WorkerInv, KeptManifests, AnyManifest
  <2>2. disk.model[m] \in AnyModelFile /\ disk.model[m].version \in Nat
            /\ disk.model[m].version <= edits
    BY <1>1, <1>4, <2>1 DEF FilesInv, Written, Directories, AnyModelFile
  <2>3. Tidy(now) /\ Len(now) <= MaxLoaded
    <3>1. Tidy(cache.loaded) /\ Len(cache.loaded) <= MaxLoaded /\ Len(cache.loaded) \in Nat
      BY <1>1 DEF CacheInv, Tidy
    <3>2. CASE now = cache.loaded
      BY <3>1, <3>2
    <3>3. CASE Inference!Resident(m, cache.loaded) /\ now = Inference!Without(m)
      <4>1. Tidy(now) /\ Len(now) = Len(cache.loaded) - 1
        BY <1>1, <3>3, WithoutOne
      <4> QED BY <3>1, <4>1, MaxLoaded \in Nat \ {0}
    <3> QED BY <3>2, <3>3 DEF Inference!Current
  <2>4. Inference!Resident(m, now) => now = cache.loaded
            /\ Inference!Entry(m).stamp = disk.model[m].version
    BY <1>1, WithoutOne DEF Inference!Current
  <2> HIDE DEF m, now
  <2>5. /\ cache'.loaded = now /\ cache'.manifest = cache.manifest /\ CacheInv'
    BY <1>1, <1>4, <2>3 DEF CacheInv, Tidy
  <2>6. FilesInv' /\ QueueInv'
    BY <1>1, <1>4 DEF FilesInv, Written, Later, QueueInv
  <2> DEFINE to == IF Inference!Resident(m, now) THEN "infer" ELSE "open"
  <2>7. worker' = [worker EXCEPT !.model = m, !.stamp = disk.model[m].version, !.at = to]
    BY <1>4
  <2>8. to \in {"infer", "open"} /\ (to = "infer" <=> Inference!Resident(m, now))
    OBVIOUS
  <2> HIDE DEF to
  <2>9. /\ worker' \in WorkerShape /\ worker'.at = to /\ worker'.model = m
        /\ worker'.stamp = disk.model[m].version
        /\ worker'.scale = worker.scale /\ worker.scale \in Scales
    <3>1. worker.scale \in Scales
      BY <1>1 DEF WorkerInv
    <3> QED BY <1>1, <2>1, <2>2, <2>7, <2>8, <3>1 DEF WorkerShape
  <2>10. CASE to = "open"
    BY <1>2, <1>4, <2>1, <2>2, <2>5, <2>6, <2>8, <2>9, <2>10, <1>1
    DEF UpscalerInv, WorkerInv, Inference!NotOlder, Inference!Resident
  <2>11. CASE to = "infer"
    <3>1. /\ now = cache.loaded /\ Inference!Resident(m, cache.loaded)
          /\ Inference!Entry(m).stamp = disk.model[m].version
      BY <2>4, <2>8, <2>11
    <3>2. Inference!Entry(m) \in LoadedModels
              /\ Inference!Entry(m).is.version >= Inference!Entry(m).stamp
      BY <1>1, <3>1, WithoutOne
    <3>3. Inference!NotOlder(Inference!Entry(m).is, shown.model[m])
      BY <1>1, <1>4, <2>1, <2>2, <3>1, <3>2
      DEF FilesInv, Later, Directories, AnyModelFile, LoadedModels, Inference!NotOlder
    <3>4. Inference!Entry(worker.model)' = Inference!Entry(m)
      BY <2>5, <2>9, <3>1 DEF Inference!Entry, Inference!Position
    <3>5. Inference!Resident(worker.model, cache.loaded)'
      BY <2>5, <2>9, <3>1 DEF Inference!Resident
    <3>6. WorkerInv'
      BY <1>2, <1>4, <2>1, <2>5, <2>9, <2>11, <3>3, <3>4, <3>5 DEF WorkerInv, Inference!NotOlder
    <3> QED BY <2>5, <2>6, <3>6 DEF UpscalerInv
  <2> QED BY <2>8, <2>10, <2>11
<1> QED BY <1>3, <1>4 DEF Inference!StampModel

LEMMA OpenKeeps ==
    ASSUME MaxLoaded \in Nat \ {0}, UpscalerInv, Inference!Open
    PROVE  UpscalerInv'
<1> DEFINE m == worker.model
           file == disk.model[m]
           e == [path |-> m, stamp |-> worker.stamp, is |-> file]
           all == Append(Inference!Kept, e)
<1>1. /\ CacheInv /\ FilesInv /\ QueueInv /\ WorkerInv /\ UNCHANGED <<disk, edits, queue>>
      /\ worker \in WorkerShape /\ worker.at = "open" /\ m \in Models
  BY DEF UpscalerInv, WorkerInv, Inference!Open
<1>2. /\ Tidy(Inference!Kept) /\ Len(Inference!Kept) + 1 <= MaxLoaded
      /\ ~Inference!Resident(m, Inference!Kept)
  BY <1>1, OldestGone DEF WorkerInv
<1>3. Inference!Kept \in Seq(LoadedModels) /\ Len(Inference!Kept) \in Nat
  BY <1>2 DEF Tidy
<1>4. CASE cache' = [cache EXCEPT !.loaded = Inference!Kept] /\ Inference!Answer
  <2>1. CacheInv'
    BY <1>1, <1>2, <1>3, <1>4 DEF CacheInv
  <2> QED BY <1>1, <1>4, <2>1, AnswerKeeps
<1>5. CASE /\ file # None
           /\ cache' = [cache EXCEPT !.loaded = all]
           /\ worker' = [worker EXCEPT !.at = "infer"]
           /\ UNCHANGED <<caller, shown>>
  <2>1. file \in AnyModelFile /\ file.version >= worker.stamp
    BY <1>1, <1>5 DEF FilesInv, Directories, WorkerInv
  <2>2. e \in LoadedModels /\ e.is.version >= e.stamp /\ e.path = m /\ e.is = file
    BY <1>1, <2>1 DEF LoadedModels, WorkerShape
  <2>3. Inference!NotOlder(file, shown.model[m])
    BY <1>1, <1>5 DEF FilesInv, Later, Inference!NotOlder
  <2> HIDE DEF e
  <2>4. /\ Tidy(all) /\ Len(all) = Len(Inference!Kept) + 1
        /\ all[Len(Inference!Kept) + 1] = e
    BY <1>2, <2>2, AddedOne
  <2>5. PICK k \in 1 .. Len(all) : all[k] = e
    BY <1>3, <2>4
  <2>6. all \in Seq(LoadedModels) /\ Len(all) <= MaxLoaded
    BY <1>2, <2>4 DEF Tidy
  <2>7. \A j \in DOMAIN all : all[j].path = m => j = k
    BY <2>2, <2>4, <2>5, <2>6 DEF Tidy
  <2> HIDE DEF all
  <2>8. /\ cache'.loaded = all /\ cache'.manifest = cache.manifest /\ CacheInv'
    BY <1>1, <1>5, <2>4, <2>6 DEF CacheInv
  <2>9. FilesInv' /\ QueueInv'
    BY <1>1, <1>5 DEF FilesInv, Written, Later, QueueInv
  <2>10. worker' \in WorkerShape /\ worker'.at = "infer" /\ worker'.model = m
             /\ worker'.scale = worker.scale
    BY <1>1, <1>5 DEF WorkerShape
  <2> HIDE DEF m, file
  <2>11. k \in DOMAIN all /\ all[k].path = m /\ all[k].is = file
    BY <2>2, <2>5, <2>6
  <2>12. Inference!Entry(worker.model)' = all[k]
    BY <2>7, <2>8, <2>10, <2>11 DEF Inference!Entry, Inference!Position
  <2>13. Inference!Resident(worker.model, cache.loaded)'
    BY <2>8, <2>10, <2>11 DEF Inference!Resident
  <2>14. WorkerInv'
    BY <1>1, <1>5, <2>3, <2>8, <2>10, <2>11, <2>12, <2>13 DEF WorkerInv, Inference!NotOlder, m, file
  <2> QED BY <2>8, <2>9, <2>14 DEF UpscalerInv
<1> QED BY <1>4, <1>5 DEF Inference!Open

LEMMA InferKeeps ==
    ASSUME UpscalerInv, Inference!Infer
    PROVE  UpscalerInv'
<1> DEFINE m == worker.model
           all == Append(Inference!Without(m), Inference!Entry(m))
<1>1. /\ CacheInv /\ WorkerInv /\ UNCHANGED <<disk, edits, queue>> /\ worker.at = "infer"
      /\ Inference!Resident(m, cache.loaded) /\ Inference!Answer
      /\ cache' = [cache EXCEPT !.loaded = all]
  BY DEF UpscalerInv, WorkerInv, Inference!Infer
<1>2. /\ Tidy(all) /\ Len(all) = Len(Inference!Without(m)) + 1
      /\ Len(Inference!Without(m)) = Len(cache.loaded) - 1
  BY <1>1, WithoutOne, AddedOne
<1>3. all \in Seq(LoadedModels) /\ cache.loaded \in Seq(LoadedModels)
  BY <1>1, <1>2 DEF Tidy, CacheInv
<1> HIDE DEF all
<1>4. Len(all) <= MaxLoaded
  BY <1>1, <1>2, <1>3 DEF CacheInv
<1>5. CacheInv'
  BY <1>1, <1>2, <1>3, <1>4 DEF CacheInv
<1> QED BY <1>1, <1>5, AnswerKeeps

LEMMA UpscalerInvStep ==
    ASSUME MaxLoaded \in Nat \ {0}, UpscalerInv, [Inference!Next]_(Inference!vars)
    PROVE  UpscalerInv'
<1>1. CASE UNCHANGED Inference!vars
  BY <1>1, CallsChange DEF Inference!vars, UpscalerInv, QueueInv, WorkerInv
<1>2. CASE Inference!Next
  BY <1>2, EditKeeps, CallKeeps, SendKeeps, DropKeeps, AskToEndKeeps, TakeKeeps, StampManifestKeeps,
     ParseManifestKeeps, StampModelKeeps, OpenKeeps, InferKeeps DEF Inference!Next
<1> QED BY <1>1, <1>2

(* No page is upscaled by a model older than the file or the manifest was  *)
(* when the worker turned to it (ModelCache::upscale), for any number of   *)
(* callers, models, scales and edits.                                      *)
LEMMA UpscalerHolds ==
    ASSUME MaxLoaded \in Nat \ {0}
    PROVE  Inference!Spec => []Inference!UpscaledByCurrentModel
<1>1. Inference!Init => UpscalerInv
  BY InitUpscalerInv
<1>2. UpscalerInv /\ [Inference!Next]_(Inference!vars) => UpscalerInv'
  BY UpscalerInvStep
<1>3. UpscalerInv => Inference!UpscaledByCurrentModel
  BY DEF UpscalerInv, CacheInv, WorkerInv, Inference!UpscaledByCurrentModel, Inference!Completes
<1> QED BY <1>1, <1>2, <1>3, PTL DEF Inference!Spec

-----------------------------------------------------------------------------
(* A call to Comix (ComixSource).                                          *)

(* A set of numbers has a smallest.                                        *)
LEMMA SmallestNumber ==
    ASSUME NEW P \in SUBSET Nat, P # {}
    PROVE  \E m \in P : \A k \in 0 .. m - 1 : k \notin P
<1>1. PICK m \in P : \A k \in P : ~(<<k, m>> \in OpToRel(<, Nat))
  BY NatLessThanWellFounded, WFMin
<1>2. \A k \in 0 .. m - 1 : k \in Nat /\ k < m
  OBVIOUS
<1> QED BY <1>1, <1>2 DEF OpToRel

(* Uploads are numbered, and have a number and votes; a page of the list   *)
(* has chapters.                                                           *)
Listed ==
    /\ IsFiniteSet(Uploads) /\ Uploads \subseteq Nat /\ Limit \in Nat \ {0}
    /\ \A u \in Uploads : Number(u) \in Nat /\ Votes(u) \in Nat

LEMMA ComixCounts == \A S : Comix!Cardinality(S) = Cardinality(S)
BY DEF Comix!Cardinality, Cardinality

(* Better orders the uploads of a chapter.                                 *)
LEMMA BetterOrders ==
    ASSUME Listed, NEW u \in Uploads, NEW v \in Uploads, NEW w \in Uploads
    PROVE  /\ ~Comix!Better(u, u)
           /\ Comix!Better(u, v) /\ Comix!Better(v, w) => Comix!Better(u, w)
           /\ u # v => Comix!Better(u, v) \/ Comix!Better(v, u)
BY DEF Listed, Comix!Better

(* The set of chapters has, for an upload, the one of its chapter that is  *)
(* at least as good.                                                       *)
AtLeast(w, u) == Comix!Key(w) = Comix!Key(u) /\ (w = u \/ Comix!Better(w, u))
Covers(chapters, u) == \E w \in chapters : AtLeast(w, u)

LEMMA SmallestOf ==
    ASSUME NEW S, IsFiniteSet(S), NEW P \in SUBSET (SUBSET S), P # {}
    PROVE  \E s \in P : \A t \in SUBSET s : t \in P => t = s
<1>1. P \subseteq FiniteSubsetsOf(S)
  BY FS_Subset DEF FiniteSubsetsOf
<1>2. PICK s \in P : \A t \in P : ~(<<t, s>> \in StrictSubsetOrdering(S))
  BY <1>1, FS_StrictSubsetOrderingWellFounded, WFMin
<1>3. ASSUME NEW t \in SUBSET s, t \in P PROVE t = s
  BY <1>2, <1>3 DEF StrictSubsetOrdering
<1> QED BY <1>2, <1>3

(* Among the better ones than an upload one is the best.                   *)
LEMMA BestIsThere ==
    ASSUME Listed, NEW chapters \in SUBSET Uploads, NEW u \in chapters
    PROVE  \E w \in chapters : /\ AtLeast(w, u)
                               /\ \A v \in chapters \ {w} :
                                    Comix!Key(v) = Comix!Key(w) => Comix!Better(w, v)
<1> DEFINE Group == {v \in chapters : Comix!Key(v) = Comix!Key(u)}
           Above(w) == {v \in Group : Comix!Better(v, w)}
           P == {Above(w) : w \in {v \in Group : AtLeast(v, u)}}
<1>1. P \in SUBSET (SUBSET Uploads) /\ IsFiniteSet(Uploads) /\ Above(u) \in P
  BY DEF Listed, AtLeast
<1> HIDE DEF P
<1>2. PICK s \in P : \A t \in SUBSET s : t \in P => t = s
  BY <1>1, SmallestOf
<1>3. PICK w \in Group : AtLeast(w, u) /\ s = Above(w)
  BY <1>2 DEF P
<1>4. ASSUME NEW v \in Group, Comix!Better(v, w) PROVE FALSE
  <2>1. AtLeast(v, u)
    BY <1>3, <1>4, BetterOrders DEF AtLeast
  <2>2. Above(v) \in SUBSET s /\ v \in s /\ v \notin Above(v)
    BY <1>3, <1>4, BetterOrders
  <2>3. Above(v) \in P
    BY <2>1 DEF P
  <2> HIDE DEF Above
  <2> QED BY <1>2, <2>2, <2>3
<1>5. ASSUME NEW v \in chapters \ {w}, Comix!Key(v) = Comix!Key(w) PROVE Comix!Better(w, v)
  BY <1>3, <1>4, <1>5, BetterOrders DEF AtLeast
<1> QED BY <1>3, <1>5

LEMMA UpsertedCovers ==
    ASSUME Listed, NEW chapters \in SUBSET Uploads, NEW new \in SUBSET Uploads
    PROVE  /\ Comix!Upserted(chapters, new) \subseteq chapters \cup new
           /\ \A u \in Uploads : Covers(chapters \cup new, u) =>
                  Covers(Comix!Upserted(chapters, new), u)
           /\ \A u, v \in Comix!Upserted(chapters, new) : u # v => Comix!Key(u) # Comix!Key(v)
<1> DEFINE all == chapters \cup new
<1>1. all \in SUBSET Uploads
  OBVIOUS
<1>2. Comix!Upserted(chapters, new)
        = {u \in all : \A v \in all \ {u} : Comix!Key(v) = Comix!Key(u) => Comix!Better(u, v)}
  BY DEF Comix!Upserted
<1> HIDE DEF all
<1>3. ASSUME NEW u \in Uploads, NEW x \in all, AtLeast(x, u)
      PROVE  Covers(Comix!Upserted(chapters, new), u)
  <2>1. PICK w \in all : /\ AtLeast(w, x)
                         /\ \A v \in all \ {w} : Comix!Key(v) = Comix!Key(w) => Comix!Better(w, v)
    BY <1>1, BestIsThere
  <2>2. AtLeast(w, u)
    BY <1>1, <1>3, <2>1, BetterOrders DEF AtLeast
  <2> QED BY <1>2, <2>1, <2>2 DEF Covers
<1>4. ASSUME NEW u \in Comix!Upserted(chapters, new), NEW v \in Comix!Upserted(chapters, new),
             u # v, Comix!Key(u) = Comix!Key(v)
      PROVE  FALSE
  <2>1. Comix!Better(u, v) /\ Comix!Better(v, u) /\ u \in Uploads /\ v \in Uploads
    BY <1>1, <1>2, <1>4
  <2> QED BY <2>1, BetterOrders
<1> QED BY <1>2, <1>3, <1>4 DEF Covers, all

(* Whatever was there, is covered by itself.                               *)
LEMMA CoveredByItself ==
    ASSUME NEW chapters, NEW u \in chapters
    PROVE  Covers(chapters, u)
BY DEF Covers, AtLeast

(* The best uploads of a set are the only ones of their chapters.          *)
LEMMA BestOfAll ==
    ASSUME Listed, NEW uploads \in SUBSET Uploads, NEW chapters \in SUBSET Uploads,
           \A u \in uploads : Covers(chapters, u),
           \A u, v \in chapters : u # v => Comix!Key(u) # Comix!Key(v),
           NEW u \in chapters, NEW v \in uploads, u # v, Comix!Key(u) = Comix!Key(v)
    PROVE  Comix!Better(u, v)
BY DEF Covers, AtLeast

-----------------------------------------------------------------------------
(* The pages of the list.                                                  *)

LEMMA RanksAreSmall ==
    ASSUME Listed, NEW uploads \in SUBSET Uploads, NEW u \in uploads, NEW way
    PROVE  /\ Comix!Rank(u, uploads, way) \in Nat
           /\ Comix!Rank(u, uploads, way) < Cardinality(uploads)
           /\ Cardinality(uploads) \in Nat
<1> DEFINE first == {v \in uploads : Comix!Before(v, u, way)}
<1>1. IsFiniteSet(uploads)
  BY FS_Subset DEF Listed
<1>5. u \in Nat /\ Number(u) \in Nat
  BY DEF Listed
<1>6. ~Comix!Before(u, u, way)
  BY <1>5 DEF Comix!Before
<1>2. first \subseteq uploads /\ u \notin first
  BY <1>6
<1>3. Cardinality(first) \in Nat /\ Cardinality(uploads) \in Nat
      /\ Cardinality(first) < Cardinality(uploads)
  BY <1>1, <1>2, FS_Subset, FS_CardinalityType
<1>4. Comix!Rank(u, uploads, way) = Cardinality(first)
  BY ComixCounts DEF Comix!Rank
<1> QED BY <1>3, <1>4

(* What a list has before an upload it still has when it has grown.        *)
LEMMA RanksGrow ==
    ASSUME Listed, NEW less \in SUBSET Uploads, NEW more \in SUBSET Uploads, less \subseteq more,
           NEW u \in less, NEW way
    PROVE  Comix!Rank(u, less, way) <= Comix!Rank(u, more, way)
<1> DEFINE A == {v \in less : Comix!Before(v, u, way)}
           B == {v \in more : Comix!Before(v, u, way)}
<1>1. A \subseteq B /\ IsFiniteSet(B)
  BY FS_Subset DEF Listed
<1>2. Cardinality(A) <= Cardinality(B)
  BY <1>1, FS_Subset
<1>3. Comix!Rank(u, less, way) = Cardinality(A) /\ Comix!Rank(u, more, way) = Cardinality(B)
  BY ComixCounts DEF Comix!Rank
<1> QED BY <1>2, <1>3

-----------------------------------------------------------------------------
(* The invariant.                                                          *)

Looking == {"resolve", "title-page", "details"}
Listing == {"list", "list-unordered", "indexes", "index", "chapter", "capture"}
Searching == {"search-capture", "keyword", "q", "browse"}
Paging == {"page-api", "page-capture"}
Kinds == {"plain", "mapped", "scrambled"}

DetailsShape == [latest : Nat \cup {None}, chapters : BOOLEAN, title : {"unknown", "url", "slug"}]
ScriptShape == [decoding : {"pending", "done", "failed"},
                payloads : Seq([by : {"decoded", "parsed", "guessed"}, pages : SUBSET Kinds])]
CallShape ==
    [op : Comix!Ops \cup {None}, at : Looking \cup Listing \cup Searching \cup Paging
                                        \cup {"idle", "genres"},
     ids : Seq(Comix!Ids), chapter : Comix!ChapterIds \cup {None},
     details : DetailsShape \cup {None}, found : SUBSET Uploads, page : Nat \ {0},
     todo : SUBSET Nat, chosen : Uploads \cup {None},
     captured : [pages : SUBSET Nat, chapters : SUBSET Uploads],
     listed : SUBSET Kinds, failed : SUBSET (Searching \cup {"list", "indexes", "api"}),
     script : ScriptShape]

Began == sites[1]
Seen == {u \in Uploads : \E i \in DOMAIN sites : u \in sites[i]}

(* What the site was during the call ends with what it is.                 *)
HistoryInv ==
    /\ site \in SUBSET Uploads /\ sites \in Seq(SUBSET Uploads)
    /\ call.at = "idle" => call = Comix!Idle
    /\ call.at # "idle" =>
          /\ sites # <<>> /\ sites[Len(sites)] = site
          /\ Comix!Grew => \A i \in DOMAIN sites : sites[i] \subseteq site

(* Each step is one of its operation, and begins with nothing found.       *)
Fits(c) ==
    /\ c.at \in Searching => c.op = "search"
    /\ c.at = "genres" => c.op = "manga"
    /\ c.at \in Looking => c.op \in {"manga", "chapters"} /\ c.page = 1 /\ c.found = {}
    /\ c.at \in Listing => c.op = "chapters"
    /\ c.at \in Paging => c.op = "pages"
    /\ c.at \in Looking \cup Listing => c.ids # <<>>
    /\ c.at # "capture" => c.captured = Comix!Uncaptured
    /\ c.at # "page-capture" => c.script = Comix!Idle.script

OneOfEach(chapters) ==
    \A u, v \in chapters : u # v => Comix!Key(u) # Comix!Key(v)

Real(c) ==
    /\ c.found \subseteq Seen /\ c.captured.chapters \subseteq Seen
    /\ OneOfEach(c.found)

(* The latest chapter that is known is none before those the call began    *)
(* with.                                                                   *)
Knows(c) ==
    c.details # None /\ c.details.latest \notin {None, 0} /\ Comix!Grew =>
        \A u \in Began : Number(u) <= c.details.latest

(* The pages of the list so far have all that stands before the next one.  *)
Lists(c) ==
    /\ c.at = "list-unordered" => "list" \in c.failed
    /\ c.at = "list" /\ "list" \notin c.failed /\ Comix!Grew =>
          \A u \in Began : Comix!Rank(u, site, "by-number") < (c.page - 1) * Limit =>
              Covers(c.found, u)

KeyFound(c, u) == \E w \in c.found : Comix!Key(w) = Comix!Key(u)

(* The indexes that were followed have led to their chapters.              *)
Follows(c) ==
    /\ c.at \in {"indexes", "index", "chapter", "capture"} => c.details # None
    /\ c.at = "indexes" => c.found = {}
    /\ c.at = "chapter" => c.chosen \in Uploads
    /\ c.at \in {"index", "chapter"} /\ c.details.title # "slug" =>
          c.at = "index" /\ c.found = {} /\ c.todo = {}
    /\ c.at \in {"index", "chapter"} /\ c.details.title = "slug" /\ "indexes" \notin c.failed
           /\ Comix!Grew =>
          \A u \in Began : Number(u) # 0 =>
              \/ Number(u) \in c.todo \/ KeyFound(c, u)
              \/ c.at = "chapter" /\ Number(c.chosen) = Number(u)

(* The pages that were seen of a list that stays.                          *)
OnPage(u, n) == Comix!Rank(u, site, "by-number") \in (n - 1) * Limit .. n * Limit - 1
Captures(c) ==
    c.at = "capture" /\ Len(sites) = 1 =>
        \A u \in site, n \in c.captured.pages : OnPage(u, n) => u \in c.captured.chapters

(* Addresses are guessed only when decoding has failed.                    *)
Guesses(c) ==
    /\ c.at = "page-api" => c.chapter \in {"numeric", "reader"}
    /\ c.script.decoding = "done" => c.script.payloads # <<>>
    /\ c.script.payloads # <<>> /\ c.script.payloads[1].by = "guessed" =>
          c.script.decoding = "failed"

CallInv(c) ==
    /\ c \in CallShape /\ Fits(c) /\ Real(c) /\ Knows(c) /\ Lists(c) /\ Follows(c)
    /\ Captures(c) /\ Guesses(c)

Truthful == Comix!ListsAreReal /\ Comix!ListsAreComplete /\ Comix!PagesAreTheBest

ComixInv ==
    /\ HistoryInv /\ CallInv(call)
    /\ call.at # "idle" => answer = Comix!NoAnswer
    /\ Truthful

-----------------------------------------------------------------------------
LEMMA IdleCall ==
    /\ CallInv(Comix!Idle) /\ Comix!Idle.at = "idle" /\ Comix!Idle \in CallShape
    /\ Comix!Idle.page = 1 /\ Comix!Idle.found = {} /\ Comix!Idle.failed = {}
    /\ Comix!Idle.captured = Comix!Uncaptured /\ Comix!Idle.details = None
    /\ Comix!Idle.script.payloads = <<>> /\ Comix!Idle.script.decoding = "pending"
<1>1. Comix!Idle \in CallShape
  <2>1. Comix!Uncaptured \in [pages : SUBSET Nat, chapters : SUBSET Uploads]
    BY DEF Comix!Uncaptured
  <2>2. [decoding |-> "pending", payloads |-> <<>>] \in ScriptShape
    BY DEF ScriptShape
  <2>3. <<>> \in Seq(Comix!Ids)
    OBVIOUS
  <2> QED BY <2>1, <2>2, <2>3 DEF Comix!Idle, CallShape
<1>2. Fits(Comix!Idle) /\ Follows(Comix!Idle) /\ Lists(Comix!Idle) /\ Captures(Comix!Idle)
  BY DEF Comix!Idle, Fits, Follows, Lists, Captures, Searching, Looking, Listing, Paging
<1>3. Real(Comix!Idle)
  BY DEF Comix!Idle, Comix!Uncaptured, Real, OneOfEach
<1>4. Knows(Comix!Idle) /\ Guesses(Comix!Idle)
  BY DEF Comix!Idle, Knows, Guesses
<1> QED BY <1>1, <1>2, <1>3, <1>4 DEF CallInv, Comix!Idle

LEMMA NoAnswerIsTrue == answer = Comix!NoAnswer => Truthful
BY DEF Truthful, Comix!NoAnswer, Comix!ListsAreReal, Comix!ListsAreComplete,
       Comix!PagesAreTheBest, Comix!IsList

LEMMA InitComixInv == Comix!Init => ComixInv
<1> SUFFICES ASSUME Comix!Init PROVE ComixInv
  OBVIOUS
<1>1. call = Comix!Idle /\ answer = Comix!NoAnswer /\ sites = <<>> /\ site \in SUBSET Uploads
  BY DEF Comix!Init
<1>2. HistoryInv
  BY <1>1, IdleCall DEF HistoryInv
<1> QED BY <1>1, <1>2, IdleCall, NoAnswerIsTrue DEF ComixInv

(* An answer stays true.                                                   *)
LEMMA TruthStays ==
    ASSUME Truthful, UNCHANGED <<answer, sites>>
    PROVE  Truthful'
<1>1. Comix!ListsAreReal'
  BY DEF Truthful, Comix!ListsAreReal, Comix!IsList, Comix!ListOf
<1>2. Comix!ListsAreComplete'
  <2>1. /\ Comix!IsList' = Comix!IsList /\ Comix!ListOf' = Comix!ListOf
        /\ Comix!Grew' = Comix!Grew
    BY DEF Comix!IsList, Comix!ListOf, Comix!Grew
  <2>2. /\ Comix!Chapters(sites[1])' = Comix!Chapters(sites[1])
        /\ Comix!Chapters(Comix!ListOf)' = Comix!Chapters(Comix!ListOf)
    BY <2>1 DEF Comix!Chapters
  <2> QED BY <2>1, <2>2 DEF Truthful, Comix!ListsAreComplete
<1>3. Comix!PagesAreTheBest'
  BY DEF Truthful, Comix!PagesAreTheBest
<1> QED BY <1>1, <1>2, <1>3 DEF Truthful

(* A call goes on.                                                         *)
LEMMA ComixGoesOn ==
    ASSUME ComixInv, NEW next, Comix!Continue(next), CallInv(next), call.at # "idle",
           next.at # "idle"
    PROVE  ComixInv'
<1>1. call' = next /\ UNCHANGED <<site, answer, sites>>
  BY DEF Comix!Continue
<1>2. CallInv(call)'
  BY <1>1 DEF CallInv, Fits, Real, Seen, Began, Knows, Lists, Follows, KeyFound, Captures, OnPage,
              Guesses, Comix!Grew
<1>3. HistoryInv'
  BY <1>1 DEF ComixInv, HistoryInv, Comix!Grew
<1>4. Truthful'
  BY <1>1, TruthStays DEF ComixInv
<1> QED BY <1>1, <1>2, <1>3, <1>4 DEF ComixInv

(* A call ends.                                                            *)
LEMMA ComixEnds ==
    ASSUME ComixInv, call' = Comix!Idle, UNCHANGED <<site, sites>>, Truthful'
    PROVE  ComixInv'
<1>1. CallInv(call)'
  <2>1. CallInv(Comix!Idle)'
    BY IdleCall, PTL
  <2>2. PICK c : c = Comix!Idle
    OBVIOUS
  <2>3. CallInv(c)' /\ call' = c
    BY <2>1, <2>2 DEF CallInv, Fits, Real, Seen, Began, Knows, Lists, Follows, KeyFound, Captures,
       OnPage, Guesses, Comix!Idle
  <2> QED BY <2>3 DEF CallInv, Fits, Real, Seen, Began, Knows, Lists, Follows, KeyFound, Captures,
              OnPage, Guesses, Comix!Grew
<1>2. HistoryInv'
  BY IdleCall DEF ComixInv, HistoryInv
<1> QED BY <1>1, <1>2, IdleCall DEF ComixInv

(* A call that ends without a list of chapters.                            *)
LEMMA EndsNoList ==
    ASSUME ComixInv, call.at # "idle", NEW sort, NEW by, NEW chapters, NEW pages,
           Comix!End(sort, by, chapters, pages), ~(call.op = "chapters" /\ sort = "ok"),
           call.op = "pages" =>
               /\ by = "api" /\ "scrambled" \in pages =>
                      call.chapter = "numeric" \/ call.at = "page-capture"
               /\ by = "guessed" => call.script.decoding = "failed"
    PROVE  ComixInv'
<1>1. /\ answer'.op = call.op /\ answer'.kind = sort /\ answer'.by = by /\ answer'.pages = pages
      /\ answer'.chapter = call.chapter /\ answer'.looked = (call.at = "page-capture")
      /\ answer'.decoding = call.script.decoding
      /\ call' = Comix!Idle /\ UNCHANGED <<site, sites>>
  BY DEF Comix!End
<1>2. ~Comix!IsList'
  BY <1>1 DEF Comix!IsList
<1>3. Truthful'
  BY <1>1, <1>2 DEF Truthful, Comix!ListsAreReal, Comix!ListsAreComplete, Comix!PagesAreTheBest
<1> QED BY <1>1, <1>3, ComixEnds

LEMMA Fails == ComixInv /\ call.at # "idle" /\ Comix!Fail => ComixInv'
<1> SUFFICES ASSUME ComixInv, call.at # "idle", Comix!Fail PROVE ComixInv'
  OBVIOUS
<1>1. Comix!End("error", "none", {}, {})
  BY DEF Comix!Fail
<1> QED BY <1>1, EndsNoList

(* A request fails, and the next is not one of the list of chapters.       *)
LEMMA SearchSteps == ComixInv /\ Comix!Search => ComixInv'
<1> SUFFICES ASSUME ComixInv, Comix!Search PROVE ComixInv'
  OBVIOUS
<1>1. PICK way \in Searching : call.at = way /\
        \/ Comix!Ok(way) \/ Comix!Fail
        \/ \E step \in {"keyword", "browse", "q"} : Comix!Failing(step, way)
  BY DEF Comix!Search, Comix!SearchBy, Searching
<1>2. call.at # "idle" /\ call.op = "search" /\ CallInv(call)
  BY <1>1 DEF Searching, ComixInv, CallInv, Fits
<1>3. CASE Comix!Ok(way)
  BY <1>2, <1>3, EndsNoList DEF Comix!Ok
<1>4. CASE Comix!Fail
  BY <1>2, <1>4, Fails
<1>5. ASSUME NEW step \in {"keyword", "browse", "q"}, Comix!Failing(step, way) PROVE ComixInv'
  <2> DEFINE next == [call EXCEPT !.at = step, !.failed = @ \cup {way}]
  <2>1. Comix!Continue(next)
    BY <1>5 DEF Comix!Failing
  <2>2. next \in CallShape
    BY <1>1, <1>2 DEF CallInv, CallShape, Searching
  <2>3. /\ next.at = step /\ next.op = "search" /\ next.found = call.found
        /\ next.captured = Comix!Uncaptured /\ next.script = Comix!Idle.script
        /\ call.captured = Comix!Uncaptured
        /\ next.details = call.details
    BY <1>1, <1>2 DEF CallInv, CallShape, Fits, Searching
  <2> HIDE DEF next
  <2>4. Fits(next)
    BY <2>3 DEF Fits, Searching, Looking, Listing, Paging
  <2>5. Real(next) /\ Knows(next)
    BY <1>2, <2>3 DEF CallInv, Real, Knows
  <2>6. Lists(next) /\ Follows(next) /\ Captures(next)
    BY <2>3 DEF Lists, Follows, Captures
  <2>7. Guesses(next)
    BY <2>3, IdleCall DEF Guesses
  <2> QED BY <1>2, <2>1, <2>2, <2>3, <2>4, <2>5, <2>6, <2>7, ComixGoesOn DEF CallInv
<1> QED BY <1>1, <1>3, <1>4, <1>5

(* The next candidate begins with nothing found.                           *)
LEMMA NextCandidates ==
    ASSUME ComixInv, call.at \in Looking \cup Listing, Comix!NextCandidate
    PROVE  ComixInv'
<1>1. /\ CallInv(call) /\ call.at # "idle" /\ call.op \in {"manga", "chapters"}
      /\ call.ids \in Seq(Comix!Ids) /\ call.ids # <<>>
  BY DEF ComixInv, CallInv, Fits, Looking, Listing, CallShape
<1>2. CASE Comix!Fail
  BY <1>1, <1>2, Fails
<1>3. CASE ~Comix!Fail
  <2>1. PICK ids : ids = Tail(call.ids) /\ Len(call.ids) # 1
            /\ Comix!Continue([Comix!Idle EXCEPT !.op = call.op, !.ids = ids,
                                                 !.at = Comix!Lookup(ids)])
    BY <1>3 DEF Comix!NextCandidate
  <2>2. ids \in Seq(Comix!Ids) /\ ids # <<>>
    <3>1. PICK q \in Seq(Comix!Ids) : q = call.ids
      BY <1>1
    <3>2. 1 \in 1 .. Len(q) /\ Tail(q) \in Seq(Comix!Ids) /\ Len(Tail(q)) = Len(q) - 1
      BY <1>1, <3>1, TailIsPart
    <3>3. Len(q) \in Nat /\ Len(q) # 1 /\ ids = Tail(q)
      BY <2>1, <3>1
    <3>4. ids \in Seq(Comix!Ids) /\ Len(ids) # 0
      BY <3>2, <3>3
    <3> QED BY <3>4
  <2>3. Comix!Lookup(ids) \in {"title-page", "details"}
    BY DEF Comix!Lookup
  <2> DEFINE next == [Comix!Idle EXCEPT !.op = call.op, !.ids = ids, !.at = Comix!Lookup(ids)]
  <2>4. next \in CallShape
    <3>1. call.op \in Comix!Ops \cup {None} /\ Comix!Lookup(ids) \in Looking
      BY <1>1, <2>3 DEF Comix!Ops, Looking
    <3>2. Comix!Idle \in CallShape
      BY IdleCall
    <3> QED BY <2>2, <3>1, <3>2 DEF CallShape
  <2>5. /\ next.at \in {"title-page", "details"} /\ next.op = call.op /\ next.ids = ids
        /\ next.page = 1 /\ next.found = {} /\ next.captured = Comix!Uncaptured
        /\ next.script = Comix!Idle.script /\ next.details = None
    BY <2>3 DEF Comix!Idle
  <2>6. Comix!Continue(next)
    BY <2>1
  <2> HIDE DEF next
  <2>7. Fits(next)
    BY <1>1, <2>2, <2>5 DEF Fits, Looking, Listing, Searching, Paging
  <2>8. Real(next) /\ Knows(next)
    BY <2>5 DEF Real, Knows, OneOfEach, Comix!Uncaptured
  <2>9. Lists(next) /\ Follows(next) /\ Captures(next) /\ Guesses(next)
    BY <2>5, IdleCall DEF Lists, Follows, Captures, Guesses
  <2> QED BY <1>1, <2>4, <2>5, <2>6, <2>7, <2>8, <2>9, ComixGoesOn DEF CallInv
<1> QED BY <1>2, <1>3

LEMMA ResolveSteps == ComixInv /\ Comix!Resolve => ComixInv'
<1> SUFFICES ASSUME ComixInv, Comix!Resolve PROVE ComixInv'
  OBVIOUS
<1>1. CallInv(call) /\ call.at = "resolve" /\ call.ids \in Seq(Comix!Ids) /\ call.ids # <<>>
  BY DEF ComixInv, CallInv, Fits, Looking, CallShape, Comix!Resolve
<1>2. PICK ids \in {call.ids, <<"hash">> \o call.ids} :
          Comix!Continue([call EXCEPT !.ids = ids, !.at = Comix!Lookup(ids)])
  BY DEF Comix!Resolve
<1>3. ids \in Seq(Comix!Ids) /\ ids # <<>>
  <2>1. <<"hash">> \in Seq(Comix!Ids)
    BY DEF Comix!Ids
  <2>2. <<"hash">> \o call.ids \in Seq(Comix!Ids) /\ <<"hash">> \o call.ids # <<>>
    BY <1>1, <2>1
  <2> QED BY <1>1, <1>2, <2>2
<1>4. Comix!Lookup(ids) \in {"title-page", "details"}
  BY DEF Comix!Lookup
<1> DEFINE next == [call EXCEPT !.ids = ids, !.at = Comix!Lookup(ids)]
<1>5. next \in CallShape
  BY <1>1, <1>3, <1>4 DEF CallInv, CallShape, Looking
<1>6. /\ next.at \in {"title-page", "details"} /\ next.op = call.op /\ next.ids = ids
      /\ next.page = call.page /\ next.found = call.found /\ next.captured = call.captured
      /\ next.script = call.script /\ next.details = call.details
  BY <1>1, <1>4 DEF CallInv, CallShape
<1>7. Comix!Continue(next)
  BY <1>2
<1> HIDE DEF next
<1>8. Fits(next)
  BY <1>1, <1>3, <1>6 DEF CallInv, Fits, Looking, Listing, Searching, Paging
<1>9. Real(next) /\ Knows(next)
  BY <1>1, <1>6 DEF CallInv, Real, Knows
<1>10. Lists(next) /\ Follows(next) /\ Captures(next) /\ Guesses(next)
  BY <1>1, <1>6 DEF CallInv, Lists, Follows, Captures, Guesses
<1> QED BY <1>1, <1>5, <1>6, <1>7, <1>8, <1>9, <1>10, ComixGoesOn DEF CallInv

(* The last of what the site was is all there is when it only grew.        *)
LEMMA LatestIsLast ==
    ASSUME Listed, NEW uploads \in SUBSET Uploads, uploads # {}
    PROVE  /\ Comix!Latest(uploads) \in Nat
           /\ \A u \in uploads : Number(u) <= Comix!Latest(uploads)
<1> DEFINE Above(u) == {v \in uploads : Number(v) > Number(u)}
           P == {Above(u) : u \in uploads}
           numbers == {Number(u) : u \in uploads}
<1>1. P \in SUBSET (SUBSET uploads) /\ P # {}
  OBVIOUS
<1> HIDE DEF P
<1>0. IsFiniteSet(uploads)
  BY FS_Subset DEF Listed
<1>2. PICK s \in P : \A t \in SUBSET s : t \in P => t = s
  BY <1>0, <1>1, SmallestOf
<1>3. PICK u \in uploads : s = Above(u)
  BY <1>2 DEF P
<1>4. ASSUME NEW v \in uploads, Number(v) > Number(u) PROVE FALSE
  <2>1. Number(u) \in Nat /\ \A w \in uploads : Number(w) \in Nat
    BY DEF Listed
  <2>2. Above(v) \in SUBSET s /\ v \in s /\ v \notin Above(v)
    BY <1>3, <1>4, <2>1
  <2>3. Above(v) \in P
    BY DEF P
  <2> HIDE DEF Above
  <2> QED BY <1>2, <2>2, <2>3
<1>5. Number(u) \in numbers /\ \A n \in numbers : n <= Number(u)
  BY <1>4 DEF Listed
<1>6. Comix!Latest(uploads) = CHOOSE m \in numbers : \A n \in numbers : n <= m
  BY DEF Comix!Latest, Comix!Max
<1>7. numbers \subseteq Nat
  BY DEF Listed
<1> HIDE DEF numbers
<1>8. Comix!Latest(uploads) \in numbers /\ \A n \in numbers : n <= Comix!Latest(uploads)
  BY <1>5, <1>6
<1> QED BY <1>7, <1>8 DEF numbers

(* What is there now was there during the call.                            *)
LEMMA HistoryIs ==
    ASSUME HistoryInv, call.at # "idle"
    PROVE  /\ Len(sites) \in Nat \ {0} /\ DOMAIN sites = 1 .. Len(sites)
           /\ Began \in SUBSET Uploads /\ site \in SUBSET Uploads
           /\ Began \subseteq Seen /\ site \subseteq Seen /\ Seen \subseteq Uploads
           /\ Seen = UNION Comix!Range(sites)
           /\ site \in Comix!Range(sites) /\ Began \in Comix!Range(sites)
           /\ Comix!Grew => Began \subseteq site
           /\ Len(sites) = 1 => Comix!Grew /\ Began = site
<1>1. sites \in Seq(SUBSET Uploads) /\ sites # <<>> /\ sites[Len(sites)] = site
  BY DEF HistoryInv
<1>2. Len(sites) \in Nat \ {0} /\ DOMAIN sites = 1 .. Len(sites)
  BY <1>1
<1>3. \A i \in DOMAIN sites : sites[i] \in SUBSET Uploads
  BY <1>1
<1>4. 1 \in DOMAIN sites /\ Len(sites) \in DOMAIN sites
  BY <1>2
<1>5. Comix!Range(sites) = {sites[i] : i \in DOMAIN sites}
  BY DEF Comix!Range
<1>6. Seen = UNION Comix!Range(sites)
  <2>1. Seen \subseteq UNION Comix!Range(sites)
    BY <1>5 DEF Seen
  <2>2. UNION Comix!Range(sites) \subseteq Seen
    BY <1>3, <1>5 DEF Seen
  <2> QED BY <2>1, <2>2
<1>7. Comix!Grew => Began \subseteq site
  BY <1>4 DEF HistoryInv, Began
<1>8. Len(sites) = 1 => Comix!Grew /\ Began = site
  BY <1>1 DEF Comix!Grew, Began
<1> QED BY <1>1, <1>2, <1>3, <1>4, <1>5, <1>6, <1>7, <1>8 DEF Began, HistoryInv, Seen

LEMMA GenresSteps == ComixInv /\ Comix!Genres => ComixInv'
<1> SUFFICES ASSUME ComixInv, Comix!Genres PROVE ComixInv'
  OBVIOUS
<1>1. call.at = "genres" /\ call.op = "manga" /\ Comix!End("ok", "details", {}, {})
  BY DEF ComixInv, CallInv, Fits, Comix!Genres, Comix!Ok
<1> QED BY <1>1, EndsNoList

(* A title without chapters has an empty list.                             *)
LEMMA EmptyLists ==
    ASSUME ComixInv, call.at # "idle", call.op = "chapters", site = {}, Comix!Ok("details")
    PROVE  ComixInv'
<1>1. /\ answer'.op = "chapters" /\ answer'.kind = "ok" /\ answer'.by = "details"
      /\ answer'.chapters = {} /\ call' = Comix!Idle /\ UNCHANGED <<site, sites>>
  BY DEF Comix!End, Comix!Ok
<1>2. Comix!ListOf' = {}
  BY <1>1 DEF Comix!ListOf
<1>3. {} \in Comix!Range(sites) /\ (Comix!Grew => sites[1] = {})
  BY HistoryIs DEF ComixInv, Began
<1>4. Comix!ListsAreReal'
  BY <1>1, <1>2, <1>3 DEF Comix!ListsAreReal, Comix!Range
<1>5. Comix!Grew' = Comix!Grew /\ sites' = sites
  BY <1>1 DEF Comix!Grew
<1>6. Comix!Chapters({}) = {}
  BY DEF Comix!Chapters
<1>7. Comix!ListsAreComplete'
  BY <1>1, <1>2, <1>3, <1>5, <1>6 DEF Comix!ListsAreComplete, Comix!Chapters
<1>8. Comix!PagesAreTheBest'
  BY <1>1 DEF Comix!PagesAreTheBest
<1> QED BY <1>1, <1>4, <1>7, <1>8, ComixEnds DEF Truthful

(* The details are learned.                                                *)
LEMMA LearnedSteps ==
    ASSUME Listed, ComixInv, call.at \in {"title-page", "details"},
           NEW d \in Comix!DetailsOf(site), Comix!Learned(d)
    PROVE  ComixInv'
<1>1. /\ HistoryInv /\ CallInv(call) /\ call.at # "idle" /\ call.op \in {"manga", "chapters"}
      /\ call.page = 1 /\ call.found = {} /\ call.captured = Comix!Uncaptured
      /\ call.script = Comix!Idle.script /\ call.ids # <<>> /\ call \in CallShape
  BY DEF ComixInv, CallInv, Fits, Looking
<1>2. CASE call.op = "manga"
  <2> DEFINE next == [call EXCEPT !.at = "genres"]
  <2>1. Comix!Continue(next)
    BY <1>2 DEF Comix!Learned
  <2>2. next \in CallShape
    BY <1>1 DEF CallShape
  <2>3. /\ next.at = "genres" /\ next.op = "manga" /\ next.found = {}
        /\ next.captured = Comix!Uncaptured /\ next.script = Comix!Idle.script
        /\ next.details = call.details
    BY <1>1, <1>2 DEF CallShape
  <2> HIDE DEF next
  <2>4. Fits(next)
    BY <2>3 DEF Fits, Searching, Looking, Listing, Paging
  <2>5. Real(next) /\ Knows(next)
    BY <1>1, <2>3 DEF CallInv, Real, Knows
  <2>6. Lists(next) /\ Follows(next) /\ Captures(next) /\ Guesses(next)
    BY <2>3, IdleCall DEF Lists, Follows, Captures, Guesses
  <2> QED BY <1>1, <2>1, <2>2, <2>3, <2>4, <2>5, <2>6, ComixGoesOn DEF CallInv
<1>3. CASE call.op = "chapters" /\ ~d.chapters
  <2>1. site = {}
    BY <1>3 DEF Comix!DetailsOf
  <2>2. Comix!Ok("details")
    BY <1>3 DEF Comix!Learned
  <2> QED BY <1>1, <1>3, <2>1, <2>2, EmptyLists
<1>4. CASE call.op = "chapters" /\ d.chapters
  <2> DEFINE next == [call EXCEPT !.details = d, !.at = "list"]
  <2>1. Comix!Continue(next)
    BY <1>4 DEF Comix!Learned
  <2>2. /\ d \in DetailsShape
        /\ d.latest \notin {None, 0} => \A u \in site : Number(u) <= d.latest
    <3>1. site \in SUBSET Uploads
      BY <1>1 DEF HistoryInv
    <3>2. site # {} => Comix!Latest(site) \in Nat
                         /\ \A u \in site : Number(u) <= Comix!Latest(site)
      BY <3>1, LatestIsLast
    <3> DEFINE known == {None, IF site = {} THEN 0 ELSE Comix!Latest(site)}
               any == {TRUE, site # {}}
    <3>3. d \in [latest : known, chapters : any, title : {"unknown", "url", "slug"}]
      BY DEF Comix!DetailsOf
    <3>4. known \subseteq Nat \cup {None} /\ any \subseteq BOOLEAN
          /\ \A n \in known \ {None, 0} : \A u \in site : Number(u) <= n
      BY <3>2
    <3> HIDE DEF known, any
    <3>5. d \in DetailsShape
      BY <3>3, <3>4 DEF DetailsShape
    <3>6. d.latest \in known
      BY <3>3
    <3> QED BY <3>4, <3>5, <3>6
  <2>3. next \in CallShape
    BY <1>1, <2>2 DEF CallShape, Listing
  <2>4. /\ next.at = "list" /\ next.op = "chapters" /\ next.found = {} /\ next.page = 1
        /\ next.captured = Comix!Uncaptured /\ next.script = Comix!Idle.script
        /\ next.details = d /\ next.ids = call.ids
    BY <1>1, <1>4 DEF CallShape
  <2> HIDE DEF next
  <2>5. Fits(next)
    BY <1>1, <2>4 DEF Fits, Searching, Looking, Listing, Paging
  <2>6. Real(next)
    BY <1>1, <2>4 DEF CallInv, Real
  <2>7. Knows(next)
    BY <1>1, <2>2, <2>4, HistoryIs DEF Knows
  <2>8. Lists(next)
    <3>1. \A u \in site : Comix!Rank(u, site, "by-number") \in Nat
      BY <1>1, RanksAreSmall DEF HistoryInv
    <3>2. (next.page - 1) * Limit = 0
      BY <2>4 DEF Listed
    <3> QED BY <1>1, <2>4, <3>1, <3>2, HistoryIs DEF Lists
  <2>9. Follows(next) /\ Captures(next) /\ Guesses(next)
    BY <2>4, IdleCall DEF Follows, Captures, Guesses
  <2> QED BY <1>1, <2>1, <2>3, <2>4, <2>5, <2>6, <2>7, <2>8, <2>9, ComixGoesOn DEF CallInv
<1> QED BY <1>1, <1>2, <1>3, <1>4

LEMMA TitlePageSteps == Listed /\ ComixInv /\ Comix!TitlePage => ComixInv'
<1> SUFFICES ASSUME Listed, ComixInv, Comix!TitlePage PROVE ComixInv'
  OBVIOUS
<1>1. /\ call.at = "title-page" /\ CallInv(call) /\ call.op \in {"manga", "chapters"}
      /\ call.page = 1 /\ call.found = {} /\ call.captured = Comix!Uncaptured
      /\ call.script = Comix!Idle.script /\ call.ids # <<>> /\ call \in CallShape
  BY DEF ComixInv, CallInv, Fits, Looking, Comix!TitlePage
<1>2. CASE \E d \in Comix!DetailsOf(site) : Comix!Learned(d)
  BY <1>1, <1>2, LearnedSteps
<1>3. CASE Comix!Continue([call EXCEPT !.at = "details"])
  <2> DEFINE next == [call EXCEPT !.at = "details"]
  <2>1. next \in CallShape
    BY <1>1 DEF CallShape, Looking
  <2>2. /\ next.at = "details" /\ next.op = call.op /\ next.found = {} /\ next.page = 1
        /\ next.captured = Comix!Uncaptured /\ next.script = Comix!Idle.script
        /\ next.details = call.details /\ next.ids = call.ids
    BY <1>1 DEF CallShape
  <2>3. Comix!Continue(next)
    BY <1>3
  <2> HIDE DEF next
  <2>4. Fits(next)
    BY <1>1, <2>2 DEF Fits, Searching, Looking, Listing, Paging
  <2>5. Real(next) /\ Knows(next)
    BY <1>1, <2>2 DEF CallInv, Real, Knows
  <2>6. Lists(next) /\ Follows(next) /\ Captures(next) /\ Guesses(next)
    BY <2>2, IdleCall DEF Lists, Follows, Captures, Guesses
  <2> QED BY <1>1, <2>1, <2>2, <2>3, <2>4, <2>5, <2>6, ComixGoesOn DEF CallInv
<1> QED BY <1>2, <1>3 DEF Comix!TitlePage

LEMMA DetailsSteps == Listed /\ ComixInv /\ Comix!Details => ComixInv'
<1> SUFFICES ASSUME Listed, ComixInv, Comix!Details PROVE ComixInv'
  OBVIOUS
<1>1. /\ call.at = "details" /\ CallInv(call) /\ call.at \in Looking /\ HistoryInv
      /\ call.page = 1 /\ call.found = {} /\ call.captured = Comix!Uncaptured
      /\ call.script = Comix!Idle.script /\ call.ids # <<>> /\ call \in CallShape
  BY DEF ComixInv, CallInv, Fits, Looking, Comix!Details
<1>2. CASE \E d \in Comix!DetailsOf(site) : Comix!Learned(d)
  BY <1>1, <1>2, LearnedSteps
<1>3. CASE Comix!NextCandidate
  BY <1>1, <1>3, NextCandidates
<1>4. CASE call.op = "chapters" /\ Comix!Continue([call EXCEPT !.at = "list"])
  <2> DEFINE next == [call EXCEPT !.at = "list"]
  <2>1. next \in CallShape
    BY <1>1 DEF CallShape, Listing
  <2>2. /\ next.at = "list" /\ next.op = "chapters" /\ next.found = {} /\ next.page = 1
        /\ next.captured = Comix!Uncaptured /\ next.script = Comix!Idle.script
        /\ next.details = call.details /\ next.ids = call.ids
    BY <1>1, <1>4 DEF CallShape
  <2>3. Comix!Continue(next)
    BY <1>4
  <2> HIDE DEF next
  <2>4. Fits(next)
    BY <1>1, <2>2 DEF Fits, Searching, Looking, Listing, Paging
  <2>5. Real(next) /\ Knows(next)
    BY <1>1, <2>2 DEF CallInv, Real, Knows
  <2>6. Lists(next)
    <3>1. \A u \in site : Comix!Rank(u, site, "by-number") \in Nat
      BY <1>1, RanksAreSmall DEF HistoryInv
    <3>2. (next.page - 1) * Limit = 0
      BY <2>2 DEF Listed
    <3> QED BY <1>1, <2>2, <3>1, <3>2, HistoryIs DEF Lists
  <2>7. Follows(next) /\ Captures(next) /\ Guesses(next)
    BY <2>2, IdleCall DEF Follows, Captures, Guesses
  <2> QED BY <1>1, <2>1, <2>2, <2>3, <2>4, <2>5, <2>6, <2>7, ComixGoesOn DEF CallInv
<1> QED BY <1>2, <1>3, <1>4 DEF Comix!Details

-----------------------------------------------------------------------------
(* The routes to a list.                                                   *)

(* Each upload the call began with has one of its chapter among those, or  *)
(* one at least as good where the route gives the better.                  *)
Complete(chapters, by) ==
    \A u \in Began :
        IF by = "indexes"
        THEN Number(u) # 0 => \E w \in chapters : Comix!Key(w) = Comix!Key(u)
        ELSE Covers(chapters, u)

(* A list that is kept to what is plausible still has what it must.        *)
LEMMA Closes ==
    ASSUME Listed, ComixInv, call.at \in Listing, NEW chapters \in SUBSET Seen,
           OneOfEach(chapters), NEW by \in {"list", "indexes", "capture"},
           by \notin call.failed /\ Comix!Grew /\ (by = "capture" => Len(sites) = 1) =>
               Complete(chapters, by),
           Comix!Close(chapters, by)
    PROVE  ComixInv'
<1>1. /\ HistoryInv /\ CallInv(call) /\ call.at # "idle" /\ call.op = "chapters"
      /\ call \in CallShape
  BY DEF ComixInv, CallInv, Fits, Listing
<1>2. PICK kept : kept = Comix!Plausible(chapters, call.details)
  OBVIOUS
<1>3. kept \subseteq chapters /\ chapters \subseteq Uploads
  BY <1>1, <1>2, HistoryIs DEF Comix!Plausible
<1>4. CASE kept = {}
  BY <1>1, <1>2, <1>4, Fails DEF Comix!Close
<1>5. CASE kept # {}
  <2>1. PICK rows : rows = {<<u, Comix!HasReader(u)>> : u \in kept}
    OBVIOUS
  <2>2. Comix!End("ok", by, rows, {})
    BY <1>2, <1>5, <2>1 DEF Comix!Close
  <2>3. /\ answer'.op = "chapters" /\ answer'.kind = "ok" /\ answer'.by = by
        /\ answer'.chapters = rows /\ answer'.failed = call.failed
        /\ call' = Comix!Idle /\ UNCHANGED <<site, sites>>
    BY <1>1, <2>2 DEF Comix!End
  <2>4. {c[1] : c \in rows} = kept
    <3>1. \A c \in rows : c[1] \in kept
      BY <2>1
    <3>2. ASSUME NEW u \in kept PROVE \E c \in rows : c[1] = u
      <4>1. <<u, Comix!HasReader(u)>> \in rows
        BY <2>1
      <4>2. <<u, Comix!HasReader(u)>>[1] = u
        OBVIOUS
      <4> QED BY <4>1, <4>2
    <3> QED BY <3>1, <3>2
  <2>5. Comix!ListOf' = kept
    BY <2>3, <2>4 DEF Comix!ListOf
  <2>6. Comix!ListsAreReal'
    BY <1>1, <1>3, <1>5, <2>3, <2>5, HistoryIs DEF Comix!ListsAreReal, OneOfEach, Comix!Range
  <2>7. ASSUME by \notin call.failed, Comix!Grew, by = "capture" => Len(sites) = 1
        PROVE  Comix!Chapters(Began) \subseteq Comix!Chapters(kept)
    <3>1. SUFFICES ASSUME NEW u \in Began, Comix!Key(u) # 0
                   PROVE  \E w \in kept : Comix!Key(w) = Comix!Key(u)
      BY DEF Comix!Chapters
    <3>2. u \in Uploads /\ Number(u) \in Nat /\ Number(u) # 0
      <4>1. u \in Uploads /\ Number(u) \in Nat
        BY <1>1, HistoryIs DEF Listed
      <4> QED BY <3>1, <4>1 DEF Comix!Key
    <3>3. PICK w \in chapters : Comix!Key(w) = Comix!Key(u)
      BY <2>7, <3>2 DEF Complete, Covers, AtLeast
    <3>4. Number(w) \in Nat
      BY <1>3 DEF Listed
    <3>5. Number(w) > 0 /\ Number(w) <= Number(u) + 20
      BY <3>1, <3>2, <3>3, <3>4 DEF Comix!Key
    <3>6. ASSUME call.details # None, call.details.latest \notin {None, 0}
          PROVE  Number(w) <= call.details.latest + 20
      <4>1. Number(u) <= call.details.latest
        BY <1>1, <2>7, <3>6 DEF CallInv, Knows
      <4>2. call.details.latest \in Nat
        BY <1>1, <3>6 DEF CallShape, DetailsShape
      <4> QED BY <3>2, <3>4, <3>5, <4>1, <4>2
    <3>7. w \in kept
      BY <1>2, <3>5, <3>6 DEF Comix!Plausible
    <3> QED BY <3>3, <3>7
  <2>8. ASSUME by \notin call.failed, Len(sites) = 1, by # "indexes",
               NEW u \in kept, NEW v \in Began, u # v, Comix!Key(u) = Comix!Key(v)
        PROVE  Comix!Better(u, v)
    <3>1. \A w \in Began : Covers(chapters, w)
      BY <1>1, <2>8, HistoryIs DEF Complete
    <3> QED BY <1>1, <1>3, <2>8, <3>1, BestOfAll, HistoryIs DEF OneOfEach
  <2>9. Comix!Grew' = Comix!Grew /\ sites' = sites /\ sites'[1] = Began
    BY <2>3 DEF Comix!Grew, Began
  <2>10. Comix!ListsAreComplete'
    <3>1. Comix!Chapters(sites[1]) = Comix!Chapters(Began) /\ sites[1] = Began
      BY DEF Began
    <3>2. Comix!Chapters(Comix!ListOf)' = Comix!Chapters(kept)
          /\ Comix!Chapters(sites[1])' = Comix!Chapters(Began)
      BY <2>5, <2>9, <3>1 DEF Comix!Chapters
    <3> QED BY <2>3, <2>5, <2>7, <2>8, <2>9, <3>2 DEF Comix!ListsAreComplete
  <2>11. Comix!PagesAreTheBest'
    BY <2>3 DEF Comix!PagesAreTheBest
  <2> QED BY <1>1, <2>3, <2>6, <2>10, <2>11, ComixEnds DEF Truthful
<1> QED BY <1>4, <1>5

(* Without chapters on the list, the next thing is tried.                  *)
LEMMA AfterLists ==
    ASSUME Listed, ComixInv, call.at \in {"list", "list-unordered"},
           NEW chapters \in SUBSET Seen, OneOfEach(chapters),
           chapters = {} => call.found = {},
           "list" \notin call.failed /\ Comix!Grew => Complete(chapters, "list"),
           Comix!AfterList(chapters)
    PROVE  ComixInv'
<1>1. /\ HistoryInv /\ CallInv(call) /\ call.at # "idle" /\ call.op = "chapters"
      /\ call.at \in Listing /\ call.ids # <<>> /\ call.captured = Comix!Uncaptured
      /\ call.script = Comix!Idle.script /\ call \in CallShape
  BY DEF ComixInv, CallInv, Fits, Listing
<1>2. CASE chapters # {}
  <2>1. Comix!Close(chapters, "list")
    BY <1>2 DEF Comix!AfterList
  <2> QED BY <1>1, <2>1, Closes
<1>3. CASE chapters = {} /\ call.details = None
  BY <1>1, <1>3, NextCandidates DEF Comix!AfterList
<1>4. CASE chapters = {} /\ call.details # None
  <2> DEFINE next == [call EXCEPT !.at = "indexes"]
  <2>1. next \in CallShape
    BY <1>1 DEF CallShape, Listing
  <2>2. /\ next.at = "indexes" /\ next.op = "chapters" /\ next.found = {}
        /\ next.captured = Comix!Uncaptured /\ next.script = Comix!Idle.script
        /\ next.details = call.details /\ next.ids = call.ids
    BY <1>1, <1>4 DEF CallShape
  <2>3. Comix!Continue(next)
    BY <1>4 DEF Comix!AfterList
  <2> HIDE DEF next
  <2>4. Fits(next)
    BY <1>1, <2>2 DEF Fits, Searching, Looking, Listing, Paging
  <2>5. Real(next) /\ Knows(next)
    BY <1>1, <2>2 DEF CallInv, Real, Knows, OneOfEach
  <2>6. Lists(next) /\ Follows(next) /\ Captures(next) /\ Guesses(next)
    BY <1>4, <2>2, IdleCall DEF Lists, Follows, Captures, Guesses
  <2> QED BY <1>1, <2>1, <2>2, <2>3, <2>4, <2>5, <2>6, ComixGoesOn DEF CallInv
<1> QED BY <1>2, <1>3, <1>4

(* The chapters of one more page are put with those of the others.         *)
LEMMA MoreIsFound ==
    ASSUME Listed, ComixInv, call.at # "idle", NEW items \in SUBSET Seen
    PROVE  /\ Comix!Upserted(call.found, items) \in SUBSET Seen
           /\ OneOfEach(Comix!Upserted(call.found, items))
           /\ \A u \in Uploads : Covers(call.found, u) => Covers(Comix!Upserted(call.found, items), u)
           /\ \A u \in items : Covers(Comix!Upserted(call.found, items), u)
           /\ Comix!Upserted(call.found, items) = {} => call.found = {}
<1>1. call.found \in SUBSET Seen /\ Seen \subseteq Uploads
  BY HistoryIs DEF ComixInv, CallInv, Real
<1>2. PICK found : found = Comix!Upserted(call.found, items)
  OBVIOUS
<1>3. /\ found \subseteq call.found \cup items
      /\ \A u \in Uploads : Covers(call.found \cup items, u) => Covers(found, u)
      /\ \A u, v \in found : u # v => Comix!Key(u) # Comix!Key(v)
  <2>1. call.found \in SUBSET Uploads /\ items \in SUBSET Uploads
    BY <1>1
  <2>2. /\ Comix!Upserted(call.found, items) \subseteq call.found \cup items
        /\ \A u \in Uploads : Covers(call.found \cup items, u) =>
               Covers(Comix!Upserted(call.found, items), u)
        /\ OneOfEach(Comix!Upserted(call.found, items))
    <3>1. PICK chapters \in SUBSET Uploads : chapters = call.found
      BY <2>1
    <3>2. /\ Comix!Upserted(chapters, items) \subseteq chapters \cup items
          /\ \A u \in Uploads : Covers(chapters \cup items, u) =>
                 Covers(Comix!Upserted(chapters, items), u)
          /\ OneOfEach(Comix!Upserted(chapters, items))
      BY <2>1, UpsertedCovers DEF OneOfEach
    <3> QED BY <3>1, <3>2
  <2> QED BY <1>2, <2>2 DEF OneOfEach
<1>4. \A u \in Uploads : Covers(call.found, u) => Covers(call.found \cup items, u)
  BY DEF Covers
<1>5. \A u \in call.found \cup items : u \in Uploads /\ Covers(call.found \cup items, u)
  BY <1>1, CoveredByItself
<1>6. call.found # {} => found # {}
  BY <1>3, <1>5 DEF Covers
<1> QED BY <1>1, <1>2, <1>3, <1>4, <1>5, <1>6 DEF OneOfEach

(* A page of the list has come, or a body that holds all.                  *)
LEMMA ListAtSteps ==
    ASSUME Listed, ComixInv, NEW way \in {"by-number", "as-it-comes"},
           NEW step \in {"list", "list-unordered"}, (way = "by-number") = (step = "list"),
           Comix!ListAt(way, step)
    PROVE  ComixInv'
<1>1. /\ HistoryInv /\ CallInv(call) /\ call.at # "idle" /\ call.op = "chapters"
      /\ call.at \in Listing /\ call.ids # <<>> /\ call.captured = Comix!Uncaptured
      /\ call.script = Comix!Idle.script /\ call \in CallShape /\ call.at = step
      /\ call.page \in Nat \ {0}
  BY DEF ComixInv, CallInv, Fits, Listing, CallShape, Comix!ListAt
<1>2. PICK reply \in Comix!ListReplies(way, call.page) :
        IF reply.more
        THEN Comix!Continue([call EXCEPT !.at = "list",
                                         !.found = Comix!Upserted(call.found, reply.items),
                                         !.page = @ + 1])
        ELSE Comix!AfterList(Comix!Upserted(call.found, reply.items))
  BY <1>1 DEF Comix!ListAt
<1>3. PICK found : found = Comix!Upserted(call.found, reply.items)
  OBVIOUS
<1>4. reply.items \in SUBSET site
  BY <1>2 DEF Comix!ListReplies, Comix!ListPage
<1>5. /\ found \in SUBSET Seen /\ OneOfEach(found) /\ (found = {} => call.found = {})
      /\ \A u \in Uploads : Covers(call.found, u) => Covers(found, u)
      /\ \A u \in reply.items : Covers(found, u)
  BY <1>1, <1>3, <1>4, MoreIsFound, HistoryIs
<1>6. PICK before : before = (call.page - 1) * Limit
  OBVIOUS
<1>7. PICK after : after = call.page * Limit
  OBVIOUS
<1>8. before \in Nat /\ after \in Nat /\ after = before + Limit
  BY <1>1, <1>6, <1>7 DEF Listed
<1>9. \/ reply.items = site /\ ~reply.more
      \/ /\ reply.items = {u \in site : Comix!Rank(u, site, way) \in before .. after - 1}
         /\ reply.more <=> after < Cardinality(site)
  <2>1. \/ reply = [items |-> site, more |-> FALSE]
        \/ reply = Comix!ListPage(site, way, call.page)
    BY <1>2 DEF Comix!ListReplies
  <2>2. CASE reply = [items |-> site, more |-> FALSE]
    BY <2>2
  <2>3. CASE reply = Comix!ListPage(site, way, call.page)
    <3>1. /\ reply.items = {u \in site : Comix!Rank(u, site, way)
                               \in (call.page - 1) * Limit .. call.page * Limit - 1}
          /\ reply.more = (call.page * Limit < Comix!Cardinality(site))
      BY <2>3 DEF Comix!ListPage
    <3> QED BY <1>6, <1>7, <3>1, ComixCounts
  <2> QED BY <2>1, <2>2, <2>3
<1>10. ASSUME "list" \notin call.failed, Comix!Grew, NEW u \in Began,
              Comix!Rank(u, site, "by-number") < after
       PROVE  Covers(found, u)
  <2>1. step = "list" /\ way = "by-number"
    BY <1>1, <1>10 DEF CallInv, Lists
  <2>2. u \in site /\ u \in Uploads /\ Comix!Rank(u, site, way) \in Nat
    BY <1>1, <1>10, HistoryIs, RanksAreSmall
  <2>3. CASE Comix!Rank(u, site, way) < before
    BY <1>1, <1>5, <1>6, <1>10, <2>1, <2>2, <2>3 DEF CallInv, Lists
  <2>4. CASE Comix!Rank(u, site, way) >= before
    <3>1. u \in reply.items
      BY <1>8, <1>9, <1>10, <2>1, <2>2, <2>4
    <3> QED BY <1>5, <3>1
  <2> QED BY <1>8, <2>2, <2>3, <2>4
<1>11. CASE reply.more
  <2> DEFINE next == [call EXCEPT !.at = "list", !.found = found, !.page = @ + 1]
  <2>1. Comix!Continue(next)
    BY <1>2, <1>3, <1>11
  <2>2. next \in CallShape
    <3>1. found \in SUBSET Uploads
      BY <1>1, <1>5, HistoryIs
    <3>2. call.page + 1 \in Nat \ {0}
      BY <1>1
    <3> QED BY <1>1, <3>1, <3>2 DEF CallShape, Listing
  <2>3. /\ next.at = "list" /\ next.op = "chapters" /\ next.found = found
        /\ next.captured = Comix!Uncaptured /\ next.script = Comix!Idle.script
        /\ next.details = call.details /\ next.ids = call.ids /\ next.failed = call.failed
        /\ next.page = call.page + 1
    BY <1>1 DEF CallShape
  <2> HIDE DEF next
  <2>4. Fits(next)
    BY <1>1, <2>3 DEF Fits, Searching, Looking, Listing, Paging
  <2>5. Real(next) /\ Knows(next)
    BY <1>1, <1>5, <2>3 DEF CallInv, Real, Knows
  <2>6. (next.page - 1) * Limit = after
    BY <1>1, <1>7, <2>3 DEF Listed
  <2>7. Lists(next)
    BY <1>10, <2>3, <2>6 DEF Lists
  <2>8. Follows(next) /\ Captures(next) /\ Guesses(next)
    BY <2>3, IdleCall DEF Follows, Captures, Guesses
  <2> QED BY <1>1, <2>1, <2>2, <2>3, <2>4, <2>5, <2>7, <2>8, ComixGoesOn DEF CallInv
<1>12. CASE ~reply.more
  <2>1. ASSUME "list" \notin call.failed, Comix!Grew PROVE Complete(found, "list")
    <3>1. SUFFICES ASSUME NEW u \in Began PROVE Covers(found, u)
      BY DEF Complete
    <3>2. /\ u \in site /\ u \in Uploads /\ Comix!Rank(u, site, way) \in Nat
          /\ Comix!Rank(u, site, way) < Cardinality(site) /\ Cardinality(site) \in Nat
      BY <1>1, <2>1, HistoryIs, RanksAreSmall
    <3>3. way = "by-number"
      BY <1>1, <2>1 DEF CallInv, Lists
    <3>4. CASE reply.items = site
      BY <1>5, <3>2, <3>4
    <3>5. CASE ~(after < Cardinality(site))
      <4>1. Comix!Rank(u, site, "by-number") < after
        BY <1>8, <3>2, <3>3, <3>5
      <4> QED BY <1>10, <2>1, <4>1
    <3> QED BY <1>9, <1>12, <3>4, <3>5
  <2> QED BY <1>1, <1>2, <1>3, <1>5, <1>12, <2>1, AfterLists
<1> QED BY <1>11, <1>12

LEMMA ChapterListSteps == Listed /\ ComixInv /\ Comix!ChapterList => ComixInv'
<1> SUFFICES ASSUME Listed, ComixInv, Comix!ChapterList PROVE ComixInv'
  OBVIOUS
<1>1. CASE Comix!ListAt("by-number", "list")
  BY <1>1, ListAtSteps
<1>2. CASE Comix!ListAt("as-it-comes", "list-unordered")
  BY <1>2, ListAtSteps
<1>3. CASE call.at = "list" /\ Comix!Failing("list-unordered", "list")
  <2>1. /\ CallInv(call) /\ call.at # "idle" /\ call.op = "chapters" /\ call.ids # <<>>
        /\ call.captured = Comix!Uncaptured /\ call.script = Comix!Idle.script
        /\ call \in CallShape
    BY <1>3 DEF ComixInv, CallInv, Fits, Listing
  <2> DEFINE next == [call EXCEPT !.at = "list-unordered", !.failed = @ \cup {"list"}]
  <2>2. Comix!Continue(next)
    BY <1>3 DEF Comix!Failing
  <2>3. next \in CallShape
    BY <2>1 DEF CallShape, Listing
  <2>4. /\ next.at = "list-unordered" /\ next.op = "chapters" /\ next.found = call.found
        /\ next.captured = Comix!Uncaptured /\ next.script = Comix!Idle.script
        /\ next.details = call.details /\ next.ids = call.ids /\ "list" \in next.failed
    BY <2>1 DEF CallShape
  <2> HIDE DEF next
  <2>5. Fits(next)
    BY <2>1, <2>4 DEF Fits, Searching, Looking, Listing, Paging
  <2>6. Real(next) /\ Knows(next)
    BY <2>1, <2>4 DEF CallInv, Real, Knows
  <2>7. Lists(next) /\ Follows(next) /\ Captures(next) /\ Guesses(next)
    BY <2>4, IdleCall DEF Lists, Follows, Captures, Guesses
  <2> QED BY <2>1, <2>2, <2>3, <2>4, <2>5, <2>6, <2>7, ComixGoesOn DEF CallInv
<1>4. CASE call.at = "list-unordered" /\ Comix!AfterList(call.found)
  <2>1. "list" \in call.failed /\ call.found \in SUBSET Seen /\ OneOfEach(call.found)
    BY <1>4 DEF ComixInv, CallInv, Lists, Real
  <2> QED BY <1>4, <2>1, AfterLists
<1> QED BY <1>1, <1>2, <1>3, <1>4 DEF Comix!ChapterList

(* After the indexes there is the browser.                                 *)
LEMMA AfterIndexesSteps ==
    ASSUME Listed, ComixInv, call.at = "indexes" \/ (call.at = "index" /\ call.todo = {}),
           Comix!AfterIndexes
    PROVE  ComixInv'
<1>1. /\ HistoryInv /\ CallInv(call) /\ call.at # "idle" /\ call.op = "chapters"
      /\ call.at \in Listing /\ call.ids # <<>> /\ call.captured = Comix!Uncaptured
      /\ call.script = Comix!Idle.script /\ call \in CallShape
      /\ call.found \in SUBSET Seen /\ OneOfEach(call.found)
  BY DEF ComixInv, CallInv, Fits, Listing, Real
<1>2. CASE call.found # {} /\ Comix!Close(call.found, "indexes")
  <2>1. call.at = "index" /\ call.todo = {} /\ call.details.title = "slug"
    BY <1>1, <1>2 DEF CallInv, Follows
  <2>2. ASSUME "indexes" \notin call.failed, Comix!Grew PROVE Complete(call.found, "indexes")
    BY <1>1, <2>1, <2>2 DEF CallInv, Follows, Complete, KeyFound
  <2> QED BY <1>1, <1>2, <2>2, Closes
<1>3. CASE Comix!NextCandidate
  BY <1>1, <1>3, NextCandidates
<1>4. CASE call.found = {} /\ Comix!Continue([call EXCEPT !.at = "capture"])
  <2> DEFINE next == [call EXCEPT !.at = "capture"]
  <2>1. next \in CallShape
    BY <1>1 DEF CallShape, Listing
  <2>2. /\ next.at = "capture" /\ next.op = "chapters" /\ next.found = {}
        /\ next.captured = Comix!Uncaptured /\ next.script = Comix!Idle.script
        /\ next.details = call.details /\ next.ids = call.ids
    BY <1>1, <1>4 DEF CallShape
  <2>3. Comix!Continue(next)
    BY <1>4
  <2> HIDE DEF next
  <2>4. Fits(next)
    BY <1>1, <2>2 DEF Fits, Searching, Looking, Listing, Paging
  <2>5. Real(next) /\ Knows(next)
    BY <1>1, <2>2 DEF CallInv, Real, Knows, OneOfEach
  <2>6. Lists(next) /\ Follows(next) /\ Captures(next) /\ Guesses(next)
    BY <1>1, <2>2, IdleCall
       DEF CallInv, Lists, Follows, Captures, Guesses, Comix!Uncaptured
  <2> QED BY <1>1, <2>1, <2>2, <2>3, <2>4, <2>5, <2>6, ComixGoesOn DEF CallInv
<1> QED BY <1>2, <1>3, <1>4 DEF Comix!AfterIndexes

(* A call that follows the indexes and goes on.                            *)
LEMMA FollowsOn ==
    ASSUME ComixInv, call.at \in {"indexes", "index", "chapter"}, NEW next, Comix!Continue(next),
           next.at \in {"index", "chapter"}, next \in CallShape,
           /\ next.op = call.op /\ next.captured = call.captured /\ next.script = call.script
           /\ next.details = call.details /\ next.ids = call.ids,
           next.found \subseteq Seen, OneOfEach(next.found), Follows(next)
    PROVE  ComixInv'
<1>1. /\ CallInv(call) /\ call.at # "idle" /\ call.op = "chapters"
      /\ call.ids # <<>> /\ call.captured = Comix!Uncaptured
      /\ call.script = Comix!Idle.script
  BY DEF ComixInv, CallInv, Fits, Listing
<1>2. Fits(next)
  BY <1>1 DEF Fits, Searching, Looking, Listing, Paging
<1>3. Real(next) /\ Knows(next)
  BY <1>1 DEF CallInv, Real, Knows
<1>4. Lists(next) /\ Captures(next) /\ Guesses(next)
  BY <1>1, IdleCall DEF Lists, Captures, Guesses
<1> QED BY <1>1, <1>2, <1>3, <1>4, ComixGoesOn DEF CallInv

LEMMA IndexesSteps == Listed /\ ComixInv /\ Comix!Indexes => ComixInv'
<1> SUFFICES ASSUME Listed, ComixInv, Comix!Indexes PROVE ComixInv'
  OBVIOUS
<1>1. /\ HistoryInv /\ CallInv(call) /\ call.at = "indexes" /\ call \in CallShape
      /\ call.found = {} /\ call.details # None
  BY DEF ComixInv, CallInv, Follows, Comix!Indexes
<1>2. CASE Comix!AfterIndexes
  BY <1>1, <1>2, AfterIndexesSteps
<1>3. CASE ~Comix!AfterIndexes
  <2>1. PICK readers : /\ readers = IF call.details.title = "slug"
                                    THEN {Number(u) : u \in site} \ {0} ELSE {}
                       /\ Comix!Continue([call EXCEPT !.at = "index", !.todo = readers])
    BY <1>3 DEF Comix!Indexes
  <2>2. readers \in SUBSET Nat
    BY <1>1, <2>1 DEF Listed, HistoryInv
  <2> DEFINE next == [call EXCEPT !.at = "index", !.todo = readers]
  <2>3. next \in CallShape
    BY <1>1, <2>2 DEF CallShape, Listing
  <2>4. /\ next.at = "index" /\ next.todo = readers /\ next.found = {} /\ next.op = call.op
        /\ next.captured = call.captured /\ next.script = call.script
        /\ next.details = call.details /\ next.ids = call.ids
    BY <1>1 DEF CallShape
  <2>5. Comix!Continue(next)
    BY <2>1
  <2> HIDE DEF next
  <2>6. Follows(next)
    <3>1. CASE call.details.title = "slug"
      <4>1. ASSUME Comix!Grew, NEW u \in Began, Number(u) # 0 PROVE Number(u) \in readers
        BY <1>1, <2>1, <3>1, <4>1, HistoryIs
      <4> QED BY <1>1, <2>4, <3>1, <4>1 DEF Follows
    <3>2. CASE call.details.title # "slug"
      BY <1>1, <2>1, <2>4, <3>2 DEF Follows
    <3> QED BY <3>1, <3>2
  <2> QED BY <1>1, <2>3, <2>4, <2>5, <2>6, FollowsOn DEF OneOfEach
<1> QED BY <1>2, <1>3

LEMMA IndexSteps == Listed /\ ComixInv /\ Comix!Index => ComixInv'
<1> SUFFICES ASSUME Listed, ComixInv, Comix!Index PROVE ComixInv'
  OBVIOUS
<1>1. /\ HistoryInv /\ CallInv(call) /\ call.at = "index" /\ call \in CallShape
      /\ call.found \subseteq Seen /\ OneOfEach(call.found) /\ Follows(call)
      /\ call.details # None
  BY DEF ComixInv, CallInv, Follows, Real, Comix!Index
<1>2. CASE call.todo = {}
  BY <1>1, <1>2, AfterIndexesSteps DEF Comix!Index
<1>3. CASE call.todo # {}
  <2>1. PICK n \in call.todo :
          \/ \E u \in site : Number(u) = n /\
               Comix!Continue([[call EXCEPT !.todo = @ \ {n}] EXCEPT !.at = "chapter", !.chosen = u])
          \/ Comix!Continue([[call EXCEPT !.todo = @ \ {n}] EXCEPT
                                !.failed = @ \cup {"indexes"}])
    BY <1>3 DEF Comix!Index
  <2>2. call.details.title = "slug" /\ call.todo \in SUBSET Nat
    BY <1>1, <2>1 DEF Follows, CallShape
  <2>3. ASSUME NEW u \in site, Number(u) = n,
               Comix!Continue([[call EXCEPT !.todo = @ \ {n}] EXCEPT !.at = "chapter",
                                                                     !.chosen = u])
        PROVE  ComixInv'
    <3> DEFINE next == [[call EXCEPT !.todo = @ \ {n}] EXCEPT !.at = "chapter", !.chosen = u]
    <3>1. u \in Uploads
      BY <1>1, <2>3 DEF HistoryInv
    <3>2. next \in CallShape
      BY <1>1, <2>2, <3>1 DEF CallShape, Listing
    <3>3. /\ next.at = "chapter" /\ next.todo = call.todo \ {n} /\ next.found = call.found
          /\ next.op = call.op /\ next.captured = call.captured /\ next.script = call.script
          /\ next.details = call.details /\ next.ids = call.ids /\ next.chosen = u
          /\ next.failed = call.failed
      BY <1>1 DEF CallShape
    <3>4. Comix!Continue(next)
      BY <2>3
    <3> HIDE DEF next
    <3>5. Follows(next)
      BY <1>1, <2>2, <2>3, <3>1, <3>3 DEF Follows, KeyFound
    <3> QED BY <1>1, <3>2, <3>3, <3>4, <3>5, FollowsOn
  <2>4. CASE Comix!Continue([[call EXCEPT !.todo = @ \ {n}] EXCEPT
                                !.failed = @ \cup {"indexes"}])
    <3> DEFINE next == [[call EXCEPT !.todo = @ \ {n}] EXCEPT !.failed = @ \cup {"indexes"}]
    <3>1. next \in CallShape
      BY <1>1, <2>2 DEF CallShape
    <3>2. /\ next.at = "index" /\ next.todo = call.todo \ {n} /\ next.found = call.found
          /\ next.op = call.op /\ next.captured = call.captured /\ next.script = call.script
          /\ next.details = call.details /\ next.ids = call.ids /\ "indexes" \in next.failed
      BY <1>1 DEF CallShape
    <3>3. Comix!Continue(next)
      BY <2>4
    <3> HIDE DEF next
    <3>4. Follows(next)
      BY <1>1, <2>2, <3>2 DEF Follows
    <3> QED BY <1>1, <3>1, <3>2, <3>3, <3>4, FollowsOn
  <2> QED BY <2>1, <2>3, <2>4
<1> QED BY <1>2, <1>3

LEMMA ChapterSteps == Listed /\ ComixInv /\ Comix!Chapter => ComixInv'
<1> SUFFICES ASSUME Listed, ComixInv, Comix!Chapter PROVE ComixInv'
  OBVIOUS
<1>1. /\ HistoryInv /\ CallInv(call) /\ call.at = "chapter" /\ call \in CallShape
      /\ call.found \subseteq Seen /\ OneOfEach(call.found) /\ Follows(call)
      /\ call.details # None /\ call.details.title = "slug" /\ call.chosen \in Uploads
  BY DEF ComixInv, CallInv, Follows, Real, Comix!Chapter
<1> DEFINE rest == [call EXCEPT !.at = "index", !.chosen = None]
<1>2. /\ rest \in CallShape /\ rest.at = "index" /\ rest.todo = call.todo
      /\ rest.found = call.found /\ rest.op = call.op /\ rest.captured = call.captured
      /\ rest.script = call.script /\ rest.details = call.details /\ rest.ids = call.ids
      /\ rest.failed = call.failed
  BY <1>1 DEF CallShape, Listing
<1>3. \/ /\ call.chosen \in site
         /\ Comix!Continue([rest EXCEPT !.found = Comix!Upserted(rest.found, {call.chosen})])
      \/ Comix!Continue([rest EXCEPT !.failed = @ \cup {"indexes"}])
  BY <1>2 DEF Comix!Chapter
<1> HIDE DEF rest
<1>4. CASE /\ call.chosen \in site
           /\ Comix!Continue([rest EXCEPT !.found = Comix!Upserted(rest.found, {call.chosen})])
  <2>1. PICK found : found = Comix!Upserted(call.found, {call.chosen})
    OBVIOUS
  <2>2. /\ found \in SUBSET Seen /\ OneOfEach(found) /\ found \in SUBSET Uploads
        /\ \A u \in Uploads : Covers(call.found, u) => Covers(found, u)
        /\ Covers(found, call.chosen)
    <3>1. {call.chosen} \in SUBSET Seen
      BY <1>1, <1>4, HistoryIs
    <3> QED BY <1>1, <2>1, <3>1, MoreIsFound, HistoryIs
  <2> DEFINE next == [rest EXCEPT !.found = found]
  <2>3. next \in CallShape
    BY <1>2, <2>2 DEF CallShape
  <2>4. /\ next.at = "index" /\ next.todo = call.todo /\ next.found = found
        /\ next.op = call.op /\ next.captured = call.captured /\ next.script = call.script
        /\ next.details = call.details /\ next.ids = call.ids /\ next.failed = call.failed
    BY <1>2 DEF CallShape
  <2>5. Comix!Continue(next)
    BY <1>2, <1>4, <2>1
  <2> HIDE DEF next
  <2>6. ASSUME NEW u \in Uploads, KeyFound(call, u) PROVE KeyFound(next, u)
    <3>1. PICK w \in call.found : Comix!Key(w) = Comix!Key(u)
      BY <2>6 DEF KeyFound
    <3>2. w \in Uploads /\ Covers(call.found, w)
      BY <1>1, <3>1, CoveredByItself, HistoryIs
    <3> QED BY <2>2, <2>4, <3>1, <3>2 DEF Covers, AtLeast, KeyFound
  <2>7. ASSUME NEW u \in Uploads, Number(call.chosen) = Number(u) PROVE KeyFound(next, u)
    BY <2>2, <2>4, <2>7 DEF Covers, AtLeast, KeyFound, Comix!Key
  <2>8. Began \subseteq Uploads
    BY <1>1, HistoryIs
  <2>9. Follows(next)
    BY <1>1, <2>4, <2>6, <2>7, <2>8 DEF Follows
  <2> QED BY <1>1, <2>2, <2>3, <2>4, <2>5, <2>9, FollowsOn
<1>5. CASE Comix!Continue([rest EXCEPT !.failed = @ \cup {"indexes"}])
  <2> DEFINE next == [rest EXCEPT !.failed = @ \cup {"indexes"}]
  <2>1. next \in CallShape
    BY <1>2 DEF CallShape
  <2>2. /\ next.at = "index" /\ next.todo = call.todo /\ next.found = call.found
        /\ next.op = call.op /\ next.captured = call.captured /\ next.script = call.script
        /\ next.details = call.details /\ next.ids = call.ids /\ "indexes" \in next.failed
    BY <1>2 DEF CallShape
  <2>3. Comix!Continue(next)
    BY <1>5
  <2> HIDE DEF next
  <2>4. Follows(next)
    BY <1>1, <2>2 DEF Follows
  <2> QED BY <1>1, <2>1, <2>2, <2>3, <2>4, FollowsOn
<1> QED BY <1>3, <1>4, <1>5

(* Each place of a list that its pages reach is on one of them.            *)
LEMMA PageOf ==
    ASSUME NEW rank \in Nat, NEW n \in Nat \ {0}, NEW size \in Nat \ {0}, rank < n * size
    PROVE  \E m \in 1 .. n : rank \in (m - 1) * size .. m * size - 1
<1> DEFINE P == {m \in Nat : rank < m * size}
<1>1. P \in SUBSET Nat /\ n \in P
  OBVIOUS
<1> HIDE DEF P
<1>2. PICK m \in P : \A k \in 0 .. m - 1 : k \notin P
  BY <1>1, SmallestNumber
<1>3. m \in Nat /\ rank < m * size /\ m # 0
  BY <1>2 DEF P
<1>4. m - 1 \in Nat /\ m - 1 \notin P
  BY <1>2, <1>3
<1>5. ~(rank < (m - 1) * size)
  BY <1>4 DEF P
<1>6. m <= n
  <2>1. ~(n \in 0 .. m - 1)
    BY <1>1, <1>2
  <2> QED BY <1>3, <2>1
<1>7. m * size \in Nat /\ (m - 1) * size \in Nat
  BY <1>3, <1>4
<1> QED BY <1>3, <1>5, <1>6, <1>7

(* The browser has seen one more page.                                     *)
LEMMA CapturedSteps ==
    ASSUME Listed, ComixInv, call.at = "capture", NEW n \in Nat \ {0}, Comix!Captured(n)
    PROVE  ComixInv'
<1>1. /\ HistoryInv /\ CallInv(call) /\ call.op = "chapters" /\ call.at \in Listing
      /\ call \in CallShape /\ call.ids # <<>> /\ call.script = Comix!Idle.script
      /\ call.details # None
      /\ call.captured \in [pages : SUBSET Nat, chapters : SUBSET Uploads]
      /\ call.captured.chapters \subseteq Seen /\ call.found \subseteq Seen
  BY DEF ComixInv, CallInv, Fits, Follows, CallShape, Listing, Real
<1>2. PICK reply : reply = Comix!ListPage(site, "by-number", n)
  OBVIOUS
<1>3. PICK pages : pages = call.captured.pages \cup {n}
  OBVIOUS
<1>4. PICK chapters : chapters = call.captured.chapters \cup reply.items
  OBVIOUS
<1>5. /\ reply.items = {u \in site : OnPage(u, n)}
      /\ reply.more <=> n * Limit < Cardinality(site)
  <2>1. /\ reply.items = {u \in site : OnPage(u, n)}
        /\ reply.more = (n * Limit < Comix!Cardinality(site))
    BY <1>2 DEF Comix!ListPage, OnPage
  <2> QED BY <2>1, ComixCounts
<1>6. /\ chapters \subseteq Seen /\ chapters \in SUBSET Uploads /\ pages \in SUBSET Nat
      /\ site \subseteq Seen
  BY <1>1, <1>3, <1>4, <1>5, HistoryIs
<1>7. ASSUME Len(sites) = 1, NEW u \in site, NEW m \in pages, OnPage(u, m) PROVE u \in chapters
  BY <1>1, <1>3, <1>4, <1>5, <1>7 DEF CallInv, Captures
<1>8. IF ~Comix!Done(reply, n, pages)
      THEN Comix!Continue([call EXCEPT !.captured = [pages |-> pages, chapters |-> chapters]])
      ELSE IF chapters = {} THEN Comix!NextCandidate
      ELSE Comix!Close(Comix!Upserted({}, chapters), "capture")
  BY <1>2, <1>3, <1>4 DEF Comix!Captured
<1>9. CASE ~Comix!Done(reply, n, pages)
  <2> DEFINE sofar == [pages |-> pages, chapters |-> chapters]
             next == [call EXCEPT !.captured = sofar]
  <2>1. sofar \in [pages : SUBSET Nat, chapters : SUBSET Uploads]
        /\ sofar.pages = pages /\ sofar.chapters = chapters
    BY <1>6
  <2> HIDE DEF sofar
  <2>2. next \in CallShape
    BY <1>1, <2>1 DEF CallShape
  <2>3. /\ next.at = "capture" /\ next.op = "chapters" /\ next.found = call.found
        /\ next.captured = sofar /\ next.script = Comix!Idle.script
        /\ next.details = call.details /\ next.ids = call.ids
    BY <1>1 DEF CallShape
  <2>4. Comix!Continue(next)
    BY <1>8, <1>9 DEF sofar
  <2> HIDE DEF next
  <2>5. Fits(next)
    BY <1>1, <2>3 DEF Fits, Searching, Looking, Listing, Paging
  <2>6. Real(next) /\ Knows(next)
    BY <1>1, <1>6, <2>1, <2>3 DEF CallInv, Real, Knows
  <2>7. Captures(next)
    BY <1>7, <2>1, <2>3 DEF Captures
  <2>8. Lists(next) /\ Follows(next) /\ Guesses(next)
    BY <1>1, <2>3, IdleCall DEF Lists, Follows, Guesses
  <2> QED BY <1>1, <2>2, <2>3, <2>4, <2>5, <2>6, <2>7, <2>8, ComixGoesOn DEF CallInv
<1>10. CASE Comix!Done(reply, n, pages) /\ chapters = {}
  BY <1>1, <1>8, <1>10, NextCandidates
<1>11. CASE Comix!Done(reply, n, pages) /\ chapters # {}
  <2>1. PICK best : best = Comix!Upserted({}, chapters)
    OBVIOUS
  <2>2. /\ best \in SUBSET Seen /\ OneOfEach(best)
        /\ \A u \in chapters : Covers(best, u)
    <3>1. /\ Comix!Upserted({}, chapters) \subseteq {} \cup chapters
          /\ \A u \in Uploads : Covers({} \cup chapters, u) => Covers(Comix!Upserted({}, chapters), u)
          /\ OneOfEach(Comix!Upserted({}, chapters))
      BY <1>6, UpsertedCovers DEF OneOfEach
    <3>2. {} \cup chapters = chapters /\ \A u \in chapters : Covers(chapters, u)
      BY CoveredByItself
    <3> QED BY <1>6, <2>1, <3>1, <3>2
  <2>3. ~(n * Limit < Cardinality(site)) /\ 1 .. n \subseteq pages
    BY <1>5, <1>11 DEF Comix!Done
  <2>4. ASSUME Len(sites) = 1 PROVE Complete(best, "capture")
    <3>1. SUFFICES ASSUME NEW u \in site PROVE u \in chapters
      BY <1>1, <2>2, <2>4, HistoryIs DEF Complete
    <3>2. PICK rank \in Nat : /\ rank = Comix!Rank(u, site, "by-number")
                              /\ rank < Cardinality(site) /\ Cardinality(site) \in Nat
      BY <1>1, RanksAreSmall DEF HistoryInv
    <3>3. \E m \in 1 .. n : rank \in (m - 1) * Limit .. m * Limit - 1
      <4>1. rank < n * Limit /\ Limit \in Nat \ {0}
        <5>1. n * Limit \in Nat /\ Limit \in Nat \ {0}
          BY DEF Listed
        <5> QED BY <2>3, <3>2, <5>1
      <4> QED BY <3>2, <4>1, PageOf
    <3> QED BY <1>7, <2>3, <2>4, <3>2, <3>3 DEF OnPage
  <2>5. Comix!Close(best, "capture")
    BY <1>8, <1>11, <2>1
  <2> QED BY <1>1, <2>2, <2>4, <2>5, Closes
<1> QED BY <1>9, <1>10, <1>11

LEMMA ChapterCaptureSteps == Listed /\ ComixInv /\ Comix!ChapterCapture => ComixInv'
<1> SUFFICES ASSUME Listed, ComixInv, Comix!ChapterCapture PROVE ComixInv'
  OBVIOUS
<1>1. call.at = "capture" /\ call.at \in Listing
  BY DEF Comix!ChapterCapture, Listing
<1>2. ASSUME NEW n \in 1 .. Comix!Cardinality(Uploads), Comix!Captured(n) PROVE ComixInv'
  <2>1. Comix!Cardinality(Uploads) \in Nat
    BY ComixCounts, FS_CardinalityType DEF Listed
  <2> QED BY <1>1, <1>2, <2>1, CapturedSteps
<1>3. CASE Comix!NextCandidate
  BY <1>1, <1>3, NextCandidates
<1> QED BY <1>2, <1>3 DEF Comix!ChapterCapture

-----------------------------------------------------------------------------
(* The pages of a chapter.                                                 *)

(* A call for pages goes on.                                               *)
LEMMA PagesGoOn ==
    ASSUME ComixInv, call.at \in Paging, NEW next, Comix!Continue(next), next.at \in Paging,
           next \in CallShape,
           /\ next.op = call.op /\ next.captured = call.captured /\ next.found = call.found
           /\ next.details = call.details,
           next.at # "page-capture" => next.script = Comix!Idle.script, Guesses(next)
    PROVE  ComixInv'
<1>1. /\ CallInv(call) /\ call.at # "idle" /\ call.op = "pages"
      /\ call.captured = Comix!Uncaptured
  BY DEF ComixInv, CallInv, Fits, Paging
<1>2. Fits(next)
  BY <1>1 DEF Fits, Searching, Looking, Listing, Paging
<1>3. Real(next) /\ Knows(next)
  BY <1>1 DEF CallInv, Real, Knows
<1>4. Lists(next) /\ Captures(next) /\ Follows(next)
  BY <1>1 DEF Lists, Captures, Follows, Paging
<1> QED BY <1>1, <1>2, <1>3, <1>4, ComixGoesOn DEF CallInv, Paging

LEMMA PageApiSteps == ComixInv /\ Comix!PageApi => ComixInv'
<1> SUFFICES ASSUME ComixInv, Comix!PageApi PROVE ComixInv'
  OBVIOUS
<1>1. /\ CallInv(call) /\ call.at = "page-api" /\ call.at \in Paging /\ call.op = "pages"
      /\ call.chapter \in {"numeric", "reader"} /\ call \in CallShape
      /\ call.script = Comix!Idle.script
  BY DEF ComixInv, CallInv, Fits, Guesses, Paging, Comix!PageApi
<1>2. \/ \E pages \in Comix!PageLists : call.chapter = "reader" /\ "scrambled" \in pages /\
              Comix!Continue([call EXCEPT !.at = "page-capture", !.listed = pages])
      \/ \E pages \in Comix!PageLists : ~(call.chapter = "reader" /\ "scrambled" \in pages) /\
              Comix!PagesFrom("api", pages)
      \/ call.chapter = "reader" /\ Comix!Failing("page-capture", "api")
      \/ Comix!Fail
  BY DEF Comix!PageApi
<1>3. ASSUME NEW pages \in Comix!PageLists,
             Comix!Continue([call EXCEPT !.at = "page-capture", !.listed = pages])
      PROVE  ComixInv'
  <2> DEFINE next == [call EXCEPT !.at = "page-capture", !.listed = pages]
  <2>1. pages \in SUBSET Kinds
    BY DEF Comix!PageLists, Comix!Kind, Kinds
  <2>2. next \in CallShape
    BY <1>1, <2>1 DEF CallShape, Paging
  <2>3. /\ next.at = "page-capture" /\ next.op = call.op /\ next.captured = call.captured
        /\ next.found = call.found /\ next.details = call.details /\ next.script = call.script
    BY <1>1 DEF CallShape
  <2>4. Comix!Continue(next)
    BY <1>3
  <2> HIDE DEF next
  <2>5. Guesses(next)
    BY <1>1, <2>3, IdleCall DEF Guesses
  <2> QED BY <1>1, <2>2, <2>3, <2>4, <2>5, PagesGoOn DEF Paging
<1>4. ASSUME NEW pages \in Comix!PageLists, ~(call.chapter = "reader" /\ "scrambled" \in pages),
             Comix!PagesFrom("api", pages)
      PROVE  ComixInv'
  BY <1>1, <1>4, EndsNoList DEF Comix!PagesFrom
<1>5. CASE Comix!Failing("page-capture", "api")
  <2> DEFINE next == [call EXCEPT !.at = "page-capture", !.failed = @ \cup {"api"}]
  <2>1. next \in CallShape
    BY <1>1 DEF CallShape, Paging
  <2>2. /\ next.at = "page-capture" /\ next.op = call.op /\ next.captured = call.captured
        /\ next.found = call.found /\ next.details = call.details /\ next.script = call.script
    BY <1>1 DEF CallShape
  <2>3. Comix!Continue(next)
    BY <1>5 DEF Comix!Failing
  <2> HIDE DEF next
  <2>4. Guesses(next)
    BY <1>1, <2>2, IdleCall DEF Guesses
  <2> QED BY <1>1, <2>1, <2>2, <2>3, <2>4, PagesGoOn DEF Paging
<1>6. CASE Comix!Fail
  BY <1>1, <1>6, Fails
<1> QED BY <1>2, <1>3, <1>4, <1>5, <1>6

(* The script in the browser goes on.                                      *)
LEMMA ScriptGoesOn ==
    ASSUME ComixInv, call.at = "page-capture", NEW script \in ScriptShape,
           Comix!Continue([call EXCEPT !.script = script]),
           script.decoding = "done" => script.payloads # <<>>,
           script.payloads # <<>> /\ script.payloads[1].by = "guessed" =>
               script.decoding = "failed"
    PROVE  ComixInv'
<1>1. CallInv(call) /\ call \in CallShape
  BY DEF ComixInv, CallInv
<1> DEFINE next == [call EXCEPT !.script = script]
<1>2. next \in CallShape
  BY <1>1 DEF CallShape
<1>3. /\ next.at = "page-capture" /\ next.op = call.op /\ next.captured = call.captured
      /\ next.found = call.found /\ next.details = call.details /\ next.script = script
  BY <1>1 DEF CallShape
<1>4. Comix!Continue(next)
  OBVIOUS
<1> HIDE DEF next
<1>5. Guesses(next)
  BY <1>3 DEF Guesses
<1> QED BY <1>2, <1>3, <1>4, <1>5, PagesGoOn DEF Paging

LEMMA PageDecodeSteps == ComixInv /\ Comix!PageDecode => ComixInv'
<1> SUFFICES ASSUME ComixInv, Comix!PageDecode PROVE ComixInv'
  OBVIOUS
<1>1. /\ call.at = "page-capture" /\ call \in CallShape /\ call.script \in ScriptShape
      /\ Guesses(call) /\ call.script.decoding = "pending"
  BY DEF ComixInv, CallInv, CallShape, Comix!PageDecode, Comix!Opened
<1>2. PICK old \in ScriptShape : old = call.script
  BY <1>1
<1>3. ASSUME NEW pages \in Comix!SiteLists, NEW drawn \in Comix!Decoded(pages),
             Comix!Continue([call EXCEPT !.script.decoding = "done",
                    !.script.payloads = <<Comix!Payload("decoded", drawn)>> \o @])
      PROVE  ComixInv'
  <2>1. PICK first : first = Comix!Payload("decoded", drawn)
    OBVIOUS
  <2> DEFINE payload == [by : {"decoded", "parsed", "guessed"}, pages : SUBSET Kinds]
             payloads == <<first>> \o old.payloads
             script == [old EXCEPT !.decoding = "done", !.payloads = payloads]
  <2>2. drawn \in SUBSET Kinds
    BY DEF Comix!Decoded, Comix!SiteLists, Comix!Kind, Kinds
  <2>3. first \in payload /\ first.by = "decoded" /\ old.payloads \in Seq(payload)
    BY <1>2, <2>1, <2>2 DEF Comix!Payload, ScriptShape
  <2> HIDE DEF payload
  <2>4. <<first>> \in Seq(payload) /\ payloads \in Seq(payload) /\ payloads # <<>>
        /\ payloads[1] = first
    BY <2>3
  <2> HIDE DEF payloads
  <2>5. script \in ScriptShape /\ script.decoding = "done" /\ script.payloads = payloads
    BY <1>2, <2>4 DEF ScriptShape, payload
  <2>6. [call EXCEPT !.script.decoding = "done",
                     !.script.payloads = <<Comix!Payload("decoded", drawn)>> \o @]
            = [call EXCEPT !.script = script]
    BY <1>1, <1>2, <2>1 DEF payloads, CallShape, ScriptShape
  <2> HIDE DEF script
  <2>7. Comix!Continue([call EXCEPT !.script = script])
    BY <1>3, <2>6
  <2> QED BY <1>1, <2>3, <2>4, <2>5, <2>7, ScriptGoesOn
<1>4. CASE Comix!Continue([call EXCEPT !.script.decoding = "failed"])
  <2> DEFINE script == [old EXCEPT !.decoding = "failed"]
  <2>1. script \in ScriptShape /\ script.decoding = "failed"
    BY <1>2 DEF ScriptShape
  <2>2. [call EXCEPT !.script.decoding = "failed"] = [call EXCEPT !.script = script]
    BY <1>1, <1>2 DEF CallShape, ScriptShape
  <2> HIDE DEF script
  <2>3. Comix!Continue([call EXCEPT !.script = script])
    BY <1>4, <2>2
  <2> QED BY <1>1, <2>1, <2>3, ScriptGoesOn
<1> QED BY <1>1, <1>3, <1>4 DEF Comix!PageDecode

(* One more payload when there was none.                                   *)
LEMMA PayloadSteps ==
    ASSUME ComixInv, call.at = "page-capture", NEW by \in {"parsed", "guessed"},
           NEW pages \in SUBSET Kinds, by = "guessed" => call.script.decoding = "failed",
           Comix!Continue([call EXCEPT !.script.payloads = <<Comix!Payload(by, pages)>>])
    PROVE  ComixInv'
<1>1. call \in CallShape /\ call.script \in ScriptShape
  BY DEF ComixInv, CallInv, CallShape
<1>2. PICK old \in ScriptShape : old = call.script
  BY <1>1
<1>3. PICK first : first = Comix!Payload(by, pages)
  OBVIOUS
<1> DEFINE payload == [by : {"decoded", "parsed", "guessed"}, pages : SUBSET Kinds]
           script == [old EXCEPT !.payloads = <<first>>]
<1>4. first \in payload /\ first.by = by
  BY <1>3 DEF Comix!Payload
<1> HIDE DEF payload
<1>5. <<first>> \in Seq(payload) /\ <<first>> # <<>> /\ <<first>>[1] = first
  BY <1>4
<1>6. script \in ScriptShape /\ script.decoding = old.decoding /\ script.payloads = <<first>>
  BY <1>2, <1>5 DEF ScriptShape, payload
<1>7. [call EXCEPT !.script.payloads = <<Comix!Payload(by, pages)>>]
          = [call EXCEPT !.script = script]
  BY <1>1, <1>2, <1>3 DEF CallShape, ScriptShape
<1> HIDE DEF script
<1>8. Comix!Continue([call EXCEPT !.script = script])
  BY <1>7
<1> QED BY <1>2, <1>4, <1>5, <1>6, <1>8, ScriptGoesOn

LEMMA PageParseSteps == ComixInv /\ Comix!PageParse => ComixInv'
BY PayloadSteps DEF Comix!PageParse, Comix!Opened, Kinds

LEMMA PageGuessSteps == ComixInv /\ Comix!PageGuess => ComixInv'
<1> SUFFICES ASSUME ComixInv, Comix!PageGuess PROVE ComixInv'
  OBVIOUS
<1>1. call.at = "page-capture" /\ call.script.decoding = "failed"
  BY DEF ComixInv, CallInv, CallShape, ScriptShape, Guesses, Comix!PageGuess, Comix!Opened,
         Comix!MayGuess
<1>2. Comix!SiteLists \subseteq SUBSET Kinds
  BY DEF Comix!SiteLists, Comix!Kind, Kinds
<1> QED BY <1>1, <1>2, PayloadSteps DEF Comix!PageGuess

LEMMA PageCaptureSteps == ComixInv /\ Comix!PageCapture => ComixInv'
<1> SUFFICES ASSUME ComixInv, Comix!PageCapture PROVE ComixInv'
  OBVIOUS
<1>1. /\ CallInv(call) /\ call.at = "page-capture" /\ call.op = "pages" /\ Guesses(call)
  BY DEF ComixInv, CallInv, Fits, Paging, Comix!PageCapture
<1>2. \/ /\ call.script.payloads # <<>>
         /\ Comix!PagesFrom(call.script.payloads[1].by, call.script.payloads[1].pages)
      \/ Comix!PagesFrom("api", call.listed)
      \/ Comix!Fail
  BY DEF Comix!PageCapture
<1>3. CASE /\ call.script.payloads # <<>>
           /\ Comix!PagesFrom(call.script.payloads[1].by, call.script.payloads[1].pages)
  BY <1>1, <1>3, EndsNoList DEF Comix!PagesFrom, Guesses
<1>4. CASE Comix!PagesFrom("api", call.listed)
  BY <1>1, <1>4, EndsNoList DEF Comix!PagesFrom
<1>5. CASE Comix!Fail
  BY <1>1, <1>5, Fails
<1> QED BY <1>2, <1>3, <1>4, <1>5

-----------------------------------------------------------------------------
(* A call begins, and the site moves.                                      *)

LEMMA AskSteps ==
    ASSUME ComixInv, NEW o \in Comix!Ops, Comix!Ask(o)
    PROVE  ComixInv'
<1>1. /\ call = Comix!Idle /\ sites' = <<site>> /\ site' = site /\ answer' = Comix!NoAnswer
      /\ site \in SUBSET Uploads
  BY DEF ComixInv, HistoryInv, Comix!Ask
<1>0. Comix!Idle \in CallShape
  BY IdleCall
<1>2. PICK next \in CallShape :
        /\ call' = next
        /\ next.at \in {"search-capture", "resolve", "title-page", "page-api", "page-capture"}
        /\ next.at = "search-capture" => next.op = "search"
        /\ next.at \in {"resolve", "title-page"} =>
               next.op \in {"manga", "chapters"} /\ next.ids # <<>>
        /\ next.at \in {"page-api", "page-capture"} => next.op = "pages"
        /\ next.at = "page-api" => next.chapter \in {"numeric", "reader"}
        /\ next.page = 1 /\ next.found = {} /\ next.captured = Comix!Uncaptured
        /\ next.script = Comix!Idle.script /\ next.details = None
  <2>1. CASE o = "search"
    <3> DEFINE next == [Comix!Idle EXCEPT !.op = o, !.at = "search-capture"]
    <3>1. call' = next
      BY <2>1 DEF Comix!Ask
    <3>2. next \in CallShape
      <4>1. o \in Comix!Ops \cup {None} /\ "search-capture" \in Searching
        BY DEF Searching
      <4> QED BY <1>0, <4>1 DEF CallShape
    <3>3. /\ next.at = "search-capture" /\ next.op = "search"
          /\ next.page = 1 /\ next.found = {} /\ next.captured = Comix!Uncaptured
          /\ next.script = Comix!Idle.script /\ next.details = None
      BY <2>1 DEF Comix!Idle
    <3> HIDE DEF next
    <3> QED BY <3>1, <3>2, <3>3
  <2>2. CASE o = "pages"
    <3>1. PICK id \in Comix!ChapterIds :
            call' = [Comix!Idle EXCEPT !.op = o, !.chapter = id,
                       !.at = IF id \in {"numeric", "reader"} THEN "page-api" ELSE "page-capture"]
      BY <2>2 DEF Comix!Ask
    <3>2. PICK at : at = IF id \in {"numeric", "reader"} THEN "page-api" ELSE "page-capture"
      OBVIOUS
    <3> DEFINE next == [Comix!Idle EXCEPT !.op = o, !.chapter = id, !.at = at]
    <3>3. call' = next
      BY <3>1, <3>2
    <3>4. next \in CallShape
      <4>1. o \in Comix!Ops \cup {None} /\ at \in Paging
        BY <3>2 DEF Paging
      <4> QED BY <1>0, <4>1 DEF CallShape
    <3>5. /\ next.at = at /\ next.op = "pages" /\ next.chapter = id
          /\ next.page = 1 /\ next.found = {} /\ next.captured = Comix!Uncaptured
          /\ next.script = Comix!Idle.script /\ next.details = None
      BY <2>2 DEF Comix!Idle
    <3> HIDE DEF next
    <3> QED BY <3>2, <3>3, <3>4, <3>5
  <2>3. CASE o \notin {"search", "pages"}
    <3>1. PICK ids \in {<<"hash">>, <<"numeric">>, <<"hash", "numeric">>} :
            call' = [Comix!Idle EXCEPT !.op = o, !.ids = ids,
                       !.at = IF "numeric" \in Comix!Range(ids) THEN "resolve" ELSE "title-page"]
      BY <2>3 DEF Comix!Ask
    <3>2. PICK at : at = IF "numeric" \in Comix!Range(ids) THEN "resolve" ELSE "title-page"
      OBVIOUS
    <3> DEFINE next == [Comix!Idle EXCEPT !.op = o, !.ids = ids, !.at = at]
    <3>3. call' = next
      BY <3>1, <3>2
    <3>4. ids \in Seq(Comix!Ids) /\ ids # <<>>
      <4>1. <<"hash">> \in Seq(Comix!Ids) /\ <<"hash">> # <<>>
        BY DEF Comix!Ids
      <4>2. <<"numeric">> \in Seq(Comix!Ids) /\ <<"numeric">> # <<>>
        BY DEF Comix!Ids
      <4>3. <<"hash", "numeric">> \in Seq(Comix!Ids) /\ <<"hash", "numeric">> # <<>>
        BY DEF Comix!Ids
      <4> QED BY <4>1, <4>2, <4>3
    <3>5. next \in CallShape
      <4>1. o \in Comix!Ops \cup {None} /\ at \in Looking
        BY <3>2 DEF Looking
      <4> QED BY <1>0, <3>4, <4>1 DEF CallShape
    <3>6. /\ next.at = at /\ next.op = o /\ next.ids = ids
          /\ next.page = 1 /\ next.found = {} /\ next.captured = Comix!Uncaptured
          /\ next.script = Comix!Idle.script /\ next.details = None
      BY DEF Comix!Idle
    <3> HIDE DEF next
    <3>7. o \in {"manga", "chapters"}
      BY <2>3 DEF Comix!Ops
    <3> QED BY <3>2, <3>3, <3>4, <3>5, <3>6, <3>7
  <2> QED BY <2>1, <2>2, <2>3
<1>3. Fits(next)
  BY <1>2 DEF Fits, Searching, Looking, Listing, Paging
<1>4. (Real(next) /\ Knows(next))'
  BY <1>2 DEF Real, Knows, OneOfEach, Comix!Uncaptured
<1>5. (Lists(next) /\ Follows(next) /\ Captures(next) /\ Guesses(next))'
  BY <1>2, IdleCall DEF Lists, Follows, Captures, Guesses
<1>6. CallInv(call)'
  BY <1>2, <1>3, <1>4, <1>5
     DEF CallInv, Fits, Real, Seen, Began, Knows, Lists, Follows, KeyFound, Captures, OnPage, Guesses
<1>7. HistoryInv'
  <2>1. sites' \in Seq(SUBSET Uploads) /\ sites' # <<>> /\ Len(sites') = 1 /\ sites'[1] = site
        /\ DOMAIN sites' = {1}
    BY <1>1
  <2> QED BY <1>1, <1>2, <2>1 DEF HistoryInv
<1>8. Truthful'
  BY <1>1 DEF Truthful, Comix!NoAnswer, Comix!ListsAreReal, Comix!ListsAreComplete,
         Comix!PagesAreTheBest, Comix!IsList
<1> QED BY <1>1, <1>6, <1>7, <1>8 DEF ComixInv

LEMMA MoveSteps == Listed /\ ComixInv /\ Comix!Move => ComixInv'
<1> SUFFICES ASSUME Listed, ComixInv, Comix!Move PROVE ComixInv'
  OBVIOUS
<1>1. /\ HistoryInv /\ CallInv(call) /\ call' = call /\ answer' = answer
      /\ sites' = IF call = Comix!Idle THEN sites ELSE Append(sites, site')
  BY DEF ComixInv, Comix!Move
<1>2. site' \in SUBSET Uploads
  BY <1>1 DEF HistoryInv, Comix!Move
<1>3. CASE call = Comix!Idle
  <2>0. call' = call /\ answer' = answer /\ sites' = sites
    BY <1>1, <1>3
  <2>1. Truthful'
    BY <2>0, TruthStays DEF ComixInv
  <2>2. call.at = "idle"
    BY <1>3, IdleCall
  <2>3. Lists(call)' /\ Captures(call)'
    BY <2>0, <2>2 DEF Lists, Captures
  <2>4. CallInv(call)'
    BY <1>1, <1>3, <2>3 DEF CallInv, Fits, Real, Seen, Began, Knows, Follows, KeyFound, Guesses,
                            Comix!Grew
  <2>5. HistoryInv'
    BY <1>1, <1>2, <1>3, <2>2 DEF HistoryInv
  <2> QED BY <1>1, <2>1, <2>2, <2>4, <2>5 DEF ComixInv
<1>4. CASE call # Comix!Idle
  <2>1. call.at # "idle" /\ sites \in Seq(SUBSET Uploads)
    BY <1>1, <1>4 DEF HistoryInv
  <2>2. /\ Len(sites) \in Nat \ {0} /\ sites[Len(sites)] = site
        /\ Began \subseteq Uploads /\ Seen \subseteq Uploads
    BY <1>1, <2>1, HistoryIs DEF HistoryInv
  <2>3. /\ sites' \in Seq(SUBSET Uploads) /\ Len(sites') = Len(sites) + 1
        /\ DOMAIN sites' = 1 .. Len(sites) + 1 /\ DOMAIN sites = 1 .. Len(sites)
        /\ \A i \in 1 .. Len(sites) : sites'[i] = sites[i]
        /\ sites'[Len(sites) + 1] = site' /\ sites' # <<>>
    BY <1>1, <1>2, <1>4, <2>1, <2>2
  <2>4. Comix!Grew' => Comix!Grew /\ site \subseteq site'
    <3>1. ASSUME Comix!Grew' PROVE Comix!Grew
      BY <2>2, <2>3, <3>1 DEF Comix!Grew
    <3>2. ASSUME Comix!Grew' PROVE site \subseteq site'
      <4>1. Len(sites) \in 1 .. Len(sites') - 1
        BY <2>2, <2>3
      <4>2. sites'[Len(sites)] \subseteq sites'[Len(sites) + 1]
        BY <3>2, <4>1 DEF Comix!Grew
      <4> QED BY <2>2, <2>3, <4>2
    <3> QED BY <3>1, <3>2
  <2>5. Began' = Began /\ Seen \subseteq Seen'
    BY <2>2, <2>3 DEF Began, Seen
  <2>6. HistoryInv'
    <3>1. ASSUME Comix!Grew', NEW i \in DOMAIN sites' PROVE sites'[i] \subseteq site'
      <4>1. CASE i = Len(sites) + 1
        BY <2>3, <4>1
      <4>2. CASE i \in 1 .. Len(sites)
        BY <1>1, <2>1, <2>3, <2>4, <3>1, <4>2 DEF HistoryInv
      <4> QED BY <2>2, <2>3, <3>1, <4>1, <4>2
    <3> QED BY <1>1, <1>2, <2>1, <2>2, <2>3, <3>1 DEF HistoryInv
  <2>7. Real(call)' /\ Fits(call)' /\ Guesses(call)' /\ call' \in CallShape
    BY <1>1, <2>5 DEF CallInv, Real, Fits, Guesses
  <2>8. Knows(call)'
    BY <1>1, <2>4, <2>5 DEF CallInv, Knows
  <2>9. Follows(call)'
    BY <1>1, <2>4, <2>5 DEF CallInv, Follows, KeyFound
  <2>10. Captures(call)'
    <3>1. Len(sites') # 1
      BY <2>2, <2>3
    <3> QED BY <3>1 DEF Captures
  <2>11. Lists(call)'
    <3>1. ASSUME call.at = "list", "list" \notin call.failed, Comix!Grew', NEW u \in Began,
                 Comix!Rank(u, site', "by-number") < (call.page - 1) * Limit
          PROVE  Covers(call.found, u)
      <4>1. u \in site
        BY <1>1, <2>1, <2>4, <3>1, HistoryIs
      <4>2. Comix!Rank(u, site, "by-number") <= Comix!Rank(u, site', "by-number")
        BY <1>1, <1>2, <2>4, <3>1, <4>1, RanksGrow DEF HistoryInv
      <4>3. Comix!Rank(u, site, "by-number") \in Nat /\ Comix!Rank(u, site', "by-number") \in Nat
        BY <1>1, <1>2, <2>4, <3>1, <4>1, RanksAreSmall DEF HistoryInv
      <4>4. (call.page - 1) * Limit \in Nat
        BY <1>1 DEF CallInv, CallShape, Listed
      <4>5. Comix!Rank(u, site, "by-number") < (call.page - 1) * Limit
        BY <3>1, <4>2, <4>3, <4>4
      <4> QED BY <1>1, <2>4, <3>1, <4>5 DEF CallInv, Lists
    <3> QED BY <1>1, <2>5, <3>1 DEF CallInv, Lists
  <2>12. Truthful'
    BY <1>1, <2>1 DEF ComixInv, Truthful, Comix!NoAnswer, Comix!ListsAreReal,
       Comix!ListsAreComplete, Comix!PagesAreTheBest, Comix!IsList
  <2> QED BY <1>1, <2>1, <2>6, <2>7, <2>8, <2>9, <2>10, <2>11, <2>12 DEF ComixInv, CallInv
<1> QED BY <1>3, <1>4

LEMMA NextComixInv == Listed /\ ComixInv /\ [Comix!Next]_(Comix!vars) => ComixInv'
<1> SUFFICES ASSUME Listed, ComixInv, [Comix!Next]_(Comix!vars) PROVE ComixInv'
  OBVIOUS
<1>1. CASE Comix!Move
  BY <1>1, MoveSteps
<1>2. CASE \E o \in Comix!Ops : Comix!Ask(o)
  BY <1>2, AskSteps
<1>3. CASE Comix!Search \/ Comix!Resolve \/ Comix!TitlePage \/ Comix!Details \/ Comix!Genres
  BY <1>3, SearchSteps, ResolveSteps, TitlePageSteps, DetailsSteps, GenresSteps
<1>4. CASE Comix!ChapterList \/ Comix!Indexes \/ Comix!Index \/ Comix!Chapter
  BY <1>4, ChapterListSteps, IndexesSteps, IndexSteps, ChapterSteps
<1>5. CASE Comix!ChapterCapture \/ Comix!PageApi \/ Comix!PageDecode \/ Comix!PageParse
             \/ Comix!PageGuess \/ Comix!PageCapture
  BY <1>5, ChapterCaptureSteps, PageApiSteps, PageDecodeSteps, PageParseSteps, PageGuessSteps,
     PageCaptureSteps
<1>6. CASE UNCHANGED Comix!vars
  <2>1. UNCHANGED <<site, call, answer, sites>>
    BY <1>6 DEF Comix!vars
  <2>2. Truthful'
    BY <2>1, TruthStays DEF ComixInv
  <2>3. CallInv(call)'
    BY <2>1 DEF ComixInv, CallInv, Fits, Real, Seen, Began, Knows, Lists, Follows, KeyFound,
                Captures, OnPage, Guesses, Comix!Grew
  <2>4. HistoryInv'
    BY <2>1 DEF ComixInv, HistoryInv, Comix!Grew
  <2> QED BY <2>1, <2>2, <2>3, <2>4 DEF ComixInv
<1> QED BY <1>1, <1>2, <1>3, <1>4, <1>5, <1>6 DEF Comix!Next

(* What a call to Comix answers is what the site had.                      *)
LEMMA ComixHolds == ASSUME Listed PROVE Comix!Spec => []Truthful
<1>1. Listed /\ ComixInv /\ [Comix!Next]_(Comix!vars) => ComixInv'
  BY NextComixInv
<1>2. ComixInv => Truthful
  BY DEF ComixInv
<1> QED BY <1>1, <1>2, InitComixInv, PTL DEF Comix!Spec
-----------------------------------------------------------------------------
(* The route snapshots (RouteSnapshots).                                   *)

Stored == [until : Nat, saw : [Changes -> Nat], after : SUBSET Changes]
Commits(c) == Len(Snapshots!Writes[changed[c].kind])

SnapshotShapes ==
    /\ route \in Snapshots!Routes /\ clock \in Nat
    /\ snapshot \in {Snapshots!NoEntry} \cup Stored
    /\ changed \in [Changes -> [kind : Snapshots!Kinds, wrote : Nat,
                                at : {"idle", "writing", "failed", "ended"}]]
    /\ request \in [Requests -> [at : {"idle", "computing", "computed", "answered"},
                                 before : SUBSET Changes, saw : [Changes -> Nat],
                                 from : {Snapshots!NoEntry} \cup Stored]]

(* A change that has ended made all its commits.                           *)
EndedIsWritten == \A c \in Changes : changed[c].at = "ended" => changed[c].wrote = Commits(c)

(* An entry is younger than a change that has ended, or was inserted after *)
(* it, or the change does not remove it.                                   *)
Outlives(entry, c) ==
    entry # Snapshots!NoEntry
        /\ (c \in entry.after \/ route \notin Snapshots!Removes[changed[c].kind])

SnapshotSurvives ==
    snapshot # Snapshots!NoEntry => \A c \in Snapshots!Ended : Outlives(snapshot, c)

(* What a request lacks of a change that ended before it came is due to    *)
(* the entry it was given.                                                 *)
Answerable(r) ==
    /\ request[r].before \subseteq Snapshots!Ended
    /\ request[r].at = "computing" => request[r].from = Snapshots!NoEntry
    /\ request[r].at \in {"computed", "answered"} =>
          \A c \in request[r].before :
              request[r].saw[c] = Commits(c) \/ Outlives(request[r].from, c)

SnapshotInv ==
    /\ SnapshotShapes /\ EndedIsWritten /\ SnapshotSurvives
    /\ \A r \in Requests : Answerable(r)

(* The tables: what a change writes and a route reads, its list of names   *)
(* removes, but for the pairs that only expire.                            *)
LEMMA NamesCoverTables ==
    ASSUME NEW k \in Snapshots!Kinds, NEW name \in Snapshots!Routes,
           name \notin Snapshots!Removes[k],
           NEW i \in 1 .. Len(Snapshots!Writes[k]),
           Snapshots!Writes[k][i] \cap Snapshots!Reads[name] # {}
    PROVE  <<k, name>> \in Snapshots!OnlyExpires
<1> USE DEF Snapshots!Writes, Snapshots!Reads, Snapshots!Removes, Snapshots!OnlyExpires,
            Snapshots!DownloadRows, Snapshots!MangaRows, Snapshots!ChapterRows,
            Snapshots!UpdateRows, Snapshots!Overview, Snapshots!SourceList,
            Snapshots!SettingRows, Snapshots!SetSourceEnabled, Snapshots!UpdateSourceSettings,
            Snapshots!UpdateLibrary, Snapshots!UpdateProgress, Snapshots!UpdateSettings,
            Snapshots!PauseUpscaling, Snapshots!LibraryNames, Snapshots!StatsNames,
            Snapshots!ProgressNames, Snapshots!SyncRows, Snapshots!ChangeDownload,
            Snapshots!EnqueueUnknown, Snapshots!WorkerStatus, Snapshots!RefreshMetadata,
            Snapshots!CompleteDownload, Snapshots!DownloadNames
<1>1. name \in {"downloads_list", "library_list", "library_all_chapters", "library_updates",
               "stats_overview", "sources_list", "settings_get"}
  BY DEF Snapshots!Routes
<1>2. k \in {"download_enqueued", "unknown_enqueued", "download_changed", "worker_status",
             "metadata", "chapters_synced", "archive_created", "archive_deleted",
             "archive_metadata", "source_enabled", "source_settings", "local_library",
             "read_progress", "settings", "upscale_setting"}
  BY DEF Snapshots!Kinds
<1>3. CASE k = "download_enqueued"
  BY <1>1, <1>3
<1>4. CASE k = "unknown_enqueued"
  BY <1>1, <1>4
<1>5. CASE k = "download_changed"
  BY <1>1, <1>5
<1>6. CASE k = "worker_status"
  BY <1>1, <1>6
<1>7. CASE k = "metadata"
  BY <1>1, <1>7
<1>8. CASE k = "chapters_synced"
  BY <1>1, <1>8
<1>9. CASE k = "archive_created"
  BY <1>1, <1>9
<1>10. CASE k = "archive_deleted"
  BY <1>1, <1>10
<1>11. CASE k = "archive_metadata"
  BY <1>1, <1>11
<1>12. CASE k = "source_enabled"
  BY <1>1, <1>12
<1>13. CASE k = "source_settings"
  BY <1>1, <1>13
<1>14. CASE k = "local_library"
  BY <1>1, <1>14
<1>15. CASE k = "read_progress"
  BY <1>1, <1>15
<1>16. CASE k = "settings"
  BY <1>1, <1>16
<1>17. CASE k = "upscale_setting"
  BY <1>1, <1>17
<1> QED BY <1>2, <1>3, <1>4, <1>5, <1>6, <1>7, <1>8, <1>9, <1>10, <1>11, <1>12,
           <1>13, <1>14, <1>15, <1>16, <1>17

LEMMA InitSnapshotInv == Snapshots!Init => SnapshotInv
<1> SUFFICES ASSUME Snapshots!Init PROVE SnapshotInv
  OBVIOUS
<1> USE DEF Snapshots!Init, Snapshots!Idle, Snapshots!Unread
<1>1. SnapshotShapes
  BY DEF SnapshotShapes
<1>2. EndedIsWritten /\ SnapshotSurvives
  BY DEF EndedIsWritten, SnapshotSurvives
<1>3. ASSUME NEW r \in Requests PROVE Answerable(r)
  BY DEF Answerable
<1> QED BY <1>1, <1>2, <1>3 DEF SnapshotInv

(* A change keeps its kind and does not end twice, so what is fit for an   *)
(* answer stays fit.                                                       *)
LEMMA AnswerableStays ==
    ASSUME NEW r \in Requests, Answerable(r), SnapshotShapes, EndedIsWritten,
           request'[r] = request[r], UNCHANGED route,
           \A c \in Changes : /\ changed'[c].kind = changed[c].kind
                              /\ changed[c].at = "ended" => changed'[c].at = "ended"
    PROVE  Answerable(r)'
<1>1. Snapshots!Ended \subseteq Snapshots!Ended'
  BY DEF Snapshots!Ended
<1>2. request[r].before \subseteq Changes
  BY DEF SnapshotShapes
<1>3. \A c \in Changes : Commits(c)' = Commits(c)
  BY DEF Commits
<1>4. ASSUME NEW c \in Changes PROVE Outlives(request[r].from, c)' <=> Outlives(request'[r].from, c)
  BY <1>4 DEF Outlives
<1>5. ASSUME NEW c \in Changes, Outlives(request[r].from, c) PROVE Outlives(request[r].from, c)'
  BY <1>5 DEF Outlives
<1> QED BY <1>1, <1>2, <1>3, <1>5 DEF Answerable

LEMMA CommitKeeps ==
    ASSUME SnapshotInv, NEW c \in Changes, Snapshots!Commit(c)
    PROVE  SnapshotInv'
<1> USE DEF SnapshotInv
<1>1. changed[c] \in [kind : Snapshots!Kinds, wrote : Nat,
                      at : {"idle", "writing", "failed", "ended"}]
  BY DEF SnapshotShapes
<1>2. PICK to \in [kind : Snapshots!Kinds, wrote : Nat,
                   at : {"idle", "writing", "failed", "ended"}] :
          /\ to.kind = changed[c].kind /\ to.at \in {"writing", "failed"}
          /\ changed' = [changed EXCEPT ![c] = to]
  <2>1. CASE changed' = [changed EXCEPT ![c].at = "writing", ![c].wrote = @ + 1]
    <3> DEFINE n == changed[c].wrote + 1
    <3>1. n \in Nat
      BY <1>1
    <3>2. changed' = [changed EXCEPT ![c].at = "writing", ![c].wrote = n]
      BY <2>1, Zenon
    <3> HIDE DEF n
    <3> DEFINE to == [changed[c] EXCEPT !.at = "writing", !.wrote = n]
    <3>3. changed' = [changed EXCEPT ![c] = to]
      BY <3>2
    <3>4. to \in [kind : Snapshots!Kinds, wrote : Nat,
                  at : {"idle", "writing", "failed", "ended"}]
          /\ to.kind = changed[c].kind /\ to.at = "writing"
      BY <1>1, <3>1
    <3> QED BY <3>3, <3>4
  <2>2. CASE changed' = [changed EXCEPT ![c].at = "failed"]
    <3> DEFINE to == [changed[c] EXCEPT !.at = "failed"]
    <3>1. changed' = [changed EXCEPT ![c] = to]
      BY <2>2
    <3>2. to \in [kind : Snapshots!Kinds, wrote : Nat,
                  at : {"idle", "writing", "failed", "ended"}]
          /\ to.kind = changed[c].kind /\ to.at = "failed"
      BY <1>1
    <3> QED BY <3>1, <3>2
  <2> QED BY <2>1, <2>2 DEF Snapshots!Commit
<1>3. UNCHANGED <<route, snapshot, request, clock>> /\ changed[c].at # "ended"
  BY DEF Snapshots!Commit
<1>4. SnapshotShapes'
  BY <1>2, <1>3 DEF SnapshotShapes
<1>5. \A d \in Changes : changed'[d].kind = changed[d].kind
                         /\ (changed[d].at = "ended" <=> changed'[d].at = "ended")
                         /\ (changed[d].at = "ended" => changed'[d] = changed[d])
  BY <1>2, <1>3 DEF SnapshotShapes
<1>6. EndedIsWritten'
  BY <1>5 DEF EndedIsWritten, Commits
<1>7. SnapshotSurvives'
  BY <1>3, <1>5 DEF SnapshotSurvives, Outlives, Snapshots!Ended
<1>8. \A r \in Requests : Answerable(r)'
  BY <1>3, <1>5, AnswerableStays
<1> QED BY <1>4, <1>6, <1>7, <1>8

LEMMA RemoveKeeps ==
    ASSUME SnapshotInv, NEW c \in Changes, Snapshots!Remove(c)
    PROVE  SnapshotInv'
<1> USE DEF SnapshotInv
<1>1. /\ changed[c].wrote = Commits(c)
      /\ changed' = [changed EXCEPT ![c].at = "ended"]
      /\ UNCHANGED <<route, request, clock>>
  BY DEF Snapshots!Remove, Commits
<1>2. SnapshotShapes'
  BY <1>1 DEF SnapshotShapes, Snapshots!Remove
<1>3. \A d \in Changes : /\ changed'[d].kind = changed[d].kind
                         /\ changed'[d].wrote = changed[d].wrote
                         /\ changed'[d].at = IF d = c THEN "ended" ELSE changed[d].at
  BY <1>1 DEF SnapshotShapes
<1>4. EndedIsWritten'
  BY <1>1, <1>3 DEF EndedIsWritten, Commits
<1>5. SnapshotSurvives'
  BY <1>1, <1>3 DEF SnapshotSurvives, Outlives, Snapshots!Ended, Snapshots!Remove
<1>6. \A r \in Requests : Answerable(r)'
  BY <1>1, <1>3, AnswerableStays
<1> QED BY <1>2, <1>4, <1>5, <1>6

(* A request changes its own record only.                                  *)
LEMMA SnapshotRequestKeeps ==
    ASSUME SnapshotInv, NEW r \in Requests, NEW to,
           to \in [at : {"idle", "computing", "computed", "answered"},
                   before : SUBSET Changes, saw : [Changes -> Nat],
                   from : {Snapshots!NoEntry} \cup Stored],
           request' = [request EXCEPT ![r] = to],
           UNCHANGED <<route, changed, clock>>,
           snapshot' \in {Snapshots!NoEntry} \cup Stored,
           SnapshotSurvives',
           Answerable(r)'
    PROVE  SnapshotInv'
<1> USE DEF SnapshotInv
<1>1. SnapshotShapes'
  BY DEF SnapshotShapes
<1>2. EndedIsWritten'
  BY DEF EndedIsWritten, Commits
<1>3. ASSUME NEW s \in Requests, s # r PROVE Answerable(s)'
  <2>1. request'[s] = request[s]
    BY <1>3 DEF SnapshotShapes
  <2> QED BY <2>1, AnswerableStays
<1> QED BY <1>1, <1>2, <1>3

LEMMA SnapshotLookupKeeps ==
    ASSUME SnapshotInv, NEW r \in Requests, Snapshots!Lookup(r)
    PROVE  SnapshotInv'
<1> USE DEF SnapshotInv
<1>0. UNCHANGED <<route, changed, clock>> /\ Snapshots!Ended \subseteq Changes
      /\ Snapshots!Ended' = Snapshots!Ended
  BY DEF Snapshots!Lookup, Snapshots!Ended
<1>1. CASE Snapshots!Fresh
  <2> DEFINE to == [at |-> "answered", before |-> Snapshots!Ended,
                    saw |-> snapshot.saw, from |-> snapshot]
  <2>1. request' = [request EXCEPT ![r] = to] /\ snapshot' = snapshot
    BY <1>1 DEF Snapshots!Lookup
  <2>2. snapshot # Snapshots!NoEntry /\ snapshot \in Stored
    BY <1>1 DEF Snapshots!Fresh, Snapshots!NoEntry, SnapshotShapes
  <2>3. to \in [at : {"idle", "computing", "computed", "answered"},
                before : SUBSET Changes, saw : [Changes -> Nat],
                from : {Snapshots!NoEntry} \cup Stored]
    BY <1>0, <2>2 DEF Stored
  <2>4. SnapshotSurvives'
    BY <1>0, <2>1 DEF SnapshotSurvives, Outlives
  <2>5. request'[r] = to
    BY <2>1 DEF SnapshotShapes
  <2>6. \A c \in Snapshots!Ended : Outlives(snapshot, c)'
    BY <2>1, <2>2, <1>0 DEF SnapshotSurvives, Outlives
  <2>7. Answerable(r)'
    BY <1>0, <2>1, <2>5, <2>6 DEF Answerable, Outlives
  <2> QED BY <1>0, <2>1, <2>3, <2>4, <2>7, SnapshotRequestKeeps DEF SnapshotShapes
<1>2. CASE ~Snapshots!Fresh
  <2> DEFINE to == [Snapshots!Idle EXCEPT !.at = "computing", !.before = Snapshots!Ended]
  <2>1. request' = [request EXCEPT ![r] = to] /\ snapshot' = Snapshots!NoEntry
    BY <1>2 DEF Snapshots!Lookup
  <2>2. to \in [at : {"idle", "computing", "computed", "answered"},
                before : SUBSET Changes, saw : [Changes -> Nat],
                from : {Snapshots!NoEntry} \cup Stored]
        /\ to.at = "computing" /\ to.before = Snapshots!Ended /\ to.from = Snapshots!NoEntry
    BY <1>0 DEF Snapshots!Idle, Snapshots!Unread
  <2>3. SnapshotSurvives'
    BY <2>1 DEF SnapshotSurvives, Snapshots!NoEntry
  <2>4. request'[r] = to
    BY <2>1 DEF SnapshotShapes
  <2> HIDE DEF to
  <2>5. Answerable(r)'
    BY <1>0, <2>2, <2>4 DEF Answerable, Snapshots!NoEntry
  <2> QED BY <1>0, <2>1, <2>2, <2>3, <2>5, SnapshotRequestKeeps
<1> QED BY <1>1, <1>2

LEMMA ComputeKeeps ==
    ASSUME SnapshotInv, NEW r \in Requests, Snapshots!Compute(r) \/ Snapshots!Done(r)
    PROVE  SnapshotInv'
<1> USE DEF SnapshotInv
<1>0. UNCHANGED <<route, snapshot, changed, clock>> /\ Snapshots!Ended' = Snapshots!Ended
  BY DEF Snapshots!Compute, Snapshots!Done, Snapshots!Ended
<1>1. SnapshotSurvives'
  BY <1>0 DEF SnapshotSurvives, Outlives
<1>2. CASE request' = [request EXCEPT ![r] = Snapshots!Idle]
  <2>1. Snapshots!Idle \in [at : {"idle", "computing", "computed", "answered"},
                before : SUBSET Changes, saw : [Changes -> Nat],
                from : {Snapshots!NoEntry} \cup Stored]
        /\ Snapshots!Idle.at = "idle" /\ Snapshots!Idle.before = {}
    BY DEF Snapshots!Idle, Snapshots!Unread
  <2>2. request'[r] = Snapshots!Idle
    BY <1>2 DEF SnapshotShapes
  <2>3. Answerable(r)'
    BY <2>1, <2>2 DEF Answerable
  <2> QED BY <1>0, <1>1, <1>2, <2>1, <2>3, SnapshotRequestKeeps DEF SnapshotShapes
<1>3. CASE Snapshots!Compute(r) /\ request' = [request EXCEPT ![r].at = "computed",
          ![r].saw = Snapshots!Written]
  <2>1. request[r] \in [at : {"idle", "computing", "computed", "answered"},
                before : SUBSET Changes, saw : [Changes -> Nat],
                from : {Snapshots!NoEntry} \cup Stored]
        /\ Snapshots!Written \in [Changes -> Nat]
    BY DEF SnapshotShapes, Snapshots!Written
  <2> DEFINE to == [request[r] EXCEPT !.at = "computed", !.saw = Snapshots!Written]
  <2>2. request' = [request EXCEPT ![r] = to]
    BY <1>3 DEF SnapshotShapes
  <2>3. to \in [at : {"idle", "computing", "computed", "answered"},
                before : SUBSET Changes, saw : [Changes -> Nat],
                from : {Snapshots!NoEntry} \cup Stored]
        /\ to.at = "computed" /\ to.before = request[r].before /\ to.saw = Snapshots!Written
    BY <2>1
  <2>4. request'[r] = to
    BY <2>2 DEF SnapshotShapes
  <2> HIDE DEF to
  <2>5. request[r].before \subseteq Snapshots!Ended
    BY DEF Answerable
  <2>6. \A c \in Snapshots!Ended : Snapshots!Written[c] = Commits(c)'
    BY <1>0 DEF EndedIsWritten, Snapshots!Ended, Snapshots!Written, Commits
  <2>7. Answerable(r)'
    BY <1>0, <2>3, <2>4, <2>5, <2>6 DEF Answerable
  <2> QED BY <1>0, <1>1, <2>2, <2>3, <2>7, SnapshotRequestKeeps DEF SnapshotShapes
<1> QED BY <1>2, <1>3 DEF Snapshots!Compute, Snapshots!Done

LEMMA SnapshotInsertKeeps ==
    ASSUME TTL \in Nat, SnapshotInv, NEW r \in Requests, Snapshots!Insert(r)
    PROVE  SnapshotInv'
<1> USE DEF SnapshotInv
<1>0. /\ UNCHANGED <<route, changed, clock>>
      /\ Snapshots!Ended \subseteq Changes /\ Snapshots!Ended' = Snapshots!Ended
      /\ snapshot' = [until |-> clock + TTL, saw |-> request[r].saw, after |-> Snapshots!Ended]
      /\ request[r].at = "computed"
  BY DEF Snapshots!Insert, Snapshots!Ended
<1>1. request[r] \in [at : {"idle", "computing", "computed", "answered"},
                before : SUBSET Changes, saw : [Changes -> Nat],
                from : {Snapshots!NoEntry} \cup Stored]
  BY DEF SnapshotShapes
<1>2. snapshot' \in Stored /\ snapshot'.after = Snapshots!Ended
  BY <1>0, <1>1 DEF Stored, SnapshotShapes
<1>3. SnapshotSurvives'
  BY <1>0, <1>2 DEF SnapshotSurvives, Outlives
<1> DEFINE to == [request[r] EXCEPT !.at = "answered"]
<1>4. request' = [request EXCEPT ![r] = to]
  BY DEF Snapshots!Insert
<1>5. to \in [at : {"idle", "computing", "computed", "answered"},
                before : SUBSET Changes, saw : [Changes -> Nat],
                from : {Snapshots!NoEntry} \cup Stored]
      /\ to.at = "answered" /\ to.before = request[r].before /\ to.saw = request[r].saw
      /\ to.from = request[r].from
  BY <1>1
<1>6. request'[r] = to
  BY <1>4 DEF SnapshotShapes
<1> HIDE DEF to
<1>7. \A c \in Changes : Commits(c)' = Commits(c)
        /\ (Outlives(request[r].from, c) => Outlives(request[r].from, c)')
  BY <1>0, <1>5, <1>6 DEF Commits, Outlives
<1>8. Answerable(r)'
  BY <1>0, <1>1, <1>5, <1>6, <1>7 DEF Answerable, Outlives
<1> QED BY <1>0, <1>2, <1>3, <1>4, <1>5, <1>8, SnapshotRequestKeeps

LEMMA SnapshotInvStep ==
    ASSUME TTL \in Nat, SnapshotInv, [Snapshots!Next]_(Snapshots!vars)
    PROVE  SnapshotInv'
<1>1. CASE Snapshots!Forget \/ Snapshots!Tick \/ UNCHANGED Snapshots!vars
  <2>1. UNCHANGED <<route, changed, request>> /\ clock' \in Nat
        /\ (snapshot' = snapshot \/ snapshot' = Snapshots!NoEntry)
    BY <1>1 DEF Snapshots!Forget, Snapshots!Tick, Snapshots!vars, SnapshotInv, SnapshotShapes
  <2> QED BY <2>1 DEF SnapshotInv, SnapshotShapes, EndedIsWritten, SnapshotSurvives, Answerable,
                      Outlives, Commits, Snapshots!Ended, Snapshots!NoEntry
<1> QED BY <1>1, CommitKeeps, RemoveKeeps, SnapshotLookupKeeps, ComputeKeeps, SnapshotInsertKeeps
       DEF Snapshots!Next

LEMMA SnapshotInvAnswers == SnapshotInv => Snapshots!StaleAnswersOverlapped
<1> SUFFICES ASSUME SnapshotInv, NEW r \in Requests, NEW c \in request[r].before,
                    request[r].at = "answered", Snapshots!Lacks(r, c)
             PROVE  /\ request[r].from # Snapshots!NoEntry
                    /\ \/ c \in request[r].from.after
                       \/ <<changed[c].kind, route>> \in Snapshots!OnlyExpires
  BY DEF Snapshots!StaleAnswersOverlapped
<1>1. c \in Changes /\ changed[c].kind \in Snapshots!Kinds /\ request[r].saw \in [Changes -> Nat]
  BY DEF SnapshotInv, SnapshotShapes
<1>2. Outlives(request[r].from, c)
  <2>1. PICK i \in request[r].saw[c] + 1 .. Commits(c) :
            Snapshots!Writes[changed[c].kind][i] \cap Snapshots!Reads[route] # {}
    BY DEF Snapshots!Lacks, Commits
  <2>2. request[r].saw[c] # Commits(c)
    BY <1>1, <2>1
  <2> QED BY <2>2 DEF SnapshotInv, Answerable
<1>3. CASE c \in request[r].from.after
  BY <1>2, <1>3 DEF Outlives
<1>4. CASE route \notin Snapshots!Removes[changed[c].kind]
  <2>1. PICK i \in request[r].saw[c] + 1 .. Len(Snapshots!Writes[changed[c].kind]) :
            Snapshots!Writes[changed[c].kind][i] \cap Snapshots!Reads[route] # {}
    BY DEF Snapshots!Lacks
  <2>2. i \in 1 .. Len(Snapshots!Writes[changed[c].kind]) /\ route \in Snapshots!Routes
    BY <1>1, <2>1 DEF SnapshotInv, SnapshotShapes
  <2> QED BY <1>1, <1>2, <1>4, <2>1, <2>2, NamesCoverTables DEF Outlives
<1> QED BY <1>2, <1>3, <1>4 DEF Outlives

LEMMA SnapshotsHold ==
    ASSUME TTL \in Nat
    PROVE  Snapshots!Spec => []Snapshots!StaleAnswersOverlapped
BY InitSnapshotInv, SnapshotInvStep, SnapshotInvAnswers, PTL DEF Snapshots!Spec

-----------------------------------------------------------------------------
(* The types of the parts: the numbers of these stay within their bounds.  *)

(* A page and a command are of an operation that was begun.                *)
ClientBounds ==
    /\ operation.polls \in 0 .. MaxPolls
    /\ page.of \in 0 .. started
    /\ \A i \in 1 .. Len(wire) : wire[i].by \in 0 .. started

LEMMA ClientBoundsStep ==
    ASSUME MaxPolls \in Nat, ClientInv, ClientBounds, [Client!Next]_(Client!vars)
    PROVE  ClientBounds'
<1>0. /\ started \in Nat /\ operation \in OperationShape /\ operation.polls \in Nat
      /\ wire \in Seq(CommandShape) /\ page \in PageShape
  BY DEF ClientInv, ClientShapes, OperationShape
<1>a. Client!NoOperation.polls = 0 /\ Client!NoPage.of = 0
  BY DEF Client!NoOperation, Client!NoPage
<1>b. ASSUME operation'.polls \in 0 .. MaxPolls, started' \in Nat, started' >= started,
             page' \in {page, Client!NoPage}, wire' = wire \/ wire' = <<>>
      PROVE  ClientBounds'
  <2>1. page'.of \in 0 .. started'
    BY <1>0, <1>a, <1>b DEF ClientBounds
  <2>2. \A i \in 1 .. Len(wire') : wire'[i].by \in 0 .. started'
    BY <1>0, <1>b DEF ClientBounds
  <2> QED BY <1>b, <2>1, <2>2 DEF ClientBounds
<1>1. ASSUME NEW sort, Client!Begin(sort) PROVE ClientBounds'
  <2>1. operation'.polls = 0
    BY <1>1, <1>a DEF Client!Begin, Client!NoOperation
  <2> QED BY <1>0, <1>1, <1>b, <2>1 DEF Client!Begin
<1>2. CASE Client!Connect
  <2>1. operation'.polls \in 0 .. MaxPolls
    BY <1>0, <1>2, <1>a DEF Client!Connect, ClientBounds, OperationShape
  <2> QED BY <1>0, <1>2, <1>b, <2>1 DEF Client!Connect
<1>3. CASE Client!Send
  <2>1. PICK c : c = Client!Command
    OBVIOUS
  <2>2. c.by = started /\ c \in CommandShape
    BY <2>1 DEF Client!Command, CommandShape, ClientInv, ClientShapes, ClientShape, OperationShape
  <2>3. wire' = Append(wire, c) /\ UNCHANGED <<started, page>>
    BY <1>3, <2>1 DEF Client!Send
  <2>4. \A i \in 1 .. Len(wire') : wire'[i].by \in 0 .. started
    <3>1. \A i \in 1 .. Len(wire') : wire'[i] = c \/ (i \in 1 .. Len(wire) /\ wire'[i] = wire[i])
      BY <1>0, <2>2, <2>3
    <3> QED BY <1>0, <2>2, <3>1 DEF ClientBounds
  <2>5. operation'.polls = operation.polls
    BY <1>0, <1>3 DEF Client!Send, OperationShape
  <2> QED BY <2>3, <2>4, <2>5 DEF ClientBounds
<1>4. CASE Client!Execute
  <2> DEFINE c == wire[1]
  <2>1. /\ Head(wire) = c /\ 1 \in 1 .. Len(wire) /\ wire' = Tail(wire)
        /\ UNCHANGED <<operation, started>>
    BY <1>0, <1>4, TailIsPart DEF Client!Execute
  <2>2. PICK reply :
          page' = IF reply = "error" THEN page
                  ELSE CASE c.step = "create" -> Client!NoPage
                         [] c.step = "stealth" -> [page EXCEPT !.stealth = TRUE]
                         [] c.step = "hook" ->
                               [page EXCEPT !.captures = @ \cup {[id |-> c.id, by |-> c.by]}]
                         [] c.step = "unhook" ->
                               [page EXCEPT !.captures = {h \in @ : h.id # c.script}]
                         [] c.step = "navigate" -> [page EXCEPT !.of = c.by]
                         [] OTHER -> page
    BY <1>4, <2>1 DEF Client!Execute
  <2>3. c \in CommandShape
    BY <1>0, <2>1, OnTheWire DEF ClientInv
  <2>4. page'.of \in {page.of, 0, c.by}
    BY <1>a, <2>2, <2>3, BrowserExecutes
  <2>5. page'.of \in 0 .. started
    BY <1>0, <2>1, <2>4 DEF ClientBounds
  <2>6. \A i \in 1 .. Len(wire') : wire'[i] = wire[i + 1] /\ i + 1 \in 1 .. Len(wire)
    BY <1>0, <1>4, <2>1, TailIsPart DEF Client!Execute
  <2> QED BY <2>1, <2>5, <2>6 DEF ClientBounds
<1>5. CASE Client!SocketDies \/ Client!Ignore \/ UNCHANGED Client!vars
  BY <1>0, <1>5, <1>b DEF Client!SocketDies, Client!Ignore, Client!vars, ClientBounds
<1>6. CASE Client!TimesOut \/ Client!Rejected \/ Client!Drop \/ Client!ReadCookies
  BY <1>0, <1>6, <1>a, <1>b DEF Client!TimesOut, Client!Rejected, Client!Drop, Client!ReadCookies,
     Client!Fails, Client!Ends
<1>7. ASSUME NEW step, Client!Goes(step) PROVE operation'.polls = 0
  BY <1>0, <1>7 DEF Client!Goes, OperationShape
<1>8. CASE Client!SetUp
  BY <1>0, <1>7, <1>8, <1>b DEF Client!SetUp
<1>9. \A n, stable, challenge :
          /\ [operation EXCEPT !.awaits = 0, !.polls = n].polls = n
          /\ [operation EXCEPT !.awaits = 0, !.polls = n, !.stable = stable,
                               !.challenge = challenge].polls = n
  BY <1>0 DEF OperationShape
<1>10. CASE Client!Poll
  <2>1. UNCHANGED <<started, page, wire>>
    BY <1>10 DEF Client!Poll, Client!Ends
  <2>2. CASE operation' = Client!NoOperation
    BY <1>0, <1>a, <1>b, <2>1, <2>2
  <2>3. ASSUME NEW step \in {"collect", "cookies"}, Client!Goes(step) PROVE ClientBounds'
    BY <1>0, <1>7, <1>b, <2>1, <2>3
  <2>4. ASSUME NEW sight, operation.polls + 1 < MaxPolls, operation' = [operation EXCEPT
                  !.awaits = 0, !.polls = @ + 1, !.stable = Client!StableAt(sight),
                  !.challenge = @ \/ sight = "challenge"]
        PROVE  ClientBounds'
    <3> DEFINE n == operation.polls + 1
               stable == Client!StableAt(sight)
               challenge == operation.challenge \/ sight = "challenge"
    <3>1. operation' = [operation EXCEPT !.awaits = 0, !.polls = n, !.stable = stable,
                                         !.challenge = challenge]
      BY <2>4, Zenon
    <3>2. n \in 0 .. MaxPolls
      BY <1>0, <2>4
    <3> HIDE DEF n, stable, challenge
    <3>3. operation'.polls \in 0 .. MaxPolls
      BY <1>9, <3>1, <3>2
    <3> QED BY <1>0, <1>b, <2>1, <3>3
  <2> DEFINE sight == Head(inbox).says
  <2>5. \/ operation' = Client!NoOperation
        \/ Client!Goes("collect") \/ Client!Goes("cookies")
        \/ operation.polls + 1 < MaxPolls /\ operation' = [operation EXCEPT
                  !.awaits = 0, !.polls = @ + 1, !.stable = Client!StableAt(sight),
                  !.challenge = @ \/ sight = "challenge"]
    BY <1>10 DEF Client!Poll, Client!Ends
  <2> HIDE DEF sight
  <2> QED BY <2>2, <2>3, <2>4, <2>5
<1>11. CASE Client!Collect
  <2>1. UNCHANGED <<started, page, wire>>
    BY <1>11 DEF Client!Collect
  <2>2. CASE operation' = Client!NoOperation
    BY <1>0, <1>a, <1>b, <2>1, <2>2
  <2>3. CASE operation.polls + 1 < MaxPolls
             /\ operation' = [operation EXCEPT !.awaits = 0, !.polls = @ + 1]
    <3> DEFINE n == operation.polls + 1
    <3>1. operation' = [operation EXCEPT !.awaits = 0, !.polls = n]
      BY <2>3, Zenon
    <3>2. n \in 0 .. MaxPolls
      BY <1>0, <2>3
    <3> HIDE DEF n
    <3>3. operation'.polls \in 0 .. MaxPolls
      BY <1>9, <3>1, <3>2
    <3> QED BY <1>0, <1>b, <2>1, <3>3
  <2> QED BY <1>11, <2>2, <2>3 DEF Client!Collect
<1> QED BY <1>1, <1>2, <1>3, <1>4, <1>5, <1>6, <1>8, <1>10, <1>11 DEF Client!Next

LEMMA ClientTypesHold == ASSUME MaxPolls \in Nat PROVE Client!Spec => []Client!TypeOK
<1>1. Client!Init => ClientBounds
  BY DEF Client!Init, ClientBounds, Client!NoOperation, Client!NoPage
<1>2. ClientInv /\ ClientBounds /\ [Client!Next]_(Client!vars) => ClientBounds'
  BY ClientBoundsStep
<1>3. ClientInv /\ ClientBounds => Client!TypeOK
  <2> SUFFICES ASSUME ClientInv, ClientBounds PROVE Client!TypeOK
    OBVIOUS
  <2>1. \A m \in Client!ToSet(wire) \cup Client!ToSet(inbox) : m.id < client.nextId
    BY DEF Client!ToSet, ClientInv, ClientShapes, InOrder
  <2>2. operation.awaits > 0 => operation.awaits < client.nextId
    BY DEF ClientInv, ClientShapes, InOrder, OperationShape, ClientShape
  <2> QED BY <2>1, <2>2
          DEF Client!TypeOK, ClientBounds, ClientInv, ClientShapes, OneConnection, OperationShape
<1> QED BY <1>1, <1>2, <1>3, InitClientInv, ClientInvStep, PTL DEF Client!Spec

(* A browser that is there, and one that is shut down, was launched.       *)
RemoteBounds ==
    /\ alive \subseteq 1 .. launched
    /\ \A u \in Users : /\ user[u].polls \in 0 .. MaxPolls
                        /\ user[u].pc = "shutdown" => user[u].runtime \in 1 .. launched

LEMMA UserBounds ==
    ASSUME RemoteInv, RemoteBounds, NEW u \in Users, NEW to, user' = [user EXCEPT ![u] = to],
           to.polls \in 0 .. MaxPolls, to.pc = "shutdown" => to.runtime \in 1 .. launched,
           UNCHANGED launched, alive' \subseteq alive
    PROVE  RemoteBounds'
BY DEF RemoteInv, RemoteShapes, RemoteBounds

LEMMA UserRestsBounded ==
    ASSUME MaxPolls \in Nat, RemoteInv, RemoteBounds, NEW u \in Users, Remote!Rest(u),
           UNCHANGED launched, alive' \subseteq alive
    PROVE  RemoteBounds'
<1>1. Remote!Resting.polls \in 0 .. MaxPolls /\ Remote!Resting.pc # "shutdown"
  BY DEF Remote!Resting
<1> QED BY <1>1, UserBounds DEF Remote!Rest

LEMMA UserGoesBounded ==
    ASSUME RemoteInv, RemoteBounds, NEW u \in Users, NEW pc1, pc1 # "shutdown",
           Remote!Goto(u, pc1), UNCHANGED launched, alive' \subseteq alive
    PROVE  RemoteBounds'
<1> DEFINE to == [user[u] EXCEPT !.pc = pc1]
<1>1. user[u] \in UserShape
  BY DEF RemoteInv, RemoteShapes
<1>2. to.pc = pc1 /\ to.polls = user[u].polls
  BY <1>1 DEF UserShape
<1>3. user' = [user EXCEPT ![u] = to]
  BY DEF Remote!Goto
<1> HIDE DEF to
<1> QED BY <1>2, <1>3, UserBounds DEF RemoteBounds

LEMMA RemoteBoundsStep ==
    ASSUME MaxPolls \in Nat, RemoteInv, RemoteBounds, [Remote!Next]_(Remote!vars)
    PROVE  RemoteBounds'
<1>1. CASE Remote!BrowserDies \/ UNCHANGED Remote!vars
  BY <1>1 DEF Remote!BrowserDies, Remote!vars, RemoteBounds
<1>2. ASSUME NEW u \in Users,
             \/ Remote!Begin(u) \/ Remote!Insert(u) \/ Remote!OpenPage(u) \/ Remote!Read(u)
             \/ Remote!Shutdown(u) \/ Remote!Drop(u)
      PROVE  RemoteBounds'
  BY <1>2, UserRestsBounded, UserGoesBounded DEF Remote!Begin, Remote!Insert, Remote!OpenPage,
     Remote!Read, Remote!Shutdown, Remote!Drop, Remote!Fails
<1>3. ASSUME NEW u \in Users, Remote!Ensure(u) PROVE RemoteBounds'
  <2> DEFINE to == [user[u] EXCEPT !.pc = IF slot # 0 THEN "open" ELSE "launch", !.runtime = slot]
  <2>1. user[u] \in UserShape
    BY DEF RemoteInv, RemoteShapes
  <2>2. to.pc # "shutdown" /\ to.polls = user[u].polls
    BY <2>1 DEF UserShape
  <2>3. user' = [user EXCEPT ![u] = to] /\ UNCHANGED <<launched, alive>>
    BY <1>3 DEF Remote!Ensure
  <2> HIDE DEF to
  <2> QED BY <2>2, <2>3, UserBounds DEF RemoteBounds
<1>4. ASSUME NEW u \in Users, Remote!Launch(u) PROVE RemoteBounds'
  <2>1. CASE Remote!Rest(u) /\ UNCHANGED <<launched, alive>>
    BY <2>1, UserRestsBounded
  <2>2. CASE /\ launched' = launched + 1 /\ alive' = alive \cup {launched + 1}
             /\ user' = [user EXCEPT ![u].pc = "insert", ![u].runtime = launched + 1]
    <3>1. \A v \in Users : user'[v].polls = user[v].polls
                           /\ (user'[v].pc = "shutdown" => user'[v] = user[v])
      BY <2>2 DEF RemoteInv, RemoteShapes, UserShape
    <3> QED BY <2>2, <3>1 DEF RemoteBounds, RemoteInv, RemoteShapes
  <2> QED BY <1>4, <2>1, <2>2 DEF Remote!Launch, Remote!Rest
<1>5. ASSUME NEW u \in Users, Remote!Poll(u) PROVE RemoteBounds'
  <2>0. UNCHANGED <<launched, alive>> /\ user[u].pc = "poll" /\ user[u] \in UserShape
    BY <1>5 DEF Remote!Poll, RemoteInv, RemoteShapes
  <2>1. CASE Remote!Goto(u, "read") \/ Remote!Goto(u, "invalidate")
    BY <2>0, <2>1, UserGoesBounded
  <2>2. CASE Remote!Rest(u)
    BY <2>0, <2>2, UserRestsBounded
  <2>3. ASSUME NEW sight, user[u].polls + 1 < MaxPolls, user' = [user EXCEPT
                  ![u].polls = @ + 1, ![u].stable = Remote!StableAt(u, sight),
                  ![u].challenge = @ \/ sight = "challenge"]
        PROVE  RemoteBounds'
    <3> DEFINE n == user[u].polls + 1
               stable == Remote!StableAt(u, sight)
               challenge == user[u].challenge \/ sight = "challenge"
               to == [user[u] EXCEPT !.polls = n, !.stable = stable, !.challenge = challenge]
    <3>1. n \in 0 .. MaxPolls
      BY <2>3 DEF RemoteBounds
    <3>2. user' = [user EXCEPT ![u].polls = n, ![u].stable = stable, ![u].challenge = challenge]
      BY <2>3, Zenon
    <3> HIDE DEF n, stable, challenge
    <3>3. user' = [user EXCEPT ![u] = to] /\ user[u] \in UserShape
      BY <3>2 DEF RemoteInv, RemoteShapes
    <3>4. to.pc # "shutdown" /\ to.polls = n
      BY <2>0, <3>3 DEF UserShape
    <3> HIDE DEF to
    <3> QED BY <2>0, <3>1, <3>3, <3>4, UserBounds
  <2> QED BY <1>5, <2>1, <2>2, <2>3 DEF Remote!Poll, Remote!Fails
<1>6. ASSUME NEW u \in Users, Remote!Invalidate(u) PROVE RemoteBounds'
  <2>1. CASE Remote!Rest(u)
    BY <1>6, <2>1, UserRestsBounded DEF Remote!Invalidate
  <2>2. CASE slot = user[u].runtime /\ user' = [user EXCEPT ![u] =
                    [Remote!Resting EXCEPT !.pc = "shutdown", !.runtime = slot]]
    <3> DEFINE to == [Remote!Resting EXCEPT !.pc = "shutdown", !.runtime = slot]
    <3>1. to.polls = 0 /\ to.runtime = slot
      BY DEF Remote!Resting
    <3>2. slot \in 1 .. launched
      BY <1>6, <2>2 DEF RemoteInv, Uses, Remote!Invalidate
    <3>3. UNCHANGED <<launched, alive>>
      BY <1>6 DEF Remote!Invalidate
    <3>4. user' = [user EXCEPT ![u] = to]
      BY <2>2
    <3>5. to.polls \in 0 .. MaxPolls /\ to.runtime \in 1 .. launched /\ alive' \subseteq alive
      BY <3>1, <3>2, <3>3
    <3> HIDE DEF to
    <3> QED BY <3>3, <3>4, <3>5, UserBounds
  <2> QED BY <1>6, <2>1, <2>2 DEF Remote!Invalidate, Remote!IsCurrent
<1> QED BY <1>1, <1>2, <1>3, <1>4, <1>5, <1>6 DEF Remote!Next

LEMMA RemoteTypesHold == ASSUME MaxPolls \in Nat PROVE Remote!Spec => []Remote!TypeOK
<1>1. Remote!Init => RemoteBounds
  BY DEF Remote!Init, RemoteBounds, Remote!Resting
<1>2. RemoteInv /\ RemoteBounds /\ [Remote!Next]_(Remote!vars) => RemoteBounds'
  BY RemoteBoundsStep
<1>3. RemoteInv /\ RemoteBounds => Remote!TypeOK
  BY DEF RemoteInv, RemoteShapes, RemoteBounds, Remote!TypeOK, Remote!Runtimes, Uses
<1> QED BY <1>1, <1>2, <1>3, InitRemoteInv, RemoteInvStep, PTL DEF Remote!Spec

-----------------------------------------------------------------------------
(* The snapshots.                                                          *)

LEMMA FewCommits ==
    ASSUME NEW k \in Snapshots!Kinds
    PROVE  Len(Snapshots!Writes[k]) \in 1 .. 2
<1> USE DEF Snapshots!Writes, Snapshots!SetSourceEnabled, Snapshots!UpdateSourceSettings,
            Snapshots!UpdateLibrary, Snapshots!UpdateProgress, Snapshots!UpdateSettings,
            Snapshots!PauseUpscaling, Snapshots!ChangeDownload, Snapshots!EnqueueUnknown,
            Snapshots!WorkerStatus, Snapshots!RefreshMetadata, Snapshots!CompleteDownload
<1>1. k \in {"download_enqueued", "unknown_enqueued", "download_changed", "worker_status",
             "metadata", "chapters_synced", "archive_created", "archive_deleted",
             "archive_metadata", "source_enabled", "source_settings", "local_library",
             "read_progress", "settings", "upscale_setting"}
  BY DEF Snapshots!Kinds
<1>2. CASE k \in {"download_enqueued", "download_changed", "worker_status", "metadata",
                  "chapters_synced", "archive_created", "archive_deleted", "archive_metadata",
                  "local_library", "upscale_setting"}
  BY <1>2
<1>3. CASE k \in {"unknown_enqueued", "source_enabled", "source_settings", "read_progress",
                  "settings"}
  BY <1>3
<1> QED BY <1>1, <1>2, <1>3

ChangeShape == [kind : Snapshots!Kinds, wrote : 0 .. 2, at : {"idle", "writing", "failed", "ended"}]
SnapshotAsk == [at : {"idle", "computing", "computed", "answered"}, before : SUBSET Changes,
                saw : [Changes -> 0 .. 2], from : Snapshots!Entries]

LEMMA SnapshotTypesStep ==
    ASSUME TTL \in Nat \ {0}, MaxTime \in Nat, Snapshots!TypeOK, [Snapshots!Next]_(Snapshots!vars)
    PROVE  Snapshots!TypeOK'
<1> USE DEF Snapshots!TypeOK
<1>0. /\ changed \in [Changes -> ChangeShape] /\ request \in [Requests -> SnapshotAsk]
      /\ Snapshots!NoEntry \in Snapshots!Entries /\ Snapshots!Ended \subseteq Changes
      /\ Snapshots!Idle \in SnapshotAsk
  BY DEF ChangeShape, SnapshotAsk, Snapshots!Entries, Snapshots!Ended, Snapshots!Idle,
         Snapshots!Unread
<1>1. ASSUME NEW c \in Changes, NEW to \in ChangeShape, changed' = [changed EXCEPT ![c] = to],
             UNCHANGED <<route, request, clock>>, snapshot' \in {snapshot, Snapshots!NoEntry}
      PROVE  Snapshots!TypeOK'
  <2>1. changed' \in [Changes -> ChangeShape]
    BY <1>0, <1>1
  <2>2. snapshot' \in Snapshots!Entries
    BY <1>0, <1>1
  <2> QED BY <1>1, <2>1, <2>2 DEF ChangeShape, Snapshots!Entries
<1>2. ASSUME NEW r \in Requests, NEW to \in SnapshotAsk, request' = [request EXCEPT ![r] = to],
             UNCHANGED <<route, changed, clock>>, snapshot' \in Snapshots!Entries
      PROVE  Snapshots!TypeOK'
  <2>1. request' \in [Requests -> SnapshotAsk]
    BY <1>0, <1>2
  <2> QED BY <1>2, <2>1 DEF SnapshotAsk, Snapshots!Entries
<1>3. ASSUME NEW c \in Changes, Snapshots!Commit(c) PROVE Snapshots!TypeOK'
  <2>0. changed[c] \in ChangeShape /\ UNCHANGED <<route, snapshot, request, clock>>
        /\ changed[c].wrote < Len(Snapshots!Writes[changed[c].kind])
    BY <1>0, <1>3 DEF Snapshots!Commit
  <2>1. CASE changed' = [changed EXCEPT ![c].at = "failed"]
    <3> DEFINE to == [changed[c] EXCEPT !.at = "failed"]
    <3>1. changed' = [changed EXCEPT ![c] = to] /\ to \in ChangeShape
      BY <2>0, <2>1 DEF ChangeShape
    <3> QED BY <1>1, <2>0, <3>1
  <2>2. CASE changed' = [changed EXCEPT ![c].at = "writing", ![c].wrote = @ + 1]
    <3> DEFINE n == changed[c].wrote + 1
               to == [changed[c] EXCEPT !.at = "writing", !.wrote = n]
    <3> DEFINE len == Len(Snapshots!Writes[changed[c].kind])
    <3>0. changed[c].kind \in Snapshots!Kinds /\ changed[c].wrote \in 0 .. 2
      BY <2>0 DEF ChangeShape
    <3>a. len \in 1 .. 2 /\ changed[c].wrote < len
      BY <2>0, <3>0, FewCommits
    <3> HIDE DEF len
    <3>1. n \in 0 .. 2
      BY <3>0, <3>a
    <3>2. changed' = [changed EXCEPT ![c].at = "writing", ![c].wrote = n]
      BY <2>2, Zenon
    <3> HIDE DEF n
    <3>3. changed' = [changed EXCEPT ![c] = to] /\ to \in ChangeShape
      BY <2>0, <3>1, <3>2 DEF ChangeShape
    <3> HIDE DEF to
    <3> QED BY <1>1, <2>0, <3>3
  <2> QED BY <1>3, <2>1, <2>2 DEF Snapshots!Commit
<1>4. ASSUME NEW c \in Changes, Snapshots!Remove(c) PROVE Snapshots!TypeOK'
  <2> DEFINE to == [changed[c] EXCEPT !.at = "ended"]
  <2>1. changed' = [changed EXCEPT ![c] = to] /\ to \in ChangeShape
    BY <1>0, <1>4 DEF ChangeShape, Snapshots!Remove
  <2> HIDE DEF to
  <2> QED BY <1>1, <1>4, <2>1 DEF Snapshots!Remove
<1>5. ASSUME NEW r \in Requests, Snapshots!Lookup(r) PROVE Snapshots!TypeOK'
  <2>1. CASE Snapshots!Fresh
    <3> DEFINE to == [at |-> "answered", before |-> Snapshots!Ended, saw |-> snapshot.saw,
                      from |-> snapshot]
    <3>1. snapshot # Snapshots!NoEntry
      BY <2>1 DEF Snapshots!Fresh, Snapshots!NoEntry
    <3>2. snapshot.saw \in [Changes -> 0 .. 2]
      BY <3>1 DEF Snapshots!Entries
    <3>3. to \in SnapshotAsk /\ request' = [request EXCEPT ![r] = to]
          /\ UNCHANGED <<route, changed, clock, snapshot>>
      BY <1>0, <1>5, <2>1, <3>2 DEF SnapshotAsk, Snapshots!Lookup
    <3> HIDE DEF to
    <3> QED BY <1>2, <3>3
  <2>2. CASE ~Snapshots!Fresh
    <3> DEFINE to == [Snapshots!Idle EXCEPT !.at = "computing", !.before = Snapshots!Ended]
    <3>1. to \in SnapshotAsk /\ request' = [request EXCEPT ![r] = to]
          /\ UNCHANGED <<route, changed, clock>> /\ snapshot' = Snapshots!NoEntry
      BY <1>0, <1>5, <2>2 DEF SnapshotAsk, Snapshots!Lookup
    <3> HIDE DEF to
    <3> QED BY <1>0, <1>2, <3>1
  <2> QED BY <2>1, <2>2
<1>6. ASSUME NEW r \in Requests, Snapshots!Compute(r) \/ Snapshots!Done(r) PROVE Snapshots!TypeOK'
  <2>1. CASE request' = [request EXCEPT ![r] = Snapshots!Idle]
    BY <1>0, <1>2, <1>6, <2>1 DEF Snapshots!Compute, Snapshots!Done
  <2>2. CASE request' = [request EXCEPT ![r].at = "computed", ![r].saw = Snapshots!Written]
    <3> DEFINE to == [request[r] EXCEPT !.at = "computed", !.saw = Snapshots!Written]
    <3>1. Snapshots!Written \in [Changes -> 0 .. 2]
      BY <1>0 DEF Snapshots!Written, ChangeShape
    <3>2. to \in SnapshotAsk /\ request' = [request EXCEPT ![r] = to]
      BY <1>0, <2>2, <3>1 DEF SnapshotAsk
    <3> HIDE DEF to
    <3> QED BY <1>2, <1>6, <3>2 DEF Snapshots!Compute, Snapshots!Done
  <2> QED BY <1>6, <2>1, <2>2 DEF Snapshots!Compute, Snapshots!Done
<1>7. ASSUME NEW r \in Requests, Snapshots!Insert(r) PROVE Snapshots!TypeOK'
  <2> DEFINE to == [request[r] EXCEPT !.at = "answered"]
  <2>1. to \in SnapshotAsk /\ request' = [request EXCEPT ![r] = to]
    BY <1>0, <1>7 DEF SnapshotAsk, Snapshots!Insert
  <2>2. clock + TTL \in 1 .. MaxTime + TTL /\ request[r].saw \in [Changes -> 0 .. 2]
    BY <1>0 DEF SnapshotAsk
  <2>3. snapshot' \in Snapshots!Entries
    BY <1>0, <1>7, <2>2 DEF Snapshots!Insert, Snapshots!Entries
  <2> HIDE DEF to
  <2> QED BY <1>2, <1>7, <2>1, <2>3 DEF Snapshots!Insert
<1>8. CASE Snapshots!Forget \/ Snapshots!Tick \/ UNCHANGED Snapshots!vars
  <2>1. snapshot' \in Snapshots!Entries /\ clock' \in 0 .. MaxTime
        /\ UNCHANGED <<route, changed, request>>
    BY <1>0, <1>8 DEF Snapshots!Forget, Snapshots!Tick, Snapshots!vars
  <2> QED BY <2>1 DEF Snapshots!Entries
<1> QED BY <1>3, <1>4, <1>5, <1>6, <1>7, <1>8 DEF Snapshots!Next

LEMMA SnapshotTypesHold ==
    ASSUME TTL \in Nat \ {0}, MaxTime \in Nat PROVE Snapshots!Spec => []Snapshots!TypeOK
<1>1. Snapshots!Init => Snapshots!TypeOK
  BY DEF Snapshots!Init, Snapshots!TypeOK, Snapshots!Entries, Snapshots!Idle, Snapshots!Unread
<1> QED BY <1>1, SnapshotTypesStep, PTL DEF Snapshots!Spec

-----------------------------------------------------------------------------
(* What is written is one of the versions, and the queue has one place.    *)
UpscalerBounds ==
    /\ edits \in 0 .. MaxEdits
    /\ disk.manifest # None => disk.manifest.version >= 1
    /\ \A m \in Models : disk.model[m] # None => disk.model[m].version >= 1
    /\ Len(queue) <= Inference!Capacity

LEMMA UpscalerBoundsStep ==
    ASSUME MaxLoaded \in Nat \ {0}, MaxEdits \in Nat, UpscalerInv, UpscalerBounds,
           [Inference!Next]_(Inference!vars)
    PROVE  UpscalerBounds'
<1>0. /\ disk \in Directories /\ queue \in Seq(QueuedShape) /\ Inference!Capacity = 1
      /\ edits \in Nat
  BY DEF UpscalerInv, FilesInv, QueueInv, Inference!Capacity
<1>1. ASSUME UNCHANGED <<disk, edits>>, Len(queue') <= 1 PROVE UpscalerBounds'
  BY <1>0, <1>1 DEF UpscalerBounds
<1>2. CASE Inference!Edit
  <2> DEFINE n == edits + 1
  <2>1. n \in 0 .. MaxEdits /\ n >= 1 /\ edits' = n /\ UNCHANGED queue
    BY <1>2, <1>0 DEF Inference!Edit
  <2>2. \/ \E s \in [Scales -> Models \cup {None}] :
              disk' = [disk EXCEPT !.manifest = [version |-> n, select |-> s]]
        \/ \E m \in Models, s \in Scales :
              disk' = [disk EXCEPT !.model[m] = [version |-> n, scale |-> s]]
        \/ \E m \in Models : disk' = [disk EXCEPT !.model[m] = None]
        \/ disk' = [disk EXCEPT !.manifest = None]
    BY <1>2, Zenon DEF Inference!Edit
  <2> HIDE DEF n
  <2>3. ASSUME NEW file, file # None => file.version >= 1,
               disk' = [disk EXCEPT !.manifest = file]
        PROVE  UpscalerBounds'
    <3>1. disk'.manifest = file /\ disk'.model = disk.model
      BY <1>0, <2>3 DEF Directories
    <3> QED BY <2>1, <2>3, <3>1 DEF UpscalerBounds
  <2>4. ASSUME NEW m \in Models, NEW file, file # None => file.version >= 1,
               disk' = [disk EXCEPT !.model[m] = file]
        PROVE  UpscalerBounds'
    <3>1. disk'.manifest = disk.manifest /\ disk'.model = [disk.model EXCEPT ![m] = file]
      BY <1>0, <2>4 DEF Directories
    <3>2. \A o \in Models : disk'.model[o] = IF o = m THEN file ELSE disk.model[o]
      BY <1>0, <3>1 DEF Directories
    <3> QED BY <2>1, <2>4, <3>1, <3>2 DEF UpscalerBounds
  <2>5. ASSUME NEW s \in [Scales -> Models \cup {None}],
               disk' = [disk EXCEPT !.manifest = [version |-> n, select |-> s]]
        PROVE  UpscalerBounds'
    <3> DEFINE file == [version |-> n, select |-> s]
    <3>1. file.version >= 1
      BY <2>1
    <3>2. disk' = [disk EXCEPT !.manifest = file]
      BY <2>5
    <3> HIDE DEF file
    <3> QED BY <2>3, <3>1, <3>2
  <2>6. ASSUME NEW m \in Models, NEW s \in Scales,
               disk' = [disk EXCEPT !.model[m] = [version |-> n, scale |-> s]]
        PROVE  UpscalerBounds'
    <3> DEFINE file == [version |-> n, scale |-> s]
    <3>1. file.version >= 1
      BY <2>1
    <3>2. disk' = [disk EXCEPT !.model[m] = file]
      BY <2>6
    <3> HIDE DEF file
    <3> QED BY <2>4, <3>1, <3>2
  <2> QED BY <2>2, <2>3, <2>4, <2>5, <2>6
<1>3. CASE Inference!AskToEnd
  BY <1>0, <1>1, <1>3 DEF Inference!AskToEnd
<1>4. ASSUME NEW c \in Callers, Inference!Call(c) \/ Inference!Send(c) \/ Inference!Drop(c)
      PROVE  UpscalerBounds'
  <2>0. UNCHANGED <<disk, edits>>
    BY <1>4 DEF Inference!Call, Inference!Send, Inference!Drop
  <2>1. CASE Inference!Call(c)
    BY <1>0, <1>1, <2>0, <2>1 DEF Inference!Call, UpscalerBounds
  <2>2. CASE Inference!Send(c)
    BY <1>0, <1>1, <2>0, <2>2 DEF Inference!Send, UpscalerBounds
  <2>3. CASE Inference!Drop(c)
    <3>1. DOMAIN queue' = DOMAIN queue
      BY <2>3 DEF Inference!Drop
    <3>2. queue' \in Seq(QueuedShape)
      BY <2>3, DropKeeps DEF UpscalerInv, QueueInv
    <3>3. Len(queue') = Len(queue)
      BY <1>0, <3>1, <3>2
    <3> QED BY <1>0, <1>1, <2>0, <3>3 DEF UpscalerBounds
  <2> QED BY <1>4, <2>1, <2>2, <2>3
<1>5. CASE Inference!Take
  <2>1. queue # <<>> /\ queue' = Tail(queue) /\ UNCHANGED <<disk, edits>>
    BY <1>5 DEF Inference!Take
  <2> QED BY <1>0, <1>1, <2>1 DEF UpscalerBounds
<1>6. CASE \/ Inference!StampManifest \/ Inference!ParseManifest \/ Inference!StampModel
           \/ Inference!Open \/ Inference!Infer \/ UNCHANGED Inference!vars
  <2>1. UNCHANGED <<disk, edits, queue>>
    BY <1>6 DEF Inference!StampManifest, Inference!ParseManifest, Inference!StampModel,
       Inference!Open, Inference!Infer, Inference!vars
  <2> QED BY <1>0, <1>1, <2>1 DEF UpscalerBounds
<1> QED BY <1>2, <1>3, <1>4, <1>5, <1>6 DEF Inference!Next

LEMMA UpscalerTypesHold ==
    ASSUME MaxLoaded \in Nat \ {0}, MaxEdits \in Nat PROVE Inference!Spec => []Inference!TypeOK
<1>1. Inference!Init => UpscalerBounds
  BY NothingIsShaped DEF Inference!Init, UpscalerBounds, Inference!Capacity
<1>2. UpscalerInv /\ UpscalerBounds /\ [Inference!Next]_(Inference!vars) => UpscalerBounds'
  BY UpscalerBoundsStep
<1>3. UpscalerInv /\ UpscalerBounds => Inference!TypeOK
  <2> SUFFICES ASSUME UpscalerInv, UpscalerBounds PROVE Inference!TypeOK
    OBVIOUS
  <2>1. disk \in Directories /\ edits \in Nat /\ Written(disk)
    BY DEF UpscalerInv, FilesInv
  <2>2. disk.manifest \in Inference!Manifests \cup {None}
    BY <2>1 DEF UpscalerBounds, Written, Directories, AnyManifest, Inference!Manifests
  <2>3. disk.model \in [Models -> Inference!ModelFiles \cup {None}]
    BY <2>1 DEF UpscalerBounds, Written, Directories, AnyModelFile, Inference!ModelFiles
  <2> QED BY <2>2, <2>3 DEF UpscalerInv, UpscalerBounds, QueueInv, WorkerInv, UpscaleCall,
             WorkerShape, Inference!TypeOK
<1> QED BY <1>1, <1>2, <1>3, InitUpscalerInv, UpscalerInvStep, PTL DEF Inference!Spec

-----------------------------------------------------------------------------
(* A step asks for the same page of the list or begins with the first, and *)
(* what it answers is of the uploads.                                      *)
Modest ==
    /\ call'.page \in {1, call.page} /\ UNCHANGED moves
    /\ answer'.chapters = answer.chapters \/ answer'.chapters \subseteq Uploads \X BOOLEAN

LEMMA GoesOnModestly ==
    ASSUME NEW next, Comix!Continue(next), next.page \in {1, call.page}
    PROVE  Modest
BY DEF Comix!Continue, Modest

LEMMA EndsModestly ==
    ASSUME NEW sort, NEW by, NEW chapters, NEW pages, Comix!End(sort, by, chapters, pages),
           chapters \subseteq Uploads \X BOOLEAN
    PROVE  Modest
<1>1. answer'.chapters = chapters /\ call' = Comix!Idle /\ UNCHANGED moves
  BY DEF Comix!End
<1> QED BY <1>1, IdleCall DEF Modest

LEMMA OthersModestly ==
    ASSUME NEW by, NEW pages, Comix!Fail \/ Comix!Ok(by) \/ Comix!PagesFrom(by, pages)
    PROVE  Modest
BY EndsModestly DEF Comix!Fail, Comix!Ok, Comix!PagesFrom

LEMMA FailingModestly ==
    ASSUME call \in CallShape, NEW step, NEW way, Comix!Failing(step, way)
    PROVE  Modest
<1> DEFINE next == [call EXCEPT !.at = step, !.failed = @ \cup {way}]
<1>1. next.page = call.page
  BY DEF CallShape
<1>2. Comix!Continue(next)
  BY DEF Comix!Failing
<1> HIDE DEF next
<1> QED BY <1>1, <1>2, GoesOnModestly

LEMMA NextModestly == Comix!NextCandidate => Modest
<1> SUFFICES ASSUME Comix!NextCandidate PROVE Modest
  OBVIOUS
<1>1. CASE Comix!Fail
  BY <1>1, OthersModestly
<1>2. CASE ~Comix!Fail
  <2>1. PICK ids : Comix!Continue([Comix!Idle EXCEPT !.op = call.op, !.ids = ids,
                                                     !.at = Comix!Lookup(ids)])
    BY <1>2 DEF Comix!NextCandidate
  <2> DEFINE next == [Comix!Idle EXCEPT !.op = call.op, !.ids = ids, !.at = Comix!Lookup(ids)]
  <2>2. next.page = 1
    BY DEF Comix!Idle
  <2>3. Comix!Continue(next)
    BY <2>1
  <2> HIDE DEF next
  <2> QED BY <2>2, <2>3, GoesOnModestly
<1> QED BY <1>1, <1>2

LEMMA ClosesModestly ==
    ASSUME NEW chapters \in SUBSET Uploads, NEW by, Comix!Close(chapters, by)
    PROVE  Modest
<1>1. PICK kept : kept = Comix!Plausible(chapters, call.details)
  OBVIOUS
<1>2. kept \subseteq Uploads
  BY <1>1 DEF Comix!Plausible
<1>3. CASE kept = {}
  BY <1>1, <1>3, OthersModestly DEF Comix!Close
<1>4. CASE kept # {}
  <2>1. PICK rows : rows = {<<u, Comix!HasReader(u)>> : u \in kept}
    OBVIOUS
  <2>2. Comix!End("ok", by, rows, {})
    BY <1>1, <1>4, <2>1 DEF Comix!Close
  <2>3. \A u \in kept : Comix!HasReader(u) \in BOOLEAN
    BY DEF Comix!HasReader
  <2>4. rows \subseteq Uploads \X BOOLEAN
    BY <1>2, <2>1, <2>3
  <2> QED BY <2>2, <2>4, EndsModestly
<1> QED BY <1>3, <1>4

(* A call that only goes to another step asks for the page it asked for.   *)
LEMMA StepModestly ==
    ASSUME call \in CallShape, NEW at, Comix!Continue([call EXCEPT !.at = at])
    PROVE  Modest
<1> DEFINE next == [call EXCEPT !.at = at]
<1>1. next.page = call.page
  BY DEF CallShape
<1>2. Comix!Continue(next)
  OBVIOUS
<1> HIDE DEF next
<1> QED BY <1>1, <1>2, GoesOnModestly

LEMMA LearnedModestly ==
    ASSUME call \in CallShape, NEW d, Comix!Learned(d)
    PROVE  Modest
<1>1. CASE call.op = "manga"
  BY <1>1, StepModestly DEF Comix!Learned
<1>2. CASE call.op = "chapters" /\ ~d.chapters
  BY <1>2, OthersModestly DEF Comix!Learned
<1>3. CASE call.op # "manga" /\ ~(call.op = "chapters" /\ ~d.chapters)
  <2> DEFINE next == [call EXCEPT !.details = d, !.at = "list"]
  <2>1. next.page = call.page
    BY DEF CallShape
  <2>2. Comix!Continue(next)
    BY <1>3 DEF Comix!Learned
  <2> HIDE DEF next
  <2> QED BY <2>1, <2>2, GoesOnModestly
<1> QED BY <1>1, <1>2, <1>3

LEMMA FirstStepsModestly ==
    ASSUME call \in CallShape,
           Comix!Search \/ Comix!Resolve \/ Comix!TitlePage \/ Comix!Details \/ Comix!Genres
    PROVE  Modest
<1>1. CASE Comix!Search
  <2>1. PICK way : \/ Comix!Ok(way) \/ Comix!Fail
                   \/ \E step \in {"keyword", "browse", "q"} : Comix!Failing(step, way)
    BY <1>1 DEF Comix!Search, Comix!SearchBy
  <2> QED BY <2>1, OthersModestly, FailingModestly
<1>2. CASE Comix!Resolve
  <2>1. PICK ids : Comix!Continue([call EXCEPT !.ids = ids, !.at = Comix!Lookup(ids)])
    BY <1>2 DEF Comix!Resolve
  <2> DEFINE next == [call EXCEPT !.ids = ids, !.at = Comix!Lookup(ids)]
  <2>2. next.page = call.page
    BY DEF CallShape
  <2>3. Comix!Continue(next)
    BY <2>1
  <2> HIDE DEF next
  <2> QED BY <2>2, <2>3, GoesOnModestly
<1>3. CASE Comix!TitlePage \/ Comix!Details
  <2>1. \/ \E d \in Comix!DetailsOf(site) : Comix!Learned(d)
        \/ Comix!NextCandidate
        \/ \E at \in {"details", "list"} : Comix!Continue([call EXCEPT !.at = at])
    BY <1>3 DEF Comix!TitlePage, Comix!Details
  <2> QED BY <2>1, LearnedModestly, NextModestly, StepModestly
<1>4. CASE Comix!Genres
  BY <1>4, OthersModestly DEF Comix!Genres
<1> QED BY <1>1, <1>2, <1>3, <1>4

(* The pages of the list end no later than its chapters.                   *)
LEMMA PagesOfList ==
    ASSUME Listed, site \in SUBSET Uploads, NEW way, NEW n \in Nat \ {0},
           NEW reply \in Comix!ListReplies(way, n), reply.more
    PROVE  n + 1 <= Cardinality(Uploads)
<1>1. reply = Comix!ListPage(site, way, n)
  BY DEF Comix!ListReplies
<1>2. n * Limit < Cardinality(site)
  <2>1. reply.more = (n * Limit < Comix!Cardinality(site))
    BY <1>1 DEF Comix!ListPage
  <2> QED BY <2>1, ComixCounts
<1>3. Cardinality(site) <= Cardinality(Uploads) /\ Cardinality(site) \in Nat
      /\ Cardinality(Uploads) \in Nat
  BY FS_Subset, FS_CardinalityType DEF Listed
<1>4. n * Limit >= n /\ n * Limit \in Nat
  <2>1. Limit \in Nat \ {0}
    BY DEF Listed
  <2>2. PICK k \in Nat : Limit = k + 1
    BY <2>1
  <2>3. n * (k + 1) = n * k + n /\ n * k \in Nat
    OBVIOUS
  <2> QED BY <2>2, <2>3
<1> QED BY <1>2, <1>3, <1>4

PageOfList == call.page <= Cardinality(Uploads)
OfTheUploads == answer.chapters \subseteq Uploads \X BOOLEAN
ComixBounds == moves \in 0 .. MaxMoves /\ PageOfList /\ OfTheUploads

LEMMA ModestIsBounded ==
    ASSUME Listed, Uploads # {}, ComixBounds, Modest
    PROVE  ComixBounds'
<1>1. Cardinality(Uploads) \in Nat /\ Cardinality(Uploads) >= 1
  <2>1. Cardinality(Uploads) \in Nat /\ (Cardinality(Uploads) = 0 <=> Uploads = {})
    BY FS_CardinalityType, FS_EmptySet DEF Listed
  <2> QED BY <2>1
<1>2. PageOfList'
  BY <1>1 DEF Modest, ComixBounds, PageOfList
<1>3. OfTheUploads'
  BY DEF Modest, ComixBounds, OfTheUploads
<1> QED BY <1>2, <1>3 DEF Modest, ComixBounds

LEMMA AfterListModestly ==
    ASSUME call \in CallShape, NEW chapters \in SUBSET Uploads, Comix!AfterList(chapters)
    PROVE  Modest
<1>1. \/ Comix!Close(chapters, "list") \/ Comix!NextCandidate
      \/ Comix!Continue([call EXCEPT !.at = "indexes"])
  BY DEF Comix!AfterList
<1> QED BY <1>1, ClosesModestly, NextModestly, StepModestly

LEMMA ListBounded ==
    ASSUME Listed, Uploads # {}, ComixInv, ComixBounds, Comix!ChapterList
    PROVE  ComixBounds'
<1>1. call \in CallShape /\ call.found \in SUBSET Uploads /\ site \in SUBSET Uploads
      /\ call.page \in Nat \ {0}
  BY DEF ComixInv, CallInv, CallShape, HistoryInv
<1>2. ASSUME NEW way, NEW step, Comix!ListAt(way, step) PROVE ComixBounds'
  <2>1. PICK reply \in Comix!ListReplies(way, call.page) :
          IF reply.more
          THEN Comix!Continue([call EXCEPT !.at = "list",
                                           !.found = Comix!Upserted(call.found, reply.items),
                                           !.page = @ + 1])
          ELSE Comix!AfterList(Comix!Upserted(call.found, reply.items))
    BY <1>1, <1>2 DEF Comix!ListAt
  <2>2. PICK found : found = Comix!Upserted(call.found, reply.items)
    OBVIOUS
  <2>3. reply.items \in SUBSET site
    BY <2>1 DEF Comix!ListReplies, Comix!ListPage
  <2>4. found \in SUBSET Uploads
    BY <1>1, <2>2, <2>3 DEF Comix!Upserted
  <2>5. CASE reply.more
    <3> DEFINE next == [call EXCEPT !.at = "list", !.found = found, !.page = @ + 1]
    <3>1. Comix!Continue(next)
      BY <2>1, <2>2, <2>5
    <3>2. next.page = call.page + 1
      BY <1>1 DEF CallShape
    <3> HIDE DEF next
    <3>3. call.page + 1 <= Cardinality(Uploads)
      BY <1>1, <2>1, <2>5, PagesOfList
    <3>4. call' = next /\ UNCHANGED <<answer, moves>>
      BY <3>1 DEF Comix!Continue
    <3> QED BY <3>2, <3>3, <3>4 DEF ComixBounds, PageOfList, OfTheUploads
  <2>6. CASE ~reply.more
    BY <1>1, <2>1, <2>2, <2>4, <2>6, AfterListModestly, ModestIsBounded
  <2> QED BY <2>5, <2>6
<1>3. \/ Comix!ListAt("by-number", "list") \/ Comix!ListAt("as-it-comes", "list-unordered")
      \/ Comix!Failing("list-unordered", "list") \/ Comix!AfterList(call.found)
  BY DEF Comix!ChapterList
<1>4. CASE Comix!Failing("list-unordered", "list") \/ Comix!AfterList(call.found)
  BY <1>1, <1>4, FailingModestly, AfterListModestly, ModestIsBounded
<1> QED BY <1>2, <1>3, <1>4

LEMMA AfterIndexesModestly ==
    ASSUME call \in CallShape, Comix!AfterIndexes
    PROVE  Modest
<1>1. call.found \in SUBSET Uploads
  BY DEF CallShape
<1>2. \/ Comix!Close(call.found, "indexes") \/ Comix!NextCandidate
      \/ Comix!Continue([call EXCEPT !.at = "capture"])
  BY DEF Comix!AfterIndexes
<1> QED BY <1>1, <1>2, ClosesModestly, NextModestly, StepModestly

LEMMA IndexesModestly ==
    ASSUME call \in CallShape, Comix!Indexes \/ Comix!Index \/ Comix!Chapter
    PROVE  Modest
<1>1. CASE Comix!Indexes /\ ~Comix!AfterIndexes
  <2>1. PICK readers : Comix!Continue([call EXCEPT !.at = "index", !.todo = readers])
    BY <1>1 DEF Comix!Indexes
  <2> DEFINE next == [call EXCEPT !.at = "index", !.todo = readers]
  <2>2. next.page = call.page
    BY DEF CallShape
  <2>3. Comix!Continue(next)
    BY <2>1
  <2> HIDE DEF next
  <2> QED BY <2>2, <2>3, GoesOnModestly
<1>2. CASE Comix!Index /\ call.todo # {}
  <2>1. PICK n \in call.todo :
          \/ \E u \in site : Number(u) = n /\
               Comix!Continue([[call EXCEPT !.todo = @ \ {n}] EXCEPT !.at = "chapter", !.chosen = u])
          \/ Comix!Continue([[call EXCEPT !.todo = @ \ {n}] EXCEPT
                                !.failed = @ \cup {"indexes"}])
    BY <1>2 DEF Comix!Index
  <2>2. ASSUME NEW u, Comix!Continue([[call EXCEPT !.todo = @ \ {n}] EXCEPT !.at = "chapter",
                                                                            !.chosen = u])
        PROVE  Modest
    <3> DEFINE next == [[call EXCEPT !.todo = @ \ {n}] EXCEPT !.at = "chapter", !.chosen = u]
    <3>1. next.page = call.page
      BY DEF CallShape
    <3>2. Comix!Continue(next)
      BY <2>2
    <3> HIDE DEF next
    <3> QED BY <3>1, <3>2, GoesOnModestly
  <2>3. CASE Comix!Continue([[call EXCEPT !.todo = @ \ {n}] EXCEPT !.failed = @ \cup {"indexes"}])
    <3> DEFINE next == [[call EXCEPT !.todo = @ \ {n}] EXCEPT !.failed = @ \cup {"indexes"}]
    <3>1. next.page = call.page
      BY DEF CallShape
    <3>2. Comix!Continue(next)
      BY <2>3
    <3> HIDE DEF next
    <3> QED BY <3>1, <3>2, GoesOnModestly
  <2> QED BY <2>1, <2>2, <2>3
<1>3. CASE Comix!Chapter
  <2> DEFINE rest == [call EXCEPT !.at = "index", !.chosen = None]
  <2>1. rest \in CallShape /\ rest.page = call.page
    BY DEF CallShape, Listing
  <2>2. \/ Comix!Continue([rest EXCEPT !.found = Comix!Upserted(rest.found, {call.chosen})])
        \/ Comix!Continue([rest EXCEPT !.failed = @ \cup {"indexes"}])
    BY <1>3, <2>1 DEF Comix!Chapter
  <2> HIDE DEF rest
  <2>3. PICK found : found = Comix!Upserted(rest.found, {call.chosen})
    OBVIOUS
  <2>4. [rest EXCEPT !.found = found].page = call.page
        /\ [rest EXCEPT !.failed = @ \cup {"indexes"}].page = call.page
    BY <2>1 DEF CallShape
  <2> QED BY <2>2, <2>3, <2>4, GoesOnModestly
<1>4. CASE Comix!AfterIndexes
  BY <1>4, AfterIndexesModestly
<1>5. CASE Comix!Index /\ call.todo = {}
  BY <1>5, AfterIndexesModestly DEF Comix!Index
<1> QED BY <1>1, <1>2, <1>3, <1>4, <1>5

LEMMA CaptureModestly ==
    ASSUME call \in CallShape, site \in SUBSET Uploads, Comix!ChapterCapture
    PROVE  Modest
<1>1. ASSUME NEW n, Comix!Captured(n) PROVE Modest
  <2>1. PICK reply : reply = Comix!ListPage(site, "by-number", n)
    OBVIOUS
  <2>2. PICK pages : pages = call.captured.pages \cup {n}
    OBVIOUS
  <2>3. PICK chapters : chapters = call.captured.chapters \cup reply.items
    OBVIOUS
  <2>4. chapters \in SUBSET Uploads
    <3>1. reply.items \subseteq site
      BY <2>1 DEF Comix!ListPage
    <3>2. call.captured \in [pages : SUBSET Nat, chapters : SUBSET Uploads]
      BY DEF CallShape
    <3> QED BY <2>3, <3>1, <3>2
  <2>5. PICK best : best = Comix!Upserted({}, chapters)
    OBVIOUS
  <2>6. best \in SUBSET Uploads
    BY <2>4, <2>5 DEF Comix!Upserted
  <2>7. \/ Comix!Continue([call EXCEPT !.captured = [pages |-> pages, chapters |-> chapters]])
        \/ Comix!NextCandidate \/ Comix!Close(best, "capture")
    BY <1>1, <2>1, <2>2, <2>3, <2>5 DEF Comix!Captured
  <2>8. CASE Comix!Continue([call EXCEPT !.captured = [pages |-> pages, chapters |-> chapters]])
    <3> DEFINE next == [call EXCEPT !.captured = [pages |-> pages, chapters |-> chapters]]
    <3>1. next.page = call.page
      BY DEF CallShape
    <3>2. Comix!Continue(next)
      BY <2>8
    <3> HIDE DEF next
    <3> QED BY <3>1, <3>2, GoesOnModestly
  <2> QED BY <2>6, <2>7, <2>8, NextModestly, ClosesModestly
<1> QED BY <1>1, NextModestly DEF Comix!ChapterCapture

LEMMA ScriptModestly ==
    ASSUME call \in CallShape, Comix!PageDecode \/ Comix!PageParse \/ Comix!PageGuess
    PROVE  Modest
<1>1. PICK script \in ScriptShape : script = call.script
  BY DEF CallShape
<1>2. ASSUME NEW decoding, NEW first,
             Comix!Continue([call EXCEPT !.script.decoding = decoding,
                                         !.script.payloads = <<first>> \o @])
      PROVE  Modest
  <2>1. [call EXCEPT !.script.decoding = decoding, !.script.payloads = <<first>> \o @].page
            = call.page
    BY DEF CallShape
  <2> QED BY <1>2, <2>1, GoesOnModestly
<1>3. ASSUME NEW decoding, Comix!Continue([call EXCEPT !.script.decoding = decoding]) PROVE Modest
  <2>1. [call EXCEPT !.script.decoding = decoding].page = call.page
    BY DEF CallShape
  <2> QED BY <1>3, <2>1, GoesOnModestly
<1>4. ASSUME NEW payloads, Comix!Continue([call EXCEPT !.script.payloads = payloads]) PROVE Modest
  <2>1. [call EXCEPT !.script.payloads = payloads].page = call.page
    BY DEF CallShape
  <2> QED BY <1>4, <2>1, GoesOnModestly
<1>5. CASE Comix!PageDecode
  BY <1>2, <1>3, <1>5 DEF Comix!PageDecode
<1>6. CASE Comix!PageParse \/ Comix!PageGuess
  BY <1>4, <1>6 DEF Comix!PageParse, Comix!PageGuess
<1> QED BY <1>5, <1>6

LEMMA PagesModestly ==
    ASSUME call \in CallShape, Comix!PageApi \/ Comix!PageCapture
    PROVE  Modest
<1>1. CASE Comix!PageApi
  <2>1. \/ \E pages : Comix!Continue([call EXCEPT !.at = "page-capture", !.listed = pages])
        \/ \E pages : Comix!PagesFrom("api", pages)
        \/ Comix!Failing("page-capture", "api") \/ Comix!Fail
    BY <1>1 DEF Comix!PageApi
  <2>2. ASSUME NEW pages, Comix!Continue([call EXCEPT !.at = "page-capture", !.listed = pages])
        PROVE  Modest
    <3> DEFINE next == [call EXCEPT !.at = "page-capture", !.listed = pages]
    <3>1. next.page = call.page
      BY DEF CallShape
    <3>2. Comix!Continue(next)
      BY <2>2
    <3> HIDE DEF next
    <3> QED BY <3>1, <3>2, GoesOnModestly
  <2> QED BY <2>1, <2>2, OthersModestly, FailingModestly
<1>2. CASE Comix!PageCapture
  <2>1. Comix!Fail \/ \E by, pages : Comix!PagesFrom(by, pages)
    BY <1>2 DEF Comix!PageCapture
  <2> QED BY <2>1, OthersModestly
<1> QED BY <1>1, <1>2

LEMMA AskModestly == ASSUME NEW o \in Comix!Ops, Comix!Ask(o) PROVE Modest
<1>1. UNCHANGED moves /\ answer' = Comix!NoAnswer
  BY DEF Comix!Ask
<1>2. call'.page = 1
  <2>1. CASE o = "search"
    BY <2>1 DEF Comix!Ask, Comix!Idle
  <2>2. CASE o = "pages"
    <3>1. PICK id, at : call' = [Comix!Idle EXCEPT !.op = o, !.chapter = id, !.at = at]
      BY <2>2 DEF Comix!Ask
    <3> QED BY <3>1 DEF Comix!Idle
  <2>3. CASE o \notin {"search", "pages"}
    <3>1. PICK ids, at : call' = [Comix!Idle EXCEPT !.op = o, !.ids = ids, !.at = at]
      BY <2>3 DEF Comix!Ask
    <3> QED BY <3>1 DEF Comix!Idle
  <2> QED BY <2>1, <2>2, <2>3
<1> QED BY <1>1, <1>2 DEF Modest, Comix!NoAnswer

LEMMA ComixBoundsStep ==
    /\ Listed /\ Uploads # {} /\ MaxMoves \in Nat
    /\ ComixInv /\ ComixBounds /\ [Comix!Next]_(Comix!vars)
    => ComixBounds'
<1> SUFFICES ASSUME Listed, Uploads # {}, MaxMoves \in Nat, ComixInv, ComixBounds,
                    [Comix!Next]_(Comix!vars)
             PROVE  ComixBounds'
  OBVIOUS
<1>0. call \in CallShape /\ site \in SUBSET Uploads
  BY DEF ComixInv, CallInv, HistoryInv
<1>1. CASE Comix!Move
  <2>1. moves < MaxMoves /\ moves' = moves + 1 /\ UNCHANGED <<call, answer>>
    BY <1>1 DEF Comix!Move
  <2> QED BY <2>1 DEF ComixBounds, PageOfList, OfTheUploads
<1>2. CASE Comix!ChapterList
  BY <1>2, ListBounded
<1>3. CASE UNCHANGED Comix!vars
  BY <1>3 DEF Comix!vars, ComixBounds, PageOfList, OfTheUploads
<1>4. ASSUME \/ \E o \in Comix!Ops : Comix!Ask(o)
             \/ Comix!Search \/ Comix!Resolve \/ Comix!TitlePage \/ Comix!Details \/ Comix!Genres
             \/ Comix!Indexes \/ Comix!Index \/ Comix!Chapter \/ Comix!ChapterCapture
             \/ Comix!PageApi \/ Comix!PageDecode \/ Comix!PageParse \/ Comix!PageGuess
             \/ Comix!PageCapture
      PROVE  ComixBounds'
  <2>1. Modest
    BY <1>0, <1>4, AskModestly, FirstStepsModestly, IndexesModestly, CaptureModestly,
       ScriptModestly, PagesModestly
  <2> QED BY <2>1, ModestIsBounded
<1> QED BY <1>1, <1>2, <1>3, <1>4 DEF Comix!Next

LEMMA ComixTypesHold ==
    ASSUME Listed, Uploads # {}, MaxMoves \in Nat PROVE Comix!Spec => []Comix!TypeOK
<1>0. Cardinality(Uploads) \in Nat /\ Cardinality(Uploads) >= 1
      /\ Comix!Cardinality(Uploads) = Cardinality(Uploads)
  <2>1. Cardinality(Uploads) \in Nat /\ (Cardinality(Uploads) = 0 <=> Uploads = {})
    BY FS_CardinalityType, FS_EmptySet DEF Listed
  <2> QED BY <2>1, ComixCounts
<1>1. Comix!Init => ComixBounds
  BY <1>0, IdleCall DEF Comix!Init, ComixBounds, PageOfList, OfTheUploads, Comix!NoAnswer
<1>2. ComixInv /\ ComixBounds /\ [Comix!Next]_(Comix!vars) => ComixBounds'
  BY ComixBoundsStep
<1>3. ComixInv /\ [Comix!Next]_(Comix!vars) => ComixInv'
  BY NextComixInv
<1>4. ComixInv /\ ComixBounds => Comix!TypeOK
  <2> SUFFICES ASSUME ComixInv, ComixBounds PROVE Comix!TypeOK
    OBVIOUS
  <2>1. call \in CallShape /\ site \in SUBSET Uploads /\ sites \in Seq(SUBSET Uploads)
    BY DEF ComixInv, CallInv, HistoryInv
  <2>2. /\ call.op \in Comix!Ops \cup {None} /\ call.ids \in Seq(Comix!Ids)
        /\ call.found \subseteq Uploads /\ call.captured.chapters \subseteq Uploads
        /\ call.page \in Nat \ {0}
    BY <2>1 DEF CallShape
  <2>3. call.page \in 1 .. Comix!Cardinality(Uploads) + MaxMoves
    BY <1>0, <2>2 DEF ComixBounds, PageOfList
  <2> QED BY <2>1, <2>2, <2>3 DEF ComixBounds, OfTheUploads, Comix!TypeOK
<1> QED BY <1>1, <1>2, <1>3, <1>4, InitComixInv, PTL DEF Comix!Spec
=============================================================================
