--------------------------- MODULE SourceFetchProofs ---------------------------
(***************************************************************************)
(* The clearance session of a host, for any number of requests of any      *)
(* kinds.                                                                  *)
(***************************************************************************)
EXTENDS SourceFetch, TLAPS, FiniteSetTheorems

Places == {"idle", "queued", "send", "sent", "capture", "solve", "parking", "parked",
           "solving", "notify", "invalidate", "done"}
Turns == 0 .. 3
Shape == [pc : Places, turn : Turns, call : Requests \cup {None}, cookie : Nat,
          waits : Requests \cup {None}, held : Nat, tried : Nat]
Sessions ==
    {NoSession} \cup {Pending(r) : r \in Requests}
      \cup [state : {"ready"}, solution : Nat, fresh : BOOLEAN]

-----------------------------------------------------------------------------
(* The invariants.                                                         *)

Shapes ==
    /\ kind \in [Requests -> {"api", "page", "post", "media"}]
    /\ req \in [Requests -> Shape]
    /\ entry \in Sessions
    /\ solved \in Nat /\ jar = solved

(* A session that is ready is the newest solution, whose cookies are in    *)
(* the jar; no request holds a newer one or was sent with it.              *)
SolutionsAreOld ==
    /\ entry.state = "ready" => entry.solution = solved
    /\ \A r \in Requests : req[r].held <= solved

(* Who is on a call waits for its answer; who leads it is on it, with all  *)
(* who sent the same, and there is one such call at a time.                *)
CallsAreShared ==
    /\ \A r \in Requests : req[r].call # None =>
         /\ req[r].pc = "sent"
         /\ Leads(req[r].call)
         /\ CoalesceKey(req[r].call) = CoalesceKey(r)
    /\ \A l, m \in Requests :
         Leads(l) /\ Leads(m) /\ CoalesceKey(l) = CoalesceKey(m) => l = m

(* A request has a turn of a retry only from a session it was given, and   *)
(* its second one is on calls that began with that session or a newer one. *)
RetriesCarryTheSession ==
    \A r \in Requests :
        /\ req[r].turn > 0 => req[r].pc \in {"send", "sent", "invalidate"}
        /\ req[r].pc = "sent" => req[r].call # None
        /\ req[r].pc = "invalidate" \/ req[r].turn = 3 => req[r].tried >= req[r].held
        /\ req[r].turn = 2 =>
             \A l \in Requests :
                Leads(l) /\ CoalesceKey(l) = CoalesceKey(r) => req[l].cookie >= req[r].held

(* The session of a solver is pending unless somebody else removed it.     *)
SolversArePending ==
    \A r \in Solving \ displaced : entry.state = "pending" /\ entry.by = r

IInv ==
    /\ Shapes /\ SolutionsAreOld /\ CallsAreShared /\ RetriesCarryTheSession
    /\ SolversArePending /\ PendingHasSolver

-----------------------------------------------------------------------------
(* Requests move; what a call was asked for stays.                         *)

LEMMA IdleFields ==
  /\ Idle \in Shape /\ Done \in Shape
  /\ Idle.pc = "idle" /\ Done.pc = "done"
  /\ \A n \in {Idle, Done} :
       n.turn = 0 /\ n.call = None /\ n.cookie = 0 /\ n.held = 0 /\ n.tried = 0
  BY DEF Idle, Done, Shape, Places, Turns

LEMMA GotoFields ==
  ASSUME req \in [Requests -> Shape], NEW r \in Requests, NEW p \in Places
  PROVE  /\ Goto(r, p) \in [Requests -> Shape]
         /\ Goto(r, p)[r].pc = p
         /\ Goto(r, p)[r].turn = req[r].turn /\ Goto(r, p)[r].call = req[r].call
         /\ Goto(r, p)[r].held = req[r].held /\ Goto(r, p)[r].tried = req[r].tried
         /\ \A q \in Requests \ {r} : Goto(r, p)[q] = req[q]
  BY DEF Goto, Shape

(* Requests that are not on a call, or leave it with everyone on it.       *)
LEMMA MovesKeepCalls ==
  ASSUME IInv, NEW M \in SUBSET Requests,
         req' \in [Requests -> Shape], kind' = kind,
         \A q \in Requests \ M : req'[q] = req[q],
         \A q \in M :
            /\ \A p \in Requests : req[p].call = q => p \in M
            /\ req'[q].call = None /\ req'[q].pc # "sent"
            /\ req'[q].turn > 0 => req'[q].pc \in {"send", "invalidate"}
            /\ req'[q].pc = "invalidate" \/ req'[q].turn = 3 => req'[q].tried >= req'[q].held
            /\ req'[q].turn = 2 =>
                 \A l \in Requests \ M :
                    Leads(l) /\ CoalesceKey(l) = CoalesceKey(q)' => req[l].cookie >= req'[q].held
  PROVE  CallsAreShared' /\ RetriesCarryTheSession'
<1>1. \A q \in Requests : req[q].call \in Requests \cup {None}
  BY DEF IInv, Shapes, Shape
<1>2. \A q \in Requests \ M :
         /\ Leads(q)' <=> Leads(q)
         /\ CoalesceKey(q)' = CoalesceKey(q)
  BY DEF Leads, CoalesceKey
<1>3. \A q \in M : ~Leads(q)'
  BY NoneIsNoRequest DEF Leads
<1>4. \A q \in Requests : req'[q].call # None =>
        /\ q \notin M /\ req[q].call \in Requests \ M
        /\ req'[q].pc = "sent" /\ Leads(req[q].call)
        /\ CoalesceKey(req[q].call) = CoalesceKey(q)
  BY <1>1 DEF IInv, CallsAreShared
<1>5. CallsAreShared'
  <2>1. ASSUME NEW q \in Requests, req'[q].call # None
        PROVE  /\ req'[q].pc = "sent"
               /\ Leads(req[q].call)'
               /\ CoalesceKey(req[q].call)' = CoalesceKey(q)'
               /\ req'[q].call = req[q].call
    <3>1. /\ q \notin M /\ req[q].call \in Requests \ M
          /\ req'[q].pc = "sent" /\ Leads(req[q].call)
          /\ CoalesceKey(req[q].call) = CoalesceKey(q)
      BY <1>4, <2>1
    <3> DEFINE m == req[q].call
    <3>2. req'[m] = req[m] /\ req'[q] = req[q]
      BY <3>1
    <3>3. QED BY <1>2, <3>1, <3>2 DEF Leads, CoalesceKey
  <2>2. QED BY <1>2, <1>3, <2>1 DEF IInv, CallsAreShared, Leads, CoalesceKey
<1>6. RetriesCarryTheSession'
  BY <1>2, <1>3 DEF IInv, RetriesCarryTheSession
<1>7. QED BY <1>5, <1>6

(* Nobody takes a session up, and who lets go of one is known as dropped.  *)
LEMMA MovesKeepSessions ==
  ASSUME IInv, entry' = entry,
         (Solving \ displaced)' \subseteq Solving \ displaced,
         Solving \cup dropped \subseteq (Solving \cup dropped)'
  PROVE  SolversArePending' /\ PendingHasSolver'
  BY DEF IInv, SolversArePending, PendingHasSolver

(* One request that is on no call.                                         *)
LEMMA OneMoves ==
  ASSUME IInv, NEW r \in Requests, NEW n \in Shape,
         req' = [req EXCEPT ![r] = n], kind' = kind,
         req[r].pc # "sent", n.call = None, n.pc # "sent", n.turn \in {0, 1},
         n.turn > 0 => n.pc \in {"send", "invalidate"},
         n.pc = "invalidate" => n.tried >= n.held
  PROVE  /\ CallsAreShared' /\ RetriesCarryTheSession'
         /\ req' \in [Requests -> Shape] /\ req'[r] = n
         /\ \A q \in Requests \ {r} : req'[q] = req[q]
<1>1. /\ req' \in [Requests -> Shape] /\ req'[r] = n
      /\ \A q \in Requests \ {r} : req'[q] = req[q]
  BY DEF IInv, Shapes
<1>2. \A p \in Requests : req[p].call # r
  BY NoneIsNoRequest DEF IInv, CallsAreShared, Leads
<1> DEFINE M == {r}
<1>3. /\ M \in SUBSET Requests
      /\ \A q \in Requests \ M : req'[q] = req[q]
      /\ \A q \in M : q = r /\ req'[q] = n
  BY <1>1
<1> HIDE DEF M
<1>4. \A q \in M :
         /\ \A p \in Requests : req[p].call = q => p \in M
         /\ req'[q].call = None /\ req'[q].pc # "sent"
         /\ req'[q].turn > 0 => req'[q].pc \in {"send", "invalidate"}
         /\ req'[q].pc = "invalidate" \/ req'[q].turn = 3 => req'[q].tried >= req'[q].held
         /\ req'[q].turn # 2
  BY <1>2, <1>3
<1>5. CallsAreShared' /\ RetriesCarryTheSession'
  BY <1>1, <1>3, <1>4, MovesKeepCalls
<1>6. QED BY <1>1, <1>5

LEMMA InitIInv == Init => IInv
<1> SUFFICES ASSUME Init PROVE IInv
  OBVIOUS
<1>1. \A r \in Requests : req[r] = Idle
  BY DEF Init
<1>2. Shapes
  BY IdleFields, ProfilesAreKnown DEF Init, Shapes, Sessions
<1>3. SolutionsAreOld /\ CallsAreShared /\ RetriesCarryTheSession
  BY <1>1, IdleFields, NoneIsNoRequest
     DEF Init, SolutionsAreOld, CallsAreShared, RetriesCarryTheSession, NoSession, Leads
<1>4. SolversArePending /\ PendingHasSolver
  BY <1>1, IdleFields DEF Init, SolversArePending, PendingHasSolver, NoSession, Solving, At
<1>5. QED BY <1>2, <1>3, <1>4 DEF IInv

(* Before its first answer a request has no turn and no session.           *)
LEMMA FirstTurn ==
  ASSUME IInv, NEW r \in Requests, req[r].pc \notin {"send", "sent", "invalidate"}
  PROVE  req[r].turn = 0 /\ req[r].call = None
  BY DEF IInv, Shapes, Shape, Turns, CallsAreShared, RetriesCarryTheSession

(* The steps to a place before the first answer is in.                     *)
LEMMA GotoMoves ==
  ASSUME IInv, NEW r \in Requests, NEW p \in Places \ {"sent", "invalidate"},
         req' = Goto(r, p), kind' = kind, req[r].pc \notin {"send", "sent", "invalidate"}
  PROVE  /\ CallsAreShared' /\ RetriesCarryTheSession'
         /\ req' \in [Requests -> Shape]
         /\ req'[r].pc = p /\ req'[r].held = req[r].held
         /\ \A q \in Requests \ {r} : req'[q] = req[q]
<1>1. req \in [Requests -> Shape]
  BY DEF IInv, Shapes
<1>2. /\ req' \in [Requests -> Shape] /\ req'[r] \in Shape
      /\ req'[r].pc = p /\ req'[r].turn = 0 /\ req'[r].call = None
      /\ req'[r].held = req[r].held
      /\ \A q \in Requests \ {r} : req'[q] = req[q]
  BY <1>1, GotoFields, FirstTurn
<1>3. req' = [req EXCEPT ![r] = req'[r]]
  BY <1>1, <1>2
<1>4. QED BY <1>2, <1>3, OneMoves

LEMMA CallKeepsIInv ==
  ASSUME IInv, NEW r \in Requests, Call(r)
  PROVE  IInv'
<1>1. req' = Goto(r, "queued") /\ req[r].pc = "idle" /\ UNCHANGED <<kind, entry, jar, solved>>
  BY DEF Call, At
<1>2. /\ CallsAreShared' /\ RetriesCarryTheSession'
      /\ req' \in [Requests -> Shape]
      /\ req'[r].pc = "queued" /\ req'[r].held = req[r].held
      /\ \A q \in Requests \ {r} : req'[q] = req[q]
  BY <1>1, GotoMoves DEF Places
<1>3. Shapes' /\ SolutionsAreOld'
  BY <1>1, <1>2 DEF IInv, Shapes, SolutionsAreOld
<1>4. SolversArePending' /\ PendingHasSolver'
  BY <1>1, <1>2, MovesKeepSessions DEF Call, At, Solving, others
<1>5. QED BY <1>2, <1>3, <1>4 DEF IInv

LEMMA AdmitKeepsIInv ==
  ASSUME IInv, NEW r \in Requests, Admit(r)
  PROVE  IInv'
<1>1. req' = Goto(r, "send") /\ req[r].pc = "queued" /\ UNCHANGED <<kind, entry, jar, solved>>
  BY DEF Admit, At
<1>2. /\ CallsAreShared' /\ RetriesCarryTheSession'
      /\ req' \in [Requests -> Shape]
      /\ req'[r].pc = "send" /\ req'[r].held = req[r].held
      /\ \A q \in Requests \ {r} : req'[q] = req[q]
  BY <1>1, GotoMoves DEF Places
<1>3. Shapes' /\ SolutionsAreOld'
  BY <1>1, <1>2 DEF IInv, Shapes, SolutionsAreOld
<1>4. SolversArePending' /\ PendingHasSolver'
  BY <1>1, <1>2, MovesKeepSessions DEF Admit, At, Solving, others
<1>5. QED BY <1>2, <1>3, <1>4 DEF IInv

LEMMA ParkKeepsIInv ==
  ASSUME IInv, NEW r \in Requests, Park(r)
  PROVE  IInv'
<1>1. req' = Goto(r, "parked") /\ req[r].pc = "parking" /\ UNCHANGED <<kind, entry, jar, solved>>
  BY DEF Park, At
<1>2. /\ CallsAreShared' /\ RetriesCarryTheSession'
      /\ req' \in [Requests -> Shape]
      /\ req'[r].pc = "parked" /\ req'[r].held = req[r].held
      /\ \A q \in Requests \ {r} : req'[q] = req[q]
  BY <1>1, GotoMoves DEF Places
<1>3. Shapes' /\ SolutionsAreOld'
  BY <1>1, <1>2 DEF IInv, Shapes, SolutionsAreOld
<1>4. SolversArePending' /\ PendingHasSolver'
  BY <1>1, <1>2, MovesKeepSessions DEF Park, At, Solving
<1>5. QED BY <1>2, <1>3, <1>4 DEF IInv

(* A request that ends, from wherever it is on no call.                    *)
LEMMA OneEnds ==
  ASSUME IInv, NEW r \in Requests, req' = [req EXCEPT ![r] = Done], kind' = kind,
         req[r].pc # "sent"
  PROVE  /\ CallsAreShared' /\ RetriesCarryTheSession'
         /\ req' \in [Requests -> Shape]
         /\ req'[r] = Done /\ req'[r].pc = "done" /\ req'[r].held = 0
         /\ \A q \in Requests \ {r} : req'[q] = req[q]
<1>1. PICK n \in Shape : n = Done
  BY IdleFields
<1>2. /\ n.pc = "done" /\ n.turn = 0 /\ n.call = None /\ n.held = 0
      /\ req' = [req EXCEPT ![r] = n]
  BY <1>1, IdleFields
<1>3. /\ n.pc # "sent" /\ n.turn \in {0, 1}
      /\ n.turn > 0 => n.pc \in {"send", "invalidate"}
      /\ n.pc = "invalidate" => n.tried >= n.held
  BY <1>2
<1>4. QED BY <1>1, <1>2, <1>3, OneMoves

LEMMA CaptureKeepsIInv ==
  ASSUME IInv, NEW r \in Requests, Capture(r)
  PROVE  IInv'
<1>1. req[r].pc = "capture" /\ UNCHANGED <<kind, entry, jar, solved>>
  BY DEF Capture, At
<1>2. /\ CallsAreShared' /\ RetriesCarryTheSession'
      /\ req' \in [Requests -> Shape]
      /\ req'[r].pc \in {"done", "solve"} /\ req'[r].held \in {0, req[r].held}
      /\ \A q \in Requests \ {r} : req'[q] = req[q]
  <2>1. CASE req' = [req EXCEPT ![r] = Done]
    BY <1>1, <2>1, OneEnds
  <2>2. CASE req' = Goto(r, "solve")
    BY <1>1, <2>2, GotoMoves DEF Places
  <2>3. QED BY <2>1, <2>2 DEF Capture
<1>3. Shapes' /\ SolutionsAreOld'
  BY <1>1, <1>2 DEF IInv, Shapes, SolutionsAreOld
<1>4. SolversArePending' /\ PendingHasSolver'
  BY <1>1, <1>2, MovesKeepSessions DEF Capture, At, Solving, others
<1>5. QED BY <1>2, <1>3, <1>4 DEF IInv

(* The records of a call.                                                  *)
Led(q, r, c) == [q EXCEPT !.pc = "sent", !.call = r, !.cookie = c]
Joined(q, l) == [q EXCEPT !.pc = "sent", !.call = l]

LEMMA LedFields ==
  ASSUME NEW q \in Shape, NEW r \in Requests, NEW c \in Nat
  PROVE  /\ Led(q, r, c) \in Shape /\ Led(q, r, c).pc = "sent"
         /\ Led(q, r, c).call = r /\ Led(q, r, c).cookie = c
         /\ Led(q, r, c).turn = q.turn /\ Led(q, r, c).held = q.held
         /\ Led(q, r, c).tried = q.tried
  BY DEF Led, Shape, Places

LEMMA JoinedFields ==
  ASSUME NEW q \in Shape, NEW l \in Requests
  PROVE  /\ Joined(q, l) \in Shape /\ Joined(q, l).pc = "sent"
         /\ Joined(q, l).call = l
         /\ Joined(q, l).turn = q.turn /\ Joined(q, l).held = q.held
         /\ Joined(q, l).tried = q.tried
  BY DEF Joined, Shape, Places

LEMMA SendKeepsIInv ==
  ASSUME IInv, NEW r \in Requests, Send(r)
  PROVE  IInv'
<1>1. /\ req[r].pc = "send" /\ req[r] \in Shape /\ req[r].call = None
      /\ UNCHANGED <<kind, entry, jar, solved, dropped, displaced>>
      /\ jar \in Nat /\ jar = solved
  BY DEF IInv, Shapes, CallsAreShared, Send, At, others
<1>2. \E l \in Requests, n \in Shape :
        /\ req' = [req EXCEPT ![r] = n]
        /\ n.pc = "sent" /\ n.call = l
        /\ n.turn = req[r].turn /\ n.held = req[r].held /\ n.tried = req[r].tried
        /\ \/ /\ l = r /\ n.cookie = solved
              /\ \A m \in Requests : Leads(m) => CoalesceKey(m) # CoalesceKey(r)
           \/ l # r /\ Leads(l) /\ CoalesceKey(l) = CoalesceKey(r)
  <2> DEFINE leaders == {l \in Requests : Leads(l) /\ CoalesceKey(l) = CoalesceKey(r)}
  <2>1. CASE leaders = {}
    <3>1. req' = [req EXCEPT ![r] = Led(req[r], r, jar)]
      BY <2>1, Zenon DEF Send, Led
    <3> DEFINE n == Led(req[r], r, jar)
    <3>2. /\ n \in Shape /\ n.pc = "sent" /\ n.call = r /\ n.cookie = solved
          /\ n.turn = req[r].turn /\ n.held = req[r].held /\ n.tried = req[r].tried
      BY <1>1, LedFields
    <3>3. \A m \in Requests : Leads(m) => CoalesceKey(m) # CoalesceKey(r)
      BY <2>1
    <3> HIDE DEF n
    <3>4. QED BY <3>1, <3>2, <3>3 DEF n
  <2>2. CASE leaders # {}
    <3>1. PICK l \in leaders : req' = [req EXCEPT ![r] = Joined(req[r], l)]
      BY <2>2, Zenon DEF Send, Joined
    <3>2. l # r
      BY <1>1, NoneIsNoRequest DEF Leads
    <3>3. QED BY <1>1, <3>1, <3>2, JoinedFields
  <2>3. QED BY <2>1, <2>2
<1>3. PICK l \in Requests, n \in Shape :
        /\ req' = [req EXCEPT ![r] = n]
        /\ n.pc = "sent" /\ n.call = l
        /\ n.turn = req[r].turn /\ n.held = req[r].held /\ n.tried = req[r].tried
        /\ \/ /\ l = r /\ n.cookie = solved
              /\ \A m \in Requests : Leads(m) => CoalesceKey(m) # CoalesceKey(r)
           \/ l # r /\ Leads(l) /\ CoalesceKey(l) = CoalesceKey(r)
  BY <1>2
<1>4. /\ req' \in [Requests -> Shape] /\ req'[r] = n
      /\ \A q \in Requests \ {r} : req'[q] = req[q]
  BY <1>3 DEF IInv, Shapes
<1>5. /\ \A q \in Requests : CoalesceKey(q)' = CoalesceKey(q)
      /\ \A q \in Requests \ {r} : Leads(q)' <=> Leads(q)
      /\ ~Leads(r) /\ (Leads(r)' <=> l = r)
      /\ \A q \in Requests : req[q].call # r
  <2>1. ~Leads(r)
    BY <1>1, NoneIsNoRequest DEF Leads
  <2>2. \A q \in Requests : req[q].call # r
    BY <2>1, NoneIsNoRequest DEF IInv, CallsAreShared
  <2>3. QED BY <1>1, <1>3, <1>4, <2>1, <2>2 DEF Leads, CoalesceKey
<1>6. CallsAreShared'
  <2>1. ASSUME NEW q \in Requests, NEW c \in Requests, req'[q].call = c
        PROVE  req'[q].pc = "sent" /\ Leads(c)' /\ CoalesceKey(c)' = CoalesceKey(q)'
    <3>1. CASE q = r
      <4>1. c = l /\ req'[q].pc = "sent"
        BY <1>3, <1>4, <2>1, <3>1
      <4>2. Leads(c)' /\ CoalesceKey(c) = CoalesceKey(r)
        BY <1>3, <1>5, <4>1
      <4>3. QED BY <1>5, <3>1, <4>1, <4>2
    <3>2. CASE q # r
      <4>1. req'[q] = req[q] /\ c # r
        BY <1>4, <1>5, <2>1, <3>2
      <4>2. req[q].pc = "sent" /\ Leads(c) /\ CoalesceKey(c) = CoalesceKey(q)
        BY <2>1, <4>1, NoneIsNoRequest DEF IInv, CallsAreShared
      <4>3. QED BY <1>5, <4>1, <4>2
    <3>3. QED BY <3>1, <3>2
  <2>2. ASSUME NEW a \in Requests, NEW b \in Requests, Leads(a)', Leads(b)',
               CoalesceKey(a)' = CoalesceKey(b)'
        PROVE  a = b
    BY <1>3, <1>5, <2>2 DEF IInv, CallsAreShared
  <2>3. \A q \in Requests : req'[q].call \in Requests \cup {None}
    BY <1>4 DEF Shape
  <2>4. QED BY <2>1, <2>2, <2>3 DEF CallsAreShared
<1>7. RetriesCarryTheSession'
  <2>1. ASSUME NEW q \in Requests, req'[q].turn = 2, NEW m \in Requests, Leads(m)',
               CoalesceKey(m)' = CoalesceKey(q)'
        PROVE  req'[m].cookie >= req'[q].held
    <3>1. req[q].turn = 2 /\ req'[q].held = req[q].held /\ CoalesceKey(m) = CoalesceKey(q)
      BY <1>3, <1>4, <1>5, <2>1
    <3>2. CASE m = r
      BY <1>3, <1>4, <1>5, <2>1, <3>1, <3>2 DEF IInv, SolutionsAreOld
    <3>3. CASE m # r
      BY <1>4, <1>5, <2>1, <3>1, <3>3 DEF IInv, RetriesCarryTheSession
    <3>4. QED BY <3>2, <3>3
  <2>2. ASSUME NEW q \in Requests
        PROVE  /\ req'[q].turn > 0 => req'[q].pc \in {"send", "sent", "invalidate"}
               /\ req'[q].pc = "sent" => req'[q].call # None
               /\ req'[q].pc = "invalidate" \/ req'[q].turn = 3 =>
                    req'[q].tried >= req'[q].held
    BY <1>3, <1>4, NoneIsNoRequest DEF IInv, RetriesCarryTheSession
  <2>3. QED BY <2>1, <2>2 DEF RetriesCarryTheSession
<1>8. Shapes' /\ SolutionsAreOld'
  BY <1>1, <1>3, <1>4 DEF IInv, Shapes, SolutionsAreOld
<1>9. SolversArePending' /\ PendingHasSolver'
  BY <1>1, <1>3, <1>4, MovesKeepSessions DEF At, Solving
<1>10. QED BY <1>6, <1>7, <1>8, <1>9 DEF IInv

LEMMA ReattemptKeepsIInv ==
  ASSUME IInv, NEW l \in Requests, Reattempt(l)
  PROVE  IInv'
<1>1. /\ req' \in [Requests -> Shape] /\ req'[l].cookie = solved
      /\ \A q \in Requests \ {l} : req'[q] = req[q]
      /\ \A q \in Requests :
           /\ req'[q].pc = req[q].pc /\ req'[q].turn = req[q].turn
           /\ req'[q].call = req[q].call /\ req'[q].held = req[q].held
           /\ req'[q].tried = req[q].tried
      /\ UNCHANGED <<kind, entry, jar, solved, dropped, displaced>>
  BY DEF IInv, Shapes, Shape, Reattempt, others
<1>2. \A q \in Requests : CoalesceKey(q)' = CoalesceKey(q) /\ (Leads(q)' <=> Leads(q))
  BY <1>1 DEF CoalesceKey, Leads
<1>3. CallsAreShared'
  <2>1. ASSUME NEW q \in Requests, NEW c \in Requests, req'[q].call = c
        PROVE  req'[q].pc = "sent" /\ Leads(c)' /\ CoalesceKey(c)' = CoalesceKey(q)'
    <3>1. req[q].call = c /\ c # None
      BY <1>1, <2>1, NoneIsNoRequest
    <3>2. req[q].pc = "sent" /\ Leads(c) /\ CoalesceKey(c) = CoalesceKey(q)
      BY <3>1 DEF IInv, CallsAreShared
    <3>3. QED BY <1>1, <1>2, <3>2
  <2>2. \A q \in Requests : req'[q].call \in Requests \cup {None}
    BY <1>1 DEF Shape
  <2>3. QED BY <1>2, <2>1, <2>2 DEF IInv, CallsAreShared
<1>4. RetriesCarryTheSession'
  <2>1. \A q \in Requests : req[q].held <= solved /\ req[q].held \in Nat /\ solved \in Nat
    BY DEF IInv, Shapes, Shape, SolutionsAreOld
  <2>2. \A q, m \in Requests :
          req'[q].turn = 2 /\ Leads(m)' /\ CoalesceKey(m)' = CoalesceKey(q)' =>
             req'[m].cookie >= req'[q].held
    <3> SUFFICES ASSUME NEW q \in Requests, NEW m \in Requests, req'[q].turn = 2, Leads(m)',
                        CoalesceKey(m)' = CoalesceKey(q)'
                 PROVE  req'[m].cookie >= req'[q].held
      OBVIOUS
    <3>1. CASE m = l
      BY <1>1, <2>1, <3>1
    <3>2. CASE m # l
      BY <1>1, <1>2, <3>2 DEF IInv, RetriesCarryTheSession
    <3>3. QED BY <3>1, <3>2
  <2>3. QED BY <1>1, <2>2 DEF IInv, RetriesCarryTheSession
<1>5. Shapes' /\ SolutionsAreOld'
  BY <1>1 DEF IInv, Shapes, SolutionsAreOld
<1>6. SolversArePending' /\ PendingHasSolver'
  BY <1>1, MovesKeepSessions DEF At, Solving
<1>7. QED BY <1>3, <1>4, <1>5, <1>6 DEF IInv

(* What an answer makes of a request.                                      *)
LEMMA NextStages ==
  ASSUME NEW r \in Requests, req[r] \in Shape, NEW o \in Outcomes
  PROVE  /\ req[r].turn = 0 => NextStage(r, o) \in {"done", "capture", "solve"}
         /\ req[r].turn = 1 => NextStage(r, o) \in {"done", "send"}
         /\ req[r].turn = 2 => NextStage(r, o) \in {"done", "send", "invalidate"}
         /\ req[r].turn = 3 => NextStage(r, o) \in {"done", "invalidate"}
  BY DEF NextStage, Outcomes, LastTurn, Shape, Turns

Stayed(q, stage, turn, tried) ==
    [q EXCEPT !.pc = stage, !.call = None, !.cookie = 0, !.turn = turn, !.tried = tried]

Fields(n, q, stage, turn, tried) ==
    /\ n \in Shape /\ n.pc = stage /\ n.call = None
    /\ n.turn = turn /\ n.tried = tried /\ n.held = q.held

LEMMA StayedFields ==
  ASSUME NEW q \in Shape, NEW stage \in Places, NEW turn \in Turns, NEW tried \in Nat
  PROVE  Fields(Stayed(q, stage, turn, tried), q, stage, turn, tried)
  BY DEF Stayed, Fields, Shape, Turns

LEMMA AnsweredFields ==
  ASSUME NEW r \in Requests, req[r] \in Shape, NEW o \in Outcomes, NEW c \in Nat,
         req[r].turn = 2 => c >= req[r].held, req[r].turn = 3 => req[r].tried >= req[r].held
  PROVE  LET n == Answered(r, o, c)
         IN /\ n \in Shape
            /\ n.pc \in {"done", "capture", "solve", "send", "invalidate"}
            /\ n.call = None /\ n.held \in {0, req[r].held}
            /\ n.turn > 0 => n.pc \in {"send", "invalidate"}
            /\ n.pc = "invalidate" \/ n.turn = 3 => n.tried >= n.held
            /\ n.turn = 2 => req[r].turn \in {1, 2} /\ n.held = req[r].held
<1> DEFINE stage == NextStage(r, o)
           retry == req[r].turn > 0
           turn == IF retry /\ stage = "send" THEN req[r].turn + 1 ELSE req[r].turn
           tried == IF retry THEN Larger(req[r].tried, c) ELSE req[r].tried
<1>1. CASE stage = "done"
  <2>1. Answered(r, o, c) = Done
    BY <1>1 DEF Answered
  <2>2. QED BY <2>1, IdleFields
<1>2. CASE stage # "done"
  <2>1. Answered(r, o, c) = Stayed(req[r], stage, turn, tried)
    BY <1>2, Zenon DEF Answered, Stayed
  <2>2. /\ req[r].turn \in 0 .. 3 /\ req[r].tried \in Nat /\ req[r].held \in Nat
    BY DEF Shape, Turns
  <2>3. /\ stage \in {"capture", "solve", "send", "invalidate"}
        /\ req[r].turn = 0 => stage \in {"capture", "solve"}
        /\ req[r].turn = 1 => stage = "send"
        /\ req[r].turn = 2 => stage \in {"send", "invalidate"}
        /\ req[r].turn = 3 => stage = "invalidate"
    BY <1>2, <2>2, NextStages
  <2> HIDE DEF stage
  <2>4. /\ turn \in 0 .. 3 /\ tried \in Nat /\ stage \in Places
        /\ turn > 0 => stage \in {"send", "invalidate"}
        /\ stage = "invalidate" \/ turn = 3 => tried >= req[r].held
        /\ turn = 2 => req[r].turn \in {1, 2}
    BY <2>2, <2>3 DEF Larger, Places
  <2> HIDE DEF turn, tried
  <2>5. PICK s \in Places, u \in Turns, v \in Nat :
          /\ Answered(r, o, c) = Stayed(req[r], s, u, v)
          /\ s \in {"capture", "solve", "send", "invalidate"}
          /\ u > 0 => s \in {"send", "invalidate"}
          /\ s = "invalidate" \/ u = 3 => v >= req[r].held
          /\ u = 2 => req[r].turn \in {1, 2}
    BY <2>1, <2>3, <2>4 DEF Turns
  <2>6. PICK n : n = Answered(r, o, c)
    OBVIOUS
  <2>7. Fields(n, req[r], s, u, v)
    <3>1. n = Stayed(req[r], s, u, v)
      BY <2>5, <2>6
    <3>2. QED BY <3>1, StayedFields, Zenon
  <2>8. QED BY <2>5, <2>6, <2>7 DEF Fields, Turns
<1>3. QED BY <1>1, <1>2

(* Who leads a call shares it with nobody who leads another.               *)
LEMMA RidersLead ==
  ASSUME IInv, NEW l \in Requests, NEW q \in Riders(l), NEW p \in Requests, req[p].call = q
  PROVE  q = l
<1>1. q \in Requests /\ req[q].call = l /\ q # None
  BY NoneIsNoRequest DEF Riders
<1>2. req[q].call = q
  BY <1>1 DEF IInv, CallsAreShared, Leads
<1>3. QED BY <1>1, <1>2

LEMMA RespondKeepsIInv ==
  ASSUME IInv, NEW l \in Requests, Respond(l)
  PROVE  IInv'
<1>1. PICK o \in Outcomes :
        req' = [r \in Requests |->
                  IF r \in Riders(l) THEN Answered(r, o, req[l].cookie) ELSE req[r]]
  BY DEF Respond
<1>2. Leads(l) /\ UNCHANGED <<kind, entry, jar, solved, dropped, displaced>>
  BY DEF Respond, others
<1> DEFINE M == Riders(l)
<1>3. \A q \in M : /\ q \in Requests /\ req[q] \in Shape /\ req[q].pc = "sent"
                   /\ CoalesceKey(l) = CoalesceKey(q)
  BY NoneIsNoRequest DEF IInv, Shapes, CallsAreShared, Riders
<1>4. ASSUME NEW q \in M
      PROVE  /\ req'[q] \in Shape
             /\ req'[q].pc \in {"done", "capture", "solve", "send", "invalidate"}
             /\ req'[q].call = None /\ req'[q].held \in {0, req[q].held}
             /\ req'[q].turn > 0 => req'[q].pc \in {"send", "invalidate"}
             /\ req'[q].pc = "invalidate" \/ req'[q].turn = 3 => req'[q].tried >= req'[q].held
             /\ req'[q].turn = 2 => req[q].turn \in {1, 2} /\ req'[q].held = req[q].held
  <2> DEFINE c == req[l].cookie
  <2>1. c \in Nat
    BY DEF IInv, Shapes, Shape
  <2>2. /\ req[q].turn = 2 => c >= req[q].held
        /\ req[q].turn = 3 => req[q].tried >= req[q].held
    BY <1>2, <1>3 DEF IInv, RetriesCarryTheSession
  <2>3. req'[q] = Answered(q, o, c)
    BY <1>1, <1>3
  <2> HIDE DEF c
  <2>4. QED BY <1>3, <2>1, <2>2, <2>3, AnsweredFields
<1>5. \A q \in Requests \ M : req'[q] = req[q]
  BY <1>1
<1>6. req' \in [Requests -> Shape]
  <2>1. \A q \in Requests : req'[q] \in Shape
    BY <1>4, <1>5 DEF IInv, Shapes
  <2>2. DOMAIN req' = Requests /\ req' = [q \in Requests |-> req'[q]]
    BY <1>1
  <2>3. QED BY <2>1, <2>2
<1>7. \A q \in M : \A p \in Requests : req[p].call = q => p \in M
  BY RidersLead DEF Riders
<1>8. \A q \in M : req'[q].turn = 2 =>
         \A m \in Requests \ M : ~(Leads(m) /\ CoalesceKey(m) = CoalesceKey(q)')
  <2> SUFFICES ASSUME NEW q \in M, req'[q].turn = 2, NEW m \in Requests \ M, Leads(m),
                      CoalesceKey(m) = CoalesceKey(q)'
               PROVE  FALSE
    OBVIOUS
  <2>1. CoalesceKey(q)' = CoalesceKey(q)
    BY <1>2, <1>4 DEF CoalesceKey
  <2>2. CoalesceKey(m) = CoalesceKey(l) /\ l \in M
    BY <1>2, <1>3, <2>1 DEF Leads, Riders
  <2>3. QED BY <1>2, <2>2 DEF IInv, CallsAreShared
<1>9. M \in SUBSET Requests
  BY DEF Riders
<1>10. \A q \in M : q \notin Solving /\ q \notin Solving'
  BY <1>3, <1>4 DEF Solving, At
<1> HIDE DEF M
<1>11. CallsAreShared' /\ RetriesCarryTheSession'
  BY <1>2, <1>4, <1>5, <1>6, <1>7, <1>8, <1>9, MovesKeepCalls
<1>12. Shapes' /\ SolutionsAreOld'
  BY <1>2, <1>4, <1>5, <1>6, <1>9 DEF IInv, Shapes, SolutionsAreOld
<1>13. SolversArePending' /\ PendingHasSolver'
  <2>1. Solving' = Solving
    BY <1>5, <1>10 DEF Solving, At
  <2>2. QED BY <1>2, <2>1, MovesKeepSessions
<1>14. QED BY <1>11, <1>12, <1>13 DEF IInv

(* A request that is given a solution, one that waits for it, one that     *)
(* has it to tell, one that tries it, and one that looks again.            *)
Given(q, n, turn) == [q EXCEPT !.pc = "send", !.turn = turn, !.held = n]
Waiting(q, by) == [q EXCEPT !.pc = "parking", !.waits = by]
Told(q, n) == [q EXCEPT !.pc = "notify", !.held = n]
Retrying(q, turn) == [q EXCEPT !.pc = "send", !.turn = turn]
WokenUp(q) == [q EXCEPT !.pc = "solve", !.waits = None]

MovedFields(n, q, place, turn, held) ==
    n \in Shape /\ n.pc = place /\ n.turn = turn /\ n.held = held /\ n.call = q.call

LEMMA MovesFields ==
  ASSUME NEW q \in Shape, NEW s \in Nat, NEW w \in Requests \cup {None}, NEW t \in Turns
  PROVE  /\ MovedFields(Given(q, s, t), q, "send", t, s)
         /\ MovedFields(Waiting(q, w), q, "parking", q.turn, q.held)
         /\ MovedFields(Told(q, s), q, "notify", q.turn, s)
         /\ MovedFields(Retrying(q, t), q, "send", t, q.held)
         /\ MovedFields(WokenUp(q), q, "solve", q.turn, q.held)
<1>1. MovedFields(Given(q, s, t), q, "send", t, s)
  BY DEF Given, MovedFields, Shape, Places, Turns
<1>2. MovedFields(Waiting(q, w), q, "parking", q.turn, q.held)
  BY DEF Waiting, MovedFields, Shape, Places, Turns
<1>3. MovedFields(Told(q, s), q, "notify", q.turn, s)
  BY DEF Told, MovedFields, Shape, Places, Turns
<1>4. MovedFields(Retrying(q, t), q, "send", t, q.held)
  BY DEF Retrying, MovedFields, Shape, Places, Turns
<1>5. MovedFields(WokenUp(q), q, "solve", q.turn, q.held)
  BY DEF WokenUp, MovedFields, Shape, Places, Turns
<1>6. QED BY <1>1, <1>2, <1>3, <1>4, <1>5

LEMMA LookUpKeepsIInv ==
  ASSUME IInv, NEW r \in Requests, LookUp(r)
  PROVE  IInv'
<1>1. /\ req[r].pc = "solve" /\ req[r] \in Shape /\ req[r].turn = 0 /\ req[r].held \in Nat
      /\ UNCHANGED <<kind, solved, dropped, displaced>>
      /\ solved \in Nat /\ jar = solved /\ r \notin Solving
  BY FirstTurn DEF IInv, Shapes, Shape, LookUp, At, others, Solving
<1>2. CASE /\ entry.state = "ready" /\ entry.fresh /\ jar' = entry.solution /\ UNCHANGED entry
           /\ req' = [req EXCEPT ![r] = Given(req[r], entry.solution, 1)]
  <2>1. entry.solution = solved
    BY <1>2 DEF IInv, SolutionsAreOld
  <2>2. PICK n \in Shape :
          /\ req' = [req EXCEPT ![r] = n]
          /\ n.pc = "send" /\ n.turn = 1 /\ n.held = solved /\ n.call = None
    <3>1. PICK t \in Turns : t = 1
      BY DEF Turns
    <3>2. PICK n : n = Given(req[r], solved, t)
      OBVIOUS
    <3>3. MovedFields(n, req[r], "send", t, solved)
      BY <1>1, <3>2, MovesFields
    <3>4. req' = [req EXCEPT ![r] = n]
      BY <1>2, <2>1, <3>1, <3>2
    <3>5. QED BY <1>1, <3>1, <3>3, <3>4, FirstTurn DEF MovedFields
  <2>3. /\ CallsAreShared' /\ RetriesCarryTheSession'
        /\ req' \in [Requests -> Shape]
        /\ req'[r].pc = "send" /\ req'[r].held = solved
        /\ \A q \in Requests \ {r} : req'[q] = req[q]
    BY <1>1, <2>2, OneMoves
  <2>4. Shapes' /\ SolutionsAreOld'
    BY <1>1, <1>2, <2>1, <2>3 DEF IInv, Shapes, SolutionsAreOld
  <2>5. SolversArePending' /\ PendingHasSolver'
    BY <1>1, <1>2, <2>3, MovesKeepSessions DEF Solving, At
  <2>6. QED BY <2>3, <2>4, <2>5 DEF IInv
<1>3. CASE /\ entry.state = "ready" /\ ~entry.fresh /\ entry' = NoSession
           /\ UNCHANGED <<req, jar>>
  <2>1. \A q \in Requests : CoalesceKey(q)' = CoalesceKey(q) /\ (Leads(q)' <=> Leads(q))
    BY <1>1, <1>3 DEF CoalesceKey, Leads
  <2>2. CallsAreShared' /\ RetriesCarryTheSession'
    BY <1>1, <1>3 DEF IInv, CallsAreShared, RetriesCarryTheSession, CoalesceKey, Leads, LastTurn
  <2>3. Shapes' /\ SolutionsAreOld'
    BY <1>1, <1>3 DEF IInv, Shapes, SolutionsAreOld, Sessions, NoSession
  <2>4. SolversArePending' /\ PendingHasSolver'
    BY <1>1, <1>3 DEF IInv, SolversArePending, PendingHasSolver, Solving, At, NoSession
  <2>5. QED BY <2>2, <2>3, <2>4 DEF IInv
<1>4. CASE /\ entry.state = "pending" /\ UNCHANGED <<entry, jar>>
           /\ req' = [req EXCEPT ![r] = Waiting(req[r], entry.by)]
  <2>1. entry.by \in Requests
    BY <1>4 DEF IInv, Shapes, Sessions, NoSession, Pending
  <2>2. PICK n \in Shape :
          /\ req' = [req EXCEPT ![r] = n]
          /\ n.pc = "parking" /\ n.turn = 0 /\ n.held = req[r].held /\ n.call = None
    <3>1. PICK n : n = Waiting(req[r], entry.by)
      OBVIOUS
    <3>2. MovedFields(n, req[r], "parking", req[r].turn, req[r].held)
      BY <1>1, <2>1, <3>1, MovesFields DEF Turns
    <3>3. QED BY <1>1, <1>4, <3>1, <3>2, FirstTurn DEF MovedFields
  <2>3. /\ CallsAreShared' /\ RetriesCarryTheSession'
        /\ req' \in [Requests -> Shape]
        /\ req'[r].pc = "parking" /\ req'[r].held = req[r].held
        /\ \A q \in Requests \ {r} : req'[q] = req[q]
    <3>1. /\ req[r].pc # "sent" /\ n.pc # "sent" /\ n.turn \in {0, 1}
          /\ n.turn > 0 => n.pc \in {"send", "invalidate"}
          /\ n.pc = "invalidate" => n.tried >= n.held
      BY <1>1, <2>2
    <3>2. QED BY <1>1, <2>2, <3>1, OneMoves
  <2>4. Shapes' /\ SolutionsAreOld'
    BY <1>1, <1>4, <2>3 DEF IInv, Shapes, SolutionsAreOld
  <2>5. SolversArePending' /\ PendingHasSolver'
    BY <1>1, <1>4, <2>3, MovesKeepSessions DEF Solving, At
  <2>6. QED BY <2>3, <2>4, <2>5 DEF IInv
<1>5. CASE /\ entry.state = "none" /\ entry' = Pending(r) /\ UNCHANGED jar
           /\ req' = Goto(r, "solving")
  <2>1. /\ CallsAreShared' /\ RetriesCarryTheSession'
        /\ req' \in [Requests -> Shape]
        /\ req'[r].pc = "solving" /\ req'[r].held = req[r].held
        /\ \A q \in Requests \ {r} : req'[q] = req[q]
    BY <1>1, <1>5, GotoMoves DEF Places
  <2>2. Shapes' /\ SolutionsAreOld'
    BY <1>1, <1>5, <2>1 DEF IInv, Shapes, SolutionsAreOld, Sessions, Pending
  <2>3. entry'.state = "pending" /\ entry'.by = r
    BY <1>5 DEF Pending
  <2>4. Solving' = Solving \cup {r}
    BY <2>1 DEF Solving, At
  <2>5. Solving \subseteq displaced
    BY <1>5 DEF IInv, SolversArePending
  <2>6. SolversArePending' /\ PendingHasSolver'
    BY <1>1, <2>3, <2>4, <2>5 DEF SolversArePending, PendingHasSolver
  <2>7. QED BY <2>1, <2>2, <2>6 DEF IInv
<1>6. QED
  BY <1>2, <1>3, <1>4, <1>5, Zenon DEF LookUp, Claimed, Given, Waiting

LEMMA RecordKeepsIInv ==
  ASSUME IInv, NEW r \in Requests, Record(r)
  PROVE  IInv'
<1>1. /\ r \in Solving /\ req[r].pc = "solving" /\ req[r] \in Shape
      /\ UNCHANGED <<kind, dropped>> /\ solved \in Nat /\ jar = solved
      /\ req[r].turn = 0 /\ req[r].call = None
  BY FirstTurn DEF IInv, Shapes, Record, At, Solving
<1>2. PICK k \in Nat, s \in Nat :
        /\ s \in {solved, solved + 1} /\ solved' = s /\ jar' = s /\ k <= s
        /\ entry' \in {NoSession, Ready(s)}
        /\ req' = [req EXCEPT ![r] = Told(req[r], k)]
  <2>1. PICK ok \in BOOLEAN :
          /\ entry' = EntryAfter(ok) /\ jar' = JarAfter(ok)
          /\ solved' = IF ok THEN solved + 1 ELSE solved
          /\ req' = [req EXCEPT ![r] = Told(req[r], IF ok THEN solved + 1 ELSE 0)]
    BY Zenon DEF Record, Told
  <2>2. CASE ok
    <3>1. /\ solved' = solved + 1 /\ jar' = solved + 1 /\ entry' = Ready(solved + 1)
          /\ req' = [req EXCEPT ![r] = Told(req[r], solved + 1)]
      BY <2>1, <2>2, Zenon DEF EntryAfter, JarAfter
    <3>2. solved + 1 \in Nat /\ solved + 1 <= solved + 1
      BY <1>1
    <3>3. QED BY <3>1, <3>2
  <2>3. CASE ~ok
    <3>1. /\ solved' = solved /\ jar' = solved /\ entry' = NoSession
          /\ req' = [req EXCEPT ![r] = Told(req[r], 0)]
      BY <1>1, <2>1, <2>3, Zenon DEF EntryAfter, JarAfter
    <3>2. 0 \in Nat /\ 0 <= solved
      BY <1>1
    <3>3. QED BY <1>1, <3>1, <3>2
  <2>4. QED BY <2>2, <2>3
<1>3. PICK n \in Shape :
        /\ req' = [req EXCEPT ![r] = n]
        /\ n.pc = "notify" /\ n.turn = 0 /\ n.held = k /\ n.call = None
  <2>1. PICK n : n = Told(req[r], k)
    OBVIOUS
  <2>2. MovedFields(n, req[r], "notify", req[r].turn, k)
    BY <1>1, <2>1, MovesFields DEF Turns
  <2>3. QED BY <1>1, <1>2, <2>1, <2>2 DEF MovedFields
<1>4. /\ CallsAreShared' /\ RetriesCarryTheSession'
      /\ req' \in [Requests -> Shape]
      /\ req'[r].pc = "notify" /\ req'[r].held = k
      /\ \A q \in Requests \ {r} : req'[q] = req[q]
  <2>1. /\ req[r].pc # "sent" /\ n.pc # "sent" /\ n.turn \in {0, 1}
        /\ n.turn > 0 => n.pc \in {"send", "invalidate"}
        /\ n.pc = "invalidate" => n.tried >= n.held
    BY <1>1, <1>3
  <2>2. QED BY <1>1, <1>3, <2>1, OneMoves
<1>5. /\ entry' \in Sessions /\ entry'.state # "pending"
      /\ entry'.state = "ready" => entry'.solution = s
  <2>1. CASE entry' = NoSession
    BY <2>1 DEF Sessions, NoSession
  <2>2. CASE entry' = Ready(s)
    <3>1. Ready(s) \in Sessions /\ Ready(s).state = "ready" /\ Ready(s).solution = s
      BY DEF Sessions, Ready
    <3>2. QED BY <2>2, <3>1
  <2>3. QED BY <1>2, <2>1, <2>2
<1>6. Shapes' /\ SolutionsAreOld'
  <2>1. \A q \in Requests : req[q].held <= solved /\ req[q].held \in Nat
    BY DEF IInv, Shapes, Shape, SolutionsAreOld
  <2>2. solved <= s
    BY <1>1, <1>2
  <2>3. \A q \in Requests : req'[q].held <= s
    BY <1>1, <1>2, <1>4, <2>1, <2>2
  <2>4. QED BY <1>1, <1>2, <1>4, <1>5, <2>3 DEF IInv, Shapes, SolutionsAreOld
<1>7. Solving' = Solving \ {r}
  BY <1>1, <1>4 DEF Solving, At
<1>8. Solving \ displaced \subseteq displaced' \cup {r}
  BY DEF IInv, SolversArePending, Record, Displacing
<1>9. displaced \subseteq displaced' \cup {r}
  BY DEF Record, Displacing
<1>10. SolversArePending' /\ PendingHasSolver'
  BY <1>5, <1>7, <1>8, <1>9 DEF SolversArePending, PendingHasSolver
<1>11. QED BY <1>4, <1>6, <1>10 DEF IInv

LEMMA NotifyWaitersKeepsIInv ==
  ASSUME IInv, NEW r \in Requests, NotifyWaiters(r)
  PROVE  IInv'
<1>1. /\ req[r].pc = "notify" /\ req[r] \in Shape /\ req[r].held \in Nat
      /\ req[r].turn = 0 /\ req[r].call = None
      /\ UNCHANGED <<kind, entry, jar, solved, dropped, displaced>>
  BY FirstTurn DEF IInv, Shapes, Shape, NotifyWaiters, At, others
<1> DEFINE M == Woken(r) \cup {r}
<1>2. \A q \in Woken(r) : /\ q \in Requests /\ q # r /\ req[q].pc = "parked"
                          /\ req[q] \in Shape /\ req[q].turn = 0 /\ req[q].call = None
  BY <1>1, FirstTurn DEF IInv, Shapes, Woken, Waiters, At
<1>3. ASSUME NEW q \in Woken(r)
      PROVE  /\ req'[q] \in Shape /\ req'[q].pc = "solve" /\ req'[q].turn = 0
             /\ req'[q].call = None /\ req'[q].held = req[q].held
  <2>1. req'[q] = WokenUp(req[q])
    BY <1>2, Zenon DEF NotifyWaiters, WokenUp
  <2>2. PICK n : n = WokenUp(req[q])
    OBVIOUS
  <2>3. MovedFields(n, req[q], "solve", req[q].turn, req[q].held)
    BY <1>2, <2>2, MovesFields DEF Turns
  <2>4. QED BY <1>2, <2>1, <2>2, <2>3 DEF MovedFields
<1>4. /\ req'[r] \in Shape /\ req'[r].pc \in {"send", "done"} /\ req'[r].turn \in {0, 1}
      /\ req'[r].pc = "done" => req'[r].turn = 0
      /\ req'[r].call = None /\ req'[r].held \in {0, req[r].held}
  <2>1. r \notin Woken(r)
    BY <1>2
  <2>2. CASE req[r].held > 0
    <3>1. PICK t \in Turns : t = 1
      BY DEF Turns
    <3>2. req'[r] = Retrying(req[r], t)
      BY <2>1, <2>2, <3>1, Zenon DEF NotifyWaiters, Retrying
    <3>3. PICK n : n = Retrying(req[r], t)
      OBVIOUS
    <3>4. MovedFields(n, req[r], "send", t, req[r].held)
      BY <1>1, <3>3, MovesFields
    <3>5. QED BY <1>1, <3>1, <3>2, <3>3, <3>4 DEF MovedFields
  <2>3. CASE ~(req[r].held > 0)
    <3>1. req'[r] = Done
      BY <2>1, <2>3, Zenon DEF NotifyWaiters
    <3>2. QED BY <3>1, IdleFields
  <2>4. QED BY <2>2, <2>3
<1>5. /\ M \in SUBSET Requests
      /\ \A q \in Requests \ M : req'[q] = req[q]
  BY <1>2 DEF NotifyWaiters
<1>6. req' \in [Requests -> Shape]
  <2>1. \A q \in Requests : req'[q] \in Shape
    BY <1>3, <1>4, <1>5 DEF IInv, Shapes
  <2>2. DOMAIN req' = Requests /\ req' = [q \in Requests |-> req'[q]]
    BY DEF NotifyWaiters
  <2>3. QED BY <2>1, <2>2
<1>7. \A q \in M : q \in Requests /\ req[q].call = None
  BY <1>1, <1>2
<1>8. \A q \in M :
        /\ \A p \in Requests : req[p].call # q
        /\ req'[q].call = None /\ req'[q].pc \in {"solve", "send", "done"}
        /\ req'[q].turn \in {0, 1}
        /\ req'[q].turn > 0 => req'[q].pc = "send"
        /\ req'[q].held \in {0, req[q].held}
  <2>1. \A q \in M : \A p \in Requests : req[p].call # q
    BY <1>7, NoneIsNoRequest DEF IInv, CallsAreShared, Leads
  <2>2. QED BY <1>3, <1>4, <2>1
<1>9. \A q \in M : q \notin Solving /\ q \notin Solving'
  BY <1>1, <1>2, <1>8 DEF Solving, At
<1> HIDE DEF M
<1>10. CallsAreShared' /\ RetriesCarryTheSession'
  <2>1. \A q \in M :
          /\ \A p \in Requests : req[p].call = q => p \in M
          /\ req'[q].call = None /\ req'[q].pc # "sent"
          /\ req'[q].turn > 0 => req'[q].pc \in {"send", "invalidate"}
          /\ req'[q].pc = "invalidate" \/ req'[q].turn = 3 => req'[q].tried >= req'[q].held
          /\ req'[q].turn # 2
    BY <1>8
  <2>2. QED BY <1>1, <1>5, <1>6, <2>1, MovesKeepCalls
<1>11. Shapes' /\ SolutionsAreOld'
  <2>1. \A q \in Requests : req'[q].held \in {0, req[q].held}
    BY <1>5, <1>8
  <2>2. QED BY <1>1, <1>6, <2>1 DEF IInv, Shapes, SolutionsAreOld
<1>12. SolversArePending' /\ PendingHasSolver'
  <2>1. Solving' = Solving
    BY <1>5, <1>9 DEF Solving, At
  <2>2. QED BY <1>1, <2>1, MovesKeepSessions
<1>13. QED BY <1>10, <1>11, <1>12 DEF IInv

LEMMA InvalidateKeepsIInv ==
  ASSUME IInv, NEW r \in Requests, Invalidate(r)
  PROVE  IInv'
<1>1. /\ req[r].pc = "invalidate" /\ req' = [req EXCEPT ![r] = Done]
      /\ entry' = NoSession /\ UNCHANGED <<kind, jar, solved, dropped>>
  BY DEF Invalidate, At
<1>2. /\ CallsAreShared' /\ RetriesCarryTheSession'
      /\ req' \in [Requests -> Shape]
      /\ req'[r].pc = "done" /\ req'[r].held = 0
      /\ \A q \in Requests \ {r} : req'[q] = req[q]
  BY <1>1, OneEnds
<1>3. Shapes' /\ SolutionsAreOld'
  BY <1>1, <1>2 DEF IInv, Shapes, SolutionsAreOld, Sessions, NoSession
<1>4. Solving' = Solving /\ r \notin Solving
  BY <1>1, <1>2 DEF Solving, At
<1>5. Solving \subseteq displaced'
  BY <1>4 DEF IInv, SolversArePending, Invalidate, Displacing
<1>6. SolversArePending' /\ PendingHasSolver'
  BY <1>1, <1>4, <1>5 DEF SolversArePending, PendingHasSolver, NoSession
<1>7. QED BY <1>2, <1>3, <1>6 DEF IInv

LEMMA ExpireKeepsIInv ==
  ASSUME IInv, Expire
  PROVE  IInv'
<1>1. /\ UNCHANGED <<kind, req, jar, solved, stranded, dropped, displaced>>
      /\ entry.state = "ready" /\ entry' = [entry EXCEPT !.fresh = FALSE]
      /\ entry \in Sessions
  BY DEF Expire, others, IInv, Shapes
<1>2. /\ entry' \in Sessions /\ entry'.state = "ready"
      /\ entry'.solution = entry.solution
  BY <1>1 DEF Sessions, NoSession, Pending
<1>3. CallsAreShared' /\ RetriesCarryTheSession'
  BY <1>1 DEF IInv, CallsAreShared, RetriesCarryTheSession, CoalesceKey, Leads
<1>4. Shapes' /\ SolutionsAreOld'
  BY <1>1, <1>2 DEF IInv, Shapes, SolutionsAreOld
<1>5. SolversArePending' /\ PendingHasSolver'
  BY <1>1, <1>2 DEF IInv, SolversArePending, PendingHasSolver, Solving, At
<1>6. QED BY <1>3, <1>4, <1>5 DEF IInv

LEMMA DropKeepsIInv ==
  ASSUME IInv, NEW r \in Requests, Drop(r)
  PROVE  IInv'
<1> DEFINE M == EndsWith(r)
<1>1. /\ M \in SUBSET Requests /\ UNCHANGED <<kind, entry, jar, solved>>
      /\ req' = [q \in Requests |-> IF q \in M THEN Done ELSE req[q]]
  BY DEF Drop, EndsWith, Riders
<1>2. \A q \in M : \A p \in Requests : req[p].call = q => p \in M
  BY RidersLead DEF EndsWith, Riders
<1>3. \A q \in Riders(r) : req[q].pc = "sent"
  BY NoneIsNoRequest DEF IInv, CallsAreShared, Riders
<1>4. \A q \in M \ {r} : q \notin Solving
  BY <1>3 DEF EndsWith, Solving, At
<1> HIDE DEF M
<1>5. \A q \in M : req'[q] = Done
  BY <1>1
<1>6. \A q \in M : /\ req'[q] \in Shape /\ req'[q].pc = "done" /\ req'[q].turn = 0
                   /\ req'[q].call = None /\ req'[q].held = 0
  BY <1>5, IdleFields
<1>7. /\ \A q \in Requests \ M : req'[q] = req[q]
      /\ req' \in [Requests -> Shape]
  BY <1>1, IdleFields DEF IInv, Shapes
<1>8. CallsAreShared' /\ RetriesCarryTheSession'
  <2>1. \A q \in M :
          /\ \A p \in Requests : req[p].call = q => p \in M
          /\ req'[q].call = None /\ req'[q].pc # "sent"
          /\ req'[q].turn > 0 => req'[q].pc \in {"send", "invalidate"}
          /\ req'[q].pc = "invalidate" \/ req'[q].turn = 3 => req'[q].tried >= req'[q].held
          /\ req'[q].turn # 2
    BY <1>2, <1>6
  <2>2. QED BY <1>1, <1>7, <2>1, MovesKeepCalls
<1>9. Shapes' /\ SolutionsAreOld'
  <2>1. \A q \in Requests : req[q].held <= solved /\ solved \in Nat
    BY DEF IInv, Shapes, SolutionsAreOld
  <2>2. \A q \in Requests : req'[q].held <= solved
    BY <1>6, <1>7, <2>1
  <2>3. QED BY <1>1, <1>7, <2>2 DEF IInv, Shapes, SolutionsAreOld
<1>10. Solving' = Solving \ {r}
  <2>1. r \in M
    BY DEF M, EndsWith
  <2>2. QED BY <1>4, <1>6, <1>7, <2>1 DEF Solving, At
<1>11. /\ displaced' = displaced \ {r}
       /\ dropped' = IF r \in Solving THEN dropped \cup {r} ELSE dropped
  BY DEF Drop, At, Solving
<1>12. SolversArePending' /\ PendingHasSolver'
  BY <1>1, <1>10, <1>11, MovesKeepSessions
<1>13. QED BY <1>8, <1>9, <1>12 DEF IInv

LEMMA HangKeepsIInv ==
  ASSUME IInv, NEW r \in Requests, Hang(r)
  PROVE  IInv'
BY DEF Hang, histories, IInv, Shapes, SolutionsAreOld, CallsAreShared, RetriesCarryTheSession,
       SolversArePending, PendingHasSolver, Solving, At, CoalesceKey, Leads

LEMMA NextKeepsIInv == IInv /\ [Next]_vars => IInv'
<1> SUFFICES ASSUME IInv, [Next]_vars PROVE IInv'
  OBVIOUS
<1>1. CASE UNCHANGED vars
  BY <1>1 DEF vars, IInv, Shapes, SolutionsAreOld, CallsAreShared, RetriesCarryTheSession,
              SolversArePending, PendingHasSolver, Solving, At, CoalesceKey, Leads
<1>2. CASE Expire
  BY <1>2, ExpireKeepsIInv
<1>3. ASSUME NEW r \in Requests, Call(r) \/ RequestStep(r) \/ Reattempt(r) \/ Hang(r) \/ Drop(r)
      PROVE  IInv'
  BY <1>3, CallKeepsIInv, AdmitKeepsIInv, SendKeepsIInv, RespondKeepsIInv, CaptureKeepsIInv,
     LookUpKeepsIInv, ParkKeepsIInv, RecordKeepsIInv, NotifyWaitersKeepsIInv,
     InvalidateKeepsIInv, ReattemptKeepsIInv, HangKeepsIInv, DropKeepsIInv, Zenon DEF RequestStep
<1>4. QED BY <1>1, <1>2, <1>3 DEF Next

LEMMA IInvHolds == Spec => []IInv
<1>1. QED BY InitIInv, NextKeepsIInv, PTL DEF Spec

-----------------------------------------------------------------------------
(* The theorems.                                                           *)

(* ClearanceSolver::solve: a pending session always has a solver at work,  *)
(* who will settle it and wake who waits for it, unless its future was     *)
(* dropped.                                                                *)
THEOREM PendingSessionsAreSolved == Spec => []PendingHasSolver
<1>1. IInv => PendingHasSolver
  BY DEF IInv
<1>2. QED BY <1>1, IInvHolds, PTL

(* One request at a time solves the challenge of a host, but for solvers   *)
(* whose session an invalidation has removed under them.                   *)
THEOREM OneSolverAtATime == Spec => []SecondSolverWasLetIn
<1>1. ASSUME IInv PROVE SecondSolverWasLetIn
  <2> DEFINE S == Solving \ displaced
  <2>1. CASE S = {}
    <3>1. Cardinality(S) = 0
      BY <2>1, FS_EmptySet
    <3>2. QED BY <3>1 DEF SecondSolverWasLetIn
  <2>2. ASSUME NEW r \in S PROVE SecondSolverWasLetIn
    <3>1. S = {r}
      BY <1>1, <2>2 DEF IInv, SolversArePending
    <3>2. Cardinality(S) = 1
      BY <3>1, FS_Singleton
    <3>3. QED BY <3>2 DEF SecondSolverWasLetIn
  <2>3. QED BY <2>1, <2>2
<1>2. QED BY <1>1, IInvHolds, PTL

(* execute_text_request and execute_binary_request: a session is given up  *)
(* only after the host has refused a call that carried it or a newer one,  *)
(* though retries share the calls of others.                               *)
THEOREM SessionsAreTried == Spec => []SessionWasTried
<1>1. IInv => SessionWasTried
  BY DEF IInv, RetriesCarryTheSession, SessionWasTried, At
<1>2. QED BY <1>1, IInvHolds, PTL
=============================================================================
