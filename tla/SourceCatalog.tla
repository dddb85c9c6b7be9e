----------------------------- MODULE SourceCatalog -----------------------------
(***************************************************************************)
(* What a source lists, as the server answers it: a call looks its answer  *)
(* up in the cache, and asks the source for a missing one while it holds   *)
(* the registry's lock for reading.  The refresher warms the searches it   *)
(* planned, and operators turn the source on and off -- in the registry,   *)
(* under the lock, and then in the database -- and let it hide what is not *)
(* for everyone.                                                           *)
(*                                                                         *)
(* Each kind of answer has its own keys and each source its own entry in   *)
(* the registry, so one kind and one source are enough.  The lock is fair: *)
(* who wants it waits in line.  What a search finds includes adult series. *)
(***************************************************************************)
EXTENDS Naturals, Sequences, FiniteSets

CONSTANTS
    Calls,     \* calls at work at a time
    Toggles,   \* requests to turn the source on or off, each at most once
    MaxWarms   \* bound: searches that are warmed

VARIABLES
    kind,      \* "search", or "series": its details or its chapters
    cached,    \* the answers the cache has: with every series, and without adult ones
    registry,  \* whether the source is on, in the registry
    row,       \* and in the database
    shown,     \* which series a search of the source may show, in the database
    call,      \* what each call does
    toggle,    \* what each toggle does
    line,      \* who waits for the registry's lock
    warms,     \* history: how often the search was invalidated
    disturbed  \* history: toggles overlapped, or one failed half-way

vars == <<kind, cached, registry, row, shown, call, toggle, line, warms, disturbed>>

-----------------------------------------------------------------------------
States == {"on", "off"}
Showing == {"all", "decent"}

NoEntry == [stored |-> 0, shows |-> "all"]
Unused == [at |-> "idle", to |-> "off"]
Over == [at |-> "done", to |-> "off"]
Idle == [at |-> "idle", asks |-> "all", entry |-> NoEntry, began |-> 0, during |-> {}]

Init ==
    /\ kind \in {"search", "series"}
    /\ cached = [s \in Showing |-> NoEntry]
    /\ row \in States /\ registry = row
    /\ shown \in Showing
    /\ call = [c \in Calls |-> Idle]
    /\ toggle = [t \in Toggles |-> Unused]
    /\ line = <<>>
    /\ warms = 1
    /\ disturbed = FALSE

Asking == {c \in Calls : call[c].at = "asking"}
Switched == {t \in Toggles : toggle[t].at = "switched"}

Goes(c, at) == call' = [call EXCEPT ![c].at = at]
Ends(c) == call' = [call EXCEPT ![c] = Idle]

-----------------------------------------------------------------------------
(* The calls.                                                              *)

Begin(c) ==
    /\ call[c].at = "idle"
    /\ call' = [call EXCEPT ![c] = [Idle EXCEPT !.at = "began", !.began = warms, !.during = {shown}]]
    /\ UNCHANGED <<kind, cached, registry, row, shown, toggle, line, warms, disturbed>>

(* The refresher plans the searches of the sources that are turned on.     *)
PlanWarm(c) ==
    /\ kind = "search" /\ call[c].at = "idle" /\ registry = "on"
    /\ Goes(c, "planned")
    /\ UNCHANGED <<kind, cached, registry, row, shown, toggle, line, warms, disturbed>>

(* Neither answer is kept: the search may be made with either.             *)
Invalidated == [s \in Showing |-> NoEntry]

InvalidateSearch(c) ==
    /\ call[c].at = "planned" /\ warms <= MaxWarms
    /\ cached' = Invalidated
    /\ warms' = warms + 1
    /\ call' = [call EXCEPT ![c] = [Idle EXCEPT !.at = "began", !.began = warms', !.during = {shown}]]
    /\ UNCHANGED <<kind, registry, row, shown, toggle, line, disturbed>>

(* Only a search looks up what may be shown.                               *)
HideNsfw(c) ==
    /\ call[c].at = "began"
    /\ call' = [call EXCEPT ![c] =
                   [@ EXCEPT !.at = "looking", !.asks = IF kind = "search" THEN shown ELSE "all"]]
    /\ UNCHANGED <<kind, cached, registry, row, shown, toggle, line, warms, disturbed>>

Entry(c) == cached[call[c].asks]

Lookup(c) ==
    /\ call[c].at = "looking"
    /\ IF Entry(c) # NoEntry
       THEN /\ call' = [call EXCEPT ![c] = [@ EXCEPT !.at = "answered", !.entry = Entry(c)]]
            /\ UNCHANGED line
       ELSE Goes(c, "waiting") /\ line' = Append(line, c)
    /\ UNCHANGED <<kind, cached, registry, row, shown, toggle, warms, disturbed>>

(* The lock is taken for reading; a source that is turned off is not asked.*)
Require(c) ==
    /\ call[c].at = "waiting" /\ line # <<>> /\ Head(line) = c
    /\ line' = Tail(line)
    /\ IF registry = "off" THEN Ends(c) ELSE Goes(c, "asking")
    /\ UNCHANGED <<kind, cached, registry, row, shown, toggle, warms, disturbed>>

Shows(c) == call[c].asks

(* The answer is mapped, kept and given; the lock is released.             *)
Answer(c) ==
    /\ call[c].at = "asking"
    /\ LET entry == [stored |-> warms, shows |-> Shows(c)]
       IN  /\ cached' = [cached EXCEPT ![call[c].asks] = entry]
           /\ call' = [call EXCEPT ![c] = [@ EXCEPT !.at = "answered", !.entry = entry]]
    /\ UNCHANGED <<kind, registry, row, shown, toggle, line, warms, disturbed>>

(* The source fails, or its answer cannot be mapped.                       *)
Fail(c) ==
    /\ call[c].at = "asking"
    /\ Ends(c)
    /\ UNCHANGED <<kind, cached, registry, row, shown, toggle, line, warms, disturbed>>

(* The client has the answer.                                              *)
Done(c) ==
    /\ call[c].at = "answered"
    /\ Ends(c)
    /\ UNCHANGED <<kind, cached, registry, row, shown, toggle, line, warms, disturbed>>

(* An entry is evicted, cleared or lost with the server, or a search's     *)
(* expires.                                                                *)
Forget(s) ==
    /\ cached[s] # NoEntry
    /\ cached' = [cached EXCEPT ![s] = NoEntry]
    /\ UNCHANGED <<kind, registry, row, shown, call, toggle, line, warms, disturbed>>

-----------------------------------------------------------------------------
(* The operators.                                                          *)

WantToggle(t, to) ==
    /\ toggle[t].at = "idle"
    /\ toggle' = [toggle EXCEPT ![t] = [at |-> "waiting", to |-> to]]
    /\ line' = Append(line, t)
    /\ UNCHANGED <<kind, cached, registry, row, shown, call, warms, disturbed>>

(* The lock is free for a writer.                                          *)
Free == Asking = {}

SetSourceEnabled(t) ==
    /\ toggle[t].at = "waiting" /\ line # <<>> /\ Head(line) = t /\ Free
    /\ line' = Tail(line)
    /\ registry' = toggle[t].to
    /\ toggle' = [toggle EXCEPT ![t].at = "switched"]
    /\ disturbed' = IF Switched = {} THEN disturbed ELSE TRUE
    /\ UNCHANGED <<kind, cached, row, shown, call, warms>>

(* The row is found or made and updated; the write may fail.               *)
PersistEnabled(t) ==
    /\ toggle[t].at = "switched"
    /\ toggle' = [toggle EXCEPT ![t] = Over]
    /\ \/ row' = toggle[t].to /\ UNCHANGED disturbed
       \/ disturbed' = TRUE /\ UNCHANGED row
    /\ UNCHANGED <<kind, cached, registry, shown, call, line, warms>>

SetHideNsfw(to) ==
    /\ shown' = to
    /\ call' = [c \in Calls |-> IF call[c].at = "idle" THEN Idle
                                ELSE [call[c] EXCEPT !.during = @ \cup {to}]]
    /\ UNCHANGED <<kind, cached, registry, row, toggle, line, warms, disturbed>>

(* A server starts with the sources turned off that the database has so,   *)
(* and writes what the registry then says of each.                         *)
EnabledState == row

Restart ==
    /\ registry' = EnabledState
    /\ row' = registry'
    /\ call' = [c \in Calls |-> Idle]
    /\ toggle' = [t \in Toggles |-> IF toggle[t] = Unused THEN Unused ELSE Over]
    /\ line' = <<>>
    /\ disturbed' = FALSE
    /\ UNCHANGED <<kind, cached, shown, warms>>

Next ==
    \/ \E c \in Calls :
           \/ Begin(c) \/ PlanWarm(c) \/ InvalidateSearch(c)
           \/ HideNsfw(c) \/ Lookup(c) \/ Require(c)
           \/ Answer(c) \/ Fail(c) \/ Done(c)
    \/ \E s \in Showing : Forget(s) \/ SetHideNsfw(s)
    \/ \E t \in Toggles : SetSourceEnabled(t) \/ PersistEnabled(t)
                          \/ \E to \in States : WantToggle(t, to)
    \/ Restart

Spec == Init /\ [][Next]_vars

-----------------------------------------------------------------------------
Entries == [stored : 0 .. MaxWarms + 1, shows : Showing]

TypeOK ==
    /\ kind \in {"search", "series"}
    /\ cached \in [Showing -> Entries]
    /\ registry \in States /\ row \in States /\ shown \in Showing
    /\ call \in [Calls -> [at : {"idle", "planned", "began", "looking", "waiting", "asking",
                                 "answered"},
                           asks : Showing, entry : Entries, began : 0 .. MaxWarms + 1,
                           during : SUBSET Showing]]
    /\ toggle \in [Toggles -> [at : {"idle", "waiting", "switched", "done"}, to : States]]
    /\ line \in Seq(Calls \cup Toggles)
    /\ warms \in 1 .. MaxWarms + 1
    /\ disturbed \in BOOLEAN

(* Once a source is turned off nobody is asking it: the call that was at   *)
(* work was waited for, and the ones that waited in line see the change.   *)
DisabledIsLeftAlone == registry = "off" => Asking = {}

(* A search shows what might be shown at some time while it was made,      *)
(* wherever its answer came from.                                          *)
HiddenStaysHidden ==
    kind = "search" =>
        \A c \in Calls : call[c].at = "answered" => call[c].entry.shows \in call[c].during

(* A search that begins after the search was warmed is not answered with   *)
(* what was kept before that, even if hiding was changed in between.       *)
WarmedIsNew ==
    \A c \in Calls : call[c].at = "answered" => call[c].entry.stored >= call[c].began

(* What an operator chose lasts: with no toggle half-way, the next start   *)
(* finds the source as it is, unless toggles overlapped or a write failed. *)
ChoiceLasts == Switched = {} /\ ~disturbed => row = registry

AnswersAreAllowed == DisabledIsLeftAlone /\ HiddenStaysHidden /\ WarmedIsNew /\ ChoiceLasts
=============================================================================
