----------------------------- MODULE ReadProgress -----------------------------
(***************************************************************************)
(* The reading progress of one chapter and the activity it leaves in the   *)
(* statistics.  An update reads the chapter, writes it, reads it again and *)
(* records what it believes to have changed: four transactions, of which   *)
(* each may fail.  On SQLite a write lock covers reading and writing the   *)
(* row; on PostgreSQL there is none.                                       *)
(***************************************************************************)
EXTENDS Integers, Sequences, FiniteSets

CONSTANTS
    Updates,      \* requests at work at a time
    MaxPage,      \* the last page of the chapter
    MaxRequests,  \* bound: requests
    MaxDay,       \* bound: the clock, in days
    ActivityDays  \* ACTIVITY_DAYS

VARIABLES
    guarded,    \* the backend has a write lock
    holder,     \* who has it
    chapter,    \* the row
    events,     \* stats_events: what, on which day, how much
    update,     \* what each request does
    today,
    requests,   \* requests so far
    overlapped, \* history: two requests have been at work at a time
    reached,    \* history: what the commits since the last clear amount to
    achieved    \* history: pages and completions of all commits

vars == <<guarded, holder, chapter, events, update, today, requests, overlapped, reached, achieved>>

Nobody == "nobody"
Unread == [pages |-> 0, completed |-> FALSE, lastRead |-> -1]
Gone == [pages |-> -1, completed |-> FALSE, lastRead |-> -1]
Idle == [pc |-> "idle", page |-> 0, completed |-> FALSE, previous |-> Unread, row |-> Unread]

Init ==
    /\ guarded \in BOOLEAN /\ holder = Nobody
    /\ chapter = Unread /\ events = <<>>
    /\ update = [u \in Updates |-> Idle]
    /\ today = 0 /\ requests = 0 /\ overlapped = FALSE
    /\ reached = Unread /\ achieved = [pages |-> 0, reads |-> 0]

Busy == {u \in Updates : update[u].pc # "idle"}

(* A request that ends, with its answer or an error.                       *)
End(u) == update' = [update EXCEPT ![u] = Idle]
Goto(u, pc) == update' = [update EXCEPT ![u].pc = pc]

Lock(u) ==
    /\ guarded => holder = Nobody
    /\ holder' = IF guarded THEN u ELSE holder
Unlocked(u) == IF holder = u THEN Nobody ELSE holder

-----------------------------------------------------------------------------
(* update and clear.                                                       *)

Request(u) ==
    /\ update[u].pc = "idle" /\ requests < MaxRequests
    /\ \/ \E page \in 0 .. MaxPage, completed \in BOOLEAN :
            update' = [update EXCEPT ![u] =
                [Idle EXCEPT !.pc = "previous", !.page = page, !.completed = completed]]
       \/ Goto(u, "clear")
    /\ requests' = requests + 1
    /\ overlapped' = (overlapped \/ Busy # {})
    /\ UNCHANGED <<guarded, holder, chapter, events, today, reached, achieved>>

(* require_chapter                                                         *)
ReadPrevious(u) ==
    /\ update[u].pc = "previous"
    /\ IF chapter = Gone THEN End(u)
       ELSE update' = [update EXCEPT ![u].pc = "lock", ![u].previous = chapter]
    /\ UNCHANGED <<guarded, holder, chapter, events, today, requests, overlapped, reached, achieved>>

(* The row an update is based on is read under the lock, if there is one.  *)
ReadRow(u) ==
    /\ update[u].pc \in {"lock", "clear"}
    /\ IF chapter = Gone
       THEN /\ guarded => holder = Nobody
            /\ End(u)
            /\ UNCHANGED holder
       ELSE /\ Lock(u)
            /\ update' = [update EXCEPT ![u].pc = IF @ = "lock" THEN "store" ELSE "reset",
                                        ![u].row = chapter]
    /\ UNCHANGED <<guarded, chapter, events, today, requests, overlapped, reached, achieved>>

(* Page 0 of a chapter that is not finished means that it was not read.    *)
ShouldClear(page, completed) == ~completed /\ page = 0

Larger(a, b) == IF a > b THEN a ELSE b

Progressed(row, page, completed) ==
    IF ShouldClear(page, completed) THEN Unread
    ELSE [pages |-> Larger(row.pages, page), completed |-> row.completed \/ completed,
          lastRead |-> today]

Store(u) ==
    /\ update[u].pc = "store"
    /\ holder' = Unlocked(u)
    /\ LET new == Progressed(update[u].row, update[u].page, update[u].completed) IN
       \/ /\ chapter # Gone
          /\ chapter' = new
          /\ reached' = Progressed(reached, update[u].page, update[u].completed)
          /\ achieved' = [pages |-> achieved.pages + Larger(0, new.pages - chapter.pages),
                          reads |-> achieved.reads +
                                        (IF new.completed /\ ~chapter.completed THEN 1 ELSE 0)]
          /\ Goto(u, "readback")
       \/ /\ End(u)
          /\ UNCHANGED <<chapter, reached, achieved>>
    /\ UNCHANGED <<guarded, events, today, requests, overlapped>>

Reset(u) ==
    /\ update[u].pc = "reset"
    /\ holder' = Unlocked(u)
    /\ \/ chapter # Gone /\ chapter' = Unread /\ reached' = Unread
       \/ UNCHANGED <<chapter, reached>>
    /\ End(u)
    /\ UNCHANGED <<guarded, events, today, requests, overlapped, achieved>>

(* get_chapter_by_id, after the lock was given back.                       *)
ReadBack(u) ==
    /\ update[u].pc = "readback"
    /\ \/ chapter # Gone /\ update' = [update EXCEPT ![u].pc = "pages", ![u].row = chapter]
       \/ End(u)
    /\ UNCHANGED <<guarded, holder, chapter, events, today, requests, overlapped, reached, achieved>>

-----------------------------------------------------------------------------
(* record_read_progress_activity                                           *)

PagesDelta(previous, updated) == Larger(0, updated.pages - previous.pages)

(* A slip: a chapter that was finished before is finished again.           *)
FinishedNow(previous, updated) == updated.completed

ChapterCompleted(previous, updated) == ~previous.completed /\ updated.completed

Event(kind, amount) == [kind |-> kind, day |-> today, amount |-> amount]

(* The two events are inserted under the lock, each by itself.             *)
RecordPages(u) ==
    /\ update[u].pc = "pages"
    /\ LET delta == PagesDelta(update[u].previous, update[u].row)
           finished == ChapterCompleted(update[u].previous, update[u].row) IN
       \/ /\ delta = 0 /\ ~finished
          /\ End(u)
          /\ UNCHANGED <<holder, events>>
       \/ /\ delta > 0 \/ finished
          /\ guarded => holder = Nobody
          /\ events' = IF delta > 0 THEN Append(events, Event("pages_read", delta)) ELSE events
          /\ IF finished THEN Lock(u) /\ Goto(u, "chapter")
             ELSE End(u) /\ UNCHANGED holder
       \/ /\ delta > 0 \/ finished
          /\ End(u)
          /\ UNCHANGED <<holder, events>>
    /\ UNCHANGED <<guarded, chapter, today, requests, overlapped, reached, achieved>>

RecordChapter(u) ==
    /\ update[u].pc = "chapter"
    /\ events' = Append(events, Event("chapters_read", 1)) \/ UNCHANGED events
    /\ holder' = Unlocked(u)
    /\ End(u)
    /\ UNCHANGED <<guarded, chapter, today, requests, overlapped, reached, achieved>>

-----------------------------------------------------------------------------
(* The chapter leaves the library with its series.                         *)
Remove ==
    /\ chapter # Gone
    /\ guarded => holder = Nobody
    /\ chapter' = Gone
    /\ UNCHANGED <<guarded, holder, events, update, today, requests, overlapped, reached, achieved>>

NextDay ==
    /\ today < MaxDay
    /\ today' = today + 1
    /\ UNCHANGED <<guarded, holder, chapter, events, update, requests, overlapped, reached, achieved>>

Next ==
    \/ \E u \in Updates :
        \/ Request(u) \/ ReadPrevious(u) \/ ReadRow(u) \/ Store(u) \/ Reset(u)
        \/ ReadBack(u) \/ RecordPages(u) \/ RecordChapter(u)
    \/ Remove \/ NextDay

Spec == Init /\ [][Next]_vars

-----------------------------------------------------------------------------
(* build_activity and get_stats_overview.                                  *)

Shown == today - ActivityDays + 1 .. today

Recorded(kind) == {i \in DOMAIN events : events[i].kind = kind /\ events[i].day \in Shown}

(* A finished chapter that no event tells of is counted by its row.        *)
ChaptersRead ==
    Cardinality(Recorded("chapters_read"))
        + (IF chapter.completed /\ Recorded("chapters_read") = {} /\ chapter.lastRead \in Shown
           THEN 1 ELSE 0)

PagesOf(event) == IF event.kind = "pages_read" THEN event.amount ELSE 0

PagesRead ==
    LET after[i \in 0 .. Len(events)] ==
            IF i = 0 THEN 0 ELSE after[i - 1] + PagesOf(events[i])
    IN after[Len(events)]

Rows == [pages : 0 .. MaxPage, completed : BOOLEAN, lastRead : -1 .. MaxDay]

TypeOK ==
    /\ guarded \in BOOLEAN /\ holder \in Updates \cup {Nobody}
    /\ update \in [Updates -> [pc : {"idle", "previous", "lock", "store", "readback", "pages",
                                     "chapter", "clear", "reset"},
                               page : 0 .. MaxPage, completed : BOOLEAN,
                               previous : Rows, row : Rows]]
    /\ chapter \in Rows \cup {Gone}
    /\ today \in 0 .. MaxDay /\ requests \in 0 .. MaxRequests

(* The progress of a chapter is what its updates since the last clear      *)
(* reached, where the backend locks or no two requests overlapped; a       *)
(* chapter that was finished shows in the activity, whatever failed; and   *)
(* requests that did not overlap count no page and no chapter twice.       *)
ReadingIsCounted ==
    /\ guarded \/ ~overlapped =>
        chapter \in {Gone, [reached EXCEPT !.lastRead = chapter.lastRead]}
    /\ chapter.completed /\ chapter.lastRead \in Shown => ChaptersRead > 0
    /\ ~overlapped =>
        /\ Cardinality({i \in DOMAIN events : events[i].kind = "chapters_read"}) <= achieved.reads
        /\ PagesRead <= achieved.pages
=============================================================================
