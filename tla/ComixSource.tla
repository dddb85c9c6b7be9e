---------------------------- MODULE ComixSource ----------------------------
(***************************************************************************)
(* One call to the Comix source: a listing of chapters put together from   *)
(* many requests, through the API, the chapter indexes or a browser that   *)
(* watches the site's own requests, while the site changes between them    *)
(* and any request may fail; and the search, the details and the pages     *)
(* with their fall-backs.                                                  *)
(*                                                                         *)
(* A step is a request with what the source does on its answer.  A request *)
(* fails when the transport, the status or the parsing of its body fails.  *)
(* Numbers are in tenths, and an upload stands for its chapter_id.         *)
(***************************************************************************)
EXTENDS Naturals, Sequences, FiniteSetsExt

CONSTANTS
    Uploads,      \* chapter uploads of the series, as their ids
    Number(_),    \* number of an upload, in tenths
    Votes(_),     \* its votes, an official one above all others
    Limit,        \* CHAPTER_LIST_LIMIT
    MaxMoves,     \* bound: changes of the site
    None

VARIABLES
    site,         \* the uploads that are listed
    call,         \* the call that is at work
    answer,       \* the answer of the last call
    (* history *)
    during,       \* what the site was during the call
    moves

vars == <<site, call, answer, during, moves>>

Ops == {"search", "manga", "chapters", "pages"}
Ids == {"hash", "numeric"}
ChapterIds == {"numeric", "reader", "title", "other"}

-----------------------------------------------------------------------------
(* chapters.rs: one chapter for each rounded number, the better one.       *)

Key(u) == (Number(u) + 5) \div 10

(* is_better.                                                              *)
Better(u, v) == Votes(u) > Votes(v) \/ (Votes(u) = Votes(v) /\ u > v)

(* upsert_chapter, for each of the new chapters.                           *)
Upserted(chapters, new) ==
    {u \in chapters \cup new :
        \A v \in (chapters \cup new) \ {u} : Key(v) = Key(u) => Better(u, v)}

Latest(uploads) == Max({Number(u) : u \in uploads})

(* retain_plausible_chapters: LATEST_CHAPTER_TOLERANCE is two chapters.    *)
Plausible(chapters, details) ==
    IF details = None \/ details.latest \in {None, 0} THEN chapters
    ELSE {u \in chapters : Number(u) > 0 /\ Number(u) <= details.latest + 20}

-----------------------------------------------------------------------------
(* What the site answers.                                                  *)

(* The details of the title: the latest chapter and whether there are any  *)
(* may be left out, and the title's address needs its slug.                *)
DetailsOf(uploads) ==
    [latest : {None, IF uploads = {} THEN 0 ELSE Latest(uploads)},
     chapters : {TRUE, uploads # {}},
     title : {"unknown", "url", "slug"}]

(* The two addresses of a page of the list: by number, and as it comes.    *)
Before(u, v, route) ==
    IF route = "by-number"
    THEN Number(u) > Number(v) \/ (Number(u) = Number(v) /\ u > v)
    ELSE u < v

(* How many uploads a list has before one of them.                         *)
Rank(u, uploads, route) == Cardinality({v \in uploads : Before(v, u, route)})

(* A page of the list, with has_next_page.                                 *)
ListPage(uploads, route, n) ==
    [items |-> {u \in uploads : Rank(u, uploads, route) \in (n - 1) * Limit .. n * Limit - 1},
     more |-> n * Limit < Cardinality(uploads)]

(* A body that holds all chapters has no pages.                            *)
ListReplies(route, page) ==
    {ListPage(site, route, page), [items |-> site, more |-> FALSE]}

(* A page of a chapter: plain, scrambled with the map to undo it, or       *)
(* scrambled without.  A map that is no permutation is none.               *)
Kind(scrambled, map) ==
    IF ~scrambled THEN "plain" ELSE IF map THEN "mapped" ELSE "scrambled"

(* The kinds of the pages in a list of them.                               *)
PageLists == SUBSET {Kind(s, m) : s, m \in BOOLEAN} \ {{}}

(* What the site's own client tells the browser of them: never a map.      *)
SiteLists == SUBSET {Kind(s, FALSE) : s \in BOOLEAN} \ {{}}

-----------------------------------------------------------------------------
Uncaptured == [pages |-> {}, chapters |-> {}]

(* A call has the candidate ids still to try, the kind of the chapter id,  *)
(* details_response, chapter_map, the page of the list, the indexes still  *)
(* to follow and the upload one led to, what the scripts in the browser    *)
(* have collected, the pages the API listed, and the routes that failed.   *)
Idle ==
    [op |-> None, at |-> "idle", ids |-> <<>>, chapter |-> None, details |-> None,
     found |-> {}, page |-> 1, todo |-> {}, chosen |-> None, captured |-> Uncaptured,
     listed |-> {}, failed |-> {},
     script |-> [decoding |-> "pending", payloads |-> <<>>]]

NoAnswer == [op |-> None, kind |-> "none", by |-> "none", chapters |-> {}, pages |-> {},
             chapter |-> None, failed |-> {}, looked |-> FALSE, decoding |-> "pending"]

Init ==
    /\ site \in SUBSET Uploads
    /\ call = Idle
    /\ answer = NoAnswer
    /\ during = <<>>
    /\ moves = 0

(* The site adds or removes an upload at any time.                         *)
Move ==
    /\ moves < MaxMoves
    /\ \E u \in Uploads : site' = IF u \in site THEN site \ {u} ELSE site \cup {u}
    /\ during' = IF call = Idle THEN during ELSE Append(during, site')
    /\ moves' = moves + 1
    /\ UNCHANGED <<call, answer>>

Continue(next) == call' = next /\ UNCHANGED <<site, answer, during, moves>>

(* The call ends, and nothing of it is kept but its answer.                *)
End(kind, by, chapters, pages) ==
    /\ answer' = [op |-> call.op, kind |-> kind, by |-> by, chapters |-> chapters,
                  pages |-> pages, chapter |-> call.chapter, failed |-> call.failed,
                  looked |-> call.at = "page-capture",
                  decoding |-> call.script.decoding]
    /\ call' = Idle
    /\ UNCHANGED <<site, during, moves>>

Ok(by) == End("ok", by, {}, {})
Fail == End("error", "none", {}, {})
Failing(step, route) == Continue([call EXCEPT !.at = step, !.failed = @ \cup {route}])

(* Only a hash id has a page of its title.                                 *)
Lookup(ids) == IF ids[1] = "hash" THEN "title-page" ELSE "details"

(* A stored series id holds a numeric id, a hash id or both.               *)
Ask(o) ==
    /\ call = Idle
    /\ CASE o = "search" -> call' = [Idle EXCEPT !.op = o, !.at = "search-capture"]
         [] o = "pages" ->
              \E id \in ChapterIds :
                call' = [Idle EXCEPT !.op = o, !.chapter = id,
                             !.at = IF id \in {"numeric", "reader"} THEN "page-api"
                                    ELSE "page-capture"]
         [] OTHER ->
              \E ids \in {<<"hash">>, <<"numeric">>, <<"hash", "numeric">>} :
                call' = [Idle EXCEPT !.op = o, !.ids = ids,
                             !.at = IF "numeric" \in Range(ids) THEN "resolve"
                                    ELSE "title-page"]
    /\ during' = <<site>>
    /\ answer' = NoAnswer
    /\ UNCHANGED <<site, moves>>

-----------------------------------------------------------------------------
(* search: the browser, then the addresses of the API, of which an empty    *)
(* query has one.                                                          *)

(* Records that cannot be read are skipped, if there is one that can.      *)
Readable(items) == items = {} \/ "good" \in items

SearchBy(route, next) ==
    /\ call.at = route
    /\ \E items \in SUBSET {"good", "malformed"} :
         IF Readable(items) THEN Ok(route)
         ELSE IF next = {} THEN Fail
         ELSE \E step \in next : Failing(step, route)

Search ==
    \/ SearchBy("search-capture", {"keyword", "browse"})
    \/ SearchBy("keyword", {"q"})
    \/ SearchBy("q", {}) \/ SearchBy("browse", {})

(* candidate_manga_ids: the hash id of a numeric one goes first.           *)
Resolve ==
    /\ call.at = "resolve"
    /\ \E ids \in {call.ids} \cup
            IF "hash" \in Range(call.ids) THEN {} ELSE {<<"hash">> \o call.ids} :
         Continue([call EXCEPT !.ids = ids, !.at = Lookup(ids)])

(* The details of a candidate are known: that is all manga() needs but the *)
(* genres, and a title without chapters ends chapters().                   *)
Learned(d) ==
    CASE call.op = "manga" -> Continue([call EXCEPT !.at = "genres"])
      [] call.op = "chapters" /\ ~d.chapters -> Ok("details")
      [] OTHER -> Continue([call EXCEPT !.details = d, !.at = "list"])

TitlePage ==
    /\ call.at = "title-page"
    /\ \/ \E d \in DetailsOf(site) : Learned(d)
       \/ Continue([call EXCEPT !.at = "details"])

(* This candidate gave nothing: the next one is tried.                     *)
NextCandidate ==
    IF Len(call.ids) = 1 THEN Fail
    ELSE LET ids == Tail(call.ids)
         IN Continue([Idle EXCEPT !.op = call.op, !.ids = ids, !.at = Lookup(ids)])

(* Without details the chapters are still looked for.                      *)
Details ==
    /\ call.at = "details"
    /\ \/ \E d \in DetailsOf(site) : Learned(d)
       \/ call.op = "manga" /\ NextCandidate
       \/ call.op = "chapters" /\ Continue([call EXCEPT !.at = "list"])

(* complete_manga_details: genres that cannot be resolved stay empty.      *)
Genres == call.at = "genres" /\ Ok("details")

-----------------------------------------------------------------------------
(* chapters: the API list, the indexes, the browser.                       *)

(* attach_reader_urls: the id of a chapter is the address of its reader    *)
(* when the title's address is known, and its number in the API otherwise. *)
HasReader(u) ==
    call.details # None /\ call.details.title # "unknown" /\ Number(u) > 0

(* The first route that gives any chapter is the answer, if any of them is *)
(* plausible.                                                              *)
Close(chapters, by) ==
    LET kept == Plausible(chapters, call.details)
    IN IF kept = {} THEN Fail
       ELSE End("ok", by, {<<u, HasReader(u)>> : u \in kept}, {})

(* Without details there is no title for the other two routes to look at.  *)
AfterList(chapters) ==
    \/ chapters # {} /\ Close(chapters, "list")
    \/ chapters = {} /\ call.details = None /\ NextCandidate
    \/ /\ chapters = {} /\ call.details # None
       /\ Continue([call EXCEPT !.at = "indexes"])

(* fetch_chapter_list_page, at the first or the second address.  A page    *)
(* that both addresses fail to give ends the list.                         *)
ListAt(route, step) ==
    /\ call.at = step
    /\ \E reply \in ListReplies(route, call.page) :
         LET chapters == Upserted(call.found, reply.items)
         IN IF reply.more
            THEN Continue([call EXCEPT !.at = "list", !.found = chapters, !.page = @ + 1])
            ELSE AfterList(chapters)

ChapterList ==
    \/ ListAt("by-number", "list")
    \/ call.at = "list" /\ Failing("list-unordered", "list")
    \/ ListAt("as-it-comes", "list-unordered")
    \/ call.at = "list-unordered" /\ AfterList(call.found)

(* manga_reader_root_url: the browser needs the address of the title.      *)
AfterIndexes ==
    \/ call.found # {} /\ Close(call.found, "indexes")
    \/ call.found = {} /\ call.details.title = "unknown" /\ NextCandidate
    \/ /\ call.found = {} /\ call.details.title # "unknown"
       /\ Continue([call EXCEPT !.at = "capture"])

(* Readers have addresses when the slug is known and the number positive.  *)
Indexes ==
    /\ call.at = "indexes"
    /\ LET readers == IF call.details.title = "slug" THEN {Number(u) : u \in site} \ {0}
                      ELSE {}
       IN \/ Continue([call EXCEPT !.at = "index", !.todo = readers])
          \/ AfterIndexes

(* The reader of an index redirects to one upload of that number, and the  *)
(* upload is looked up.  A failure leaves this index out.                  *)
Index ==
    /\ call.at = "index"
    /\ IF call.todo = {} THEN AfterIndexes
       ELSE \E n \in call.todo :
              LET rest == [call EXCEPT !.todo = @ \ {n}]
              IN \/ \E u \in site :
                      /\ Number(u) = n
                      /\ Continue([rest EXCEPT !.at = "chapter", !.chosen = u])
                 \/ Continue([rest EXCEPT !.failed = @ \cup {"indexes"}])

Chapter ==
    /\ call.at = "chapter"
    /\ LET rest == [call EXCEPT !.at = "index", !.chosen = None]
       IN \/ /\ call.chosen \in site
             /\ Continue([rest EXCEPT !.found = Upserted(@, {call.chosen})])
          \/ Continue([rest EXCEPT !.failed = @ \cup {"indexes"}])

-----------------------------------------------------------------------------
(* The script in the browser collects the pages of the list that the site  *)
(* asks for itself, in whatever order their answers come, the first answer *)
(* of each page; it is done with the last page if it has those before it.  *)

(* A slip: it is done with the last page.                                  *)
DoneAtLast(reply, n, pages) == ~reply.more

Done(reply, n, pages) == ~reply.more /\ 1 .. n \subseteq pages

Captured(n) ==
    LET reply == ListPage(site, "by-number", n)
        pages == call.captured.pages \cup {n}
        chapters == call.captured.chapters \cup reply.items
    IN /\ n \notin call.captured.pages
       /\ IF ~Done(reply, n, pages)
          THEN Continue([call EXCEPT !.captured = [pages |-> pages, chapters |-> chapters]])
          ELSE IF chapters = {} THEN NextCandidate
          ELSE Close(Upserted({}, chapters), "capture")

(* The capture fails, or is not done in time.                              *)
ChapterCapture ==
    /\ call.at = "capture"
    /\ \/ \E n \in 1 .. Cardinality(Uploads) : Captured(n)
       \/ NextCandidate

-----------------------------------------------------------------------------
(* pages: the API when the id has a number, the browser when it is the     *)
(* address of a reader.  Scrambled pages without a map are asked for in    *)
(* the browser, which has to have found a map to be believed.              *)

PagesFrom(by, pages) == End("ok", by, {}, pages)

PageApi ==
    /\ call.at = "page-api"
    /\ \/ \E pages \in PageLists :
            IF call.chapter = "reader" /\ "scrambled" \in pages
            THEN Continue([call EXCEPT !.at = "page-capture", !.listed = pages])
            ELSE PagesFrom("api", pages)
       \/ IF call.chapter = "reader" THEN Failing("page-capture", "api") ELSE Fail

(* The script of the capture: it asks the site's own client for the        *)
(* chapter and draws its scrambled pages to find their maps, which may not *)
(* succeed for each; it takes plain pages the site parses meanwhile; and   *)
(* when the first has ended it guesses addresses from those it has seen.   *)
Decoded(pages) ==
    LET plain == pages \cap {"plain"}
    IN IF "scrambled" \in pages
       THEN {plain \cup drawn : drawn \in SUBSET {"mapped", "scrambled"} \ {{}}}
       ELSE {plain}

Payload(by, pages) == [by |-> by, pages |-> pages]

MayGuess == call.script.decoding # "pending" /\ call.script.payloads = <<>>

Opened == call.at = "page-capture" /\ call.chapter # "other"

PageDecode ==
    /\ Opened /\ call.script.decoding = "pending"
    /\ \/ \E pages \in SiteLists : \E drawn \in Decoded(pages) :
            Continue([call EXCEPT !.script.decoding = "done",
                         !.script.payloads = <<Payload("decoded", drawn)>> \o @])
       \/ Continue([call EXCEPT !.script.decoding = "failed"])

PageParse ==
    /\ Opened /\ call.script.payloads = <<>>
    /\ Continue([call EXCEPT !.script.payloads = <<Payload("parsed", {"plain"})>>])

PageGuess ==
    /\ Opened /\ MayGuess
    /\ \E pages \in SiteLists :
         Continue([call EXCEPT !.script.payloads = <<Payload("guessed", pages)>>])

(* The first payload is taken; or the capture fails, or is not done in     *)
(* time.                                                                   *)
PageCapture ==
    /\ call.at = "page-capture"
    /\ \/ /\ call.script.payloads # <<>>
          /\ LET first == call.script.payloads[1]
             IN IF call.listed = {} \/ "mapped" \in first.pages
                THEN PagesFrom(first.by, first.pages)
                ELSE PagesFrom("api", call.listed)
       \/ IF call.listed = {} THEN Fail ELSE PagesFrom("api", call.listed)

Next ==
    \/ Move
    \/ \E o \in Ops : Ask(o)
    \/ Search \/ Resolve \/ TitlePage \/ Details \/ Genres
    \/ ChapterList \/ Indexes \/ Index \/ Chapter \/ ChapterCapture
    \/ PageApi \/ PageDecode \/ PageParse \/ PageGuess \/ PageCapture

Spec == Init /\ [][Next]_vars

-----------------------------------------------------------------------------
TypeOK ==
    /\ site \subseteq Uploads
    /\ during \in Seq(SUBSET Uploads)
    /\ moves \in 0 .. MaxMoves
    /\ call.op \in Ops \cup {None}
    /\ call.ids \in Seq(Ids)
    /\ call.found \subseteq Uploads /\ call.captured.chapters \subseteq Uploads
    /\ call.page \in 1 .. Cardinality(Uploads) + MaxMoves
    /\ answer.chapters \subseteq Uploads \X BOOLEAN

ListOf == {c[1] : c \in answer.chapters}
IsList == answer.op = "chapters" /\ answer.kind = "ok"

Chapters(uploads) == {Key(u) : u \in uploads} \ {0}
Grew == \A i \in 1 .. Len(during) - 1 : during[i] \subseteq during[i + 1]

(* What a list of chapters holds was on the site during the call, one      *)
(* upload of each chapter; and only a title without chapters has an empty  *)
(* list, however many requests were lost.                                  *)
ListsAreReal ==
    IsList =>
        /\ ListOf \subseteq UNION Range(during)
        /\ \A u, v \in ListOf : u # v => Key(u) # Key(v)
        /\ ListOf = {} => {} \in Range(during)

(* A list misses nothing of what was on the site when the call began, if   *)
(* the site only grew and the route the list came by lost no request; from *)
(* a site that did not change, the API and the browser take the best       *)
(* upload of each chapter.  The browser sees its pages in any order, and   *)
(* chapters before the first are left out when the latest is known.        *)
ListsAreComplete ==
    IsList /\ answer.by \notin answer.failed =>
        /\ Grew /\ (answer.by = "capture" => Len(during) = 1) =>
               Chapters(during[1]) \subseteq Chapters(ListOf)
        /\ Len(during) = 1 /\ answer.by # "indexes" =>
               \A u \in ListOf, v \in during[1] \ ListOf : Key(u) = Key(v) => Better(u, v)

(* Scrambled pages that nothing can put in order are given only when the   *)
(* browser was asked too, or the id is no address to open in it; and pages *)
(* are guessed only when they could not be asked for.                      *)
PagesAreTheBest ==
    answer.op = "pages" =>
        /\ answer.by = "api" /\ "scrambled" \in answer.pages =>
               answer.chapter = "numeric" \/ answer.looked
        /\ answer.by = "guessed" => answer.decoding = "failed"
=============================================================================
