--------------------------- MODULE DownloadedPages ---------------------------
(***************************************************************************)
(* Reading one page of a downloaded chapter while its archive is           *)
(* downloaded again, upscaled and deleted.  A request finds the row and    *)
(* the file of the chapter, maps the file and picks a variant, and serves  *)
(* the mapped bytes or a conversion of them; conversions are kept in the   *)
(* image cache for good, under a key that nobody removes.                  *)
(***************************************************************************)
EXTENDS Naturals

CONSTANTS
    Readers,      \* requests at work at a time
    MaxContents   \* bound: archives published at the path

Variants == {"original", "upscaled"}
Formats == {"mapped", "avif"}

VARIABLES
    archive,   \* [content, upscaled]; content 0: there is no file
    contents,  \* archives published so far
    row,       \* the chapter has a completed download
    converted, \* the image cache: what each key holds
    reading,   \* what each request does
    had        \* history: what the archive held since each request came

vars == <<archive, contents, row, converted, reading, had>>

NoArchive == [content |-> 0, upscaled |-> FALSE]

(* A page is what the archive holds of it in one variant.                  *)
Held == IF archive.content = 0 THEN {}
        ELSE {<<archive.content, "original">>} \cup
             (IF archive.upscaled THEN {<<archive.content, "upscaled">>} ELSE {})

PagesThere == (1 .. MaxContents) \X Variants

(* The key names the content by its hash.                                  *)
Key(page, format) == <<page[1], page[2], format>>

Keys == {Key(p, f) : p \in PagesThere, f \in Formats}
NoPage == <<0, "original">>
NotReading == [at |-> "idle", asked |-> "original", format |-> "mapped", skip |-> FALSE,
               page |-> NoPage, body |-> NoPage]

Init ==
    /\ archive = NoArchive /\ contents = 0 /\ row = FALSE
    /\ converted = [k \in Keys |-> NoPage]
    /\ reading = [r \in Readers |-> NotReading]
    /\ had = [r \in Readers |-> {}]

(* What the archive holds after a step is held for every request.          *)
Noted == had' = [r \in Readers |-> IF reading[r].at = "idle" THEN {} ELSE had[r] \cup Held']

-----------------------------------------------------------------------------
(* The archive.                                                            *)

(* A download publishes its archive and then completes its row.            *)
Publish ==
    /\ contents < MaxContents
    /\ contents' = contents + 1
    /\ archive' = [content |-> contents + 1, upscaled |-> FALSE]
    /\ Noted
    /\ UNCHANGED <<row, converted, reading>>

Complete ==
    /\ ~row /\ archive.content > 0
    /\ row' = TRUE
    /\ UNCHANGED <<archive, contents, converted, reading, had>>

(* Upscaling once more puts pages of other hashes in their place, as a new *)
(* archive does; it is left out here.                                      *)
Upscale ==
    /\ archive.content > 0 /\ ~archive.upscaled
    /\ archive' = [archive EXCEPT !.upscaled = TRUE]
    /\ Noted
    /\ UNCHANGED <<contents, row, converted, reading>>

(* Deleting removes the file before the row.                               *)
Delete ==
    \/ /\ row /\ archive.content > 0
       /\ archive' = NoArchive
       /\ Noted
       /\ UNCHANGED <<contents, row, converted, reading>>
    \/ /\ row /\ archive.content = 0
       /\ row' = FALSE
       /\ UNCHANGED <<archive, contents, converted, reading, had>>

-----------------------------------------------------------------------------
(* A request.                                                              *)

Request(r) ==
    /\ reading[r].at = "idle"
    /\ \E asked \in Variants \cup {"any"}, f \in Formats, skip \in BOOLEAN :
        reading' = [reading EXCEPT ![r] =
            [NotReading EXCEPT !.at = "resolve", !.asked = asked, !.format = f, !.skip = skip]]
    /\ had' = [had EXCEPT ![r] = Held]
    /\ UNCHANGED <<archive, contents, row, converted>>

Refuse(r) == reading' = [reading EXCEPT ![r] = NotReading]

Resolve(r) ==
    /\ reading[r].at = "resolve"
    /\ IF row /\ archive.content > 0
       THEN reading' = [reading EXCEPT ![r].at = "read"]
       ELSE Refuse(r)
    /\ UNCHANGED <<archive, contents, row, converted, had>>

(* Without a wish the upscaled pages are chosen where there are any.       *)
Selected(asked) ==
    {v \in Variants : <<archive.content, v>> \in Held /\
        IF asked = "any" THEN v = "upscaled" \/ ~archive.upscaled ELSE v = asked}

ReadPage(r) ==
    /\ reading[r].at = "read"
    /\ \/ \E v \in Selected(reading[r].asked) :
            LET page == <<archive.content, v>> IN
            reading' = [reading EXCEPT
                ![r].page = page,
                ![r].body = IF reading[r].format = "mapped" THEN page ELSE NoPage,
                ![r].at = CASE reading[r].format = "mapped" -> "answered"
                            [] reading[r].skip -> "convert"
                            [] OTHER -> "lookup"]
       \/ /\ Selected(reading[r].asked) = {}
          /\ Refuse(r)
    /\ UNCHANGED <<archive, contents, row, converted, had>>

Cached(r) == converted[Key(reading[r].page, reading[r].format)]

Lookup(r) ==
    /\ reading[r].at = "lookup"
    /\ reading' = [reading EXCEPT ![r].at = IF Cached(r) = NoPage THEN "convert" ELSE "answered",
                                  ![r].body = Cached(r)]
    /\ UNCHANGED <<archive, contents, row, converted, had>>

(* The conversion works on the mapped bytes, whatever became of the path.  *)
Convert(r) ==
    /\ reading[r].at = "convert"
    /\ \/ /\ reading' = [reading EXCEPT ![r].at = "answered", ![r].body = reading[r].page]
          /\ converted' = IF reading[r].skip THEN converted
                          ELSE [converted EXCEPT ![Key(reading[r].page, reading[r].format)]
                                  = reading[r].page]
       \/ Refuse(r) /\ UNCHANGED converted
    /\ UNCHANGED <<archive, contents, row, had>>

Answer(r) ==
    /\ reading[r].at = "answered"
    /\ Refuse(r)
    /\ UNCHANGED <<archive, contents, row, converted, had>>

Next ==
    \/ Publish \/ Complete \/ Upscale \/ Delete
    \/ \E r \in Readers :
        Request(r) \/ Resolve(r) \/ ReadPage(r) \/ Lookup(r) \/ Convert(r) \/ Answer(r)

Spec == Init /\ [][Next]_vars

-----------------------------------------------------------------------------
Anything == PagesThere \cup {NoPage}

TypeOK ==
    /\ archive \in [content : 0 .. MaxContents, upscaled : BOOLEAN]
    /\ contents \in 0 .. MaxContents /\ row \in BOOLEAN
    /\ converted \in [Keys -> Anything]
    /\ reading \in [Readers -> [at : {"idle", "resolve", "read", "lookup", "convert", "answered"},
                                asked : Variants \cup {"any"}, format : Formats, skip : BOOLEAN,
                                page : Anything, body : Anything]]
    /\ had \in [Readers -> SUBSET PagesThere]

(* What a request answers is a page the archive held while the request was *)
(* at work, in the variant it asked for, though the cache outlives every   *)
(* archive.                                                                *)
AnswersAreCurrent ==
    \A r \in Readers : reading[r].at = "answered" =>
        /\ reading[r].body \in had[r]
        /\ reading[r].asked # "any" => reading[r].body[2] = reading[r].asked
=============================================================================
