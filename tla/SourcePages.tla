----------------------------- MODULE SourcePages -----------------------------
(***************************************************************************)
(* The pages of one chapter at its source: the list of page references and *)
(* the images, both behind the cache, fetched by the image proxy for       *)
(* readers, by the warming of a chapter, and by the job that downloads the *)
(* chapter, which tries each page several times and skips what it cannot   *)
(* get.  All of them look an image up, fetch a missing one and insert it,  *)
(* without a lock around the three.                                        *)
(***************************************************************************)
EXTENDS Naturals, FiniteSets

CONSTANTS
    Pages,         \* the pages of the chapter
    Proxies,       \* requests to the image proxy and warming at a time
    MaxAttempts,   \* PAGE_FETCH_MAX_ATTEMPTS and PAGE_REFS_MAX_ATTEMPTS
    Concurrency    \* download_page_fetch_concurrency

Ids == {"stored", "renamed"}     \* remote ids of the chapter
Formats == {"original", "avif"}

VARIABLES
    lists,   \* the remote ids whose page references are cached
    images,  \* the image cache
    proxy,   \* what each request does
    job,     \* the download
    fetches, \* the job's fetch of each page
    remote   \* the id under which the source knows the chapter

vars == <<lists, images, proxy, job, fetches, remote>>

(* The key of an image names its url and, where it is converted, how.      *)
Key(page, format) == <<page, format>>
Keys == Pages \X Formats

Image(page, format) == [of |-> page, format |-> format]
NoImage == Image("nothing", "original")
Junk == Image("junk", "original")

Resting == [at |-> "idle", page |-> "nothing", format |-> "original",
            mode |-> "read", body |-> NoImage]
NotFetched == [at |-> "waiting", attempt |-> 1, body |-> NoImage]
NoJob == [at |-> "none", id |-> "stored", attempt |-> 1, refreshed |-> FALSE]

(* The disk cache is older than the process: it may hold what another      *)
(* version inserted.                                                       *)
Init ==
    /\ lists \in SUBSET {"stored"}
    /\ \E old \in SUBSET Pages :
        images = [k \in Keys |-> IF k[1] \in old /\ k[2] = "original" THEN Junk ELSE NoImage]
    /\ proxy = [r \in Proxies |-> Resting]
    /\ job = NoJob
    /\ fetches = [p \in Pages |-> NotFetched]
    /\ remote \in Ids

-----------------------------------------------------------------------------
(* The image proxy: a reader's request or a page that is warmed.           *)

Ask(r) ==
    /\ proxy[r].at = "idle"
    /\ \E p \in Pages, f \in Formats, mode \in {"read", "skip", "warm"} :
        /\ mode = "warm" => f = "original"
        /\ proxy' = [proxy EXCEPT ![r] =
            [Resting EXCEPT !.at = IF mode = "skip" THEN "fetch" ELSE "lookup",
                            !.page = p, !.format = f, !.mode = mode]]
    /\ UNCHANGED <<lists, images, job, fetches, remote>>

CacheKey(r) == Key(proxy[r].page, proxy[r].format)

ProxyLookup(r) ==
    /\ proxy[r].at = "lookup"
    /\ proxy' = [proxy EXCEPT ![r].at = IF images[CacheKey(r)] = NoImage THEN "fetch" ELSE "bytes",
                              ![r].body = images[CacheKey(r)]]
    /\ UNCHANGED <<lists, images, job, fetches, remote>>

(* A fetch that fails, takes longer than MEDIA_PROXY_FETCH_TIMEOUT or      *)
(* brings no image sends the reader to the source; a fetched image is      *)
(* converted and then inserted.                                            *)
Fetched == Pages \cup {"junk"}
Accepted(body, page) == body = page

ProxyFetch(r) ==
    /\ proxy[r].at = "fetch"
    /\ \/ \E body \in {proxy[r].page, "junk"} :
            /\ Accepted(body, proxy[r].page)
            /\ LET image == Image(body, proxy[r].format) IN
                /\ proxy' = [proxy EXCEPT ![r].at = "bytes", ![r].body = image]
                /\ images' = IF proxy[r].mode = "skip" THEN images
                             ELSE [images EXCEPT ![CacheKey(r)] = image]
       \/ /\ proxy' = [proxy EXCEPT ![r].at = "redirect"]
          /\ UNCHANGED images
    /\ UNCHANGED <<lists, job, fetches, remote>>

ProxyDone(r) ==
    /\ proxy[r].at \in {"bytes", "redirect"}
    /\ proxy' = [proxy EXCEPT ![r] = Resting]
    /\ UNCHANGED <<lists, images, job, fetches, remote>>

-----------------------------------------------------------------------------
(* The page references.  What is warmed is kept for a time and the rest    *)
(* for good, but the cache is bounded and may drop any of it.              *)

WarmList(id) ==
    /\ id = remote
    /\ lists' = lists \cup {id}
    /\ UNCHANGED <<images, proxy, job, fetches, remote>>

Expire ==
    \/ /\ \E id \in lists : lists' = lists \ {id}
       /\ UNCHANGED images
    \/ /\ \E k \in Keys : images[k] # NoImage /\ images' = [images EXCEPT ![k] = NoImage]
       /\ UNCHANGED lists

Forget == Expire /\ UNCHANGED <<proxy, job, fetches, remote>>

-----------------------------------------------------------------------------
(* The job.                                                                *)

Start ==
    /\ job.at = "none"
    /\ job' = [job EXCEPT !.at = "drive"]
    /\ UNCHANGED <<lists, images, proxy, fetches, remote>>

(* Every entry of the drive's archive that is an image is a page, and no   *)
(* cache is asked; whatever is wrong with it leads to the source's pages.  *)
TryDrive ==
    /\ job.at = "drive"
    /\ \/ job' = [job EXCEPT !.at = "references"]
       \/ job' = [job EXCEPT !.at = "done"]
    /\ UNCHANGED <<lists, images, proxy, fetches, remote>>

ReferencesFail ==
    IF job.attempt < MaxAttempts THEN [job EXCEPT !.attempt = @ + 1]
    ELSE IF ~job.refreshed THEN [job EXCEPT !.at = "refresh"]
    ELSE [job EXCEPT !.at = "failed"]

(* An empty list is kept like any other, and fails the job each time; of a *)
(* list that is kept, it is not remembered whether it is one.              *)
GetReferences ==
    /\ job.at = "references"
    /\ \/ /\ job.id \in lists \cup {remote}
          /\ lists' = lists \cup {job.id}
          /\ job' \in {[job EXCEPT !.at = "pages", !.attempt = 1], ReferencesFail}
       \/ /\ job.id \notin lists
          /\ job' = ReferencesFail
          /\ UNCHANGED lists
    /\ UNCHANGED <<images, proxy, fetches, remote>>

(* refresh_stale_chapter_source_id: once, and only to another id.          *)
Refresh ==
    /\ job.at = "refresh"
    /\ \/ /\ remote # job.id
          /\ job' = [job EXCEPT !.at = "references", !.id = remote, !.attempt = 1,
                                !.refreshed = TRUE]
       \/ job' = [job EXCEPT !.at = "failed"]
    /\ UNCHANGED <<lists, images, proxy, fetches, remote>>

InFlight == {p \in Pages : fetches[p].at \in {"lookup", "fetch", "fetched"}}

Begin(p) ==
    /\ job.at = "pages" /\ fetches[p].at = "waiting"
    /\ Cardinality(InFlight) < Concurrency
    /\ fetches' = [fetches EXCEPT ![p].at = "lookup"]
    /\ UNCHANGED <<lists, images, proxy, job, remote>>

(* A slip: what is in the cache is taken for an image.                     *)
AnyBody(body) == body.of # "nothing"

(* validate_source_page_image: nothing but an image is a page.             *)
ValidBody(body) == body.of \notin {"nothing", "junk"}

PageLookup(p) ==
    /\ job.at = "pages" /\ fetches[p].at = "lookup"
    /\ LET key == Key(p, "original")
           hit == ValidBody(images[key]) IN
        /\ fetches' = [fetches EXCEPT
            ![p].at = IF hit THEN "fetched" ELSE "fetch",
            ![p].body = IF hit THEN images[key] ELSE NoImage]
        /\ images' = IF hit THEN images ELSE [images EXCEPT ![key] = NoImage]
    /\ UNCHANGED <<lists, proxy, job, remote>>

(* What may help is tried again: bad bytes, a failed request, a busy or    *)
(* failing source; the rest is skipped at once.                            *)
PageFetch(p) ==
    /\ job.at = "pages" /\ fetches[p].at = "fetch"
    /\ \/ LET image == Image(p, "original") IN
          /\ fetches' = [fetches EXCEPT ![p].at = "fetched", ![p].body = image]
          /\ images' = [images EXCEPT ![Key(p, "original")] = image]
       \/ /\ fetches[p].attempt < MaxAttempts
          /\ fetches' = [fetches EXCEPT ![p].at = "lookup", ![p].attempt = @ + 1]
          /\ UNCHANGED images
       \/ /\ fetches' = [fetches EXCEPT ![p] = [NotFetched EXCEPT !.at = "skipped"]]
          /\ UNCHANGED images
    /\ UNCHANGED <<lists, proxy, job, remote>>

Stage(p) ==
    /\ job.at = "pages" /\ fetches[p].at = "fetched"
    /\ fetches' = [fetches EXCEPT ![p].at = "staged", ![p].attempt = 1]
    /\ UNCHANGED <<lists, images, proxy, job, remote>>

(* The staged pages, in order, make the archive.                           *)
Finish ==
    /\ job.at = "pages" /\ \A p \in Pages : fetches[p].at \in {"staged", "skipped"}
    /\ job' = [job EXCEPT !.at = IF \E p \in Pages : fetches[p].at = "staged"
                                 THEN "done" ELSE "failed"]
    /\ fetches' = [p \in Pages |-> NotFetched]
    /\ UNCHANGED <<lists, images, proxy, remote>>

(* A cancelled job drops its fetches.                                      *)
Cancel ==
    /\ job.at \in {"drive", "references", "pages"}
    /\ job' = [NoJob EXCEPT !.at = "cancelled"]
    /\ fetches' = [p \in Pages |-> NotFetched]
    /\ UNCHANGED <<lists, images, proxy, remote>>

Next ==
    \/ \E r \in Proxies : Ask(r) \/ ProxyLookup(r) \/ ProxyFetch(r) \/ ProxyDone(r)
    \/ \E id \in Ids : WarmList(id)
    \/ Forget
    \/ Start \/ TryDrive \/ GetReferences \/ Refresh \/ Finish \/ Cancel
    \/ \E p \in Pages : Begin(p) \/ PageLookup(p) \/ PageFetch(p) \/ Stage(p)

Spec == Init /\ [][Next]_vars

-----------------------------------------------------------------------------
Bodies == [of : Fetched \cup {"nothing"}, format : Formats]

TypeOK ==
    /\ lists \subseteq Ids /\ images \in [Keys -> Bodies]
    /\ proxy \in [Proxies -> [at : {"idle", "lookup", "fetch", "bytes", "redirect"},
                              page : Pages \cup {"nothing"}, format : Formats,
                              mode : {"read", "skip", "warm"}, body : Bodies]]
    /\ job \in [at : {"none", "drive", "references", "refresh", "pages", "done", "failed",
                      "cancelled"},
                id : Ids, attempt : 1 .. MaxAttempts, refreshed : BOOLEAN]
    /\ fetches \in [Pages -> [at : {"waiting", "lookup", "fetch", "fetched", "staged", "skipped"},
                              attempt : 1 .. MaxAttempts, body : Bodies]]
    /\ remote \in Ids

(* Whatever readers, warming and another version left in the cache, a page *)
(* is staged for the archive with its own image as the source serves it,   *)
(* and the proxy answers with the format it was asked for.                 *)
PagesAreTheirOwn ==
    /\ \A p \in Pages : fetches[p].at = "staged" =>
        fetches[p].body.of = p /\ fetches[p].body.format = "original"
    /\ \A r \in Proxies : proxy[r].at = "bytes" =>
        \/ proxy[r].body.of = proxy[r].page /\ proxy[r].body.format = proxy[r].format
        \/ proxy[r].body = Junk
=============================================================================
