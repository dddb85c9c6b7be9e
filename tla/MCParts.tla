------------------------------- MODULE MCParts -------------------------------
(* The parts that share nothing with each other, checked side by side: a   *)
(* behaviour runs one of them, and the others stay in their initial states. *)
(* Of the two ways to a browser a server is configured with one.           *)
EXTENDS ArchiveStorage

CONSTANTS
    Users, MaxOperations, MaxPolls,              \* the browsers
    Changes, Requests, TTL, MaxTime,             \* RouteSnapshots
    Readers, MaxContents,                        \* DownloadedPages
    Pages, Proxies, MaxAttempts, Concurrency,    \* SourcePages
    Updates, MaxPage, MaxRequests, MaxDay, ActivityDays, \* ReadProgress
    Callers, Scales, Models, MaxLoaded, MaxEdits, None, \* Upscaler
    Browsers, Series, MaxPending, LoginTTL, SessionTTL, MaxClock, MaxAsked, MaxMade, \* Accounts
    Uploads, Number(_), Votes(_), Limit, MaxMoves, \* ComixSource
    Calls, Toggles, MaxWarms \* SourceCatalog

VARIABLES
    part,
    client, operation, started, connections, wire, inbox, page, failedOn, interrupted,
    slot, launched, alive, user, begun, broken,
    route, snapshot, changed, request, clock,
    archive, contents, row, converted, reading, had,
    lists, images, proxy, job, fetches, remote,
    guarded, holder, chapter, events, update, today, requests, overlapped, reached, achieved,
    disk, edits, caller, queue, worker, cache, shown,
    config, time, pending, sessions, tokens, shares, cookies, visits, made, asked,
    granted, again, during,
    site, call, answer, sites, moves,
    kind, cached, registry, state, showing, asks, toggle, line, warms, disturbed

(* The chapters 0, 1, 1.4 and 6, of which 1 and 1.4 are one to the source. *)
ComixNumber(u) == <<0, 10, 14, 60>>[u]
ComixVotes(u) == <<1, 1, 0, 0>>[u]

Client == INSTANCE BrowserClient
Remote == INSTANCE RemoteBrowser WITH reported <- broken
Snapshots == INSTANCE RouteSnapshots
Downloaded == INSTANCE DownloadedPages
Sources == INSTANCE SourcePages
Progress == INSTANCE ReadProgress
Inference == INSTANCE Upscaler WITH seen <- shown
Accounting == INSTANCE Accounts WITH
    clock <- time, request <- visits
Comix == INSTANCE ComixSource WITH during <- sites
Catalog == INSTANCE SourceCatalog WITH
    call <- asks, row <- state, shown <- showing

clientVars == <<client, operation, started, connections, wire, inbox, page, failedOn, interrupted>>
remoteVars == <<slot, launched, alive, user, begun, broken>>
snapshotVars == <<route, snapshot, changed, request, clock>>
downloadedVars == <<archive, contents, row, converted, reading, had>>
sourceVars == <<lists, images, proxy, job, fetches, remote>>
progressVars ==
    <<guarded, holder, chapter, events, update, today, requests, overlapped, reached, achieved>>
inferenceVars == <<disk, edits, caller, queue, worker, cache, shown>>
accountVars == <<config, time, pending, sessions, tokens, shares, cookies, visits, made, asked,
    granted, again, during>>
comixVars == <<site, call, answer, sites, moves>>
catalogVars ==
    <<kind, cached, registry, state, showing, asks, toggle, line, warms, disturbed>>
partsVars == <<part, vars, clientVars, remoteVars, snapshotVars, downloadedVars, sourceVars,
          progressVars, inferenceVars, accountVars, comixVars, catalogVars>>

(* One part is in any of its initial states, the others in one of theirs.  *)
PartsInit ==
    /\ part \in {"archive", "browser-use", "cdp", "snapshots", "downloaded", "sources",
                 "progress", "inference", "accounts", "comix", "catalog"}
    /\ Init /\ Client!Init /\ Remote!Init /\ Downloaded!Init
    /\ Snapshots!Init
    /\ \/ part = "snapshots"
       \/ route = "settings_get" /\ \A c \in Changes : changed[c].kind = "settings"
    /\ Sources!Init
    /\ \/ part = "sources"
       \/ /\ lists = {} /\ remote = "stored"
          /\ \A k \in Sources!Keys : images[k] = Sources!NoImage
    /\ Progress!Init /\ (part = "progress" \/ guarded)
    /\ Inference!Init
    /\ Accounting!Init /\ (part = "accounts" \/ config = "open")
    /\ Comix!Init /\ (part = "comix" \/ site = {})
    /\ Catalog!Init
    /\ part = "catalog" \/ (kind = "search" /\ state = "on" /\ showing = "all")

(* The steps of one part leave every other part alone.                     *)
Only(p) ==
    /\ part = p /\ UNCHANGED part
    /\ p # "archive" => UNCHANGED vars
    /\ p # "browser-use" => UNCHANGED clientVars
    /\ p # "cdp" => UNCHANGED remoteVars
    /\ p # "snapshots" => UNCHANGED snapshotVars
    /\ p # "downloaded" => UNCHANGED downloadedVars
    /\ p # "sources" => UNCHANGED sourceVars
    /\ p # "progress" => UNCHANGED progressVars
    /\ p # "inference" => UNCHANGED inferenceVars
    /\ p # "accounts" => UNCHANGED accountVars
    /\ p # "comix" => UNCHANGED comixVars
    /\ p # "catalog" => UNCHANGED catalogVars

ArchiveSteps == Only("archive") /\ Next
ClientSteps == Only("browser-use") /\ Client!Next
RemoteSteps == Only("cdp") /\ Remote!Next
SnapshotSteps == Only("snapshots") /\ Snapshots!Next
DownloadedSteps == Only("downloaded") /\ Downloaded!Next
SourceSteps == Only("sources") /\ Sources!Next
ProgressSteps == Only("progress") /\ Progress!Next
InferenceSteps == Only("inference") /\ Inference!Next
AccountSteps == Only("accounts") /\ Accounting!Next
ComixSteps == Only("comix") /\ Comix!Next
CatalogSteps == Only("catalog") /\ Catalog!Next

PartsNext ==
    \/ ArchiveSteps \/ ClientSteps \/ RemoteSteps
    \/ SnapshotSteps \/ DownloadedSteps \/ SourceSteps
    \/ ProgressSteps \/ InferenceSteps \/ AccountSteps \/ ComixSteps
    \/ CatalogSteps

PartsSpec == PartsInit /\ [][PartsNext]_partsVars

-----------------------------------------------------------------------------
(* Every variable of every part has its type.                              *)
PartsTypeOK ==
    /\ part = "archive" => TypeOK
    /\ part = "browser-use" => Client!TypeOK
    /\ part = "cdp" => Remote!TypeOK
    /\ part = "snapshots" => Snapshots!TypeOK
    /\ part = "downloaded" => Downloaded!TypeOK
    /\ part = "sources" => Sources!TypeOK
    /\ part = "progress" => Progress!TypeOK
    /\ part = "inference" => Inference!TypeOK
    /\ part = "accounts" => Accounting!TypeOK
    /\ part = "comix" => Comix!TypeOK
    /\ part = "catalog" => Catalog!TypeOK

(* The operations of a browser share it and nothing else: a page has the   *)
(* scripts of its own operation, what an operation returns was read from   *)
(* the page it opened, a connection that failed one is not used by another *)
(* and a browser that was reported as broken is out of the slot for good.  *)
OperationsAreApart ==
    /\ Client!PagesArePrepared /\ Client!ReadsItsOwnPage
    /\ [](Client!FailedClientIsGone /\ Remote!ReportedIsGone)

(* A list that is not current was computed or changed during its answer,   *)
(* or is younger than the time a snapshot is kept.                         *)
StaleAnswersOverlapped == Snapshots!StaleAnswersOverlapped

(* A downloaded page that is answered was in the archive meanwhile, and a  *)
(* page of a source is its own, whoever else read or fetched it.           *)
PagesAreTheirOwn == Downloaded!AnswersAreCurrent /\ Sources!PagesAreTheirOwn

(* What was read of a chapter is kept and counted, and counted once.       *)
ReadingIsCounted == Progress!ReadingIsCounted

(* No page is upscaled by a model older than the worker could know.        *)
UpscaledByCurrentModel == Inference!UpscaledByCurrentModel

(* Who is let in was entitled to it while the request was at work.         *)
AccessIsEarned == Accounting!AccessIsEarned

(* What Comix answers is the site's: a list of chapters is real, and whole  *)
(* unless it was cut off, and scrambled pages were looked for in order.    *)
(* And what the server answers for a source is what its operators allow.   *)
AnswersAreTheSites ==
    /\ Comix!ListsAreReal /\ Comix!ListsAreComplete /\ Comix!PagesAreTheBest
    /\ Catalog!AnswersAreAllowed
=============================================================================
