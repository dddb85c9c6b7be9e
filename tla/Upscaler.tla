------------------------------- MODULE Upscaler -------------------------------
(***************************************************************************)
(* The inference worker: one thread with a queue of one request, and its   *)
(* cache of models, which it checks against the files before every page    *)
(* while somebody may be replacing them.  The files are stamped and read   *)
(* in separate calls.                                                      *)
(***************************************************************************)
EXTENDS Naturals, Sequences, SequencesExt

CONSTANTS
    Callers,    \* calls of upscale at a time
    Scales,     \* the scales of the configuration
    Models,     \* paths of models
    MaxLoaded,  \* models kept in memory
    MaxEdits,   \* bound: versions of the files
    None

VARIABLES
    disk,    \* [manifest, model]: what lies in the models directory
    edits,   \* versions written so far
    caller,  \* what each call waits for
    queue,   \* the channel
    worker,  \* the request the worker is at
    cache,   \* [manifest, loaded]: the ModelCache, the models by their last use
    seen     \* history: the directory when the worker took its request

vars == <<disk, edits, caller, queue, worker, cache, seen>>

Capacity == 1
NoCall == [at |-> "idle", scale |-> 0]
NoRequest == [at |-> "idle", of |-> None, scale |-> 0, model |-> None, stamp |-> 0]
Shutdown == [of |-> None, scale |-> 0]

(* A manifest names a model for every scale it has one for; a model file   *)
(* upscales by one scale.  The version of a file is its stamp.             *)
Manifests == [version : 1 .. MaxEdits, select : [Scales -> Models \cup {None}]]
ModelFiles == [version : 1 .. MaxEdits, scale : Scales]
NoFiles == [manifest |-> None, model |-> [m \in Models |-> None]]
NoCache == [manifest |-> None, loaded |-> <<>>]

Init ==
    /\ disk = NoFiles
    /\ edits = 0 /\ seen = NoFiles
    /\ caller = [c \in Callers |-> NoCall]
    /\ queue = <<>> /\ worker = NoRequest /\ cache = NoCache

-----------------------------------------------------------------------------
(* The models directory.                                                   *)

Edit ==
    /\ edits < MaxEdits
    /\ edits' = edits + 1
    /\ \/ \E s \in [Scales -> Models \cup {None}] :
            disk' = [disk EXCEPT !.manifest = [version |-> edits + 1, select |-> s]]
       \/ \E m \in Models, s \in Scales :
            disk' = [disk EXCEPT !.model[m] = [version |-> edits + 1, scale |-> s]]
       \/ \E m \in Models : disk' = [disk EXCEPT !.model[m] = None]
       \/ disk' = [disk EXCEPT !.manifest = None]
    /\ UNCHANGED <<caller, queue, worker, cache, seen>>

-----------------------------------------------------------------------------
(* The callers.                                                            *)

Ended == worker.at = "ended"

Call(c) ==
    /\ caller[c].at = "idle"
    /\ \E s \in Scales : caller' = [caller EXCEPT ![c] = [at |-> "sending", scale |-> s]]
    /\ UNCHANGED <<disk, edits, queue, worker, cache, seen>>

Send(c) ==
    /\ caller[c].at = "sending"
    /\ \/ /\ ~Ended /\ Len(queue) < Capacity
          /\ queue' = Append(queue, [of |-> c, scale |-> caller[c].scale])
          /\ caller' = [caller EXCEPT ![c].at = "waiting"]
       \/ /\ Ended
          /\ caller' = [caller EXCEPT ![c] = NoCall]
          /\ UNCHANGED queue
    /\ UNCHANGED <<disk, edits, worker, cache, seen>>

(* A caller that goes away, as the job does that is stopped.  Its request  *)
(* stays in the queue with a closed response.                              *)
Drop(c) ==
    /\ caller[c].at \in {"sending", "waiting"}
    /\ caller' = [caller EXCEPT ![c] = NoCall]
    /\ queue' = [i \in DOMAIN queue |-> IF queue[i].of = c THEN [queue[i] EXCEPT !.scale = 0] ELSE queue[i]]
    /\ worker' = IF worker.of = c THEN [worker EXCEPT !.of = None] ELSE worker
    /\ UNCHANGED <<disk, edits, cache, seen>>

(* shutdown, once: the request to stop waits for its place in the queue.   *)
AskToEnd ==
    /\ ~Ended /\ Len(queue) < Capacity
    /\ queue' = Append(queue, Shutdown)
    /\ UNCHANGED <<disk, edits, caller, worker, cache, seen>>

-----------------------------------------------------------------------------
(* The worker.                                                             *)

Answer ==
    /\ caller' = IF worker.of = None THEN caller ELSE [caller EXCEPT ![worker.of] = NoCall]
    /\ worker' = NoRequest
    /\ seen' = NoFiles

Take ==
    /\ worker.at = "idle" /\ queue # <<>>
    /\ queue' = Tail(queue)
    /\ CASE Head(queue) = Shutdown ->
                \* What is still queued, and who waits for it, gets an error.
                /\ worker' = [NoRequest EXCEPT !.at = "ended"]
                /\ caller' = [c \in Callers |-> IF caller[c].at = "waiting" THEN NoCall ELSE caller[c]]
                /\ UNCHANGED seen
         [] Head(queue) # Shutdown /\ Head(queue).scale = 0 -> UNCHANGED <<worker, caller, seen>>
         [] OTHER ->
                /\ worker' = [NoRequest EXCEPT !.at = "manifest", !.of = Head(queue).of,
                                               !.scale = Head(queue).scale]
                /\ seen' = disk
                /\ UNCHANGED caller
    /\ UNCHANGED <<disk, edits, cache>>

(* load_manifest: an absent file forgets the manifest, an unchanged one    *)
(* keeps it, and any other is read after it was stamped.                   *)
StampManifest ==
    /\ worker.at = "manifest"
    /\ LET kept == cache.manifest IN
       CASE disk.manifest = None ->
                /\ cache' = [cache EXCEPT !.manifest = None]
                /\ Answer
         [] disk.manifest # None /\ kept # None /\ kept.stamp = disk.manifest.version ->
                /\ worker' = [worker EXCEPT !.at = "select"]
                /\ UNCHANGED <<cache, caller, seen>>
         [] OTHER ->
                /\ worker' = [worker EXCEPT !.at = "parse", !.stamp = disk.manifest.version]
                /\ UNCHANGED <<cache, caller, seen>>
    /\ UNCHANGED <<disk, edits, queue>>

ParseManifest ==
    /\ worker.at = "parse"
    /\ \/ /\ disk.manifest # None
          /\ cache' = [cache EXCEPT !.manifest = [stamp |-> worker.stamp, is |-> disk.manifest]]
          /\ worker' = [worker EXCEPT !.at = "select"]
          /\ UNCHANGED <<caller, seen>>
       \/ Answer /\ UNCHANGED cache
    /\ UNCHANGED <<disk, edits, queue>>

Selected == cache.manifest.is.select[worker.scale]
Resident(m, loaded) == \E i \in DOMAIN loaded : loaded[i].path = m
Position(m) == CHOOSE i \in DOMAIN cache.loaded : cache.loaded[i].path = m
Entry(m) == cache.loaded[Position(m)]
Without(m) == RemoveAt(cache.loaded, Position(m))

(* A slip: a model that is in memory is not checked against its file.      *)
AnyStamp(m) == cache.loaded

(* What is in memory, without a model whose file has another stamp now.    *)
Current(m) ==
    IF Resident(m, cache.loaded) /\ Entry(m).stamp # disk.model[m].version
    THEN Without(m) ELSE cache.loaded

StampModel ==
    /\ worker.at = "select"
    /\ IF Selected = None \/ disk.model[Selected] = None
       THEN Answer /\ UNCHANGED cache
       ELSE /\ cache' = [cache EXCEPT !.loaded = Current(Selected)]
            /\ worker' = [worker EXCEPT !.model = Selected, !.stamp = disk.model[Selected].version,
                            !.at = IF Resident(Selected, Current(Selected)) THEN "infer" ELSE "open"]
            /\ UNCHANGED <<caller, seen>>
    /\ UNCHANGED <<disk, edits, queue>>

(* The oldest makes room.                                                  *)
Kept == IF Len(cache.loaded) >= MaxLoaded THEN Tail(cache.loaded) ELSE cache.loaded

(* A model that cannot be opened, or upscales by another scale than the    *)
(* manifest promised, is an error after the oldest has gone.               *)
Open ==
    /\ worker.at = "open"
    /\ LET file == disk.model[worker.model] IN
       \/ /\ file # None /\ file.scale = worker.scale
          /\ cache' = [cache EXCEPT !.loaded =
                Append(Kept, [path |-> worker.model, stamp |-> worker.stamp, is |-> file])]
          /\ worker' = [worker EXCEPT !.at = "infer"]
          /\ UNCHANGED <<caller, seen>>
       \/ /\ cache' = [cache EXCEPT !.loaded = Kept]
          /\ Answer
    /\ UNCHANGED <<disk, edits, queue>>

(* The page is upscaled and answered; an output of other dimensions than   *)
(* the scale asks for is an error.                                         *)
Completes == worker.at = "infer" /\ Entry(worker.model).is.scale = worker.scale

Infer ==
    /\ worker.at = "infer"
    /\ cache' = [cache EXCEPT !.loaded = Append(Without(worker.model), Entry(worker.model))]
    /\ Answer
    /\ UNCHANGED <<disk, edits, queue>>

Next ==
    \/ Edit \/ AskToEnd
    \/ \E c \in Callers : Call(c) \/ Send(c) \/ Drop(c)
    \/ Take \/ StampManifest \/ ParseManifest \/ StampModel \/ Open \/ Infer

Spec == Init /\ [][Next]_vars

-----------------------------------------------------------------------------
NotOlder(is, was) == was = None \/ is.version >= was.version

TypeOK ==
    /\ disk.manifest \in Manifests \cup {None}
    /\ disk.model \in [Models -> ModelFiles \cup {None}]
    /\ edits \in 0 .. MaxEdits /\ Len(queue) <= Capacity
    /\ caller \in [Callers -> [at : {"idle", "sending", "waiting"}, scale : Scales \cup {0}]]
    /\ worker.at \in {"idle", "manifest", "parse", "select", "open", "infer", "ended"}
    /\ worker.model \in Models \cup {None} /\ worker.of \in Callers \cup {None}

(* A page is upscaled by the model the manifest named and the file held,   *)
(* no older than both were when the worker turned to the page, and no more *)
(* models than allowed are in memory.                                      *)
UpscaledByCurrentModel ==
    /\ Len(cache.loaded) <= MaxLoaded
    /\ Completes =>
        /\ Resident(worker.model, cache.loaded)
        /\ NotOlder(Entry(worker.model).is, seen.model[worker.model])
        /\ NotOlder(cache.manifest.is, seen.manifest)
        /\ cache.manifest.is.select[worker.scale] = worker.model
=============================================================================
