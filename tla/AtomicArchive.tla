--------------------------- MODULE AtomicArchive ---------------------------
(***************************************************************************)
(* What the archive storage promises of one path: an archive is replaced,  *)
(* extended, annotated and erased in one step, an extension is made from   *)
(* the pages it is added to, and what a reader was given stays as it is    *)
(* until the reader lets it go.                                            *)
(***************************************************************************)
EXTENDS Naturals

CONSTANTS
    Readers,
    Versions,   \* publications of an archive
    Nothing

VARIABLES
    file,   \* Nothing, or a publication, what its section was made from, and its edits
    view    \* what each reader was given

Archives == [version : Versions, section : {Nothing} \cup Versions, edits : Nat]

Init == file = Nothing /\ view = [r \in Readers |-> Nothing]

Replace ==
    /\ \E v \in Versions : file' = [version |-> v, section |-> Nothing, edits |-> 0]
    /\ UNCHANGED view

Extend ==
    /\ file # Nothing
    /\ file' = [version |-> file.version, section |-> file.version, edits |-> file.edits + 1]
    /\ UNCHANGED view

Annotate ==
    /\ file # Nothing
    /\ file' = [file EXCEPT !.edits = @ + 1]
    /\ UNCHANGED view

Erase ==
    /\ file # Nothing /\ file' = Nothing
    /\ UNCHANGED view

Open(r) ==
    /\ view[r] = Nothing /\ file # Nothing
    /\ view' = [view EXCEPT ![r] = file]
    /\ UNCHANGED file

Close(r) ==
    /\ view[r] # Nothing
    /\ view' = [view EXCEPT ![r] = Nothing]
    /\ UNCHANGED file

(* The process dies: the readers go with it.                               *)
Restart ==
    /\ view' = [r \in Readers |-> Nothing]
    /\ UNCHANGED file

Next ==
    \/ Replace \/ Extend \/ Annotate \/ Erase \/ Restart
    \/ \E r \in Readers : Open(r) \/ Close(r)

Spec == Init /\ [][Next]_<<file, view>>
=============================================================================
