---------------------------- MODULE MCDownloads ----------------------------
(* Small instances of Downloads for TLC.                                   *)
EXTENDS Downloads, TLC

(* Requests behave alike and so do workers, rows and chapters.             *)
Symmetry ==
    Permutations(Downloads) \cup Permutations(Chapters) \cup Permutations(Workers)
        \cup Permutations(Handlers)
=============================================================================
