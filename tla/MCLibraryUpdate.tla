-------------------------- MODULE MCLibraryUpdate --------------------------
(* Small instances of LibraryUpdate: more series than checks in flight.     *)
EXTENDS LibraryUpdate, TLC

Symmetry == Permutations(Manga) \cup Permutations(ManualRuns)
=============================================================================
