--------------------------- MODULE MCUpscaleJobs ---------------------------
(* Small instances of UpscaleJobs for TLC.                                 *)
EXTENDS UpscaleJobs, TLC

(* SQLite takes jobs in the order they were queued, but no job is special. *)
Symmetry == Permutations(Jobs)
=============================================================================
