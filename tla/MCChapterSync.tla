--------------------------- MODULE MCChapterSync ---------------------------
(* Small instances of ChapterSync: a source that lists at most two chapters. *)
EXTENDS ChapterSync, TLC

Entry == [remote : Remotes, number : Numbers, date : Dates]

UpToTwo ==
    {<<>>} \cup {<<e>> : e \in Entry}
           \cup {l \in Entry \X Entry : l[1].remote # l[2].remote}

Symmetry == Permutations(Tasks) \cup Permutations(Remotes)
=============================================================================
