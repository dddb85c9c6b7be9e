--------------------------- MODULE MCSourceFetch ---------------------------
(* Small instances of SourceFetch for TLC: two requests that share a call  *)
(* beside one that cannot, and media fetches that share the one permit.    *)
EXTENDS SourceFetch, TLC

CONSTANTS r1, r2, r3

MCRequests == {r1, r2, r3}
MCProfiles == {(r1 :> "api" @@ r2 :> "api" @@ r3 :> "post"),
               (r1 :> "media" @@ r2 :> "media" @@ r3 :> "page")}
=============================================================================
