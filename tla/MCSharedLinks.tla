--------------------------- MODULE MCSharedLinks ----------------------------
(* Instances of SharedLinks for TLC. *)
EXTENDS SharedLinks, TLC

MCHome == [d \in Folders |-> IF d = "docs" THEN "here" ELSE "there"]

\* Users share and revoke, download what is moved about, download photos, or keep
\* bookmarks; files are deleted meanwhile.
MCOpSets == {{"share", "delete"}, {"download", "move", "delete"}, {"photo", "kill"},
             {"mark", "delete"}}
Symmetric == Permutations(Clients) \cup Permutations(Tokens)
=============================================================================
