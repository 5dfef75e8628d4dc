---------------------------- MODULE MCS3Storage -----------------------------
(* A small bucket: a folder whose name begins another's, and an empty one.  *)
EXTENDS S3Storage, TLC

MCDirs == <<"a", "ab", "c">>
MCBegins == ("a" :> {"a", "ab"}) @@ ("ab" :> {"ab"}) @@ ("c" :> {"c"})
MCStored == [dir : {"a"}, name : {1, 2, 3}] \cup [dir : {"ab"}, name : {1}]
MCOpSets == {{"upload"}, {"movedir", "save"}, {"deletedir", "save"}, {"deletedir", "move"},
             {"downloaddir", "move"}}
Symmetry == Permutations(Clients)
=============================================================================
