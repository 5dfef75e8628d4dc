--------------------------- MODULE MCAvailablePath ---------------------------
(* Instances of AvailablePath for TLC. *)
EXTENDS AvailablePath, TLC

Untagged == {<<>>}
UntaggedOrFirst == {<<>>, <<1>>}
Symmetric == Permutations(Uploads) \cup Permutations(Dirs)
=============================================================================
