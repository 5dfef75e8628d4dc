---------------------------- MODULE MCMediaItems ----------------------------
(* Instances of MediaItems for TLC. *)
EXTENDS MediaItems, TLC

\* All contents are equal: one thumbnail for all.
SameContent == [b \in Blobs |-> CHOOSE h \in Hashes : TRUE]

Symmetric == Permutations(Blobs) \cup Permutations(Clients)
=============================================================================
