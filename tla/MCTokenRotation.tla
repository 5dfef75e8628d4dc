--------------------------- MODULE MCTokenRotation ---------------------------
(* Instances of TokenRotation for TLC. *)
EXTENDS TokenRotation, TLC

Symmetric == Permutations(Families) \cup Permutations(TokenIds)
               \cup Permutations(Rotations)
=============================================================================
