------------------------------ MODULE MCAlbums ------------------------------
(* Instances of Albums for TLC. *)
EXTENDS Albums

\* Three titles: two words of Latin letters, the second with a number, and one
\* of other letters, of which slugify keeps nothing.
MCSlug == [t \in Titles |->
             [words |-> IF t = "other" THEN t ELSE "foo",
              numbers |-> IF t = "foo 1" THEN <<1>> ELSE <<>>]]
MCAsciiSlug == [t \in Titles |-> IF t = "other" THEN EmptySlug ELSE MCSlug[t]]

\* One item, two, or one twice.
Lists == {<<1>>, <<1, 2>>, <<2, 2>>}
Symmetric == Permutations(Clients) \cup Permutations(Albums \ {Created})

\* Users arrange albums, their items, or both with less ado.
MCOpSets == {{"create", "rename", "delete_album"},
             {"add", "remove", "cover", "trash", "delete"},
             {"rename", "delete_album", "add", "remove"}}
=============================================================================
