----------------------------- MODULE MCFileTree -----------------------------
(* Instances of FileTree for TLC. *)
EXTENDS FileTree, TLC

FreeIds == Ids \ {HomeId, TrashId}
Symmetric == Permutations(FreeIds) \cup Permutations(Clients)

\* "a" and "A" differ in case, and so do "Trash" and "trash".
MCFold == [n \in Names |-> CASE n = "A" -> "a" [] n = "Trash" -> "trash" [] OTHER -> n]

AllOps   == {"create_folder", "upload", "delete", "move", "move_to_trash", "empty_trash"}
Deep     == [files |-> {<<"b">>, <<"a", "b">>, <<"a", "a", "b">>},
             folders |-> {<<"a">>, <<"a", "a">>}, ops |-> AllOps,
             overlapping |-> {"create_folder", "upload"}]
Cased    == {<<"a">>, <<"A">>, <<"b">>, <<"a", "b">>, <<"A", "b">>, <<"A", "b", "b">>}
TwoCases == [files |-> Cased, folders |-> Cased, ops |-> {"create_folder", "upload", "delete"},
             overlapping |-> {}]
MCAskings == {Deep, TwoCases}

\* The theorems are about these askings.
ASSUME AskingsAssumption == \A a \in MCAskings : Tidy(a) \/ Calm(a)
=============================================================================
