------------------------------ MODULE UserFiles ------------------------------
(***************************************************************************)
(* What the owner of a namespace is promised by the files API, with no     *)
(* database, object store, job queue or worker in sight: a map from paths  *)
(* to contents, changed by uploads, moves and deletions, each of which     *)
(* happens at one instant.  FileBlobs is shown to implement it.            *)
(***************************************************************************)

CONSTANTS Contents,   \* what an upload stores
          Path,       \* the paths of files
          DirOf(_),   \* the folder of a path
          InDir(_,_), \* the path of the same name in another folder
          Within(_),  \* the folders at or below a folder
          Dirs,       \* the folders
          None        \* nothing at this path

VARIABLE tree   \* tree[p] is the content at path p

Below(d) == {p \in Path : DirOf(p) \in Within(d)}

Init == tree = [p \in Path |-> None]

\* A new content appears at a path that was free.
Put(p, c) ==
    /\ tree[p] = None
    /\ tree' = [tree EXCEPT ![p] = c]

\* A file disappears.
Remove(p) ==
    /\ tree[p] # None
    /\ tree' = [tree EXCEPT ![p] = None]

\* Everything below a folder disappears, and nothing else does.
RemoveDir(d) ==
    tree' = [p \in Path |-> IF p \in Below(d) THEN None ELSE tree[p]]

\* A file goes to a free path and takes its content along.
Rename(p, q) ==
    /\ tree[p] # None
    /\ tree[q] = None
    /\ tree' = [tree EXCEPT ![p] = None, ![q] = tree[p]]

\* The files of a folder go to a folder that had none.
RenameDir(a, b) ==
    /\ a # b
    /\ \A p \in Path : DirOf(p) = b => tree[p] = None
    /\ tree' = [p \in Path |-> IF DirOf(p) = b THEN tree[InDir(p, a)]
                               ELSE IF DirOf(p) = a THEN None ELSE tree[p]]

Next ==
    \/ \E p \in Path, c \in Contents : Put(p, c)
    \/ \E p \in Path : Remove(p)
    \/ \E d \in Dirs : RemoveDir(d)
    \/ \E p, q \in Path : Rename(p, q)
    \/ \E a, b \in Dirs : RenameDir(a, b)

Spec == Init /\ [][Next]_tree

=============================================================================
