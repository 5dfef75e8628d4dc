------------------------- MODULE MCBackgroundTasks --------------------------
(* Batches over two files: a move, a batch that names a file twice, a       *)
(* restoring from Trash, a deletion.                                        *)
EXTENDS BackgroundTasks, TLC
CONSTANTS f1, f2

Order(kind, from, to, items) == [kind |-> kind, from |-> from, to |-> to, items |-> items]
MCOrders ==
    { Order("move", "home", "other", <<f1, f2>>), Order("move", "trash", "home", <<f1>>),
      Order("trash", "home", "trash", <<f1, f1>>), Order("delete", "home", "gone", <<f1>>) }
MCPlaced == {(f1 :> "home") @@ (f2 :> "home"), (f1 :> "new") @@ (f2 :> "gone")}
=============================================================================
