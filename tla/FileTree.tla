------------------------------ MODULE FileTree ------------------------------
(***************************************************************************)
(* The files table of one namespace: a tree of rows with paths and sizes,  *)
(* kept by FileCoreService and FileRepository.  A request reads rows,      *)
(* checks, and then writes in a transaction; other requests run in         *)
(* between.  Rows are looked up without regard to case, while sizes are    *)
(* added, prefixes replaced and the unique index checked with regard to it.*)
(*                                                                         *)
(* A path is a sequence of names, <<>> the Home folder.  Every file has    *)
(* size 1.                                                                 *)
(***************************************************************************)
EXTENDS Integers, Sequences, FiniteSets, SequencesExt

CONSTANTS
    Ids,          \* ids of rows
    HomeId, TrashId,
    Names,        \* names with their casing
    Fold,         \* Fold[n]: the name n casefolded
    TrashName,    \* the name of the Trash folder as it was created
    Askings,      \* what users ask for: paths of files, of folders, operations, and
                  \* which of these run at the same time as each other
    OtherNames,   \* the names that replace a name that is taken
    Clients,      \* callers of the services
    None,
    Quota,        \* Account.storage_quota
    MaxDrift      \* bound: how far below 0 the size of Home may get

Path == Seq(Names)
Row  == [path : Path, kind : {"file", "folder"}, size : Int]

\* What a request has read: the folders it will create and the upload that goes on
\* then, the path of an upload, or a row, which is not that of Home or Trash unless
\* Trash is emptied.
Item    == [path : Path \ {<<>>}, kind : {"file", "folder"}, size : Int]
Naming  == [op : {"name_file", "create_file"}, path : Path \ {<<>>}]
Request ==
    [op : {"create_folder"}, paths : SUBSET (Path \ {<<>>}), then : Naming \cup {None}]
    \cup Naming
    \cup [op : {"delete"}, id : Ids \ {HomeId, TrashId}, row : Item]
    \cup [op : {"move"}, id : Ids \ {HomeId, TrashId}, row : Item, to : Path \ {<<>>}]
    \cup [op : {"empty_trash"}, row : Row]

ASSUME TreeAssumption ==
    /\ {HomeId, TrashId} \subseteq Ids /\ HomeId # TrashId /\ IsFiniteSet(Ids)
    /\ IsFiniteSet(Clients) /\ Clients # {}
    /\ None \notin Row \cup Request
    /\ Fold \in [Names -> Names] /\ \A n \in Names : Fold[Fold[n]] = Fold[n]
    /\ TrashName \in Names /\ OtherNames \subseteq Names
    /\ \A a \in Askings : a.files \cup a.folders \subseteq Seq(Names) \ {<<>>}
    /\ Quota \in Nat /\ MaxDrift \in Nat

VARIABLES
    row,     \* row[i]: the row with id i
    req,     \* req[c]: what client c has read and is about to write
    alone,   \* the request under way is one that runs alone
    emptied, \* Trash has been emptied
    asked    \* which of the askings it is

vars == <<row, req, alone, emptied, asked>>

TrashPath == <<TrashName>>

-----------------------------------------------------------------------------
(* Paths: domain/path.py                                                   *)

\* Path.__eq__, and `iexact` of the database.
Same(p, q) == Len(p) = Len(q) /\ \A i \in DOMAIN p : Fold[p[i]] = Fold[q[i]]

Parent(p) == Front(p)
Parents(p) == {SubSeq(p, 1, k) : k \in 0..(Len(p) - 1)}

\* Path.is_relative_to, and `istartswith` of the prefix "p/".
Below(q, p) == Len(q) > Len(p) /\ Same(SubSeq(q, 1, Len(p)), p)
RelativeTo(q, p) == Same(q, p) \/ Below(q, p)

\* Path.with_restored_casing: the casing of q for the beginning of p.
RestoredCasing(p, q) == q \o SubSeq(p, Len(q) + 1, Len(p))

\* The set in paths without those that equal one in others.
Without(paths, others) == {p \in paths : \A q \in others : ~Same(p, q)}

-----------------------------------------------------------------------------
(* Rows: repositories/file.py                                              *)

Live == {i \in Ids : row[i] # None}
IdsAt(p) == {i \in Live : Same(row[i].path, p)}
IdsBelow(p) == {i \in Live : Below(row[i].path, p)}

\* Mutant of ExistsAt: the path is compared with its casing.
ExistsAtExactly(p) == \E i \in Live : row[i].path = p

\* exists_at_path
ExistsAt(p) == IdsAt(p) # {}
FolderAt(p) == \E i \in IdsAt(p) : row[i].kind = "folder"

\* get_by_path raises an error when several rows have the path.
FoundAt(p, i) == IdsAt(p) = {i}

\* incr_size_batch: the paths are compared with their casing.
IncrSize(rows, paths, v) ==
    [i \in Ids |-> IF rows[i] # None /\ rows[i].path \in paths
                   THEN [rows[i] EXCEPT !.size = @ + v] ELSE rows[i]]

\* The unique index on the path.
Unique(rows) ==
    \A i, j \in Ids : rows[i] # None /\ rows[j] # None
                        /\ rows[i].path = rows[j].path => i = j

\* Rows of the given kind and size for new paths, under free ids.
Inserted(paths, kind, size) ==
    {[i \in Ids |-> IF \E p \in paths : id[p] = i
                    THEN [path |-> CHOOSE p \in paths : id[p] = i,
                          kind |-> kind, size |-> size]
                    ELSE row[i]] :
        id \in {f \in [paths -> Ids \ Live] : \A p, q \in paths : f[p] = f[q] => p = q}}

-----------------------------------------------------------------------------
(* Requests                                                                *)

Quiet == \A c \in Clients : req[c] = None

Admitted(c, op) ==
    /\ op \in asked.ops
    /\ req[c] = None
    /\ Quiet \/ (op \in asked.overlapping /\ ~alone)
    /\ alone' = (op \notin asked.overlapping)

Start(c, r) == req' = [req EXCEPT ![c] = r] /\ UNCHANGED <<row, emptied, asked>>

\* The request is over, whether its transaction was committed or not.
Finish(c) == req' = [req EXCEPT ![c] = None] /\ UNCHANGED <<alone, asked>>

\* The folders that create_folder saves for p: those of its path and parents
\* that are not there, of which only the last gets the casing of the deepest
\* folder found.
MissingFolders(p) ==
    LET found   == {i \in Live : \E q \in Parents(p) : Same(row[i].path, q)}
        deepest == CHOOSE i \in found : \A j \in found :
                     Len(row[j].path) <= Len(row[i].path)
        missing == {q \in Parents(p) : Len(q) > Len(row[deepest].path)}
    IN  missing \cup {RestoredCasing(p, row[deepest].path)}

\* FileCoreService.create_folder up to its checks.
ReadCreateFolder(c, p, then) ==
    /\ ~ExistsAt(p)
    /\ \A q \in Parents(p) : ExistsAt(q) => FolderAt(q)
    /\ Start(c, [op |-> "create_folder", paths |-> MissingFolders(p), then |-> then])

\* NamespaceUseCase.create_folder; the API refuses paths in Trash.
CreateFolder(c, p) ==
    /\ Admitted(c, "create_folder")
    /\ ~RelativeTo(p, TrashPath)
    /\ ReadCreateFolder(c, p, None)

\* save_batch, which skips the paths that are there; a create_file that needed
\* the folders goes on.
CreateFolderSave(c) ==
    /\ req[c] # None /\ req[c].op = "create_folder"
    /\ LET taken == {row[i].path : i \in Live}
       IN  row' \in Inserted(req[c].paths \ taken, "folder", 0)
    /\ req' = [req EXCEPT ![c] = req[c].then]
    /\ UNCHANGED <<alone, emptied, asked>>

\* get_space_used_by_owner_id: the size of Home.
SpaceUsed == row[HomeId].size

\* Mutant of WithinQuota: the size of the new content is forgotten.
WithinQuotaBefore == SpaceUsed <= Quota

\* The quota check of add_file.
WithinQuota == SpaceUsed + 1 <= Quota

\* get_available_path: the path asked for or, when it is taken, another one of
\* that folder.  (What becomes of a choice that is taken as well is the subject
\* of AvailablePath.)
Available(p) ==
    IF ~ExistsAt(p) THEN {p}
    ELSE {q \in {Append(Parent(p), n) : n \in OtherNames} : ~ExistsAt(q)}

\* NamespaceUseCase.add_file and FileCoreService.create_file up to the folder,
\* which is created when it is missing.
Upload(c, p) ==
    /\ Admitted(c, "upload")
    /\ ~RelativeTo(p, TrashPath)
    /\ WithinQuota
    /\ \E q \in Available(p) :
         LET name == [op |-> "name_file", path |-> q] IN
         \/ /\ \E i \in Live : FoundAt(Parent(q), i) /\ row[i].kind = "folder"
            /\ Start(c, name)
         \/ ~ExistsAt(Parent(q)) /\ ReadCreateFolder(c, Parent(q), name)

\* create_file asks for a name once more, now that the folder is there.
UploadName(c) ==
    /\ req[c] # None /\ req[c].op = "name_file"
    /\ \E q \in Available(req[c].path) :
         Start(c, [op |-> "create_file", path |-> q])
    /\ UNCHANGED <<alone, asked>>

\* Mutant of UploadSave: only the folder that the file is in grows.
UploadSaveParentOnly(c) ==
    /\ req[c] # None /\ req[c].op = "create_file"
    /\ LET p == req[c].path IN
       \E rows \in Inserted({p}, "file", 1) :
         row' = IF Unique(rows) THEN IncrSize(rows, {Parent(p)}, 1) ELSE row
    /\ Finish(c) /\ UNCHANGED emptied

\* The transaction of create_file.
UploadSave(c) ==
    /\ req[c] # None /\ req[c].op = "create_file"
    /\ LET p == req[c].path IN
       \E rows \in Inserted({p}, "file", 1) :
         row' = IF Unique(rows) THEN IncrSize(rows, Parents(p), 1) ELSE row
    /\ Finish(c) /\ UNCHANGED emptied

\* FileCoreService.delete up to reading the row.
Delete(c, i) ==
    /\ Admitted(c, "delete")
    /\ i \in Live \ {HomeId, TrashId}
    /\ FoundAt(row[i].path, i)
    /\ Start(c, [op |-> "delete", id |-> i, row |-> row[i]])

\* The rest of its transaction: the row by its id, what is below the path that
\* was read, and the size that was read off the parents.
DeleteSave(c) ==
    /\ req[c] # None /\ req[c].op = "delete"
    /\ LET r == req[c].row
           gone == {req[c].id} \cup (IF r.kind = "folder" THEN IdsBelow(r.path) ELSE {})
           rows == [i \in Ids |-> IF i \in gone THEN None ELSE row[i]]
       IN  row' = IncrSize(rows, Parents(r.path), -r.size)
    /\ Finish(c) /\ UNCHANGED emptied

\* FileCoreService.empty_folder of Trash: nothing to do when its size is 0.
EmptyTrash(c) ==
    /\ Admitted(c, "empty_trash")
    /\ row[TrashId].size # 0
    /\ row[HomeId].size - row[TrashId].size >= -MaxDrift
    /\ Start(c, [op |-> "empty_trash", row |-> row[TrashId]])

\* Mutant of EmptyTrashSave: only what lies directly in Trash is deleted.
EmptyTrashSaveShallow(c) ==
    /\ req[c] # None /\ req[c].op = "empty_trash"
    /\ LET rows == [i \in Ids |-> IF i \in IdsBelow(TrashPath) /\ Len(row[i].path) = 2
                                  THEN None ELSE row[i]]
       IN  row' = IncrSize(rows, {<<>>, <<Fold[TrashName]>>}, -req[c].row.size)
    /\ Finish(c) /\ emptied' = TRUE

\* Its transaction.  The folder is named "trash" by NamespaceUseCase, and its
\* row has another casing.
EmptyTrashSave(c) ==
    /\ req[c] # None /\ req[c].op = "empty_trash"
    /\ LET rows == [i \in Ids |-> IF i \in IdsBelow(TrashPath) THEN None ELSE row[i]]
       IN  row' = IncrSize(rows, {<<>>, <<Fold[TrashName]>>}, -req[c].row.size)
    /\ Finish(c) /\ emptied' = TRUE

\* FileCoreService.move up to its checks.
ReadMove(c, i, p) ==
    /\ LET at == row[i].path IN
       /\ FoundAt(at, i)
       /\ ~RelativeTo(p, at) \/ (Same(p, at) /\ p # at)
       /\ FolderAt(Parent(p))
       /\ Same(p, at) \/ ~ExistsAt(p)
    /\ \E j \in IdsAt(Parent(p)) :
         Start(c, [op |-> "move", id |-> i, row |-> row[i],
                   to |-> Append(row[j].path, Last(p))])

\* NamespaceUseCase.move_item; the API refuses destinations in Trash.
MoveItem(c, i, p) ==
    /\ Admitted(c, "move")
    /\ i \in Live \ {HomeId, TrashId}
    /\ ~RelativeTo(p, TrashPath)
    /\ ReadMove(c, i, p)

\* NamespaceUseCase.move_item_to_trash: under another name when it is taken.
MoveItemToTrash(c, i) ==
    /\ Admitted(c, "move_to_trash")
    /\ i \in Live \ {HomeId}
    /\ ~RelativeTo(row[i].path, TrashPath)
    /\ LET p == Append(TrashPath, Last(row[i].path)) IN
       \E n \in OtherNames \cup {Last(p)} :
         LET q == Append(TrashPath, n) IN
         /\ q = p \/ ExistsAt(p)
         /\ ReadMove(c, i, q)

\* replace_path_prefix: a row below is found without regard to case, and its
\* path changed only where the casing agrees.
ReplacedPrefix(p, at, to) ==
    IF SubSeq(p, 1, Len(at)) = at THEN to \o SubSeq(p, Len(at) + 1, Len(p)) ELSE p

\* The transaction of FileCoreService._move; it fails when the row is gone or a
\* path is taken.
MoveSave(c) ==
    /\ req[c] # None /\ req[c].op = "move"
    /\ LET at   == req[c].row.path
           to   == req[c].to
           size == req[c].row.size
           self == [row EXCEPT ![req[c].id].path = to]
           rows == [i \in Ids |->
                      IF /\ req[c].row.kind = "folder"
                         /\ self[i] # None /\ Below(self[i].path, at)
                      THEN [self[i] EXCEPT !.path = ReplacedPrefix(@, at, to)]
                      ELSE self[i]]
       IN  row' = IF row[req[c].id] # None /\ Unique(rows)
                  THEN IncrSize(
                         IncrSize(rows, Without(Parents(at), Parents(to)), -size),
                         Without(Parents(to), Parents(at)), size)
                  ELSE row
    /\ Finish(c) /\ UNCHANGED emptied

-----------------------------------------------------------------------------

\* NamespaceService.create
Init ==
    /\ row = [i \in Ids |->
                CASE i = HomeId  -> [path |-> <<>>, kind |-> "folder", size |-> 0]
                  [] i = TrashId -> [path |-> TrashPath, kind |-> "folder", size |-> 0]
                  [] OTHER       -> None]
    /\ req = [c \in Clients |-> None]
    /\ alone = FALSE
    /\ emptied = FALSE
    /\ asked \in Askings

Read(c) ==
    \/ \E p \in asked.folders : CreateFolder(c, p)
    \/ \E p \in asked.files : Upload(c, p)
    \/ \E i \in Ids : Delete(c, i)
    \/ \E i \in Ids, p \in asked.files \cup asked.folders : MoveItem(c, i, p)
    \/ \E i \in Ids : MoveItemToTrash(c, i)
    \/ EmptyTrash(c)

Save(c) ==
    \/ CreateFolderSave(c)
    \/ UploadName(c)
    \/ UploadSave(c)
    \/ DeleteSave(c)
    \/ MoveSave(c)
    \/ EmptyTrashSave(c)

Next == \E c \in Clients : Read(c) \/ Save(c)

Spec == Init /\ [][Next]_vars

-----------------------------------------------------------------------------

\* The type invariant: Home and Trash stay where they are.
TypeOK ==
    /\ row \in [Ids -> Row \cup {None}]
    /\ req \in [Clients -> Request \cup {None}]
    /\ {alone, emptied} \subseteq BOOLEAN
    /\ asked \in Askings
    /\ {HomeId, TrashId} \subseteq Live
    /\ row[HomeId].path = <<>> /\ row[TrashId].path = TrashPath
    /\ \A i \in Live \ {HomeId} : row[i].path # <<>>

\* Every row but Home is in a folder that has a row: nothing is out of reach of
\* list_folder.
TreeClosed ==
    \A i \in Live \ {HomeId} : FolderAt(Parent(row[i].path))

\* A path has one row, whatever its casing: get_by_path finds it.
OneRowPerPath == \A i \in Live : IdsAt(row[i].path) = {i}

FilesBelow(p) == {i \in IdsBelow(p) : row[i].kind = "file"}

SizeExact(i) == row[i].kind = "folder" =>
                  row[i].size = Cardinality(FilesBelow(row[i].path))

\* The names of an asking and those the services give, each with one casing.
UsedNames(a) ==
    OtherNames \cup {TrashName} \cup UNION {ToSet(p) : p \in a.files \cup a.folders}
OneCasing(a) == \A m, n \in UsedNames(a) : Fold[m] = Fold[n] => m = n

\* Where uploads may put files, and folders may be created.
FilePaths(a) == a.files \cup {Append(Parent(p), n) : p \in a.files, n \in OtherNames}
FolderPaths(a) == a.folders \cup UNION {Parents(p) : p \in a.files \cup a.folders}

\* The askings the properties are about. Either users keep to one casing, and only
\* uploads and new folders, which do not compete for a path, run at the same time;
\* or requests come one by one and nothing is moved.
Tidy(a) ==
    /\ OneCasing(a)
    /\ a.overlapping \subseteq {"create_folder", "upload"}
    /\ a.overlapping # {} => FilePaths(a) \cap FolderPaths(a) = {}
Calm(a) == a.overlapping = {} /\ a.ops \cap {"move", "move_to_trash"} = {}

\* The size of a folder is the number of files in it, at every depth: for every
\* folder until Trash is emptied, and for the folders other than Home and Trash
\* afterwards, to which what empty_trash does to those two does not spread
\* (incr_size_batch of the parents in every operation).  Users have to keep to one
\* casing of a name: incr_size_batch compares paths as they are written.
SizesUntilEmptied ==
    OneCasing(asked) => \A i \in Live \ (IF emptied THEN {HomeId, TrashId} ELSE {}) : SizeExact(i)

\* Until Trash is emptied, the files of a namespace exceed the quota of its owner
\* at most by the uploads that were under way together (the check of add_file
\* counts on the size of Home).
QuotaNearlyKept ==
    emptied \/ Cardinality({i \in Live : row[i].kind = "file"})
                 < Quota + Cardinality(Clients)
=============================================================================
