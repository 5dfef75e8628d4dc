------------------------------ MODULE FileBlobs ------------------------------
(***************************************************************************)
(* How a file of a namespace is kept: a row in the files table, a row in   *)
(* the blobs table, an object in the storage backend, and the deferred     *)
(* blob jobs that bring the object and the blob row in line with the file  *)
(* row after a move or a deletion.                                         *)
(*                                                                         *)
(* Requests (FileCoreService, BlobService) change the file rows and save a *)
(* job row in one transaction and publish the job's id to the worker from  *)
(* inside it.  The worker first changes the object store and then, in a    *)
(* transaction of its own, the blob rows and the job row.                  *)
(*                                                                         *)
(* An upload u stands for the content it stores, for the blob row and for  *)
(* the file row it creates.  The storage key of a path is the path (the    *)
(* code prefixes both with the owner, one-to-one).  Folders are one level  *)
(* deep: Home, Trash, the other folders, and the folders that were moved   *)
(* to Trash.                                                               *)
(***************************************************************************)
EXTENDS Naturals, FiniteSets

CONSTANTS
    Uploads,      \* the uploads users make
    Dirs, Names,  \* folders and file names
    Home, Trash,  \* the two special folders
    Trashed,      \* the paths of folders below Trash
    JobIds,       \* ids of blob job rows
    Clients,      \* callers of move and delete: API requests, batch tasks
    None          \* no row, no object, no request

CONSTANTS
    Backend,      \* "filesystem" or "s3"
    Ops,          \* the operations that users make
    Serial,       \* TRUE: a request starts only when no other is under way
    Drained,      \* TRUE: a request starts only when the worker has no message
    EarlyPickup,  \* TRUE: the worker may run a message before its commit
    CrashSites,   \* what may be crashed: the API, the worker in the move of a
                  \* single object, the worker in another job
    MaxCrashes    \* bound on the crashes

AllOps == {"upload", "create_folder", "delete", "delete_folder", "move",
           "move_to_trash", "move_folder", "empty_trash"}

Path == Dirs \X Names

ASSUME DirsAssumption ==
    /\ {Home, Trash} \subseteq Dirs
    /\ Home # Trash
    /\ Trashed \subseteq Dirs \ {Home, Trash}

ASSUME NoneAssumption ==
    None \notin Uploads \cup Path \cup Dirs

ASSUME EnvironmentAssumption ==
    /\ Backend \in {"filesystem", "s3"}
    /\ Ops \subseteq AllOps
    /\ {Serial, Drained, EarlyPickup} \subseteq BOOLEAN
    /\ CrashSites \subseteq {"api", "move", "worker"}
    /\ MaxCrashes \in Nat

VARIABLES
    dirs,         \* paths of the folder rows
    file,         \* file[u]: path of the file row of u
    blob,         \* blob[u]: storage_key of the blob row of u
    jobs,         \* jobs[j]: payload of the job row j
    object,       \* object[p]: the content stored under key p
    storageDirs,  \* directories of the filesystem backend
    stage,        \* stage[u]: how far the upload of u has come
    target,       \* target[u]: the path the upload of u was given
    req,          \* req[c]: what client c has read and is about to write
    queue,        \* ids of the jobs published to the worker
    running,      \* ids of the jobs whose storage step is done
    crashes

db      == <<dirs, file, blob, jobs>>
storage == <<object, storageDirs>>
client  == <<stage, target, req>>
worker  == <<queue, running>>
vars    == <<db, storage, client, worker, crashes>>

-----------------------------------------------------------------------------
(* Types                                                                   *)

DeletePayload       == [type : {"delete"}, blob : Uploads, key : Path]
DeletePrefixPayload == [type : {"delete_prefix"}, dir : Dirs]
MovePayload         == [type : {"move"}, blob : Uploads, at : Path, to : Path]
MovePrefixPayload   == [type : {"move_prefix"}, dir : Dirs, toDir : Dirs]
Payload == DeletePayload \cup DeletePrefixPayload
             \cup MovePayload \cup MovePrefixPayload

Request == [op : {"delete"}, file : Uploads]
             \cup [op : {"move"}, file : Uploads, to : Path]

\* Neither a job row nor a request is "none".
ASSUME RecordAssumption == None \notin Payload \cup Request

\* The type invariant.
TypeOK ==
    /\ dirs \in SUBSET Dirs
    /\ file \in [Uploads -> Path \cup {None}]
    /\ blob \in [Uploads -> Path \cup {None}]
    /\ jobs \in [JobIds -> Payload \cup {None}]
    /\ object \in [Path -> Uploads \cup {None}]
    /\ storageDirs \in SUBSET Dirs
    /\ stage \in [Uploads -> {"idle", "named", "stored", "saved"}]
    /\ target \in [Uploads -> Path \cup {None}]
    /\ req \in [Clients -> Request \cup {None}]
    /\ queue \in SUBSET JobIds
    /\ running \in SUBSET JobIds
    /\ crashes \in 0..MaxCrashes

-----------------------------------------------------------------------------
(* Tables and storage                                                      *)

DirOf(p) == p[1]
InDir(p, d) == <<d, p[2]>>

\* The folders whose paths are, or start with, the path of folder d.
Within(d) == IF d = Trash THEN {Trash} \cup Trashed ELSE {d}

\* The path index of the files table and the key index of the blobs table.
Taken(p) == \E u \in Uploads : file[u] = p
KeyTaken(p) == \E u \in Uploads : blob[u] = p

FilesWithin(d) == {u \in Uploads : file[u] # None /\ DirOf(file[u]) \in Within(d)}
BlobsWithin(d) == {u \in Uploads : blob[u] # None /\ DirOf(blob[u]) \in Within(d)}

\* storage.makedirs: only the filesystem backend has directories.
MakeDirs(d) ==
    storageDirs' = IF Backend = "filesystem" THEN storageDirs \cup {d}
                   ELSE storageDirs

\* storage.save and storage.delete
StorageSave(p, u) == object' = [object EXCEPT ![p] = u]
StorageDelete(p) == object' = [object EXCEPT ![p] = None] /\ UNCHANGED storageDirs

\* Mutant of StorageDeleteDir: the objects of nested folders are left alone.
ShallowDeleteDir(d) ==
    /\ object' = [p \in Path |-> IF DirOf(p) = d THEN None ELSE object[p]]
    /\ storageDirs' = storageDirs \ Within(d)

\* storage.deletedir: nothing happens when there is no such directory.
StorageDeleteDir(d) ==
    /\ object' = [p \in Path |-> IF DirOf(p) \in Within(d) THEN None ELSE object[p]]
    /\ storageDirs' = storageDirs \ Within(d)

\* storage.move of an existing object; it replaces what is at the new key.
StorageMove(p, q) ==
    /\ object' = [object EXCEPT ![p] = None, ![q] = object[p]]
    /\ MakeDirs(DirOf(q))

\* Mutant of StorageMoveDir: the destination ends up as a mere copy of the
\* source, so that a second run replaces it with nothing.
ReplacingMoveDir(a, b) ==
    /\ object' = [p \in Path |-> IF DirOf(p) = b THEN object[InDir(p, a)]
                                 ELSE IF DirOf(p) = a THEN None ELSE object[p]]
    /\ UNCHANGED storageDirs

\* storage.movedir.  The s3 backend copies object by object.  The filesystem
\* backend does nothing without a source directory, and shutil.move puts the
\* source inside a destination directory that already exists: its objects are
\* then under keys that no blob row has.
StorageMoveDir(a, b) ==
    LET Nested == Backend = "filesystem" /\ b \in storageDirs
        Carried(p) == DirOf(p) = b /\ object[InDir(p, a)] # None /\ ~Nested
    IN  IF Backend = "filesystem" /\ a \notin storageDirs
        THEN UNCHANGED storage
        ELSE /\ object' = [p \in Path |-> IF Carried(p) THEN object[InDir(p, a)]
                                          ELSE IF DirOf(p) = a THEN None
                                          ELSE object[p]]
             /\ storageDirs' = IF Backend = "filesystem"
                               THEN (storageDirs \ {a}) \cup {b} ELSE storageDirs

\* A job row is saved and its id published.  Published inside the open
\* transaction, the message may be taken before the row is visible; the worker
\* then finds no row and finishes, so that the message is gone.
Defer(payload) ==
    \E j \in JobIds :
        /\ jobs[j] = None /\ j \notin queue \cup running
        /\ jobs' = [jobs EXCEPT ![j] = payload]
        /\ \/ queue' = queue \cup {j}
           \/ EarlyPickup /\ queue' = queue

NoJob == UNCHANGED <<jobs, queue>>

Quiet == /\ \A u \in Uploads : stage[u] = "idle"
         /\ \A c \in Clients : req[c] = None
Settled == queue = {} /\ running = {}
AtRest == Quiet /\ Settled

\* When a user may start operation op.
Admitted(op) ==
    /\ op \in Ops
    /\ Serial => Quiet
    /\ Drained => Settled

\* An upload nothing in the system refers to: its id may stand for a new one.
Unused(u) ==
    /\ stage[u] = "idle" /\ file[u] = None /\ blob[u] = None
    /\ \A p \in Path : object[p] # u
    /\ \A j \in JobIds : jobs[j] # None =>
          ~(jobs[j].type \in {"delete", "move"} /\ jobs[j].blob = u)
    /\ \A c \in Clients : req[c] # None => req[c].file # u

-----------------------------------------------------------------------------
(* Uploads: NamespaceUseCase.add_file, FileCoreService.create_file         *)

\* Mutant of UploadName: the name asked for is used even when it is taken.
UploadNameAsGiven(u, p) ==
    /\ Admitted("upload")
    /\ Unused(u)
    /\ DirOf(p) \notin Within(Trash)
    /\ target' = [target EXCEPT ![u] = p]
    /\ dirs' = dirs \cup {DirOf(p)}
    /\ stage' = [stage EXCEPT ![u] = "named"]
    /\ UNCHANGED <<file, blob, jobs, storage, req, worker, crashes>>

\* The parent folder is created when missing and the name is chosen: the one
\* asked for when it is free, else another one of that folder.  (Which one, and
\* when that one is taken as well, is the subject of AvailablePath.)
UploadName(u, p) ==
    /\ Admitted("upload")
    /\ Unused(u)
    /\ DirOf(p) \notin Within(Trash)
    /\ \E q \in Path :
         /\ DirOf(q) = DirOf(p)
         /\ ~Taken(q)
         /\ Taken(p) \/ q = p
         /\ target' = [target EXCEPT ![u] = q]
    /\ dirs' = dirs \cup {DirOf(p)}
    /\ stage' = [stage EXCEPT ![u] = "named"]
    /\ UNCHANGED <<file, blob, jobs, storage, req, worker, crashes>>

\* BlobService.create: storage.makedirs and storage.save, which replaces
\* whatever object has the key.
UploadStore(u) ==
    /\ stage[u] = "named"
    /\ StorageSave(target[u], u)
    /\ MakeDirs(DirOf(target[u]))
    /\ stage' = [stage EXCEPT ![u] = "stored"]
    /\ UNCHANGED <<db, target, req, worker, crashes>>

\* BlobService.create: db.blob.save.  A second row with the key is refused by
\* the database and the request fails; the object stays replaced.
UploadSaveBlob(u) ==
    /\ stage[u] = "stored"
    /\ \/ /\ ~KeyTaken(target[u])
          /\ blob' = [blob EXCEPT ![u] = target[u]]
          /\ stage' = [stage EXCEPT ![u] = "saved"]
          /\ UNCHANGED target
       \/ /\ KeyTaken(target[u])
          /\ stage' = [stage EXCEPT ![u] = "idle"]
          /\ target' = [target EXCEPT ![u] = None]
          /\ UNCHANGED blob
    /\ UNCHANGED <<dirs, file, jobs, storage, req, worker, crashes>>

\* The transaction of create_file: the row is refused when its path is taken or
\* when a job has removed the blob row it refers to, and the request fails; the
\* blob row, if any, stays.
UploadSaveFile(u) ==
    /\ stage[u] = "saved"
    /\ LET accepted == ~Taken(target[u]) /\ blob[u] # None IN
       \/ accepted /\ file' = [file EXCEPT ![u] = target[u]]
       \/ ~accepted /\ UNCHANGED file
    /\ stage' = [stage EXCEPT ![u] = "idle"]
    /\ target' = [target EXCEPT ![u] = None]
    /\ UNCHANGED <<dirs, blob, jobs, storage, req, worker, crashes>>

-----------------------------------------------------------------------------
(* Deletions                                                               *)

\* FileCoreService.delete of a file, up to reading its row.
DeleteRead(c, u) ==
    /\ Admitted("delete")
    /\ req[c] = None
    /\ file[u] # None
    /\ req' = [req EXCEPT ![c] = [op |-> "delete", file |-> u]]
    /\ UNCHANGED <<db, storage, stage, target, worker, crashes>>

\* Mutant of DeleteSave: no job is saved for the blob.
DeleteSaveRowOnly(c) ==
    /\ req[c] # None /\ req[c].op = "delete"
    /\ file' = [file EXCEPT ![req[c].file] = None]
    /\ NoJob
    /\ req' = [req EXCEPT ![c] = None]
    /\ UNCHANGED <<dirs, blob, storage, stage, target, running, crashes>>

\* The rest of its transaction: the row is deleted by id, which also succeeds
\* when another request has just deleted it, and a job is saved for the blob
\* under the key it has now, if there still is a blob row.
DeleteSave(c) ==
    /\ req[c] # None /\ req[c].op = "delete"
    /\ LET u == req[c].file IN
       /\ file' = [file EXCEPT ![u] = None]
       /\ IF blob[u] = None THEN NoJob
          ELSE Defer([type |-> "delete", blob |-> u, key |-> blob[u]])
    /\ req' = [req EXCEPT ![c] = None]
    /\ UNCHANGED <<dirs, blob, storage, stage, target, running, crashes>>

\* FileCoreService.delete of a folder: its rows go, and a job for the prefix
\* is saved.
DeleteFolder(d) ==
    /\ Admitted("delete_folder")
    /\ d \in dirs \ {Home, Trash}
    /\ dirs' = dirs \ {d}
    /\ file' = [u \in Uploads |-> IF u \in FilesWithin(d) THEN None ELSE file[u]]
    /\ Defer([type |-> "delete_prefix", dir |-> d])
    /\ UNCHANGED <<blob, storage, client, running, crashes>>

\* NamespaceUseCase.empty_trash.  The code does nothing when the size kept for
\* Trash is 0; that size is the subject of FileTree and may be wrong, so that
\* here Trash may be emptied at any time.
EmptyTrash ==
    /\ Admitted("empty_trash")
    /\ dirs' = dirs \ Trashed
    /\ file' = [u \in Uploads |-> IF u \in FilesWithin(Trash) THEN None ELSE file[u]]
    /\ Defer([type |-> "delete_prefix", dir |-> Trash])
    /\ UNCHANGED <<blob, storage, client, running, crashes>>

-----------------------------------------------------------------------------
(* Folders and moves                                                       *)

CreateFolder(d) ==
    /\ Admitted("create_folder")
    /\ d \in Dirs \ (dirs \cup Trashed)
    /\ dirs' = dirs \cup {d}
    /\ UNCHANGED <<file, blob, jobs, storage, client, worker, crashes>>

\* FileCoreService.move of a file, up to its checks: the destination is free
\* and its parent is a folder.
MoveRead(c, u, p) ==
    /\ req[c] = None
    /\ file[u] # None
    /\ DirOf(p) \in dirs
    /\ ~Taken(p)
    /\ req' = [req EXCEPT ![c] = [op |-> "move", file |-> u, to |-> p]]
    /\ UNCHANGED <<db, storage, stage, target, worker, crashes>>

\* NamespaceUseCase.move_item; the API refuses destinations in Trash.
MoveItem(c, u, p) ==
    /\ Admitted("move")
    /\ DirOf(p) \notin Within(Trash)
    /\ MoveRead(c, u, p)

\* NamespaceUseCase.move_item_to_trash: the name is kept, or replaced by one
\* with the time appended when it is taken in Trash.
MoveItemToTrash(c, u, p) ==
    /\ Admitted("move_to_trash")
    /\ DirOf(p) = Trash
    /\ file[u] # None
    /\ p = InDir(file[u], Trash) \/ Taken(InDir(file[u], Trash))
    /\ MoveRead(c, u, p)

\* Mutant of MoveRefused: the row is written whether it is still there or not.
MoveRefusedIfTaken(u, p) ==
    \/ \E v \in Uploads \ {u} : file[v] = p
    \/ blob[u] # p /\ KeyTaken(p)

\* What makes the transaction of a move of u to p fail: the row is gone, the
\* path has been taken since, or a blob row still has the key.
MoveRefused(u, p) ==
    \/ file[u] = None
    \/ \E v \in Uploads \ {u} : file[v] = p
    \/ blob[u] # p /\ KeyTaken(p)

\* The transaction of FileCoreService._move and BlobService.move; no job is
\* needed when the blob row has the key already.
MoveSave(c) ==
    /\ req[c] # None /\ req[c].op = "move"
    /\ LET u == req[c].file
           p == req[c].to
       IN  \/ /\ MoveRefused(u, p)
              /\ NoJob
              /\ UNCHANGED file
           \/ /\ ~MoveRefused(u, p)
              /\ file' = [file EXCEPT ![u] = p]
              /\ IF blob[u] = p THEN NoJob
                 ELSE Defer([type |-> "move", blob |-> u, at |-> blob[u], to |-> p])
    /\ req' = [req EXCEPT ![c] = None]
    /\ UNCHANGED <<dirs, blob, storage, stage, target, running, crashes>>

\* FileCoreService.move of a folder: its row and the rows below it get the new
\* prefix, and a job moves the keys.  A file row in the way makes it fail.
MoveFolder(a, b) ==
    /\ Admitted("move_folder")
    /\ a \in dirs \ {Home, Trash}
    /\ b \in Dirs \ dirs
    /\ \A u \in FilesWithin(a) : ~Taken(InDir(file[u], b))
    /\ dirs' = (dirs \ {a}) \cup {b}
    /\ file' = [u \in Uploads |-> IF u \in FilesWithin(a) THEN InDir(file[u], b)
                                  ELSE file[u]]
    /\ Defer([type |-> "move_prefix", dir |-> a, toDir |-> b])
    /\ UNCHANGED <<blob, storage, client, running, crashes>>

-----------------------------------------------------------------------------
(* The worker: BlobService.process_blob_jobs                               *)

\* No row with the id: the message is done.
WorkerSkip(j) ==
    /\ j \in queue /\ jobs[j] = None
    /\ queue' = queue \ {j}
    /\ UNCHANGED <<db, storage, client, running, crashes>>

\* The move of an object that is not there raises File.NotFound; the row stays
\* and nobody runs the job again.
MoveSourceMissing(job) == job.type = "move" /\ object[job.at] = None

WorkerFail(j) ==
    /\ j \in queue /\ jobs[j] # None
    /\ MoveSourceMissing(jobs[j])
    /\ MakeDirs(DirOf(jobs[j].to))
    /\ queue' = queue \ {j}
    /\ UNCHANGED <<db, object, client, running, crashes>>

\* The storage half of a job.
WorkerStore(j) ==
    /\ j \in queue /\ jobs[j] # None
    /\ ~MoveSourceMissing(jobs[j])
    /\ CASE jobs[j].type = "delete"        -> StorageDelete(jobs[j].key)
         [] jobs[j].type = "delete_prefix" -> StorageDeleteDir(jobs[j].dir)
         [] jobs[j].type = "move"          -> StorageMove(jobs[j].at, jobs[j].to)
         [] jobs[j].type = "move_prefix"   -> StorageMoveDir(jobs[j].dir, jobs[j].toDir)
    /\ queue' = queue \ {j}
    /\ running' = running \cup {j}
    /\ UNCHANGED <<db, client, crashes>>

\* The blob rows after the database half of a job.
BlobsAfter(job) ==
    [u \in Uploads |->
        CASE job.type = "delete" ->
               IF u = job.blob THEN None ELSE blob[u]
          [] job.type = "delete_prefix" ->
               IF u \in BlobsWithin(job.dir) THEN None ELSE blob[u]
          [] job.type = "move" ->
               IF u = job.blob /\ blob[u] # None THEN job.to ELSE blob[u]
          [] job.type = "move_prefix" ->
               IF blob[u] # None /\ DirOf(blob[u]) = job.dir
               THEN InDir(blob[u], job.toDir) ELSE blob[u]]

\* The constraints of the schema: a blob with a file cannot be deleted, and
\* storage keys are unique.
RowsAccepted(blobs) ==
    /\ \A u \in Uploads : file[u] # None => blobs[u] # None
    /\ \A u, v \in Uploads : blobs[u] # None /\ blobs[u] = blobs[v] => u = v

\* The database half of a job; refused by the database, it leaves the rows as
\* they are, and the job row too.
WorkerSave(j) ==
    /\ j \in running
    /\ \/ /\ RowsAccepted(BlobsAfter(jobs[j]))
          /\ blob' = BlobsAfter(jobs[j])
          /\ jobs' = [jobs EXCEPT ![j] = None]
       \/ /\ ~RowsAccepted(BlobsAfter(jobs[j]))
          /\ UNCHANGED <<blob, jobs>>
    /\ running' = running \ {j}
    /\ UNCHANGED <<dirs, file, storage, client, queue, crashes>>

-----------------------------------------------------------------------------
(* Crashes                                                                 *)

Crash(site) ==
    /\ site \in CrashSites
    /\ crashes < MaxCrashes
    /\ crashes' = crashes + 1

\* The worker dies between the two halves of a job; the broker delivers the
\* message again.
WorkerCrash(j) ==
    /\ j \in running
    /\ Crash(IF jobs[j].type = "move" THEN "move" ELSE "worker")
    /\ running' = running \ {j}
    /\ queue' = queue \cup {j}
    /\ UNCHANGED <<db, storage, client>>

\* The API process dies in the middle of an upload.
UploadCrash(u) ==
    /\ Crash("api")
    /\ stage[u] # "idle"
    /\ stage' = [stage EXCEPT ![u] = "idle"]
    /\ target' = [target EXCEPT ![u] = None]
    /\ UNCHANGED <<db, storage, req, worker>>

\* A process dies after it published a job and before the commit: a message
\* without a row.
RequestCrash(c) ==
    /\ Crash("api")
    /\ req[c] # None
    /\ req' = [req EXCEPT ![c] = None]
    /\ \E j \in JobIds : /\ jobs[j] = None /\ j \notin queue \cup running
                         /\ queue' = queue \cup {j}
    /\ UNCHANGED <<db, storage, stage, target, running>>

-----------------------------------------------------------------------------

Init ==
    /\ dirs = {Home, Trash}
    /\ file = [u \in Uploads |-> None]
    /\ blob = [u \in Uploads |-> None]
    /\ jobs = [j \in JobIds |-> None]
    /\ object = [p \in Path |-> None]
    /\ storageDirs = {}
    /\ stage = [u \in Uploads |-> "idle"]
    /\ target = [u \in Uploads |-> None]
    /\ req = [c \in Clients |-> None]
    /\ queue = {}
    /\ running = {}
    /\ crashes = 0

Upload(u) ==
    \/ \E p \in Path : UploadName(u, p)
    \/ UploadStore(u)
    \/ UploadSaveBlob(u)
    \/ UploadSaveFile(u)
    \/ UploadCrash(u)

FileRequest(c) ==
    \/ \E u \in Uploads : DeleteRead(c, u)
    \/ \E u \in Uploads, p \in Path : MoveItem(c, u, p)
    \/ \E u \in Uploads, p \in Path : MoveItemToTrash(c, u, p)
    \/ DeleteSave(c)
    \/ MoveSave(c)
    \/ RequestCrash(c)

FolderRequest ==
    \/ \E d \in Dirs : CreateFolder(d)
    \/ \E d \in Dirs : DeleteFolder(d)
    \/ \E a, b \in Dirs : MoveFolder(a, b)
    \/ EmptyTrash

Work(j) ==
    \/ WorkerSkip(j)
    \/ WorkerFail(j)
    \/ WorkerStore(j)
    \/ WorkerSave(j)
    \/ WorkerCrash(j)

Next ==
    \/ \E u \in Uploads : Upload(u)
    \/ \E c \in Clients : FileRequest(c)
    \/ FolderRequest
    \/ \E j \in JobIds : Work(j)

\* A request that was started is carried through and a published job is taken
\* by the worker; users need not do anything.
Fairness ==
    /\ \A u \in Uploads : /\ WF_vars(UploadStore(u))
                          /\ WF_vars(UploadSaveBlob(u))
                          /\ WF_vars(UploadSaveFile(u))
    /\ \A c \in Clients : WF_vars(DeleteSave(c)) /\ WF_vars(MoveSave(c))
    /\ \A j \in JobIds : /\ WF_vars(WorkerSkip(j)) /\ WF_vars(WorkerFail(j))
                         /\ WF_vars(WorkerStore(j)) /\ WF_vars(WorkerSave(j))

Spec == Init /\ [][Next]_vars

FairSpec == Spec /\ Fairness

-----------------------------------------------------------------------------
(* Properties of every behaviour                                           *)

\* A delete job names a blob that no file has, and no upload is about to give
\* it one: the storage half of the job cannot take the content of a file away
\* through its own blob, and the RESTRICT constraint never stops the database
\* half (BlobService.delete_batch, _process_delete_jobs).
DeleteJobsAreSafe ==
    \A j \in JobIds : jobs[j] # None /\ jobs[j].type = "delete" =>
        file[jobs[j].blob] = None /\ stage[jobs[j].blob] = "idle"

\* A deleted file does not come back: the row of u appears only as the last
\* step of its own upload, never by a move that started before the deletion
\* (FileRepository.update by id inside FileCoreService._move).
NoResurrection ==
    [][\A u \in Uploads : file[u] = None /\ file'[u] # None =>
            stage[u] = "saved"]_vars

-----------------------------------------------------------------------------
(* Properties of the calm environments                                     *)

\* The keys at which the content of u may be: the key of its blob row, or the
\* one to which a job that is still with the worker has carried it.
KeysOf(u) ==
    {blob[u]} \cup
    {q \in Path : \E j \in queue \cup running : jobs[j] # None /\
        \/ jobs[j].type = "move" /\ jobs[j].blob = u /\ jobs[j].to = q
        \/ /\ jobs[j].type = "move_prefix" /\ blob[u] # None
           /\ jobs[j].dir = DirOf(blob[u]) /\ InDir(blob[u], jobs[j].toDir) = q}

\* Every file can be downloaded and has the bytes that were uploaded: neither
\* another upload nor a deferred job has taken or replaced its object.
ContentIntact ==
    \A u \in Uploads : file[u] # None =>
        \E k \in KeysOf(u) \cap Path : object[k] = u

\* With no request and no message left, the storage is the image of the files
\* table: each file's object and blob are at its path, and there are no others.
StorageMirrorsFiles ==
    AtRest => /\ \A j \in JobIds : jobs[j] = None
              /\ \A u \in Uploads : blob[u] = file[u]
              /\ \A u \in Uploads, p \in Path : object[p] = u <=> file[u] = p

\* What is left of a file that was deleted.
Remains(u) ==
    /\ stage[u] = "idle" /\ file[u] = None
    /\ blob[u] # None \/ \E p \in Path : object[p] = u

\* The blob and the object of a deleted file are eventually removed.
StorageReclaimed == \A u \in Uploads : Remains(u) ~> ~Remains(u)

-----------------------------------------------------------------------------
(* Refinement: what users see is a map from paths to contents.             *)

\* The content a download of the file at p returns; "unreadable" when the
\* file's object is missing or is another file's.
Seen(p) ==
    IF \E u \in Uploads : file[u] = p
    THEN LET u == CHOOSE v \in Uploads : file[v] = p
         IN  IF \E k \in KeysOf(u) \cap Path : object[k] = u
             THEN u ELSE "unreadable"
    ELSE None

Abstract == INSTANCE UserFiles WITH
    Contents <- Uploads, tree <- [p \in Path |-> Seen(p)]

\* Users see every upload, move and deletion happen at one instant, and the
\* worker's steps do not show (NamespaceUseCase over BlobService).
ImplementsUserFiles == Abstract!Spec
=============================================================================
