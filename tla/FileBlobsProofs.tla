--------------------------- MODULE FileBlobsProofs ---------------------------
(***************************************************************************)
(* Proofs about FileBlobs for every set of uploads, paths, jobs and        *)
(* clients and for every environment: requests may overlap, messages may   *)
(* be lost or repeated and processes may crash.                            *)
(***************************************************************************)
EXTENDS FileBlobs, TLAPS

\* A job whose storage half is done still has its row: only its own database
\* half removes it.
RunningHasRow == \A j \in running : jobs[j] # None

\* An upload under way has a path.
UploadHasTarget == \A u \in Uploads : stage[u] # "idle" => target[u] \in Path

\* A file has a blob row (foreign key), and its upload is over.
FileHasBlob == \A u \in Uploads : file[u] # None => blob[u] # None /\ stage[u] = "idle"

\* A request that has read a file's row is about an upload that is over.
RequestsAreLate == \A c \in Clients : req[c] # None => stage[req[c].file] = "idle"

\* The inductive invariant.
IInv == /\ TypeOK
        /\ RunningHasRow
        /\ UploadHasTarget
        /\ FileHasBlob
        /\ RequestsAreLate
        /\ DeleteJobsAreSafe

-----------------------------------------------------------------------------
(* Paths, payloads and the helpers on storage                              *)

\* The folder of a path is a folder, and a path can be put in any folder.
LEMMA PathFacts ==
  /\ \A p \in Path : DirOf(p) \in Dirs
  /\ \A p \in Path, d \in Dirs : InDir(p, d) \in Path
  /\ \A d \in Dirs : Within(d) \subseteq Dirs
  BY DirsAssumption DEF Path, DirOf, InDir, Within

\* The absence of a row is not a row.
LEMMA NoneFacts ==
  /\ None \notin Uploads
  /\ None \notin Path
  /\ None \notin Dirs
  BY NoneAssumption

\* A delete job names a blob, and a request a file.
LEMMA RowFacts ==
  ASSUME TypeOK
  PROVE  /\ \A j \in JobIds : jobs[j] # None /\ jobs[j].type = "delete" =>
               jobs[j].blob \in Uploads
         /\ \A c \in Clients : req[c] # None => req[c].file \in Uploads
  <1>1. \A j \in JobIds : jobs[j] # None => jobs[j] \in Payload
    BY DEF TypeOK
  <1>2. \A x \in Payload : x.type = "delete" => x.blob \in Uploads
    BY DEF Payload, DeletePayload, DeletePrefixPayload, MovePayload, MovePrefixPayload
  <1>3. \A c \in Clients : req[c] # None => req[c].file \in Uploads
    BY DEF TypeOK, Request
  <1>4. QED
    BY <1>1, <1>2, <1>3

\* storage.makedirs keeps the set of directories well typed.
LEMMA MakeDirsType ==
  ASSUME TypeOK, NEW d \in Dirs, MakeDirs(d)
  PROVE  storageDirs' \in SUBSET Dirs
  BY DEF TypeOK, MakeDirs

\* Saving a job row changes one row that was free, and not under way.
LEMMA DeferFacts ==
  ASSUME TypeOK, NEW payload \in Payload, Defer(payload)
  PROVE  /\ jobs' \in [JobIds -> Payload \cup {None}]
         /\ queue' \in SUBSET JobIds
         /\ \A i \in JobIds : jobs'[i] = jobs[i] \/ jobs'[i] = payload
         /\ \A i \in running : jobs'[i] = jobs[i]
  <1>1. PICK j \in JobIds :
          /\ jobs[j] = None /\ j \notin queue \cup running
          /\ jobs' = [jobs EXCEPT ![j] = payload]
          /\ queue' = queue \cup {j} \/ queue' = queue
    BY DEF Defer
  <1>2. QED
    BY <1>1 DEF TypeOK


\* The blob rows that a job leaves are well typed.
LEMMA BlobsAfterType ==
  ASSUME TypeOK, NEW job \in Payload
  PROVE  BlobsAfter(job) \in [Uploads -> Path \cup {None}]
  <1>1. CASE job \in DeletePayload
    BY <1>1 DEF BlobsAfter, TypeOK, DeletePayload
  <1>2. CASE job \in DeletePrefixPayload
    BY <1>2 DEF BlobsAfter, TypeOK, DeletePrefixPayload
  <1>3. CASE job \in MovePayload
    BY <1>3 DEF BlobsAfter, TypeOK, MovePayload
  <1>4. CASE job \in MovePrefixPayload
    <2> SUFFICES ASSUME NEW u \in Uploads
                 PROVE  (IF blob[u] # None /\ DirOf(blob[u]) = job.dir
                         THEN InDir(blob[u], job.toDir) ELSE blob[u])
                          \in Path \cup {None}
      BY <1>4 DEF BlobsAfter, MovePrefixPayload
    <2>1. blob[u] \in Path \cup {None} /\ job.toDir \in Dirs
      BY <1>4 DEF TypeOK, MovePrefixPayload
    <2>2. QED
      BY <2>1, PathFacts
  <1>5. QED
    BY <1>1, <1>2, <1>3, <1>4 DEF Payload

\* The storage half of a job keeps the storage well typed.
LEMMA StorageType ==
  ASSUME TypeOK, NEW j \in JobIds, WorkerStore(j)
  PROVE  /\ object' \in [Path -> Uploads \cup {None}]
         /\ storageDirs' \in SUBSET Dirs
  <1>0. jobs[j] \in Payload
    BY DEF TypeOK, WorkerStore
  <1>1. CASE jobs[j] \in DeletePayload
    <2>1. StorageDelete(jobs[j].key)
      BY <1>1 DEF WorkerStore, DeletePayload
    <2>2. QED
      BY <2>1 DEF StorageDelete, TypeOK
  <1>2. CASE jobs[j] \in DeletePrefixPayload
    <2>1. StorageDeleteDir(jobs[j].dir)
      BY <1>2 DEF WorkerStore, DeletePrefixPayload
    <2>2. QED
      BY <2>1 DEF StorageDeleteDir, TypeOK
  <1>3. CASE jobs[j] \in MovePayload
    <2>1. StorageMove(jobs[j].at, jobs[j].to)
      BY <1>3 DEF WorkerStore, MovePayload
    <2>2. jobs[j].at \in Path /\ jobs[j].to \in Path
      BY <1>3 DEF MovePayload
    <2>3. storageDirs' \in SUBSET Dirs
      BY <2>1, <2>2, PathFacts, MakeDirsType DEF StorageMove
    <2>4. QED
      BY <2>1, <2>2, <2>3 DEF StorageMove, TypeOK
  <1>4. CASE jobs[j] \in MovePrefixPayload
    <2> DEFINE a == jobs[j].dir
               b == jobs[j].toDir
    <2>1. StorageMoveDir(a, b)
      BY <1>4 DEF WorkerStore, MovePrefixPayload
    <2>2. a \in Dirs /\ b \in Dirs
      BY <1>4 DEF MovePrefixPayload
    <2>3. \A p \in Path : InDir(p, a) \in Path
      BY <2>2, PathFacts
    <2> HIDE DEF a, b
    <2>4. QED
      BY <2>1, <2>2, <2>3 DEF StorageMoveDir, TypeOK, storage
  <1>5. QED
    BY <1>0, <1>1, <1>2, <1>3, <1>4 DEF Payload

-----------------------------------------------------------------------------
(* Every step preserves the inductive invariant: one lemma per group of    *)
(* operations, one step per action.                                        *)

\* The initial state.
LEMMA InitIInv == Init => IInv
  BY DirsAssumption, NoneAssumption, EnvironmentAssumption
  DEF Init, IInv, TypeOK, RunningHasRow, UploadHasTarget, FileHasBlob,
      RequestsAreLate, DeleteJobsAreSafe

\* The steps of an upload.
LEMMA UploadStep ==
  ASSUME IInv, NEW u \in Uploads, Upload(u)
  PROVE  IInv'
  <1> USE DEF db, storage, client, worker
  <1>0. TypeOK
    BY DEF IInv
  <1>1. ASSUME NEW p \in Path, UploadName(u, p)
        PROVE  IInv'
    <2>1. PICK q \in Path : target' = [target EXCEPT ![u] = q]
      BY <1>1 DEF UploadName
    <2>2. TypeOK'
      BY <1>0, <1>1, <2>1, PathFacts DEF TypeOK, UploadName
    <2>3. UploadHasTarget' /\ FileHasBlob' /\ RunningHasRow'
      BY <1>0, <1>1, <2>1
      DEF IInv, TypeOK, UploadName, UploadHasTarget, FileHasBlob, RunningHasRow,
          Unused
    <2>4. RequestsAreLate'
      BY <1>0, <1>1 DEF IInv, TypeOK, UploadName, RequestsAreLate, Unused
    <2>5. DeleteJobsAreSafe'
      BY <1>0, <1>1 DEF IInv, TypeOK, UploadName, DeleteJobsAreSafe, Unused
    <2>6. QED
      BY <2>2, <2>3, <2>4, <2>5 DEF IInv
  <1>2. CASE UploadStore(u)
    <2>1. target[u] \in Path
      BY <1>2 DEF IInv, UploadHasTarget, UploadStore
    <2>2. storageDirs' \in SUBSET Dirs
      BY <1>0, <1>2, <2>1, PathFacts, MakeDirsType DEF UploadStore
    <2>3. TypeOK'
      BY <1>0, <1>2, <2>1, <2>2 DEF TypeOK, UploadStore, StorageSave
    <2>4. QED
      BY <1>0, <1>2, <2>3
      DEF IInv, TypeOK, UploadStore, RunningHasRow, UploadHasTarget, FileHasBlob,
          RequestsAreLate, DeleteJobsAreSafe
  <1>3. CASE UploadSaveBlob(u)
    <2>1. target[u] \in Path
      BY <1>3 DEF IInv, UploadHasTarget, UploadSaveBlob
    <2>2. TypeOK'
      BY <1>0, <1>3, <2>1 DEF TypeOK, UploadSaveBlob
    <2>3. UploadHasTarget' /\ FileHasBlob' /\ RunningHasRow'
      BY <1>0, <1>3, <2>1, NoneFacts
      DEF IInv, TypeOK, UploadSaveBlob, UploadHasTarget, FileHasBlob, RunningHasRow
    <2>4. RequestsAreLate' /\ DeleteJobsAreSafe'
      BY <1>0, <1>3, RowFacts
      DEF IInv, TypeOK, UploadSaveBlob, RequestsAreLate, DeleteJobsAreSafe
    <2>5. QED
      BY <2>2, <2>3, <2>4 DEF IInv
  <1>4. CASE UploadSaveFile(u)
    <2>1. TypeOK'
      BY <1>0, <1>4 DEF TypeOK, UploadSaveFile
    <2>2. UploadHasTarget' /\ FileHasBlob' /\ RunningHasRow'
      BY <1>0, <1>4
      DEF IInv, TypeOK, UploadSaveFile, UploadHasTarget, FileHasBlob, RunningHasRow
    <2>3. RequestsAreLate'
      BY <1>0, <1>4 DEF IInv, TypeOK, UploadSaveFile, RequestsAreLate
    <2>4. DeleteJobsAreSafe'
      BY <1>0, <1>4, RowFacts DEF IInv, TypeOK, UploadSaveFile, DeleteJobsAreSafe
    <2>5. QED
      BY <2>1, <2>2, <2>3, <2>4 DEF IInv
  <1>5. CASE UploadCrash(u)
    <2>1. TypeOK'
      BY <1>0, <1>5, EnvironmentAssumption DEF TypeOK, UploadCrash, Crash
    <2>2. QED
      BY <1>0, <1>5, <2>1
      DEF IInv, TypeOK, UploadCrash, RunningHasRow, UploadHasTarget, FileHasBlob,
          RequestsAreLate, DeleteJobsAreSafe
  <1>6. QED
    BY <1>1, <1>2, <1>3, <1>4, <1>5 DEF Upload


\* The requests about one file.
LEMMA FileRequestStep ==
  ASSUME IInv, NEW c \in Clients, FileRequest(c)
  PROVE  IInv'
  <1> USE DEF db, storage, client, worker
  <1>0. TypeOK
    BY DEF IInv
  <1>1. ASSUME NEW u \in Uploads, DeleteRead(c, u)
        PROVE  IInv'
    <2>1. [op |-> "delete", file |-> u] \in Request
      BY DEF Request
    <2>2. TypeOK'
      BY <1>0, <1>1, <2>1 DEF TypeOK, DeleteRead
    <2>3. RequestsAreLate'
      BY <1>0, <1>1 DEF IInv, TypeOK, DeleteRead, RequestsAreLate, FileHasBlob
    <2>4. QED
      BY <1>1, <2>2, <2>3
      DEF IInv, DeleteRead, RunningHasRow, UploadHasTarget, FileHasBlob, DeleteJobsAreSafe
  <1>2. ASSUME NEW u \in Uploads, NEW p \in Path, MoveRead(c, u, p)
        PROVE  IInv'
    <2>1. [op |-> "move", file |-> u, to |-> p] \in Request
      BY DEF Request
    <2>2. TypeOK'
      BY <1>0, <1>2, <2>1 DEF TypeOK, MoveRead
    <2>3. RequestsAreLate'
      BY <1>0, <1>2 DEF IInv, TypeOK, MoveRead, RequestsAreLate, FileHasBlob
    <2>4. QED
      BY <1>2, <2>2, <2>3
      DEF IInv, MoveRead, RunningHasRow, UploadHasTarget, FileHasBlob, DeleteJobsAreSafe
  <1>3. CASE DeleteSave(c)
    <2> DEFINE u == req[c].file
               payload == [type |-> "delete", blob |-> u, key |-> blob[u]]
    <2>1. u \in Uploads /\ stage[u] = "idle"
      BY <1>0, <1>3, RowFacts DEF IInv, DeleteSave, RequestsAreLate
    <2>2. file' = [file EXCEPT ![u] = None]
      BY <1>3 DEF DeleteSave
    <2>3. /\ jobs' \in [JobIds -> Payload \cup {None}]
          /\ queue' \in SUBSET JobIds
          /\ \A i \in JobIds : jobs'[i] = jobs[i] \/ jobs'[i] = payload
          /\ \A i \in running : jobs'[i] = jobs[i]
      <3>1. CASE blob[u] = None
        BY <1>0, <1>3, <3>1 DEF DeleteSave, NoJob, TypeOK
      <3>2. CASE blob[u] # None
        <4>1. payload \in Payload
          BY <1>0, <2>1, <3>2 DEF TypeOK, Payload, DeletePayload
        <4>2. Defer(payload)
          BY <1>3, <3>2 DEF DeleteSave
        <4> HIDE DEF payload
        <4>3. QED
          BY <1>0, <4>1, <4>2, DeferFacts
      <3>3. QED
        BY <3>1, <3>2
    <2>4. TypeOK'
      BY <1>0, <1>3, <2>1, <2>2, <2>3 DEF TypeOK, DeleteSave
    <2>5. DeleteJobsAreSafe'
      <3> SUFFICES ASSUME NEW i \in JobIds, jobs'[i] # None, jobs'[i].type = "delete"
                   PROVE  file'[jobs'[i].blob] = None /\ stage[jobs'[i].blob] = "idle"
        BY <1>3 DEF DeleteJobsAreSafe, DeleteSave
      <3>1. CASE jobs'[i] = payload
        BY <1>0, <2>1, <2>2, <3>1 DEF TypeOK
      <3>2. CASE jobs'[i] = jobs[i]
        <4>1. /\ jobs[i].blob \in Uploads
              /\ file[jobs[i].blob] = None
              /\ stage[jobs[i].blob] = "idle"
          BY <1>0, <3>2, RowFacts DEF IInv, DeleteJobsAreSafe
        <4>2. QED
          BY <1>0, <2>2, <3>2, <4>1 DEF TypeOK
      <3>3. QED
        BY <2>3, <3>1, <3>2
    <2>6. RequestsAreLate'
      BY <1>0, <1>3 DEF IInv, TypeOK, DeleteSave, RequestsAreLate
    <2>7. FileHasBlob' /\ UploadHasTarget'
      BY <1>0, <1>3, <2>1, <2>2 DEF IInv, TypeOK, DeleteSave, FileHasBlob, UploadHasTarget
    <2>8. RunningHasRow'
      BY <1>3, <2>3 DEF IInv, DeleteSave, RunningHasRow
    <2>9. QED
      BY <2>4, <2>5, <2>6, <2>7, <2>8 DEF IInv
  <1>4. CASE MoveSave(c)
    <2> DEFINE u == req[c].file
               p == req[c].to
               payload == [type |-> "move", blob |-> u, at |-> blob[u], to |-> p]
    <2>1. u \in Uploads /\ stage[u] = "idle"
      BY <1>0, <1>4, RowFacts DEF IInv, MoveSave, RequestsAreLate
    <2>2. p \in Path
      BY <1>0, <1>4 DEF TypeOK, MoveSave, Request
    <2>3. /\ jobs' \in [JobIds -> Payload \cup {None}]
          /\ queue' \in SUBSET JobIds
          /\ \A i \in JobIds : jobs'[i] = jobs[i] \/ jobs'[i] = payload
          /\ \A i \in running : jobs'[i] = jobs[i]
      <3>1. CASE NoJob
        BY <1>0, <3>1 DEF NoJob, TypeOK
      <3>2. CASE ~MoveRefused(u, p) /\ Defer(payload)
        <4>1. blob[u] \in Path
          BY <1>0, <2>1, <3>2 DEF IInv, TypeOK, FileHasBlob, MoveRefused
        <4>2. payload \in Payload
          BY <2>1, <2>2, <4>1 DEF Payload, MovePayload
        <4> HIDE DEF payload
        <4>3. QED
          BY <1>0, <3>2, <4>2, DeferFacts
      <3>3. QED
        BY <1>4, <3>1, <3>2 DEF MoveSave
    <2>4. file' = file \/ (file[u] # None /\ file' = [file EXCEPT ![u] = p])
      BY <1>4 DEF MoveSave, MoveRefused
    <2>5. TypeOK'
      BY <1>0, <1>4, <2>1, <2>2, <2>3, <2>4 DEF TypeOK, MoveSave
    <2>6. DeleteJobsAreSafe'
      <3> SUFFICES ASSUME NEW i \in JobIds, jobs'[i] # None, jobs'[i].type = "delete"
                   PROVE  file'[jobs'[i].blob] = None /\ stage[jobs'[i].blob] = "idle"
        BY <1>4 DEF DeleteJobsAreSafe, MoveSave
      <3>1. jobs'[i] = jobs[i]
        BY <2>3
      <3>2. /\ jobs[i].blob \in Uploads
            /\ file[jobs[i].blob] = None
            /\ stage[jobs[i].blob] = "idle"
        BY <1>0, <3>1, RowFacts DEF IInv, DeleteJobsAreSafe
      <3> HIDE DEF u, p
      <3>3. QED
        BY <1>0, <2>1, <2>4, <3>1, <3>2 DEF TypeOK
    <2>7. RequestsAreLate'
      BY <1>0, <1>4 DEF IInv, TypeOK, MoveSave, RequestsAreLate
    <2>8. FileHasBlob' /\ UploadHasTarget'
      <3> HIDE DEF u, p
      <3>1. stage' = stage /\ target' = target /\ blob' = blob
        BY <1>4 DEF MoveSave
      <3>2. QED
        BY <1>0, <2>1, <2>4, <3>1 DEF IInv, TypeOK, FileHasBlob, UploadHasTarget
    <2>9. RunningHasRow'
      BY <1>4, <2>3 DEF IInv, MoveSave, RunningHasRow
    <2>10. QED
      BY <2>5, <2>6, <2>7, <2>8, <2>9 DEF IInv
  <1>5. CASE RequestCrash(c)
    <2>1. TypeOK'
      BY <1>0, <1>5, EnvironmentAssumption DEF TypeOK, RequestCrash, Crash
    <2>2. QED
      BY <1>0, <1>5, <2>1
      DEF IInv, TypeOK, RequestCrash, RunningHasRow, UploadHasTarget, FileHasBlob,
          RequestsAreLate, DeleteJobsAreSafe
  <1>6. QED
    BY <1>1, <1>2, <1>3, <1>4, <1>5 DEF FileRequest, MoveItem, MoveItemToTrash


\* What the folder requests share: rows disappear or change their path, no row
\* appears, and the job they save is not a delete job.
LEMMA FolderFacts ==
  ASSUME IInv,
         NEW payload \in Payload, payload.type # "delete", Defer(payload),
         file' \in [Uploads -> Path \cup {None}],
         \A u \in Uploads : file[u] = None => file'[u] = None,
         dirs' \in SUBSET Dirs,
         UNCHANGED <<blob, storage, client, running, crashes>>
  PROVE  IInv'
  <1> USE DEF storage, client
  <1>0. TypeOK
    BY DEF IInv
  <1>1. /\ jobs' \in [JobIds -> Payload \cup {None}]
        /\ queue' \in SUBSET JobIds
        /\ \A i \in JobIds : jobs'[i] = jobs[i] \/ jobs'[i] = payload
        /\ \A i \in running : jobs'[i] = jobs[i]
    BY <1>0, DeferFacts
  <1>2. TypeOK'
    BY <1>0, <1>1 DEF TypeOK
  <1>3. RunningHasRow'
    BY <1>1 DEF IInv, RunningHasRow
  <1>4. UploadHasTarget' /\ FileHasBlob' /\ RequestsAreLate'
    BY DEF IInv, UploadHasTarget, FileHasBlob, RequestsAreLate
  <1>5. DeleteJobsAreSafe'
    <2> SUFFICES ASSUME NEW i \in JobIds, jobs'[i] # None, jobs'[i].type = "delete"
                 PROVE  file'[jobs'[i].blob] = None /\ stage[jobs'[i].blob] = "idle"
      BY DEF DeleteJobsAreSafe
    <2>1. jobs'[i] = jobs[i]
      BY <1>1
    <2>2. QED
      BY <1>0, <2>1, RowFacts DEF IInv, DeleteJobsAreSafe
  <1>6. QED
    BY <1>2, <1>3, <1>4, <1>5 DEF IInv

\* The requests about a folder.
LEMMA FolderRequestStep ==
  ASSUME IInv, FolderRequest
  PROVE  IInv'
  <1> USE DEF db, storage, client, worker
  <1>0. TypeOK
    BY DEF IInv
  <1>1. ASSUME NEW d \in Dirs, CreateFolder(d)
        PROVE  IInv'
    <2>1. TypeOK'
      BY <1>0, <1>1 DEF TypeOK, CreateFolder
    <2>2. QED
      BY <1>1, <2>1
      DEF IInv, CreateFolder, RunningHasRow, UploadHasTarget, FileHasBlob,
          RequestsAreLate, DeleteJobsAreSafe
  <1>2. ASSUME NEW d \in Dirs, DeleteFolder(d)
        PROVE  IInv'
    <2> DEFINE payload == [type |-> "delete_prefix", dir |-> d]
    <2>1. payload \in Payload /\ payload.type # "delete"
      BY DEF Payload, DeletePrefixPayload
    <2>2. Defer(payload) /\ dirs' \in SUBSET Dirs
      BY <1>0, <1>2 DEF DeleteFolder, TypeOK
    <2>3. /\ file' \in [Uploads -> Path \cup {None}]
          /\ \A u \in Uploads : file[u] = None => file'[u] = None
      BY <1>0, <1>2 DEF DeleteFolder, TypeOK
    <2>4. UNCHANGED <<blob, storage, client, running, crashes>>
      BY <1>2 DEF DeleteFolder
    <2> HIDE DEF payload
    <2>5. QED
      BY <2>1, <2>2, <2>3, <2>4, FolderFacts
  <1>3. ASSUME NEW a \in Dirs, NEW b \in Dirs, MoveFolder(a, b)
        PROVE  IInv'
    <2> DEFINE payload == [type |-> "move_prefix", dir |-> a, toDir |-> b]
    <2>1. payload \in Payload /\ payload.type # "delete"
      BY DEF Payload, MovePrefixPayload
    <2>2. Defer(payload) /\ dirs' \in SUBSET Dirs
      BY <1>0, <1>3 DEF MoveFolder, TypeOK
    <2>3. /\ file' \in [Uploads -> Path \cup {None}]
          /\ \A u \in Uploads : file[u] = None => file'[u] = None
      BY <1>0, <1>3, PathFacts DEF MoveFolder, TypeOK, FilesWithin
    <2>4. UNCHANGED <<blob, storage, client, running, crashes>>
      BY <1>3 DEF MoveFolder
    <2> HIDE DEF payload
    <2>5. QED
      BY <2>1, <2>2, <2>3, <2>4, FolderFacts
  <1>4. CASE EmptyTrash
    <2> DEFINE payload == [type |-> "delete_prefix", dir |-> Trash]
    <2>1. payload \in Payload /\ payload.type # "delete"
      BY DirsAssumption DEF Payload, DeletePrefixPayload
    <2>2. Defer(payload) /\ dirs' \in SUBSET Dirs
      BY <1>0, <1>4 DEF EmptyTrash, TypeOK
    <2>3. /\ file' \in [Uploads -> Path \cup {None}]
          /\ \A u \in Uploads : file[u] = None => file'[u] = None
      BY <1>0, <1>4 DEF EmptyTrash, TypeOK
    <2>4. UNCHANGED <<blob, storage, client, running, crashes>>
      BY <1>4 DEF EmptyTrash
    <2> HIDE DEF payload
    <2>5. QED
      BY <2>1, <2>2, <2>3, <2>4, FolderFacts
  <1>5. QED
    BY <1>1, <1>2, <1>3, <1>4 DEF FolderRequest

\* The steps of the worker.
LEMMA WorkStep ==
  ASSUME IInv, NEW j \in JobIds, Work(j)
  PROVE  IInv'
  <1> USE DEF db, storage, client, worker
  <1>0. TypeOK
    BY DEF IInv
  <1>1. CASE WorkerSkip(j)
    <2>1. TypeOK'
      BY <1>0, <1>1 DEF TypeOK, WorkerSkip
    <2>2. QED
      BY <1>1, <2>1
      DEF IInv, WorkerSkip, RunningHasRow, UploadHasTarget, FileHasBlob,
          RequestsAreLate, DeleteJobsAreSafe
  <1>2. CASE WorkerFail(j)
    <2>1. jobs[j].to \in Path
      <3>1. jobs[j] \in Payload /\ jobs[j].type = "move"
        BY <1>0, <1>2 DEF TypeOK, WorkerFail, MoveSourceMissing
      <3>2. QED
        BY <3>1
        DEF Payload, DeletePayload, DeletePrefixPayload, MovePayload, MovePrefixPayload
    <2>2. storageDirs' \in SUBSET Dirs
      BY <1>0, <1>2, <2>1, PathFacts, MakeDirsType DEF WorkerFail
    <2>3. TypeOK'
      BY <1>0, <1>2, <2>2 DEF TypeOK, WorkerFail
    <2>4. QED
      BY <1>2, <2>3
      DEF IInv, WorkerFail, RunningHasRow, UploadHasTarget, FileHasBlob,
          RequestsAreLate, DeleteJobsAreSafe
  <1>3. CASE WorkerStore(j)
    <2>1. UNCHANGED <<db, client, crashes>> /\ queue' = queue \ {j}
            /\ running' = running \cup {j} /\ jobs[j] # None
      BY <1>3 DEF WorkerStore
    <2>2. TypeOK'
      BY <1>0, <1>3, <2>1, StorageType DEF TypeOK
    <2>3. QED
      BY <2>1, <2>2
      DEF IInv, RunningHasRow, UploadHasTarget, FileHasBlob, RequestsAreLate,
          DeleteJobsAreSafe
  <1>4. CASE WorkerSave(j)
    <2>1. jobs[j] \in Payload
      BY <1>0, <1>4 DEF IInv, TypeOK, RunningHasRow, WorkerSave
    <2>2. /\ UNCHANGED <<dirs, file, storage, client, queue, crashes>>
          /\ running' = running \ {j}
          /\ \/ /\ RowsAccepted(BlobsAfter(jobs[j]))
                /\ blob' = BlobsAfter(jobs[j])
                /\ jobs' = [jobs EXCEPT ![j] = None]
             \/ UNCHANGED <<blob, jobs>>
      BY <1>4 DEF WorkerSave
    <2>3. blob' \in [Uploads -> Path \cup {None}]
      BY <1>0, <2>1, <2>2, BlobsAfterType DEF TypeOK
    <2>4. /\ jobs' \in [JobIds -> Payload \cup {None}]
          /\ \A i \in JobIds : jobs'[i] = None \/ jobs'[i] = jobs[i]
          /\ \A i \in JobIds \ {j} : jobs'[i] = jobs[i]
      BY <1>0, <2>2 DEF TypeOK
    <2>5. \A u \in Uploads : file[u] # None => blob'[u] # None
      BY <2>2 DEF IInv, FileHasBlob, RowsAccepted
    <2>6. TypeOK'
      BY <1>0, <2>2, <2>3, <2>4 DEF TypeOK
    <2>7. RunningHasRow'
      BY <1>0, <2>2, <2>4 DEF IInv, TypeOK, RunningHasRow
    <2>8. FileHasBlob' /\ UploadHasTarget' /\ RequestsAreLate'
      BY <2>2, <2>5 DEF IInv, FileHasBlob, UploadHasTarget, RequestsAreLate
    <2>9. DeleteJobsAreSafe'
      <3> SUFFICES ASSUME NEW i \in JobIds, jobs'[i] # None, jobs'[i].type = "delete"
                   PROVE  file[jobs'[i].blob] = None /\ stage[jobs'[i].blob] = "idle"
        BY <2>2 DEF DeleteJobsAreSafe
      <3>1. jobs'[i] = jobs[i]
        BY <2>4
      <3>2. QED
        BY <3>1 DEF IInv, DeleteJobsAreSafe
    <2>10. QED
      BY <2>6, <2>7, <2>8, <2>9 DEF IInv
  <1>5. CASE WorkerCrash(j)
    <2>1. TypeOK'
      BY <1>0, <1>5, EnvironmentAssumption DEF TypeOK, WorkerCrash, Crash
    <2>2. QED
      BY <1>5, <2>1
      DEF IInv, WorkerCrash, RunningHasRow, UploadHasTarget, FileHasBlob,
          RequestsAreLate, DeleteJobsAreSafe
  <1>6. QED
    BY <1>1, <1>2, <1>3, <1>4, <1>5 DEF Work

-----------------------------------------------------------------------------
(* The theorems                                                            *)

\* Every behaviour keeps the inductive invariant.
THEOREM Invariance == Spec => []IInv
  <1>1. IInv /\ [Next]_vars => IInv'
    <2> SUFFICES ASSUME IInv, [Next]_vars
                 PROVE  IInv'
      OBVIOUS
    <2>1. CASE Next
      BY <2>1, UploadStep, FileRequestStep, FolderRequestStep, WorkStep DEF Next
    <2>2. CASE UNCHANGED vars
      BY <2>2
      DEF vars, db, storage, client, worker, IInv, TypeOK, RunningHasRow,
          UploadHasTarget, FileHasBlob, RequestsAreLate, DeleteJobsAreSafe
    <2>3. QED
      BY <2>1, <2>2
  <1>2. QED
    BY InitIInv, <1>1, PTL DEF Spec

\* The tables, the storage, the requests and the worker stay well typed.
THEOREM TypeCorrect == Spec => []TypeOK
  BY Invariance, PTL DEF IInv

\* A delete job never names the blob of a file (BlobService.delete_batch): the
\* RESTRICT constraint cannot stop it, and it cannot take the row of a file.
THEOREM DeleteJobsSafe == Spec => []DeleteJobsAreSafe
  BY Invariance, PTL DEF IInv


\* The row of a file appears only at the end of its own upload.
LEMMA AppearsOnUpload ==
  ASSUME IInv, [Next]_vars, NEW u \in Uploads, file[u] = None, file'[u] # None
  PROVE  stage[u] = "saved"
  <1> USE DEF db, storage, client, worker
  <1>0. TypeOK
    BY DEF IInv
  <1>1. file' # file
    OBVIOUS
  <1>2. ASSUME NEW v \in Uploads, Upload(v)
        PROVE  stage[u] = "saved"
    <2>1. UploadSaveFile(v)
      BY <1>1, <1>2 DEF Upload, UploadName, UploadStore, UploadSaveBlob, UploadCrash
    <2>2. v = u
      BY <1>0, <2>1 DEF TypeOK, UploadSaveFile
    <2>3. QED
      BY <2>1, <2>2 DEF UploadSaveFile
  <1>3. ASSUME NEW c \in Clients, FileRequest(c)
        PROVE  FALSE
    <2>1. CASE DeleteSave(c)
      BY <1>0, <2>1 DEF TypeOK, DeleteSave
    <2>2. CASE MoveSave(c)
      <3>1. file' = file \/ (file[req[c].file] # None
                               /\ file' = [file EXCEPT ![req[c].file] = req[c].to])
        BY <2>2 DEF MoveSave, MoveRefused
      <3>2. QED
        BY <1>0, <3>1 DEF TypeOK
    <2>3. QED
      BY <1>1, <1>3, <2>1, <2>2
      DEF FileRequest, DeleteRead, MoveItem, MoveItemToTrash, MoveRead, RequestCrash
  <1>4. FolderRequest => FALSE
    <2>1. ASSUME NEW d \in Dirs, DeleteFolder(d)
          PROVE  FALSE
      BY <2>1 DEF DeleteFolder
    <2>2. ASSUME NEW a \in Dirs, NEW b \in Dirs, MoveFolder(a, b)
          PROVE  FALSE
      BY <2>2 DEF MoveFolder, FilesWithin
    <2>3. EmptyTrash => FALSE
      BY DEF EmptyTrash
    <2>4. QED
      BY <1>1, <2>1, <2>2, <2>3 DEF FolderRequest, CreateFolder
  <1>5. ASSUME NEW j \in JobIds, Work(j)
        PROVE  FALSE
    BY <1>1, <1>5
    DEF Work, WorkerSkip, WorkerFail, WorkerStore, WorkerSave, WorkerCrash
  <1>6. QED
    BY <1>1, <1>2, <1>3, <1>4, <1>5 DEF Next, vars

\* A move that was checked before its file was deleted does not bring the file
\* back (FileRepository.update, FileCoreService._move).
THEOREM DeletedStaysDeleted == Spec => NoResurrection
  <1>1. IInv /\ [Next]_vars =>
          [\A u \in Uploads : file[u] = None /\ file'[u] # None =>
              stage[u] = "saved"]_vars
    BY AppearsOnUpload
  <1>2. QED
    BY Invariance, <1>1, PTL DEF Spec, NoResurrection

-----------------------------------------------------------------------------
(* The calm environments: one request at a time, with the worker idle when *)
(* it starts, and no crash but that of a worker whose job can be repeated. *)

Calm ==
    /\ Serial /\ Drained /\ ~EarlyPickup
    /\ CrashSites \subseteq {"worker"}

\* The rows of files: each in a folder that exists, and no two at one path.
RowsFit ==
    /\ {Home, Trash} \subseteq dirs
    /\ \A u \in Uploads : file[u] # None => DirOf(file[u]) \in dirs
    /\ \A u, v \in Uploads : file[u] # None /\ file[u] = file[v] => u = v

\* The objects are those of the table f, where f says.  On a filesystem they have
\* their directories, and these are folders, or among D.
Stored(f, D) ==
    /\ \A u \in Uploads, p \in Path : object[p] = u <=> f[u] = p
    /\ storageDirs \subseteq dirs \cup D
    /\ Backend # "filesystem" => storageDirs = {}
    /\ Backend = "filesystem" =>
         \A p \in Path : object[p] # None => DirOf(p) \in storageDirs

NoWork == Settled /\ \A j \in JobIds : jobs[j] = None

\* Nothing is under way.
Resting == Quiet /\ NoWork /\ blob = file /\ Stored(file, {})

\* The table with the row that the upload of u is to have.
WithRow(u) == [file EXCEPT ![u] = target[u]]

\* Nothing but the upload of u is under way.
Uploading(u) ==
    /\ stage[u] # "idle" /\ \A v \in Uploads \ {u} : stage[v] = "idle"
    /\ \A c \in Clients : req[c] = None
    /\ NoWork
    /\ file[u] = None /\ ~Taken(target[u]) /\ DirOf(target[u]) \in dirs
    /\ blob = IF stage[u] = "saved" THEN WithRow(u) ELSE file
    /\ Stored(IF stage[u] = "named" THEN file ELSE WithRow(u), {})

\* Nothing but the request of c, which has read its row and made its checks.
Requesting(c) ==
    /\ \A u \in Uploads : stage[u] = "idle"
    /\ req[c] # None /\ \A d \in Clients \ {c} : req[d] = None
    /\ NoWork /\ blob = file /\ Stored(file, {})
    /\ file[req[c].file] # None
    /\ req[c].op = "move" => ~Taken(req[c].to) /\ DirOf(req[c].to) \in dirs

\* What a job finds.
JobFits(job) ==
    /\ job.type = "delete" => blob[job.blob] = job.key
    /\ job.type = "move" => blob[job.blob] = job.at /\ job.at # job.to
    /\ job.type = "move_prefix" =>
         /\ job.dir \notin dirs /\ job.toDir \in dirs
         /\ \A u \in Uploads : blob[u] # None => DirOf(blob[u]) # job.toDir

\* The directories that are there until a job has done its storage half.
Leaving(job) ==
    IF job.type = "delete_prefix" THEN Within(job.dir)
    ELSE IF job.type = "move_prefix" THEN {job.dir} ELSE {}

\* Nothing but job j, which makes the table of blobs that of the files.  Its storage
\* half is to be done, or is done; then it may be done again, unless it is the move
\* of a single object.
Working(j) ==
    /\ Quiet
    /\ jobs[j] # None /\ \A i \in JobIds \ {j} : jobs[i] = None
    /\ \/ queue = {j} /\ running = {}
       \/ queue = {} /\ running = {j}
    /\ BlobsAfter(jobs[j]) = file
    /\ \A u, v \in Uploads : blob[u] # None /\ blob[u] = blob[v] => u = v
    /\ JobFits(jobs[j])
    /\ \/ Stored(file, {}) /\ (j \in queue => jobs[j].type # "move")
       \/ /\ j \in queue /\ Stored(blob, Leaving(jobs[j]))
          /\ jobs[j].type = "move_prefix" => jobs[j].toDir \notin storageDirs

\* The inductive invariant of the calm environments.
CalmInv ==
    /\ Calm /\ IInv /\ RowsFit
    /\ \/ Resting
       \/ \E u \in Uploads : Uploading(u)
       \/ \E c \in Clients : Requesting(c)
       \/ \E j \in JobIds : Working(j)

-----------------------------------------------------------------------------
(* The phases of the calm environments                                     *)

\* A path is its folder and its name.
LEMMA PathNames ==
  /\ \A p \in Path : InDir(p, DirOf(p)) = p
  /\ \A p \in Path, d \in Dirs : DirOf(InDir(p, d)) = d /\ InDir(p, d) \in Path
  /\ \A p \in Path, a, b \in Dirs : InDir(InDir(p, a), b) = InDir(p, b)
  BY DEF Path, DirOf, InDir

\* A request that begins finds nothing under way.
LEMMA BeginsAtRest ==
  ASSUME CalmInv, NEW op, Admitted(op)
  PROVE  Resting
  BY DEF CalmInv, Calm, Admitted, Quiet, Settled, Uploading, Requesting, Working

\* What goes on is alone.
LEMMA Alone ==
  ASSUME CalmInv
  PROVE  /\ \A u \in Uploads : stage[u] # "idle" => Uploading(u)
         /\ \A c \in Clients : req[c] # None => Requesting(c)
         /\ \A j \in JobIds : j \in queue \cup running => Working(j)
  <1>1. CASE Resting
    BY <1>1 DEF Resting, Quiet, NoWork, Settled
  <1>2. ASSUME NEW u \in Uploads, Uploading(u)
        PROVE  /\ \A v \in Uploads : stage[v] # "idle" => Uploading(v)
               /\ \A c \in Clients : req[c] = None
               /\ queue = {} /\ running = {}
    BY <1>2 DEF Uploading, NoWork, Settled
  <1>3. ASSUME NEW c \in Clients, Requesting(c)
        PROVE  /\ \A u \in Uploads : stage[u] = "idle"
               /\ \A d \in Clients : req[d] # None => Requesting(d)
               /\ queue = {} /\ running = {}
    BY <1>3 DEF Requesting, NoWork, Settled
  <1>4. ASSUME NEW j \in JobIds, Working(j)
        PROVE  /\ \A u \in Uploads : stage[u] = "idle"
               /\ \A c \in Clients : req[c] = None
               /\ \A i \in JobIds : i \in queue \cup running => Working(i)
    BY <1>4 DEF Working, Quiet
  <1>. QED
    BY <1>1, <1>2, <1>3, <1>4 DEF CalmInv

\* What a phase may use of the invariant.
LEMMA CalmParts ==
  ASSUME CalmInv
  PROVE  /\ TypeOK /\ RowsFit /\ UploadHasTarget /\ FileHasBlob /\ Calm
         /\ dirs \in SUBSET Dirs /\ storageDirs \in SUBSET Dirs
         /\ file \in [Uploads -> Path \cup {None}] /\ blob \in [Uploads -> Path \cup {None}]
         /\ object \in [Path -> Uploads \cup {None}]
         /\ jobs \in [JobIds -> Payload \cup {None}]
         /\ None \notin Path /\ None \notin Uploads
  BY NoneFacts DEF CalmInv, IInv, TypeOK

\* A job that is deferred is the only one, and is with the worker.
LEMMA DeferAlone ==
  ASSUME CalmInv, NoWork, NEW payload \in Payload, payload # None, Defer(payload), UNCHANGED running
  PROVE  \E j \in JobIds :
           /\ jobs'[j] = payload /\ \A i \in JobIds \ {j} : jobs'[i] = None
           /\ queue' = {j} /\ running' = {}
  <1>1. PICK j \in JobIds : jobs' = [jobs EXCEPT ![j] = payload] /\ queue' = queue \cup {j}
    BY DEF Defer, CalmInv, Calm
  <1>2. queue' = {j} /\ running' = {}
    BY <1>1 DEF NoWork, Settled
  <1>. QED
    BY <1>1, <1>2, CalmParts DEF NoWork

-----------------------------------------------------------------------------
(* Uploads                                                                 *)

LEMMA CalmUploadName ==
  ASSUME CalmInv, NEW u \in Uploads, NEW p \in Path, UploadName(u, p)
  PROVE  RowsFit' /\ Uploading(u)'
  <1>1. Resting
    BY BeginsAtRest DEF UploadName
  <1>2. PICK q \in Path : DirOf(q) = DirOf(p) /\ ~Taken(q) /\ target' = [target EXCEPT ![u] = q]
    BY DEF UploadName
  <1>3. /\ dirs' = dirs \cup {DirOf(p)} /\ stage' = [stage EXCEPT ![u] = "named"]
        /\ UNCHANGED <<file, blob, jobs, object, storageDirs, req, queue, running>>
        /\ file[u] = None
    BY DEF UploadName, Unused, storage, worker
  <1>4. stage'[u] = "named" /\ target'[u] = q /\ \A v \in Uploads \ {u} : stage'[v] = "idle"
    BY <1>1, <1>2, <1>3, CalmParts DEF TypeOK, Resting, Quiet
  <1>5. RowsFit'
    BY <1>3, CalmParts DEF RowsFit
  <1>6. Stored(file, {})'
    BY <1>1, <1>3 DEF Resting, Stored
  <1>7. NoWork' /\ blob' = file' /\ \A c \in Clients : req'[c] = None
    BY <1>1, <1>3 DEF Resting, NoWork, Settled, Quiet
  <1>8. file'[u] = None /\ ~Taken(target[u])' /\ DirOf(target'[u]) \in dirs'
    BY <1>2, <1>3, <1>4 DEF Taken
  <1>. QED
    BY <1>4, <1>5, <1>6, <1>7, <1>8 DEF Uploading

\* The object of a new row.
LEMMA OneMoreStored ==
  ASSUME CalmInv, NEW u \in Uploads, Uploading(u), stage[u] = "named", UploadStore(u)
  PROVE  Stored(WithRow(u), {})'
  <1>1. target[u] \in Path
    BY CalmParts DEF UploadHasTarget
  <1>2. /\ object' = [object EXCEPT ![target[u]] = u] /\ MakeDirs(DirOf(target[u]))
        /\ UNCHANGED <<dirs, file, target>>
    BY DEF UploadStore, StorageSave, db
  <1>3. Stored(file, {}) /\ ~Taken(target[u]) /\ DirOf(target[u]) \in dirs /\ file[u] = None
    BY DEF Uploading
  <1>4. WithRow(u)' = WithRow(u) /\ WithRow(u)[u] = target[u]
          /\ \A v \in Uploads \ {u} : WithRow(u)[v] = file[v]
    BY <1>2, CalmParts DEF WithRow
  <1>5. ASSUME NEW v \in Uploads, NEW p \in Path
        PROVE  object'[p] = v <=> WithRow(u)[v] = p
    <2>1. CASE p = target[u]
      BY <1>1, <1>2, <1>3, <1>4, <2>1, CalmParts DEF Taken
    <2>2. CASE p # target[u]
      BY <1>1, <1>2, <1>3, <1>4, <2>2, CalmParts DEF Stored
    <2>. QED
      BY <2>1, <2>2
  <1>6. storageDirs' \subseteq dirs' /\ (Backend # "filesystem" => storageDirs' = {})
    BY <1>2, <1>3 DEF Stored, MakeDirs
  <1>7. Backend = "filesystem" => \A p \in Path : object'[p] # None => DirOf(p) \in storageDirs'
    BY <1>1, <1>2, <1>3, CalmParts DEF Stored, MakeDirs
  <1>. HIDE DEF WithRow
  <1>. QED
    BY <1>4, <1>5, <1>6, <1>7 DEF Stored

LEMMA CalmUploadStore ==
  ASSUME CalmInv, NEW u \in Uploads, UploadStore(u)
  PROVE  RowsFit' /\ Uploading(u)'
  <1>1. Uploading(u) /\ stage[u] = "named"
    BY Alone DEF UploadStore
  <1>2. /\ stage' = [stage EXCEPT ![u] = "stored"]
        /\ UNCHANGED <<dirs, file, blob, jobs, target, req, queue, running>>
    BY DEF UploadStore, db, worker
  <1>3. stage'[u] = "stored" /\ \A v \in Uploads \ {u} : stage'[v] = "idle"
    BY <1>1, <1>2, CalmParts DEF TypeOK, Uploading
  <1>4. Stored(WithRow(u), {})'
    BY <1>1, OneMoreStored
  <1>5. RowsFit'
    BY <1>2, CalmParts DEF RowsFit
  <1>6. NoWork' /\ blob' = file' /\ \A c \in Clients : req'[c] = None
    BY <1>1, <1>2 DEF Uploading, NoWork, Settled
  <1>7. file'[u] = None /\ ~Taken(target[u])' /\ DirOf(target'[u]) \in dirs'
    BY <1>1, <1>2 DEF Uploading, Taken
  <1>. QED
    BY <1>3, <1>4, <1>5, <1>6, <1>7 DEF Uploading

LEMMA CalmUploadSaveBlob ==
  ASSUME CalmInv, NEW u \in Uploads, UploadSaveBlob(u)
  PROVE  RowsFit' /\ Uploading(u)'
  <1>1. Uploading(u) /\ stage[u] = "stored"
    BY Alone DEF UploadSaveBlob
  <1>2. blob = file /\ ~KeyTaken(target[u])
    BY <1>1 DEF Uploading, KeyTaken, Taken
  <1>3. /\ blob' = [blob EXCEPT ![u] = target[u]] /\ stage' = [stage EXCEPT ![u] = "saved"]
        /\ UNCHANGED <<dirs, file, jobs, object, storageDirs, target, req, queue, running>>
    BY <1>2 DEF UploadSaveBlob, storage, worker
  <1>4. stage'[u] = "saved" /\ \A v \in Uploads \ {u} : stage'[v] = "idle"
    BY <1>1, <1>3, CalmParts DEF TypeOK, Uploading
  <1>5. Stored(WithRow(u), {})'
    BY <1>1, <1>3 DEF Uploading, Stored, WithRow
  <1>6. RowsFit'
    BY <1>3, CalmParts DEF RowsFit
  <1>7. NoWork' /\ blob' = WithRow(u)' /\ \A c \in Clients : req'[c] = None
    BY <1>1, <1>2, <1>3 DEF Uploading, NoWork, Settled, WithRow
  <1>8. file'[u] = None /\ ~Taken(target[u])' /\ DirOf(target'[u]) \in dirs'
    BY <1>1, <1>3 DEF Uploading, Taken
  <1>. QED
    BY <1>4, <1>5, <1>6, <1>7, <1>8 DEF Uploading

LEMMA CalmUploadSaveFile ==
  ASSUME CalmInv, NEW u \in Uploads, UploadSaveFile(u)
  PROVE  RowsFit' /\ Resting'
  <1>1. Uploading(u) /\ stage[u] = "saved" /\ target[u] \in Path
    BY Alone, CalmParts DEF UploadSaveFile, UploadHasTarget
  <1>2. blob = WithRow(u) /\ ~Taken(target[u]) /\ DirOf(target[u]) \in dirs /\ Stored(WithRow(u), {})
    BY <1>1 DEF Uploading
  <1>3. blob[u] # None
    BY <1>1, <1>2, CalmParts DEF WithRow
  <1>4. /\ file' = WithRow(u) /\ stage' = [stage EXCEPT ![u] = "idle"]
        /\ UNCHANGED <<dirs, blob, jobs, object, storageDirs, req, queue, running>>
    BY <1>2, <1>3 DEF UploadSaveFile, WithRow, storage, worker
  <1>5. file'[u] = target[u] /\ \A v \in Uploads \ {u} : file'[v] = file[v]
    BY <1>4, CalmParts DEF WithRow
  <1>6. RowsFit'
    BY <1>1, <1>2, <1>4, <1>5, CalmParts DEF RowsFit, Taken
  <1>7. \A v \in Uploads : stage'[v] = "idle"
    BY <1>1, <1>4, CalmParts DEF Uploading, TypeOK
  <1>8. NoWork' /\ \A c \in Clients : req'[c] = None
    BY <1>1, <1>4 DEF Uploading, NoWork, Settled
  <1>9. Stored(file, {})' /\ blob' = file'
    BY <1>2, <1>4 DEF Stored
  <1>. QED
    BY <1>6, <1>7, <1>8, <1>9 DEF Resting, Quiet

-----------------------------------------------------------------------------
(* Requests                                                                *)

LEMMA CalmRead ==
  ASSUME CalmInv, Resting, NEW c \in Clients, NEW r \in Request, req' = [req EXCEPT ![c] = r],
         r # None, file[r.file] # None,
         r.op = "move" => ~Taken(r.to) /\ DirOf(r.to) \in dirs,
         UNCHANGED <<dirs, file, blob, jobs, object, storageDirs, stage, queue, running>>
  PROVE  RowsFit' /\ Requesting(c)'
  <1>1. req'[c] = r /\ \A d \in Clients \ {c} : req'[d] = None
    BY CalmParts DEF TypeOK, Resting, Quiet
  <1>2. RowsFit' /\ Stored(file, {})'
    BY CalmParts DEF RowsFit, Resting, Stored
  <1>3. NoWork' /\ blob' = file' /\ \A u \in Uploads : stage'[u] = "idle"
    BY DEF Resting, NoWork, Settled, Quiet
  <1>4. file'[req'[c].file] # None /\ (req'[c].op = "move" => ~Taken(req[c].to)' /\ DirOf(req'[c].to) \in dirs')
    BY <1>1 DEF Taken
  <1>. QED
    BY <1>1, <1>2, <1>3, <1>4 DEF Requesting


LEMMA CalmDeleteRead ==
  ASSUME CalmInv, NEW c \in Clients, NEW u \in Uploads, DeleteRead(c, u)
  PROVE  RowsFit' /\ Requesting(c)'
  <1>. DEFINE r == [op |-> "delete", file |-> u]
  <1>1. r \in Request /\ r.op = "delete" /\ r.file = u
    BY DEF Request
  <1>2. /\ Resting /\ req' = [req EXCEPT ![c] = r] /\ file[u] # None
        /\ UNCHANGED <<dirs, file, blob, jobs, object, storageDirs, stage, queue, running>>
    BY BeginsAtRest DEF DeleteRead, db, storage, worker
  <1>. HIDE DEF r
  <1>. QED
    BY <1>1, <1>2, RecordAssumption, CalmRead

LEMMA CalmMoveRead ==
  ASSUME CalmInv, NEW c \in Clients, NEW u \in Uploads, NEW p \in Path,
         MoveItem(c, u, p) \/ MoveItemToTrash(c, u, p)
  PROVE  RowsFit' /\ Requesting(c)'
  <1>. DEFINE r == [op |-> "move", file |-> u, to |-> p]
  <1>1. r \in Request /\ r.file = u /\ r.to = p
    BY DEF Request
  <1>2. Resting
    BY BeginsAtRest DEF MoveItem, MoveItemToTrash
  <1>3. /\ req' = [req EXCEPT ![c] = r] /\ file[u] # None /\ ~Taken(p) /\ DirOf(p) \in dirs
        /\ UNCHANGED <<dirs, file, blob, jobs, object, storageDirs, stage, queue, running>>
    BY DEF MoveItem, MoveItemToTrash, MoveRead, db, storage, worker
  <1>. HIDE DEF r
  <1>. QED
    BY <1>1, <1>2, <1>3, RecordAssumption, CalmRead

\* What every request that defers a job leaves: the job to be done, with the objects
\* where the blobs have them.
LEMMA Deferred ==
  ASSUME CalmInv, NoWork, blob = file, Stored(file, {}), NEW payload \in Payload, Defer(payload),
         \A u \in Uploads : stage'[u] = "idle", \A c \in Clients : req'[c] = None,
         UNCHANGED <<blob, object, storageDirs, running>>,
         BlobsAfter(payload) = file', JobFits(payload)',
         dirs \subseteq dirs' \cup Leaving(payload),
         payload.type = "move_prefix" => payload.toDir \notin dirs
  PROVE  \E j \in JobIds : Working(j)'
  <1>1. PICK j \in JobIds :
           /\ jobs'[j] = payload /\ \A i \in JobIds \ {j} : jobs'[i] = None
           /\ queue' = {j} /\ running' = {}
    BY RecordAssumption, DeferAlone
  <1>2. BlobsAfter(jobs[j])' = file'
    <2>1. \A d : BlobsWithin(d)' = BlobsWithin(d)
      BY DEF BlobsWithin
    <2>2. BlobsAfter(jobs[j])' = BlobsAfter(payload)
      BY <1>1, <2>1 DEF BlobsAfter
    <2>. QED
      BY <2>2
  <1>3. Stored(blob, Leaving(jobs[j]))'
    BY <1>1 DEF Stored, Leaving
  <1>4. \A u, v \in Uploads : blob'[u] # None /\ blob'[u] = blob'[v] => u = v
    BY CalmParts DEF RowsFit
  <1>5. JobFits(jobs[j])'
    BY <1>1 DEF JobFits
  <1>6. jobs'[j].type = "move_prefix" => jobs'[j].toDir \notin storageDirs'
    BY <1>1 DEF Stored
  <1>7. jobs'[j] # None
    BY <1>1, RecordAssumption
  <1>. QED
    BY <1>1, <1>2, <1>3, <1>4, <1>5, <1>6, <1>7 DEF Working, Quiet

LEMMA CalmDeleteSave ==
  ASSUME CalmInv, NEW c \in Clients, DeleteSave(c)
  PROVE  RowsFit' /\ \E j \in JobIds : Working(j)'
  <1>1. Requesting(c)
    BY Alone DEF DeleteSave
  <1>2. PICK u \in Uploads : u = req[c].file
    BY <1>1, CalmParts, RowFacts DEF Requesting
  <1>3. PICK k \in Path : k = blob[u] /\ k = file[u]
    BY <1>1, <1>2, CalmParts DEF Requesting
  <1>. DEFINE payload == [type |-> "delete", blob |-> u, key |-> k]
  <1>4. payload \in Payload /\ payload.type = "delete" /\ payload.blob = u /\ payload.key = k
    BY DEF Payload, DeletePayload
  <1>5. /\ file' = [file EXCEPT ![u] = None] /\ Defer(payload) /\ req' = [req EXCEPT ![c] = None]
        /\ UNCHANGED <<dirs, blob, object, storageDirs, stage, running>>
    BY <1>2, <1>3, CalmParts DEF DeleteSave, storage
  <1>. HIDE DEF payload
  <1>6. /\ NoWork /\ blob = file /\ Stored(file, {}) /\ \A v \in Uploads : stage'[v] = "idle"
        /\ \A d \in Clients : req'[d] = None
    BY <1>1, <1>5, CalmParts DEF Requesting, TypeOK
  <1>7. RowsFit'
    BY <1>5, CalmParts DEF RowsFit
  <1>8. BlobsAfter(payload) = file'
    BY <1>4, <1>5, <1>6, CalmParts DEF BlobsAfter
  <1>9. JobFits(payload)'
    BY <1>3, <1>4, <1>5 DEF JobFits
  <1>. QED
    BY <1>4, <1>5, <1>6, <1>7, <1>8, <1>9, Deferred

LEMMA CalmMoveSave ==
  ASSUME CalmInv, NEW c \in Clients, MoveSave(c)
  PROVE  RowsFit' /\ \E j \in JobIds : Working(j)'
  <1>1. Requesting(c) /\ req[c] # None /\ req[c].op = "move"
    BY Alone DEF MoveSave
  <1>2. PICK u \in Uploads, p \in Path : u = req[c].file /\ p = req[c].to
    BY <1>1, CalmParts DEF TypeOK, Request
  <1>3. PICK k \in Path : k = blob[u] /\ k = file[u]
    BY <1>1, <1>2, CalmParts DEF Requesting
  <1>4. /\ NoWork /\ blob = file /\ Stored(file, {}) /\ ~Taken(p) /\ DirOf(p) \in dirs
        /\ \A v \in Uploads : file[v] # p
    BY <1>1, <1>2 DEF Requesting, Taken
  <1>. DEFINE payload == [type |-> "move", blob |-> u, at |-> k, to |-> p]
  <1>5. /\ payload \in Payload /\ payload.type = "move" /\ payload.blob = u
        /\ payload.at = k /\ payload.to = p
    BY DEF Payload, MovePayload
  <1>6. ~MoveRefused(u, p) /\ blob[u] # p
    BY <1>3, <1>4, CalmParts DEF MoveRefused, KeyTaken
  <1>7. /\ file' = [file EXCEPT ![u] = p] /\ Defer(payload) /\ req' = [req EXCEPT ![c] = None]
        /\ UNCHANGED <<dirs, blob, object, storageDirs, stage, running>>
    BY <1>2, <1>3, <1>6 DEF MoveSave, storage
  <1>. HIDE DEF payload
  <1>8. (\A v \in Uploads : stage'[v] = "idle") /\ \A d \in Clients : req'[d] = None
    BY <1>1, <1>7, CalmParts DEF Requesting, TypeOK
  <1>9. file'[u] = p /\ \A v \in Uploads \ {u} : file'[v] = file[v]
    BY <1>7, CalmParts
  <1>10. RowsFit'
    BY <1>4, <1>7, <1>9, CalmParts DEF RowsFit
  <1>11. BlobsAfter(payload) = file'
    BY <1>3, <1>4, <1>5, <1>7, CalmParts DEF BlobsAfter
  <1>12. JobFits(payload)'
    BY <1>3, <1>5, <1>6, <1>7 DEF JobFits
  <1>. QED
    BY <1>4, <1>5, <1>7, <1>8, <1>10, <1>11, <1>12, Deferred

LEMMA CalmCreateFolder ==
  ASSUME CalmInv, NEW d \in Dirs, CreateFolder(d)
  PROVE  RowsFit' /\ Resting'
  <1>1. Resting
    BY BeginsAtRest DEF CreateFolder
  <1>2. /\ dirs' = dirs \cup {d}
        /\ UNCHANGED <<file, blob, jobs, object, storageDirs, stage, req, queue, running>>
    BY DEF CreateFolder, storage, client, worker
  <1>3. RowsFit' /\ Stored(file, {})'
    BY <1>1, <1>2, CalmParts DEF RowsFit, Resting, Stored
  <1>. QED
    BY <1>1, <1>2, <1>3 DEF Resting, Quiet, NoWork, Settled

\* A folder with what is below it goes, from a system at rest.
LEMMA FolderGoes ==
  ASSUME CalmInv, Resting, NEW d \in Dirs, NEW D \in SUBSET Within(d), dirs' = dirs \ D,
         Home \notin D, Trash \notin D,
         file' = [u \in Uploads |-> IF u \in FilesWithin(d) THEN None ELSE file[u]],
         Defer([type |-> "delete_prefix", dir |-> d]),
         UNCHANGED <<blob, storage, client, running>>
  PROVE  RowsFit' /\ \E j \in JobIds : Working(j)'
  <1>. DEFINE payload == [type |-> "delete_prefix", dir |-> d]
  <1>1. payload \in Payload /\ payload.type = "delete_prefix" /\ payload.dir = d
    BY DEF Payload, DeletePrefixPayload
  <1>2. Defer(payload)
    OBVIOUS
  <1>. HIDE DEF payload
  <1>3. RowsFit'
    BY CalmParts DEF RowsFit, FilesWithin
  <1>4. /\ NoWork /\ blob = file /\ Stored(file, {})
        /\ (\A v \in Uploads : stage'[v] = "idle") /\ \A c \in Clients : req'[c] = None
        /\ UNCHANGED <<object, storageDirs>>
    BY DEF Resting, Quiet, client, storage
  <1>5. BlobsAfter(payload) = file'
    BY <1>1, <1>4 DEF BlobsAfter, BlobsWithin, FilesWithin
  <1>6. JobFits(payload)' /\ dirs \subseteq dirs' \cup Leaving(payload)
    BY <1>1 DEF JobFits, Leaving
  <1>. QED
    BY <1>1, <1>2, <1>3, <1>4, <1>5, <1>6, Deferred

LEMMA CalmDeleteFolder ==
  ASSUME CalmInv, NEW d \in Dirs, DeleteFolder(d)
  PROVE  RowsFit' /\ \E j \in JobIds : Working(j)'
  <1>1. Resting
    BY BeginsAtRest DEF DeleteFolder
  <1>2. {d} \subseteq Within(d) /\ d # Home /\ d # Trash
    BY DEF DeleteFolder, Within
  <1>. QED
    BY <1>1, <1>2, FolderGoes DEF DeleteFolder

LEMMA CalmEmptyTrash ==
  ASSUME CalmInv, EmptyTrash
  PROVE  RowsFit' /\ \E j \in JobIds : Working(j)'
  <1>1. Resting
    BY BeginsAtRest DEF EmptyTrash
  <1>2. /\ Trashed \subseteq Within(Trash) /\ Home \notin Trashed /\ Trash \notin Trashed
        /\ Trash \in Dirs
    BY DirsAssumption DEF Within
  <1>. QED
    BY <1>1, <1>2, FolderGoes DEF EmptyTrash

LEMMA CalmMoveFolder ==
  ASSUME CalmInv, NEW a \in Dirs, NEW b \in Dirs, MoveFolder(a, b)
  PROVE  RowsFit' /\ \E j \in JobIds : Working(j)'
  <1>1. Resting
    BY BeginsAtRest DEF MoveFolder
  <1>. DEFINE payload == [type |-> "move_prefix", dir |-> a, toDir |-> b]
  <1>2. /\ payload \in Payload /\ payload.type = "move_prefix"
        /\ payload.dir = a /\ payload.toDir = b
    BY DEF Payload, MovePrefixPayload
  <1>3. /\ a \in dirs /\ a # Home /\ a # Trash /\ b \notin dirs /\ dirs' = (dirs \ {a}) \cup {b}
        /\ file' = [u \in Uploads |-> IF u \in FilesWithin(a) THEN InDir(file[u], b) ELSE file[u]]
        /\ Defer(payload) /\ UNCHANGED <<blob, object, storageDirs, stage, req, running>>
    BY DEF MoveFolder, storage, client
  <1>. HIDE DEF payload
  <1>4. \A u \in Uploads : u \in FilesWithin(a) <=> file[u] # None /\ DirOf(file[u]) = a
    BY <1>3 DEF FilesWithin, Within
  <1>5. /\ NoWork /\ blob = file /\ Stored(file, {})
        /\ (\A v \in Uploads : stage'[v] = "idle") /\ \A c \in Clients : req'[c] = None
    BY <1>1, <1>3 DEF Resting, Quiet
  <1>6. ASSUME NEW u \in Uploads, file'[u] # None
        PROVE  /\ file[u] # None /\ file[u] \in Path
               /\ DirOf(file[u]) = a => file'[u] = InDir(file[u], b) /\ DirOf(file'[u]) = b
               /\ DirOf(file[u]) # a => file'[u] = file[u]
               /\ DirOf(file[u]) \in dirs
    BY <1>3, <1>4, <1>6, CalmParts, PathNames DEF RowsFit
  <1>7. RowsFit'
    <2>1. {Home, Trash} \subseteq dirs'
      BY <1>3, CalmParts DEF RowsFit
    <2>2. \A u \in Uploads : file'[u] # None => DirOf(file'[u]) \in dirs'
      BY <1>3, <1>6
    <2>3. ASSUME NEW u \in Uploads, NEW v \in Uploads, file'[u] # None, file'[u] = file'[v]
          PROVE  u = v
      <3>1. DirOf(file[u]) = a <=> DirOf(file[v]) = a
        BY <1>3, <1>6, <2>3
      <3>2. CASE DirOf(file[u]) = a
        <4>1. InDir(file[u], b) = InDir(file[v], b)
          BY <1>6, <2>3, <3>1, <3>2
        <4>2. file[u] = file[v]
          BY <1>6, <2>3, <3>1, <3>2, <4>1, PathNames
        <4>. QED
          BY <1>6, <2>3, <4>2, CalmParts DEF RowsFit
      <3>3. CASE DirOf(file[u]) # a
        BY <1>6, <2>3, <3>1, <3>3, CalmParts DEF RowsFit
      <3>. QED
        BY <3>2, <3>3
    <2>. QED
      BY <2>1, <2>2, <2>3 DEF RowsFit
  <1>8. BlobsAfter(payload) = file'
    BY <1>2, <1>3, <1>4, <1>5 DEF BlobsAfter
  <1>9. JobFits(payload)'
    BY <1>2, <1>3, <1>5, CalmParts DEF JobFits, RowsFit
  <1>10. dirs \subseteq dirs' \cup Leaving(payload) /\ payload.toDir \notin dirs
    BY <1>2, <1>3 DEF Leaving
  <1>. QED
    BY <1>2, <1>3, <1>5, <1>7, <1>8, <1>9, <1>10, Deferred

-----------------------------------------------------------------------------
(* The worker                                                              *)

\* The fields of a payload, by its type.
LEMMA PayloadFields ==
  ASSUME NEW job \in Payload
  PROVE  /\ job.type \in {"delete", "delete_prefix", "move", "move_prefix"}
         /\ job.type = "delete" => job.blob \in Uploads /\ job.key \in Path
         /\ job.type = "delete_prefix" => job.dir \in Dirs
         /\ job.type = "move" => job.blob \in Uploads /\ job.at \in Path /\ job.to \in Path
         /\ job.type = "move_prefix" => job.dir \in Dirs /\ job.toDir \in Dirs
  <1>1. CASE job \in DeletePayload
    BY <1>1 DEF DeletePayload
  <1>2. CASE job \in DeletePrefixPayload
    BY <1>2 DEF DeletePrefixPayload
  <1>3. CASE job \in MovePayload
    BY <1>3 DEF MovePayload
  <1>4. CASE job \in MovePrefixPayload
    BY <1>4 DEF MovePrefixPayload
  <1>. QED
    BY <1>1, <1>2, <1>3, <1>4 DEF Payload

\* The files, from the blobs, while a job is with the worker.
LEMMA FilesOfBlobs ==
  ASSUME CalmInv, NEW j \in JobIds, Working(j), NEW job, job = jobs[j], NEW v \in Uploads
  PROVE  /\ job \in Payload
         /\ job.type = "delete" => file[v] = IF v = job.blob THEN None ELSE blob[v]
         /\ job.type = "delete_prefix" =>
              file[v] = IF blob[v] # None /\ DirOf(blob[v]) \in Within(job.dir) THEN None ELSE blob[v]
         /\ job.type = "move" => file[v] = IF v = job.blob THEN job.to ELSE blob[v]
         /\ job.type = "move_prefix" =>
              file[v] = IF blob[v] # None /\ DirOf(blob[v]) = job.dir
                        THEN InDir(blob[v], job.toDir) ELSE blob[v]
  <1>1. job \in Payload /\ BlobsAfter(job) = file /\ JobFits(job)
    BY CalmParts DEF Working
  <1>2. BlobsAfter(job)[v] = file[v]
    BY <1>1
  <1>3. job.type = "move" => blob[job.blob] # None
    BY <1>1, PayloadFields, CalmParts DEF JobFits
  <1>. QED
    BY <1>1, <1>2, <1>3 DEF BlobsAfter, BlobsWithin

LEMMA StoreDelete ==
  ASSUME CalmInv, NEW j \in JobIds, Working(j), NEW job, job = jobs[j], job.type = "delete",
         StorageDelete(job.key), UNCHANGED <<dirs, file>>
  PROVE  Stored(file, {})'
  <1>1. job \in Payload /\ JobFits(job)
    BY FilesOfBlobs, CalmParts DEF Working
  <1>2. PICK u \in Uploads, k \in Path : u = job.blob /\ k = job.key
    BY <1>1, PayloadFields
  <1>3. /\ blob[u] = k /\ file[u] = None /\ \A v \in Uploads \ {u} : file[v] = blob[v]
        /\ \A v \in Uploads : blob[v] = k => v = u
    BY <1>1, <1>2, FilesOfBlobs, CalmParts DEF JobFits, Working
  <1>4. object' = [object EXCEPT ![k] = None] /\ UNCHANGED storageDirs
    BY <1>2 DEF StorageDelete
  <1>5. Stored(file, {}) \/ Stored(blob, {})
    BY DEF Working, Leaving
  <1>6. ASSUME NEW v \in Uploads, NEW p \in Path PROVE object'[p] = v <=> file[v] = p
    BY <1>3, <1>4, <1>5, CalmParts DEF Stored
  <1>7. storageDirs' \subseteq dirs' /\ (Backend # "filesystem" => storageDirs' = {})
    BY <1>4, <1>5 DEF Stored
  <1>8. Backend = "filesystem" => \A p \in Path : object'[p] # None => DirOf(p) \in storageDirs'
    BY <1>4, <1>5, CalmParts DEF Stored
  <1>. QED
    BY <1>6, <1>7, <1>8 DEF Stored

LEMMA StoreDeleteDir ==
  ASSUME CalmInv, NEW j \in JobIds, Working(j), NEW job, job = jobs[j], job.type = "delete_prefix",
         StorageDeleteDir(job.dir), UNCHANGED <<dirs, file>>
  PROVE  Stored(file, {})'
  <1>1. PICK d \in Dirs : d = job.dir
    BY FilesOfBlobs, PayloadFields, CalmParts DEF Working
  <1>2. \A v \in Uploads :
          file[v] = IF blob[v] # None /\ DirOf(blob[v]) \in Within(d) THEN None ELSE blob[v]
    BY <1>1, FilesOfBlobs
  <1>3. /\ object' = [p \in Path |-> IF DirOf(p) \in Within(d) THEN None ELSE object[p]]
        /\ storageDirs' = storageDirs \ Within(d)
    BY <1>1 DEF StorageDeleteDir
  <1>4. Stored(file, {}) \/ Stored(blob, Within(d))
    BY <1>1 DEF Working, Leaving
  <1>5. ASSUME NEW v \in Uploads, NEW p \in Path PROVE object'[p] = v <=> file[v] = p
    <2>1. CASE DirOf(p) \in Within(d)
      BY <1>2, <1>3, <2>1, CalmParts
    <2>2. CASE DirOf(p) \notin Within(d)
      BY <1>2, <1>3, <1>4, <2>2, CalmParts DEF Stored
    <2>. QED
      BY <2>1, <2>2
  <1>6. storageDirs' \subseteq dirs' /\ (Backend # "filesystem" => storageDirs' = {})
    BY <1>3, <1>4 DEF Stored
  <1>7. Backend = "filesystem" => \A p \in Path : object'[p] # None => DirOf(p) \in storageDirs'
    BY <1>3, <1>4 DEF Stored
  <1>. QED
    BY <1>5, <1>6, <1>7 DEF Stored

LEMMA StoreMove ==
  ASSUME CalmInv, NEW j \in JobIds, Working(j), j \in queue, NEW job, job = jobs[j],
         job.type = "move"
  PROVE  /\ object[job.at] # None
         /\ StorageMove(job.at, job.to) /\ UNCHANGED <<dirs, file>> => Stored(file, {})'
  <1>1. job \in Payload /\ JobFits(job) /\ Stored(blob, {})
    BY FilesOfBlobs, CalmParts DEF Working, Leaving
  <1>2. PICK u \in Uploads, k \in Path, q \in Path : u = job.blob /\ k = job.at /\ q = job.to
    BY <1>1, PayloadFields
  <1>3. /\ blob[u] = k /\ k # q /\ file[u] = q /\ \A v \in Uploads \ {u} : file[v] = blob[v]
    BY <1>1, <1>2, FilesOfBlobs DEF JobFits
  <1>4. /\ \A v \in Uploads : blob[v] = k => v = u
        /\ \A v \in Uploads : file[v] = q => v = u
        /\ DirOf(q) \in dirs
    BY <1>3, CalmParts DEF Working, RowsFit
  <1>5. object[k] = u
    BY <1>1, <1>3 DEF Stored
  <1>6. ASSUME StorageMove(k, q), UNCHANGED <<dirs, file>> PROVE Stored(file, {})'
    <2>1. /\ object'[k] = None /\ object'[q] = u
          /\ \A p \in Path \ {k, q} : object'[p] = object[p]
      BY <1>3, <1>5, <1>6, CalmParts DEF StorageMove
    <2>2. MakeDirs(DirOf(q))
      BY <1>6 DEF StorageMove
    <2>3. ASSUME NEW v \in Uploads, NEW p \in Path PROVE object'[p] = v <=> file[v] = p
      <3>1. CASE p = q
        BY <1>3, <1>4, <2>1, <3>1
      <3>2. CASE p = k
        BY <1>3, <1>4, <2>1, <3>2, CalmParts
      <3>3. CASE p # q /\ p # k
        BY <1>1, <1>3, <2>1, <3>3 DEF Stored
      <3>. QED
        BY <3>1, <3>2, <3>3
    <2>4. storageDirs' \subseteq dirs' /\ (Backend # "filesystem" => storageDirs' = {})
      BY <1>1, <1>4, <1>6, <2>2 DEF Stored, MakeDirs
    <2>5. Backend = "filesystem" => \A p \in Path : object'[p] # None => DirOf(p) \in storageDirs'
      BY <1>1, <2>1, <2>2 DEF Stored, MakeDirs
    <2>. QED
      BY <1>6, <2>3, <2>4, <2>5 DEF Stored
  <1>. QED
    BY <1>2, <1>5, <1>6, CalmParts

LEMMA StoreMoveDir ==
  ASSUME CalmInv, NEW j \in JobIds, Working(j), j \in queue, NEW job, job = jobs[j],
         job.type = "move_prefix", StorageMoveDir(job.dir, job.toDir), UNCHANGED <<dirs, file>>
  PROVE  Stored(file, {})'
  <1>1. job \in Payload /\ JobFits(job)
    BY FilesOfBlobs, CalmParts DEF Working
  <1>2. PICK a \in Dirs, b \in Dirs : a = job.dir /\ b = job.toDir
    BY <1>1, PayloadFields
  <1>3. /\ a \notin dirs /\ b \in dirs /\ a # b
        /\ \A v \in Uploads : blob[v] # None => DirOf(blob[v]) # b
        /\ \A v \in Uploads : file[v] = IF blob[v] # None /\ DirOf(blob[v]) = a
                                        THEN InDir(blob[v], b) ELSE blob[v]
    BY <1>1, <1>2, FilesOfBlobs DEF JobFits
  <1>4. StorageMoveDir(a, b)
    BY <1>2
  <1>5. \/ Stored(file, {})
        \/ Stored(blob, {a}) /\ b \notin storageDirs
    BY <1>2 DEF Working, Leaving
  <1>6. \A p \in Path : InDir(p, a) \in Path /\ DirOf(InDir(p, a)) = a /\ InDir(InDir(p, a), b) = InDir(p, b)
    BY PathNames
  <1>a. \A p \in Path : InDir(p, b) \in Path /\ DirOf(InDir(p, b)) = b /\ InDir(InDir(p, b), a) = InDir(p, a)
    BY PathNames
  <1>b. \A p \in Path : InDir(p, DirOf(p)) = p
    BY PathNames
  <1>7. CASE Backend = "filesystem" /\ a \notin storageDirs
    <2>1. UNCHANGED <<object, storageDirs>>
      BY <1>4, <1>7 DEF StorageMoveDir, storage
    <2>2. CASE Stored(file, {})
      BY <2>1, <2>2 DEF Stored
    <2>3. CASE Stored(blob, {a})
      <3>1. \A v \in Uploads : blob[v] # None => DirOf(blob[v]) # a
        BY <1>7, <2>3, CalmParts DEF Stored
      <3>2. \A v \in Uploads : file[v] = blob[v]
        BY <1>3, <3>1
      <3>. QED
        BY <1>7, <2>1, <2>3, <3>2 DEF Stored
    <2>. QED
      BY <1>5, <2>2, <2>3
  <1>8. CASE ~(Backend = "filesystem" /\ a \notin storageDirs)
    <2>1. /\ object' = [p \in Path |->
                          IF /\ DirOf(p) = b /\ object[InDir(p, a)] # None
                             /\ ~(Backend = "filesystem" /\ b \in storageDirs)
                          THEN object[InDir(p, a)]
                          ELSE IF DirOf(p) = a THEN None ELSE object[p]]
          /\ storageDirs' = IF Backend = "filesystem"
                            THEN (storageDirs \ {a}) \cup {b} ELSE storageDirs
      BY <1>4, <1>8 DEF StorageMoveDir
    <2>2. CASE Stored(file, {})
      <3>1. Backend # "filesystem" /\ a \notin storageDirs
        BY <1>3, <1>8, <2>2 DEF Stored
      <3>2. \A p \in Path : DirOf(p) = a => object[p] = None
        <4>1. \A v \in Uploads : file[v] # None => DirOf(file[v]) # a
          BY <1>3, CalmParts DEF RowsFit
        <4>. QED
          BY <2>2, <4>1, CalmParts DEF Stored
      <3>3. \A p \in Path : object'[p] = object[p]
        BY <1>3, <1>6, <2>1, <3>2
      <3>. QED
        BY <2>1, <2>2, <3>1, <3>3 DEF Stored
    <2>3. CASE Stored(blob, {a}) /\ b \notin storageDirs
      <3>1. \A p \in Path : DirOf(p) = b => object[p] = None
        BY <1>3, <2>3, CalmParts DEF Stored
      <3>2. \A p \in Path :
              object'[p] = IF DirOf(p) = b THEN object[InDir(p, a)]
                           ELSE IF DirOf(p) = a THEN None ELSE object[p]
        BY <1>3, <2>1, <2>3, <3>1
      <3>3. ASSUME NEW v \in Uploads, NEW p \in Path PROVE object'[p] = v <=> file[v] = p
        <4>0. blob[v] \in Path \cup {None} /\ v # None /\ p # None
          BY CalmParts
        <4>1. CASE DirOf(p) = b
          <5>1. object'[p] = v <=> blob[v] = InDir(p, a)
            BY <1>6, <2>3, <3>2, <4>1 DEF Stored
          <5>2. blob[v] = InDir(p, a) => file[v] = p
            <6>. SUFFICES ASSUME blob[v] = InDir(p, a) PROVE file[v] = p
              OBVIOUS
            <6>1. blob[v] # None /\ DirOf(blob[v]) = a
              BY <1>6, CalmParts
            <6>2. file[v] = InDir(p, b)
              BY <1>3, <1>6, <6>1
            <6>. QED
              BY <1>b, <4>1, <6>2
          <5>3. ASSUME file[v] = p PROVE blob[v] = InDir(p, a)
            <6>1. blob[v] # None /\ DirOf(blob[v]) = a /\ blob[v] \in Path
              BY <1>3, <4>0, <4>1, <5>3
            <6>2. p = InDir(blob[v], b)
              BY <1>3, <5>3, <6>1
            <6>3. InDir(p, a) = InDir(blob[v], a)
              BY <1>a, <6>1, <6>2
            <6>. QED
              BY <1>b, <6>1, <6>3
          <5>. QED
            BY <5>1, <5>2, <5>3
        <4>2. CASE DirOf(p) = a
          <5>1. object'[p] # v
            BY <1>3, <3>2, <4>0, <4>2
          <5>2. file[v] # p
            BY <1>3, <1>a, <4>0, <4>2
          <5>. QED
            BY <5>1, <5>2
        <4>3. CASE DirOf(p) # a /\ DirOf(p) # b
          <5>1. object'[p] = v <=> blob[v] = p
            BY <2>3, <3>2, <4>3 DEF Stored
          <5>2. file[v] = p <=> blob[v] = p
            BY <1>3, <1>a, <4>0, <4>3
          <5>. QED
            BY <5>1, <5>2
        <4>. QED
          BY <4>1, <4>2, <4>3
      <3>4. storageDirs' \subseteq dirs' /\ (Backend # "filesystem" => storageDirs' = {})
        <4>1. CASE Backend = "filesystem"
          BY <1>3, <2>1, <2>3, <4>1 DEF Stored
        <4>2. CASE Backend # "filesystem"
          BY <1>3, <2>1, <2>3, <4>2 DEF Stored
        <4>. QED
          BY <4>1, <4>2
      <3>5. Backend = "filesystem" => \A p \in Path : object'[p] # None => DirOf(p) \in storageDirs'
        BY <1>3, <2>1, <2>3, <3>2 DEF Stored
      <3>. QED
        BY <3>3, <3>4, <3>5 DEF Stored
    <2>. QED
      BY <1>5, <2>2, <2>3
  <1>. QED
    BY <1>7, <1>8

\* The storage half of the job puts the objects where the files are.
LEMMA CalmWorkerStore ==
  ASSUME CalmInv, NEW j \in JobIds, WorkerStore(j)
  PROVE  RowsFit' /\ Working(j)'
  <1>1. Working(j) /\ j \in queue
    BY Alone DEF WorkerStore
  <1>2. PICK job \in Payload : job = jobs[j]
    BY CalmParts DEF WorkerStore
  <1>3. /\ job.type = "delete" => StorageDelete(job.key)
        /\ job.type = "delete_prefix" => StorageDeleteDir(job.dir)
        /\ job.type = "move" => StorageMove(job.at, job.to)
        /\ job.type = "move_prefix" => StorageMoveDir(job.dir, job.toDir)
    BY <1>2 DEF WorkerStore
  <1>4. /\ queue' = queue \ {j} /\ running' = running \cup {j}
        /\ UNCHANGED <<dirs, file, blob, jobs, stage, req>>
    BY DEF WorkerStore, db, client
  <1>5. Stored(file, {})'
    <2>1. CASE job.type = "delete"
      BY <1>1, <1>2, <1>3, <1>4, <2>1, StoreDelete
    <2>2. CASE job.type = "delete_prefix"
      BY <1>1, <1>2, <1>3, <1>4, <2>2, StoreDeleteDir
    <2>3. CASE job.type = "move"
      BY <1>1, <1>2, <1>3, <1>4, <2>3, StoreMove
    <2>4. CASE job.type = "move_prefix"
      BY <1>1, <1>2, <1>3, <1>4, <2>4, StoreMoveDir
    <2>. QED
      BY <2>1, <2>2, <2>3, <2>4, PayloadFields
  <1>6. RowsFit'
    BY <1>4, CalmParts DEF RowsFit
  <1>7. queue' = {} /\ running' = {j}
    BY <1>1, <1>4 DEF Working
  <1>8. BlobsAfter(jobs[j])' = file' /\ JobFits(jobs[j])'
    <2>1. \A d : BlobsWithin(d)' = BlobsWithin(d)
      BY <1>4 DEF BlobsWithin
    <2>2. BlobsAfter(jobs[j])' = BlobsAfter(jobs[j])
      BY <1>4, <2>1 DEF BlobsAfter
    <2>3. JobFits(jobs[j])' = JobFits(jobs[j])
      BY <1>4 DEF JobFits
    <2>. QED
      BY <1>1, <1>4, <2>2, <2>3 DEF Working
  <1>9. /\ Quiet' /\ jobs'[j] # None /\ \A i \in JobIds \ {j} : jobs'[i] = None
        /\ \A u, v \in Uploads : blob'[u] # None /\ blob'[u] = blob'[v] => u = v
    BY <1>1, <1>4 DEF Working, Quiet
  <1>. QED
    BY <1>5, <1>6, <1>7, <1>8, <1>9 DEF Working

\* A message of the calm environments has its row, and the object to be moved is there.
LEMMA CalmWorkerGoesOn ==
  ASSUME CalmInv, NEW j \in JobIds
  PROVE  ~WorkerSkip(j) /\ ~WorkerFail(j)
  <1>1. ASSUME j \in queue PROVE jobs[j] # None /\ ~MoveSourceMissing(jobs[j])
    <2>1. Working(j)
      BY <1>1, Alone
    <2>. QED
      BY <1>1, <2>1, StoreMove DEF Working, MoveSourceMissing
  <1>. QED
    BY <1>1 DEF WorkerSkip, WorkerFail

\* The database half makes the table of blobs that of the files, and is not refused.
LEMMA CalmWorkerSave ==
  ASSUME CalmInv, NEW j \in JobIds, WorkerSave(j)
  PROVE  RowsFit' /\ Resting'
  <1>1. Working(j) /\ j \in running /\ j \notin queue
    BY Alone DEF WorkerSave, Working
  <1>2. BlobsAfter(jobs[j]) = file /\ RowsAccepted(file)
    BY <1>1, CalmParts DEF Working, RowsAccepted, RowsFit
  <1>3. /\ blob' = file /\ jobs' = [jobs EXCEPT ![j] = None] /\ running' = running \ {j}
        /\ UNCHANGED <<dirs, file, object, storageDirs, stage, req, queue>>
    BY <1>2 DEF WorkerSave, storage, client
  <1>4. NoWork'
    BY <1>1, <1>3, CalmParts DEF Working, NoWork, Settled
  <1>5. Stored(file, {})'
    BY <1>1, <1>3 DEF Working, Stored
  <1>6. RowsFit'
    BY <1>3, CalmParts DEF RowsFit
  <1>7. Quiet' /\ blob' = file'
    BY <1>1, <1>3 DEF Working, Quiet
  <1>. QED
    BY <1>4, <1>5, <1>6, <1>7 DEF Resting

\* A job whose worker died may be done again.
LEMMA CalmWorkerCrash ==
  ASSUME CalmInv, NEW j \in JobIds, WorkerCrash(j)
  PROVE  RowsFit' /\ Working(j)'
  <1>1. Working(j) /\ j \in running /\ j \notin queue
    BY Alone DEF WorkerCrash, Working
  <1>2. jobs[j].type # "move"
    BY CalmParts DEF WorkerCrash, Crash, Calm
  <1>3. /\ queue' = {j} /\ running' = {}
        /\ UNCHANGED <<dirs, file, blob, jobs, object, storageDirs, stage, req>>
    BY <1>1 DEF WorkerCrash, Working, db, storage, client
  <1>4. Stored(file, {})'
    BY <1>1, <1>3 DEF Working, Stored
  <1>5. BlobsAfter(jobs[j])' = file' /\ JobFits(jobs[j])'
    <2>1. \A d : BlobsWithin(d)' = BlobsWithin(d)
      BY <1>3 DEF BlobsWithin
    <2>2. BlobsAfter(jobs[j])' = BlobsAfter(jobs[j])
      BY <1>3, <2>1 DEF BlobsAfter
    <2>3. JobFits(jobs[j])' = JobFits(jobs[j])
      BY <1>3 DEF JobFits
    <2>. QED
      BY <1>1, <1>3, <2>2, <2>3 DEF Working
  <1>6. /\ Quiet' /\ jobs'[j] # None /\ \A i \in JobIds \ {j} : jobs'[i] = None
        /\ \A u, v \in Uploads : blob'[u] # None /\ blob'[u] = blob'[v] => u = v
    BY <1>1, <1>3 DEF Working, Quiet
  <1>7. RowsFit'
    BY <1>3, CalmParts DEF RowsFit
  <1>. QED
    BY <1>2, <1>3, <1>4, <1>5, <1>6, <1>7 DEF Working

-----------------------------------------------------------------------------
(* The invariant of the calm environments                                  *)

LEMMA InitCalm == Calm /\ Init => CalmInv
  <1>. SUFFICES ASSUME Calm, Init PROVE CalmInv
    OBVIOUS
  <1>1. IInv
    BY InitIInv
  <1>2. RowsFit
    BY DEF Init, RowsFit
  <1>3. Quiet /\ NoWork /\ blob = file
    BY DEF Init, Quiet, NoWork, Settled
  <1>4. Stored(file, {})
    BY NoneFacts DEF Init, Stored
  <1>. QED
    BY <1>1, <1>2, <1>3, <1>4 DEF CalmInv, Resting

\* No API process dies in a calm environment.
LEMMA CalmNoApiCrash ==
  ASSUME CalmInv
  PROVE  /\ \A u \in Uploads : ~UploadCrash(u)
         /\ \A c \in Clients : ~RequestCrash(c)
  BY CalmParts DEF UploadCrash, RequestCrash, Crash, Calm

LEMMA CalmStep ==
  ASSUME CalmInv, [Next]_vars
  PROVE  CalmInv'
  <1>. DEFINE Phases == \/ Resting
                        \/ \E u \in Uploads : Uploading(u)
                        \/ \E c \in Clients : Requesting(c)
                        \/ \E j \in JobIds : Working(j)
  <1>0. IInv /\ Calm'
    BY DEF CalmInv, Calm
  <1>1. IInv'
    <2>1. CASE Next
      BY <1>0, <2>1, UploadStep, FileRequestStep, FolderRequestStep, WorkStep DEF Next
    <2>2. CASE UNCHANGED vars
      BY <1>0, <2>2
      DEF vars, db, storage, client, worker, IInv, TypeOK, RunningHasRow,
          UploadHasTarget, FileHasBlob, RequestsAreLate, DeleteJobsAreSafe
    <2>. QED
      BY <2>1, <2>2
  <1>2. ASSUME NEW u \in Uploads, Upload(u) PROVE RowsFit' /\ Phases'
    <2>. HIDE DEF Phases
    <2>1. RowsFit' /\ (Uploading(u)' \/ Resting')
      BY <1>2, CalmNoApiCrash, CalmUploadName, CalmUploadStore, CalmUploadSaveBlob, CalmUploadSaveFile
      DEF Upload
    <2>. QED
      BY <2>1 DEF Phases
  <1>3. ASSUME NEW c \in Clients, FileRequest(c) PROVE RowsFit' /\ Phases'
    <2>. HIDE DEF Phases
    <2>1. RowsFit' /\ (Requesting(c)' \/ Resting' \/ \E j \in JobIds : Working(j)')
      BY <1>3, CalmNoApiCrash, CalmDeleteRead, CalmMoveRead, CalmDeleteSave, CalmMoveSave
      DEF FileRequest
    <2>. QED
      BY <2>1 DEF Phases
  <1>4. ASSUME FolderRequest PROVE RowsFit' /\ Phases'
    <2>. HIDE DEF Phases
    <2>1. RowsFit' /\ (Resting' \/ \E j \in JobIds : Working(j)')
      BY <1>4, CalmCreateFolder, CalmDeleteFolder, CalmMoveFolder, CalmEmptyTrash
      DEF FolderRequest
    <2>. QED
      BY <2>1 DEF Phases
  <1>5. ASSUME NEW j \in JobIds, Work(j) PROVE RowsFit' /\ Phases'
    <2>. HIDE DEF Phases
    <2>1. RowsFit' /\ (Resting' \/ Working(j)')
      BY <1>5, CalmWorkerGoesOn, CalmWorkerStore, CalmWorkerSave, CalmWorkerCrash
      DEF Work
    <2>. QED
      BY <2>1 DEF Phases
  <1>6. ASSUME UNCHANGED vars PROVE RowsFit' /\ Phases'
    <2>1. UNCHANGED <<dirs, file, blob, jobs, object, storageDirs, stage, target, req, queue, running>>
      BY <1>6 DEF vars, db, storage, client, worker
    <2>2. RowsFit' = RowsFit
      BY <2>1 DEF RowsFit
    <2>3. \A d : BlobsWithin(d)' = BlobsWithin(d)
      BY <2>1 DEF BlobsWithin
    <2>4. \A j \in JobIds : BlobsAfter(jobs[j])' = BlobsAfter(jobs[j])
      BY <2>1, <2>3 DEF BlobsAfter
    <2>5. Resting' = Resting
      BY <2>1 DEF Resting, Quiet, NoWork, Settled, Stored
    <2>6. \A u \in Uploads : Uploading(u)' = Uploading(u)
      BY <2>1 DEF Uploading, NoWork, Settled, Stored, Taken, WithRow
    <2>7. \A c \in Clients : Requesting(c)' = Requesting(c)
      BY <2>1 DEF Requesting, NoWork, Settled, Stored, Taken
    <2>8. \A j \in JobIds : Working(j)' = Working(j)
      BY <2>1, <2>4 DEF Working, Quiet, JobFits, Leaving, Stored
    <2>. QED
      BY <2>2, <2>5, <2>6, <2>7, <2>8 DEF CalmInv
  <1>. HIDE DEF Phases
  <1>7. RowsFit' /\ Phases'
    BY <1>2, <1>3, <1>4, <1>5, <1>6 DEF Next
  <1>. QED
    BY <1>0, <1>1, <1>7 DEF CalmInv, Phases

\* The calm environments keep their invariant.
THEOREM CalmInvariance == Calm /\ Spec => []CalmInv
  <1>1. CalmInv /\ [Next]_vars => CalmInv'
    BY CalmStep
  <1>. QED
    BY InitCalm, <1>1, PTL DEF Spec

\* The object of a file is under one of the keys of its content.
LEMMA ContentFound ==
  ASSUME CalmInv, NEW u \in Uploads, file[u] # None
  PROVE  \E k \in KeysOf(u) \cap Path : object[k] = u
  <1>1. file[u] \in Path /\ blob[u] \in Path /\ blob[u] # None
    BY CalmParts DEF FileHasBlob
  <1>2. blob[u] \in KeysOf(u)
    BY DEF KeysOf
  <1>3. CASE Resting \/ \E c \in Clients : Requesting(c)
    BY <1>1, <1>2, <1>3 DEF Resting, Requesting, Stored
  <1>4. ASSUME NEW v \in Uploads, Uploading(v) PROVE object[blob[u]] = u
    <2>1. v # u
      BY <1>4 DEF Uploading
    <2>2. WithRow(v)[u] = file[u]
      BY <2>1, CalmParts DEF WithRow
    <2>3. blob[u] = file[u]
      BY <1>4, <2>2 DEF Uploading
    <2>4. Stored(file, {}) \/ Stored(WithRow(v), {})
      BY <1>4 DEF Uploading
    <2>. HIDE DEF WithRow
    <2>. QED
      BY <1>1, <2>2, <2>3, <2>4 DEF Stored
  <1>5. ASSUME NEW j \in JobIds, Working(j), Stored(file, {})
        PROVE  file[u] \in KeysOf(u) /\ object[file[u]] = u
    <2>1. object[file[u]] = u
      BY <1>1, <1>5 DEF Stored
    <2>2. j \in queue \cup running /\ jobs[j] # None
      BY <1>5 DEF Working
    <2>3. PICK job \in Payload : job = jobs[j]
      BY <2>2, CalmParts
    <2>4. CASE job.type \in {"delete", "delete_prefix"}
      <3>1. file[u] = blob[u]
        BY <1>5, <2>3, <2>4, FilesOfBlobs
      <3>. QED
        BY <1>2, <2>1, <3>1
    <2>5. CASE job.type = "move"
      <3>1. CASE u = job.blob
        <4>1. file[u] = job.to
          BY <1>5, <2>3, <2>5, <3>1, FilesOfBlobs
        <4>. QED
          BY <1>1, <2>1, <2>2, <2>3, <2>5, <3>1, <4>1 DEF KeysOf
      <3>2. CASE u # job.blob
        <4>1. file[u] = blob[u]
          BY <1>5, <2>3, <2>5, <3>2, FilesOfBlobs
        <4>. QED
          BY <1>2, <2>1, <4>1
      <3>. QED
        BY <3>1, <3>2
    <2>6. CASE job.type = "move_prefix"
      <3>1. CASE DirOf(blob[u]) = job.dir
        <4>1. file[u] = InDir(blob[u], job.toDir)
          BY <1>1, <1>5, <2>3, <2>6, <3>1, FilesOfBlobs
        <4>. QED
          BY <1>1, <2>1, <2>2, <2>3, <2>6, <3>1, <4>1 DEF KeysOf
      <3>2. CASE DirOf(blob[u]) # job.dir
        <4>1. file[u] = blob[u]
          BY <1>5, <2>3, <2>6, <3>2, FilesOfBlobs
        <4>. QED
          BY <1>2, <2>1, <4>1
      <3>. QED
        BY <3>1, <3>2
    <2>. QED
      BY <2>4, <2>5, <2>6, PayloadFields
  <1>6. ASSUME NEW j \in JobIds, Working(j), ~Stored(file, {}) PROVE object[blob[u]] = u
    BY <1>1, <1>6 DEF Working, Stored
  <1>. QED
    BY <1>1, <1>2, <1>3, <1>4, <1>5, <1>6 DEF CalmInv

\* In a calm environment every file keeps its content, through each step of the uploads
\* and of the jobs of others, and of its own move (BlobService.process_blob_jobs).
THEOREM ContentStaysIntact == Calm /\ Spec => []ContentIntact
  <1>1. CalmInv => ContentIntact
    BY ContentFound DEF ContentIntact
  <1>. QED
    BY CalmInvariance, <1>1, PTL

\* In a calm environment, once the worker is idle the storage is the image of the files
\* table: no job is left over, no blob and no object is.
THEOREM StorageMirrors == Calm /\ Spec => []StorageMirrorsFiles
  <1>1. CalmInv => StorageMirrorsFiles
    <2>. SUFFICES ASSUME CalmInv, AtRest PROVE Resting
      BY DEF StorageMirrorsFiles, Resting, NoWork, Stored
    <2>. QED
      BY DEF CalmInv, AtRest, Quiet, Settled, Uploading, Requesting, Working
  <1>. QED
    BY CalmInvariance, <1>1, PTL

-----------------------------------------------------------------------------
(* The calm environments implement UserFiles                               *)

\* What users see is the content of the file whose row has the path.
SeenFits ==
    \A p \in Path : /\ \A u \in Uploads : file[u] = p => Seen(p) = u
                    /\ (\A u \in Uploads : file[u] # p) => Seen(p) = None

LEMMA SeesFiles == CalmInv => SeenFits
  <1>. SUFFICES ASSUME CalmInv, NEW p \in Path
                PROVE  /\ \A u \in Uploads : file[u] = p => Seen(p) = u
                       /\ (\A u \in Uploads : file[u] # p) => Seen(p) = None
    BY DEF SeenFits
  <1>1. ASSUME NEW u \in Uploads, file[u] = p PROVE Seen(p) = u
    <2>1. (CHOOSE v \in Uploads : file[v] = p) = u
      BY <1>1, CalmParts DEF RowsFit
    <2>2. \E k \in KeysOf(u) \cap Path : object[k] = u
      BY <1>1, CalmParts, ContentFound
    <2>. QED
      BY <1>1, <2>1, <2>2 DEF Seen
  <1>. QED
    BY <1>1 DEF Seen

\* A step that leaves the files table alone does not show.
LEMMA NotSeen ==
  ASSUME CalmInv, SeenFits, SeenFits', file' = file
  PROVE  \A p \in Path : Seen(p)' = Seen(p)
  BY DEF SeenFits

LEMMA SeenPut ==
  ASSUME CalmInv, SeenFits, SeenFits', NEW u \in Uploads, NEW p \in Path,
         file[u] = None, \A v \in Uploads : file[v] # p, file' = [file EXCEPT ![u] = p]
  PROVE  Abstract!Put(p, u)
  <1>1. file'[u] = p /\ \A v \in Uploads \ {u} : file'[v] = file[v]
    BY CalmParts
  <1>2. Seen(p) = None /\ Seen(p)' = u
    BY <1>1 DEF SeenFits
  <1>3. \A q \in Path \ {p} : Seen(q)' = Seen(q)
    BY <1>1, CalmParts DEF SeenFits
  <1>. QED
    BY <1>2, <1>3 DEF Abstract!Put

LEMMA SeenRemove ==
  ASSUME CalmInv, SeenFits, SeenFits', NEW u \in Uploads, NEW p \in Path,
         file[u] = p, file' = [file EXCEPT ![u] = None]
  PROVE  Abstract!Remove(p)
  <1>1. file'[u] = None /\ \A v \in Uploads \ {u} : file'[v] = file[v] /\ file[v] # p
    BY CalmParts DEF RowsFit
  <1>2. Seen(p) = u /\ u # None /\ Seen(p)' = None
    BY <1>1, CalmParts DEF SeenFits
  <1>3. \A q \in Path \ {p} : Seen(q)' = Seen(q)
    BY <1>1, CalmParts DEF SeenFits
  <1>. QED
    BY <1>2, <1>3 DEF Abstract!Remove

LEMMA SeenRename ==
  ASSUME CalmInv, SeenFits, SeenFits', NEW u \in Uploads, NEW p \in Path, NEW q \in Path,
         file[u] = p, \A v \in Uploads : file[v] # q, file' = [file EXCEPT ![u] = q]
  PROVE  Abstract!Rename(p, q)
  <1>1. file'[u] = q /\ \A v \in Uploads \ {u} : file'[v] = file[v] /\ file[v] # p
    BY CalmParts DEF RowsFit
  <1>2. Seen(p) = u /\ u # None /\ Seen(q) = None /\ p # q /\ Seen(p)' = None /\ Seen(q)' = u
    BY <1>1, CalmParts DEF SeenFits
  <1>3. \A r \in Path \ {p, q} : Seen(r)' = Seen(r)
    BY <1>1, CalmParts DEF SeenFits
  <1>. QED
    BY <1>2, <1>3 DEF Abstract!Rename

LEMMA SeenRemoveDir ==
  ASSUME CalmInv, SeenFits, SeenFits', NEW d \in Dirs,
         file' = [u \in Uploads |-> IF u \in FilesWithin(d) THEN None ELSE file[u]]
  PROVE  Abstract!RemoveDir(d)
  <1>1. ASSUME NEW p \in Path, DirOf(p) \in Within(d) PROVE Seen(p)' = None
    <2>1. \A v \in Uploads : file'[v] # p
      BY <1>1, CalmParts DEF FilesWithin
    <2>. QED
      BY <2>1 DEF SeenFits
  <1>2. ASSUME NEW p \in Path, DirOf(p) \notin Within(d) PROVE Seen(p)' = Seen(p)
    <2>1. \A v \in Uploads : file'[v] = p <=> file[v] = p
      BY <1>2, CalmParts DEF FilesWithin
    <2>. QED
      BY <2>1 DEF SeenFits
  <1>. QED
    BY <1>1, <1>2 DEF Abstract!RemoveDir, Abstract!Below

LEMMA SeenRenameDir ==
  ASSUME CalmInv, SeenFits, SeenFits', NEW a \in Dirs, NEW b \in Dirs,
         a \in dirs, b \notin dirs, a # Trash,
         file' = [u \in Uploads |-> IF u \in FilesWithin(a) THEN InDir(file[u], b) ELSE file[u]]
  PROVE  Abstract!RenameDir(a, b)
  <1>1. \A u \in Uploads : file'[u] = IF file[u] # None /\ DirOf(file[u]) = a
                                      THEN InDir(file[u], b) ELSE file[u]
    BY DEF FilesWithin, Within
  <1>2. \A v \in Uploads : file[v] \in Path \cup {None} /\ (file[v] # None => DirOf(file[v]) # b)
    BY CalmParts DEF RowsFit
  <1>3. \A p \in Path : DirOf(p) = b => Seen(p) = None
    BY <1>2, CalmParts DEF SeenFits
  <1>4. ASSUME NEW p \in Path, DirOf(p) = b PROVE Seen(p)' = Seen(InDir(p, a))
    <2>1. InDir(p, a) \in Path /\ DirOf(InDir(p, a)) = a /\ InDir(InDir(p, a), b) = p
      BY <1>4, PathNames
    <2>2. ASSUME NEW v \in Uploads PROVE file'[v] = p <=> file[v] = InDir(p, a)
      <3>1. ASSUME file[v] = InDir(p, a) PROVE file'[v] = p
        BY <1>1, <2>1, <3>1, CalmParts
      <3>2. ASSUME file'[v] = p PROVE file[v] = InDir(p, a)
        <4>1. file[v] \in Path /\ DirOf(file[v]) = a /\ p = InDir(file[v], b)
          BY <1>1, <1>2, <1>4, <3>2, CalmParts
        <4>. QED
          BY <4>1, PathNames
      <3>. QED
        BY <3>1, <3>2
    <2>. QED
      BY <2>1, <2>2 DEF SeenFits
  <1>5. ASSUME NEW p \in Path, DirOf(p) = a PROVE Seen(p)' = None
    <2>1. \A v \in Uploads : file'[v] # p
      BY <1>1, <1>2, <1>5, PathNames, CalmParts
    <2>. QED
      BY <2>1 DEF SeenFits
  <1>6. ASSUME NEW p \in Path, DirOf(p) # a, DirOf(p) # b PROVE Seen(p)' = Seen(p)
    <2>1. \A v \in Uploads : file'[v] = p <=> file[v] = p
      BY <1>1, <1>2, <1>6, PathNames, CalmParts
    <2>. QED
      BY <2>1 DEF SeenFits
  <1>7. a # b /\ \A p \in Path : InDir(p, a) \in Path
    BY PathNames
  <1>. QED
    BY <1>3, <1>4, <1>5, <1>6, <1>7 DEF Abstract!RenameDir

\* Users see the end of an upload, the transactions of moves and deletions, and nothing
\* else: no step of the worker, no crash of it.
LEMMA StepSeen ==
  ASSUME CalmInv, SeenFits, SeenFits', [Next]_vars
  PROVE  Abstract!Next \/ file' = file
  <1>1. ASSUME NEW u \in Uploads, Upload(u), file' # file PROVE Abstract!Next
    <2>1. UploadSaveFile(u)
      BY <1>1 DEF Upload, UploadName, UploadStore, UploadSaveBlob, UploadCrash, db
    <2>2. Uploading(u) /\ target[u] \in Path
      BY <2>1, Alone, CalmParts DEF UploadSaveFile, UploadHasTarget
    <2>3. file[u] = None /\ (\A v \in Uploads : file[v] # target[u])
            /\ file' = [file EXCEPT ![u] = target[u]]
      BY <1>1, <2>1, <2>2 DEF Uploading, Taken, UploadSaveFile
    <2>4. Abstract!Put(target[u], u)
      BY <2>2, <2>3, SeenPut
    <2>. QED
      BY <2>2, <2>4 DEF Abstract!Next
  <1>2. ASSUME NEW c \in Clients, FileRequest(c), file' # file PROVE Abstract!Next
    <2>1. DeleteSave(c) \/ MoveSave(c)
      BY <1>2
      DEF FileRequest, DeleteRead, MoveItem, MoveItemToTrash, MoveRead, RequestCrash, db
    <2>2. Requesting(c) /\ req[c] \in Request
      BY <2>1, Alone, CalmParts DEF DeleteSave, MoveSave, TypeOK
    <2>3. PICK u \in Uploads : u = req[c].file
      BY <2>2 DEF Request
    <2>4. PICK p \in Path : p = file[u]
      BY <2>2, <2>3, CalmParts DEF Requesting
    <2>5. CASE DeleteSave(c)
      <3>1. file' = [file EXCEPT ![u] = None]
        BY <2>3, <2>5 DEF DeleteSave
      <3>2. Abstract!Remove(p)
        BY <2>4, <3>1, SeenRemove
      <3>. QED
        BY <3>2 DEF Abstract!Next
    <2>6. CASE MoveSave(c)
      <3>1. PICK q \in Path : q = req[c].to
        BY <2>2, <2>6 DEF MoveSave, Request
      <3>2. file' = [file EXCEPT ![u] = q] /\ \A v \in Uploads : file[v] # q
        BY <1>2, <2>2, <2>3, <2>6, <3>1 DEF MoveSave, Requesting, Taken
      <3>3. Abstract!Rename(p, q)
        BY <2>4, <3>2, SeenRename
      <3>. QED
        BY <3>3 DEF Abstract!Next
    <2>. QED
      BY <2>1, <2>5, <2>6
  <1>3. ASSUME FolderRequest, file' # file PROVE Abstract!Next
    <2>1. ASSUME NEW d \in Dirs, DeleteFolder(d) PROVE Abstract!Next
      <3>1. Abstract!RemoveDir(d)
        BY <2>1, SeenRemoveDir DEF DeleteFolder
      <3>. QED
        BY <3>1 DEF Abstract!Next
    <2>2. ASSUME EmptyTrash PROVE Abstract!Next
      <3>1. Trash \in Dirs
        BY DirsAssumption
      <3>2. Abstract!RemoveDir(Trash)
        BY <2>2, <3>1, SeenRemoveDir DEF EmptyTrash
      <3>. QED
        BY <3>1, <3>2 DEF Abstract!Next
    <2>3. ASSUME NEW a \in Dirs, NEW b \in Dirs, MoveFolder(a, b) PROVE Abstract!Next
      <3>1. Abstract!RenameDir(a, b)
        BY <2>3, SeenRenameDir DEF MoveFolder
      <3>. QED
        BY <3>1 DEF Abstract!Next
    <2>. QED
      BY <1>3, <2>1, <2>2, <2>3 DEF FolderRequest, CreateFolder
  <1>4. ASSUME NEW j \in JobIds, Work(j) PROVE file' = file
    BY <1>4 DEF Work, WorkerSkip, WorkerFail, WorkerStore, WorkerSave, WorkerCrash, db
  <1>. QED
    BY <1>1, <1>2, <1>3, <1>4 DEF Next, vars, db

\* In a calm environment users see each upload, move and deletion happen at one instant:
\* the rows, the objects and the jobs of FileBlobs implement the map of UserFiles.
THEOREM CalmImplements == Calm /\ Spec => ImplementsUserFiles
  <1>1. CalmInv /\ Init => Abstract!Init
    <2>. SUFFICES ASSUME CalmInv, Init PROVE \A p \in Path : Seen(p) = None
      BY DEF Abstract!Init
    <2>. QED
      BY NoneFacts DEF Init, Seen
  <1>2. CalmInv /\ SeenFits /\ SeenFits' /\ [Next]_vars
          => [Abstract!Next]_([p \in Path |-> Seen(p)])
    <2>. SUFFICES ASSUME CalmInv, SeenFits, SeenFits', [Next]_vars
                  PROVE  Abstract!Next \/ \A p \in Path : Seen(p)' = Seen(p)
      OBVIOUS
    <2>. QED
      BY StepSeen, NotSeen
  <1>. QED
    BY CalmInvariance, SeesFiles, <1>1, <1>2, PTL DEF Spec, ImplementsUserFiles, Abstract!Spec
=============================================================================
