----------------------------- MODULE MediaItems ------------------------------
(***************************************************************************)
(* The photo library of one owner: uploads, Trash, permanent deletion, on  *)
(* top of the derived content of BlobContent.                              *)
(*                                                                         *)
(* An upload makes a blob and a media item that refers to it, so that one  *)
(* id stands for both.  Nothing here runs in a transaction: a request is a *)
(* sequence of statements between which other requests, the worker and     *)
(* crashes happen.  Trash is read in pages in the order of deleted_at,     *)
(* latest first; the pages are numbered by offset.                         *)
(***************************************************************************)
EXTENDS BlobContent

CONSTANTS
    Clients,      \* requests that change the library
    JobIds,       \* ids of blob job rows
    BatchSize,    \* page size of iter_deleted (1000 in the code)
    Ops           \* the operations that users make

AllOps == {"delete_batch", "restore_batch", "delete_immediately", "purge", "mark"}

ASSUME LibraryAssumption ==
    BatchSize \in Nat \ {0} /\ Ops \subseteq AllOps /\ IsFiniteSet(Blobs)

Items == Blobs

VARIABLES
    live,         \* media item rows with deleted_at NULL
    trash,        \* the other rows: <<i, j>> when i comes no later than j in Trash
    fav,          \* favourites of the owner
    stage,        \* stage[i]: how far the upload of i has come
    req,          \* req[c]: a request under way
    jobs,         \* jobs[j]: the blobs of a delete job row and its progress
    late,         \* items restored after a request had read them to delete them
    missed,       \* items that were in Trash throughout a purge and still are
    crowded,      \* some purge saw more than one page of items in Trash
    orphans       \* blobs a killed request left without an item

library == <<live, trash, fav, stage, req, jobs, late, missed, crowded, orphans>>
vars == <<contentVars, library>>

InTrash == {i \in Items : <<i, i>> \in trash}
Rows == live \cup InTrash

\* The orders that a query can list the rows of T in.
Orders(T) ==
    {o \in SUBSET (T \X T) :
        /\ \A i, j \in T : <<i, j>> \in o \/ <<j, i>> \in o
        /\ \A i, j \in T : <<i, j>> \in o /\ <<j, i>> \in o => i = j
        /\ \A i, j, k \in T : <<i, j>> \in o /\ <<j, k>> \in o => <<i, k>> \in o}

\* Trash when the rows of S have left it.
Without(S) == {p \in trash : p[1] \notin S /\ p[2] \notin S}

Stages == {"none", "stored", "blob", "item", "done", "lost"}
Steps == {"page", "begin", "rows", "blobs", "enqueue"}

\* ids: the rows to delete; held: the blob ids read for them; job: the job row
\* saved; offset: the page of a purge; due: what has been in Trash since the
\* purge started; crowd: what has been in Trash at any time since.
Request == [op : {"delete_immediately", "purge"}, at : Steps, ids : SUBSET Items,
            held : SUBSET Items, job : JobIds \cup {None}, offset : Nat,
            due : SUBSET Items, crowd : SUBSET Items]
Marking == [op : {"mark"}, ids : SUBSET Items]
Job == [blobs : SUBSET Items, at : {"saved", "queued", "removed"}]

ASSUME JobAssumption == None \notin Job

\* The type invariant.
TypeOK ==
    /\ ContentTypeOK
    /\ live \subseteq Items /\ fav \subseteq Rows
    /\ trash \in Orders(InTrash)
    /\ live \cap InTrash = {}
    /\ stage \in [Items -> Stages]
    /\ req \in [Clients -> Request \cup Marking \cup {None}]
    /\ jobs \in [JobIds -> Job \cup {None}]
    /\ late \subseteq Items /\ missed \subseteq Items /\ orphans \subseteq Items
    /\ crowded \in BOOLEAN

Init ==
    /\ ContentInit
    /\ live = Processed /\ trash = {} /\ fav = {}
    /\ stage = [i \in Items |-> IF i \in Processed THEN "done" ELSE "none"]
    /\ req = [c \in Clients |-> None]
    /\ jobs = [j \in JobIds |-> None]
    /\ late = {} /\ missed = {} /\ orphans = {} /\ crowded = FALSE

-----------------------------------------------------------------------------
(* MediaItemUseCase.upload                                                 *)

derivedOnly == <<derived, view, faults, torn, served, again>>

UploadStore(i) ==
    /\ stage[i] = "none"
    /\ object' = object \cup {i}
    /\ stage' = [stage EXCEPT ![i] = "stored"]
    /\ UNCHANGED <<blob, task, derivedOnly, live, trash, req, jobs, late,
                   missed, crowded, orphans, fav>>

UploadSaveBlob(i) ==
    /\ stage[i] = "stored"
    /\ blob' = blob \cup {i}
    /\ stage' = [stage EXCEPT ![i] = "blob"]
    /\ UNCHANGED <<object, task, derivedOnly, live, trash, req, jobs, late,
                   missed, crowded, orphans, fav>>

UploadSaveItem(i) ==
    /\ stage[i] = "blob"
    /\ live' = live \cup {i}
    /\ stage' = [stage EXCEPT ![i] = "item"]
    /\ UNCHANGED <<blob, object, task, derivedOnly, trash, req, jobs, late,
                   missed, crowded, orphans, fav>>

UploadEnqueue(i) ==
    /\ stage[i] = "item"
    /\ Enqueue(i)
    /\ stage' = [stage EXCEPT ![i] = "done"]
    /\ UNCHANGED <<blob, object, derivedOnly, live, trash, req, jobs, late,
                   missed, crowded, orphans, fav>>

Upload(i) == \/ UploadStore(i) \/ UploadSaveBlob(i)
             \/ UploadSaveItem(i) \/ UploadEnqueue(i)

\* Killed before the item row, an upload leaves an object no item refers to;
\* killed after it, a content that is never processed.
UploadCrash(i) ==
    /\ faults < MaxFaults
    /\ stage[i] \in {"stored", "blob", "item"}
    /\ faults' = faults + 1
    /\ stage' = [stage EXCEPT ![i] = "lost"]
    /\ orphans' = IF stage[i] = "item" THEN orphans ELSE orphans \cup {i}
    /\ UNCHANGED <<blob, object, derived, task, view, torn, served, again,
                   live, trash, req, jobs, late, missed, crowded, fav>>

-----------------------------------------------------------------------------
(* Trash                                                                   *)

Purges == {c \in Clients : req[c] # None /\ req[c].op = "purge"}

\* set_deleted_at_batch with the time of the call: every row of S, one that is
\* in Trash already included, is now the latest of Trash.  Rows of one call have
\* one deleted_at, and the database orders them as it likes.
DeleteBatch(S) ==
    /\ "delete_batch" \in Ops
    /\ S \cap Rows # {}
    /\ \E first \in Orders(S \cap Rows) :
         trash' = first \cup ((S \cap Rows) \X (InTrash \ S)) \cup Without(S)
    /\ live' = live \ S
    /\ req' = [c \in Clients |->
                 IF c \in Purges
                 THEN [req[c] EXCEPT !.crowd = @ \cup (S \cap Rows)] ELSE req[c]]
    /\ UNCHANGED <<contentVars, stage, jobs, late, missed, crowded, orphans, fav>>

\* Requests that have read item i in order to delete it.
Doomed(i) == \E c \in Clients : req[c] # None /\ req[c].op # "mark" /\ i \in req[c].ids

\* set_deleted_at_batch with NULL.
RestoreBatch(S) ==
    /\ "restore_batch" \in Ops
    /\ S \cap InTrash # {}
    /\ live' = live \cup (S \cap Rows)
    /\ trash' = Without(S)
    /\ late' = late \cup {i \in S \cap InTrash : Doomed(i)}
    /\ req' = [c \in Clients |->
                 IF c \in Purges THEN [req[c] EXCEPT !.due = @ \ S] ELSE req[c]]
    /\ UNCHANGED <<contentVars, stage, jobs, missed, crowded, orphans, fav>>

Trash(S) == DeleteBatch(S) \/ RestoreBatch(S)

\* MediaItemRepository.list_deleted
ListDeleted(offset) ==
    {i \in InTrash :
        Cardinality({j \in InTrash \ {i} : <<j, i>> \in trash})
          \in offset..(offset + BatchSize - 1)}

\* MediaItemRepository.delete_batch; favourites go with their items.
DeleteRows(ids) ==
    /\ live' = live \ ids
    /\ trash' = Without(ids)
    /\ fav' = fav \ ids

-----------------------------------------------------------------------------
(* Permanent deletion                                                      *)

NewRequest(op, at, ids, due) ==
    [op |-> op, at |-> at, ids |-> ids, held |-> {}, job |-> None, offset |-> 0,
     due |-> due, crowd |-> due]

Set(c, r) == req' = [req EXCEPT ![c] = r]

DeleteImmediately(c, S) ==
    /\ "delete_immediately" \in Ops
    /\ req[c] = None
    /\ S \cap Rows # {}
    /\ Set(c, NewRequest("delete_immediately", "begin", S \cap Rows, {}))
    /\ UNCHANGED <<contentVars, live, trash, stage, jobs, late, missed, crowded,
                   orphans, fav>>

\* Mutant of Purge: the first page is skipped.
PurgeFromSecondPage(c) ==
    /\ "purge" \in Ops
    /\ req[c] = None
    /\ Set(c, [NewRequest("purge", "page", {}, InTrash) EXCEPT !.offset = BatchSize])
    /\ UNCHANGED <<contentVars, live, trash, stage, jobs, late, missed, crowded,
                   orphans, fav>>

Purge(c) ==
    /\ "purge" \in Ops
    /\ req[c] = None
    /\ Set(c, NewRequest("purge", "page", {}, InTrash))
    /\ UNCHANGED <<contentVars, live, trash, stage, jobs, late, missed, crowded,
                   orphans, fav>>

At(c, s) == req[c] # None /\ req[c].op # "mark" /\ req[c].at = s

\* Mutant of PurgePage: the page is taken from all the rows.
PurgePageOfAll(c) ==
    /\ At(c, "page")
    /\ Rows # {}
    /\ Set(c, [req[c] EXCEPT !.at = "begin", !.ids = Rows])
    /\ UNCHANGED <<contentVars, live, trash, stage, jobs, late, missed, crowded,
                   orphans, fav>>

\* A purge reads its next page; an empty page ends it.
PurgePage(c) ==
    /\ At(c, "page")
    /\ LET page == ListDeleted(req[c].offset) IN
       \/ /\ page # {}
          /\ Set(c, [req[c] EXCEPT !.at = "begin", !.ids = page])
          /\ UNCHANGED <<missed, crowded>>
       \/ /\ page = {}
          /\ Set(c, None)
          /\ missed' = missed \cup (req[c].due \cap InTrash)
          /\ crowded' = (crowded \/ Cardinality(req[c].crowd) > BatchSize)
    /\ UNCHANGED <<contentVars, live, trash, stage, jobs, late, orphans, fav>>

\* Mutant of DeletePermanently: the blobs go before the rows.
DeletePermanentlyBlobsFirst(c) ==
    /\ At(c, "begin")
    /\ Set(c, [req[c] EXCEPT !.at = "blobs", !.held = req[c].ids \cap Rows])
    /\ UNCHANGED <<contentVars, live, trash, stage, jobs, late, missed, crowded,
                   orphans, fav>>

\* delete_permanently: the rows are read once more, for their blobs; ...
DeletePermanently(c) ==
    /\ At(c, "begin")
    /\ Set(c, [req[c] EXCEPT !.at = "rows", !.held = req[c].ids \cap Rows])
    /\ UNCHANGED <<contentVars, live, trash, stage, jobs, late, missed, crowded,
                   orphans, fav>>

\* ... they are deleted, wherever they are by now; ...
DeletePermanentlyRows(c) ==
    /\ At(c, "rows")
    /\ DeleteRows(req[c].ids)
    /\ Set(c, [req[c] EXCEPT !.at = "blobs", !.due = @ \ req[c].ids])
    /\ UNCHANGED <<contentVars, stage, jobs, late, missed, crowded, orphans>>

\* What is left of a request when a call of delete_permanently is over.
Continued(r) ==
    IF r.op = "purge"
    THEN [r EXCEPT !.at = "page", !.ids = {}, !.held = {}, !.job = None,
                   !.offset = @ + BatchSize]
    ELSE None

\* The id of a new job row, if one is left; which one makes no difference.
FreshJob ==
    LET free == {j \in JobIds : jobs[j] = None}
    IN  IF free = {} THEN {} ELSE {CHOOSE j \in free : TRUE}

\* Mutant of DeletePermanentlyBlobs: the blobs are forgotten.
DeletePermanentlyRowsOnly(c) ==
    /\ At(c, "blobs")
    /\ Set(c, Continued(req[c]))
    /\ UNCHANGED <<contentVars, live, trash, stage, jobs, late, missed, crowded,
                   orphans, fav>>

\* ... and BlobService.delete_batch saves a job for those blobs that still have
\* a row, and returns early when there is none.
DeletePermanentlyBlobs(c) ==
    /\ At(c, "blobs")
    /\ LET found == req[c].held \cap blob IN
       \/ /\ found = {}
          /\ Set(c, Continued(req[c]))
          /\ UNCHANGED jobs
       \/ /\ found # {}
          /\ \E j \in FreshJob :
               /\ jobs' = [jobs EXCEPT ![j] = [blobs |-> found, at |-> "saved"]]
               /\ Set(c, [req[c] EXCEPT !.at = "enqueue", !.job = j])
    /\ UNCHANGED <<contentVars, live, trash, stage, late, missed, crowded, orphans, fav>>

DeletePermanentlyEnqueue(c) ==
    /\ At(c, "enqueue")
    /\ jobs' = [jobs EXCEPT ![req[c].job].at = "queued"]
    /\ Set(c, Continued(req[c]))
    /\ UNCHANGED <<contentVars, live, trash, stage, late, missed, crowded, orphans, fav>>

Delete(c) == \/ PurgePage(c) \/ DeletePermanently(c) \/ DeletePermanentlyRows(c)
             \/ DeletePermanentlyBlobs(c) \/ DeletePermanentlyEnqueue(c)

\* The process serving c is killed.  The blobs of rows already deleted have no
\* job, or one that nobody was told of.
DeleteCrash(c) ==
    /\ faults < MaxFaults
    /\ req[c] # None
    /\ faults' = faults + 1
    /\ orphans' = IF At(c, "blobs") \/ At(c, "enqueue")
                  THEN orphans \cup req[c].held ELSE orphans
    /\ Set(c, None)
    /\ UNCHANGED <<blob, object, derived, task, view, torn, served, again,
                   live, trash, stage, jobs, late, missed, crowded, fav>>

-----------------------------------------------------------------------------
(* The worker: process_blob_jobs                                           *)

\* storage.delete_batch; a key without an object is no error.
JobStore(j) ==
    /\ jobs[j] # None /\ jobs[j].at = "queued"
    /\ object' = object \ jobs[j].blobs
    /\ jobs' = [jobs EXCEPT ![j].at = "removed"]
    /\ UNCHANGED <<blob, task, derivedOnly, live, trash, stage, req, late, missed,
                   crowded, orphans, fav>>

\* The transaction after it.  A media item that refers to a blob restrains the
\* database from deleting the blob; its metadata goes with it.
JobSave(j) ==
    /\ jobs[j] # None /\ jobs[j].at = "removed"
    /\ jobs[j].blobs \cap Rows = {}
    /\ blob' = blob \ jobs[j].blobs
    /\ meta' = meta \ jobs[j].blobs
    /\ jobs' = [jobs EXCEPT ![j] = None]
    /\ UNCHANGED <<object, thumb, lock, task, view, faults, torn, served,
                   again, live, trash, stage, req, late, missed, crowded, orphans, fav>>

Work(j) == JobStore(j) \/ JobSave(j)

-----------------------------------------------------------------------------
(* Favourites and thumbnails                                               *)

\* mark_favourite_batch reads the items, in Trash or not, ...
MarkRead(c, S) ==
    /\ "mark" \in Ops
    /\ req[c] = None
    /\ S \cap Rows # {}
    /\ Set(c, [op |-> "mark", ids |-> S \cap Rows])
    /\ UNCHANGED <<contentVars, live, trash, fav, stage, jobs, late, missed, crowded,
                   orphans>>

\* ... and inserts the marks, all or none: the insert is refused when one of the
\* items is gone by now.
MarkSave(c) ==
    /\ req[c] # None /\ req[c].op = "mark"
    /\ fav' = IF req[c].ids \subseteq Rows THEN fav \cup req[c].ids ELSE fav
    /\ Set(c, None)
    /\ UNCHANGED <<contentVars, live, trash, stage, jobs, late, missed, crowded, orphans>>

Unmark(S) ==
    /\ S \cap fav # {}
    /\ fav' = fav \ S
    /\ UNCHANGED <<contentVars, live, trash, stage, req, jobs, late, missed, crowded,
                   orphans>>

\* MediaItemUseCase.thumbnail: for the owner's items, in Trash or not.
GetThumbnail(v, i) ==
    /\ i \in Rows
    /\ ThumbnailAsk(v, i)
    /\ UNCHANGED library

-----------------------------------------------------------------------------
Next ==
    \/ \E i \in Items : Upload(i) \/ UploadCrash(i)
    \/ \E S \in SUBSET Items : Trash(S) \/ Unmark(S)
    \/ \E c \in Clients, S \in SUBSET Items : DeleteImmediately(c, S) \/ MarkRead(c, S)
    \/ \E c \in Clients : Purge(c) \/ Delete(c) \/ MarkSave(c) \/ DeleteCrash(c)
    \/ \E j \in JobIds : Work(j)
    \/ \E v \in Viewers, i \in Items : GetThumbnail(v, i)
    \/ ContentNext /\ UNCHANGED library

Spec == Init /\ [][Next]_vars

\* Servers and worker keep running: a request, an upload or a task once started
\* goes on until it ends or is killed.
FairSpec ==
    /\ Spec
    /\ \A i \in Items : WF_vars(UploadSaveBlob(i) \/ UploadSaveItem(i) \/ UploadEnqueue(i))
    /\ \A c \in Clients : WF_vars(Delete(c)) /\ WF_vars(MarkSave(c))
    /\ \A j \in JobIds : WF_vars(Work(j))
    /\ \A b \in Blobs : WF_vars(Process(b) /\ UNCHANGED library)
    /\ \A v \in Viewers : WF_vars(Thumbnail(v) /\ UNCHANGED library)
    /\ \A h \in Hashes :
          WF_vars(LockExpires(h) /\ ~AtWork(h, lock[h]) /\ UNCHANGED library)

-----------------------------------------------------------------------------
(* Properties                                                              *)

\* An item that has a row, in Trash or not, has its blob row and its object,
\* whatever purges, deletions, restores and worker tasks overlap: a delete job
\* exists only for items whose rows are gone (delete_permanently deletes the
\* rows before it saves the job).
ItemsHaveContent ==
    /\ Rows \subseteq blob \cap object
    /\ \A j \in JobIds : jobs[j] # None => jobs[j].blobs \cap Rows = {}

\* A purge deletes an item that is not in Trash only when the item was restored
\* after the purge had read its page (purge, delete_permanently): no other item
\* outside Trash is ever lost to it.
PurgeSparesLive ==
    [][\A c \in Clients :
         DeletePermanentlyRows(c) /\ req[c].op = "purge"
           => req[c].ids \cap live \subseteq late]_vars

\* An item that stays in Trash throughout a purge survives it only when more
\* than a page of items was in Trash meanwhile: iter_deleted moves its offset on
\* although the rows of the pages before are gone.
OnePagePurged == missed # {} => crowded

\* The content of a deleted item is reclaimed, unless a killed request left it.
Reclaimed ==
    \A i \in Items : stage[i] \in {"done", "lost"} /\ i \notin Rows
                       ~> i \notin blob \cup object \/ i \in orphans
=============================================================================
