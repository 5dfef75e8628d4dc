------------------------- MODULE MediaItemsProofs ---------------------------
(***************************************************************************)
(* Proofs about MediaItems and the BlobContent it extends, for any items,  *)
(* contents, clients, viewers, jobs and page size.                         *)
(***************************************************************************)
EXTENDS MediaItems, FiniteSetTheorems, TLAPS

\* Items whose row was saved, or never will be.
Past == {i \in Items : stage[i] \in {"item", "done", "lost"}}

\* An upload puts the object before the blob before the item.
StagesFit ==
    /\ \A i \in Items : stage[i] = "stored" => i \in object
    /\ \A i \in Items : stage[i] = "blob" => i \in blob \cap object
    /\ Rows \subseteq Past

\* A job is of one request, until its message is sent.
JobsFit ==
    /\ \A j \in JobIds : jobs[j] # None => jobs[j].blobs \subseteq Past
    /\ \A c \in Clients : At(c, "enqueue") =>
         req[c].job \in JobIds /\ jobs[req[c].job] \in Job /\ jobs[req[c].job].at = "saved"
    /\ \A c, d \in Clients :
         At(c, "enqueue") /\ At(d, "enqueue") /\ req[c].job = req[d].job => c = d

\* A request r to delete: when it comes to the blobs, their rows are gone.
Deletes(r) == r # None /\ r.op # "mark"

RequestFits(r) ==
    Deletes(r) =>
      /\ r.ids \subseteq Past /\ r.held \subseteq r.ids
      /\ r.at \in {"blobs", "enqueue"} => r.held \cap Rows = {}
      /\ r.at = "page" => r.op = "purge" /\ r.held = {}

\* A purge: what it has read was in Trash; if Trash never was larger than a page,
\* the first page is all of Trash.
PurgeFits(r) ==
    r # None /\ r.op = "purge" =>
      /\ r.ids \cap live \subseteq late
      /\ r.due \subseteq Past /\ r.due \cap live = {} /\ InTrash \subseteq r.crowd
      /\ Cardinality(r.crowd) <= BatchSize =>
           /\ r.offset = 0 /\ r.at \in {"begin", "rows"} => r.due \cap InTrash \subseteq r.ids
           /\ r.offset # 0 \/ r.at \in {"blobs", "enqueue"} => r.due \cap InTrash = {}

\* The inductive invariant of the library.
LibraryInv ==
    /\ TypeOK /\ StagesFit /\ ItemsHaveContent /\ JobsFit /\ OnePagePurged
    /\ \A c \in Clients : RequestFits(req[c]) /\ PurgeFits(req[c])

\* Who writes the thumbnail of h.
Writing(h, p) ==
    \/ p \in Blobs /\ Chash[p] = h /\ task[p] = "writing"
    \/ p \in Viewers /\ view[p] # None /\ Chash[view[p].blob] = h /\ view[p].at = "writing"

\* A hash on which no writer was killed and no lock was lost: whoever works on it
\* has the lock, and a file that is not whole is being written.
Guarded(h) ==
    /\ \A p \in Blobs \cup Viewers : AtWork(h, p) => lock[h] = p
    /\ thumb[h] = "partial" => \E p \in Blobs \cup Viewers : Writing(h, p)

\* The task of a blob: there is none before the upload has ended, and metadata is
\* there before it was saved only if the task has been delivered before.
TaskFits(b) ==
    /\ stage[b] # "done" => task[b] = "none"
    /\ b \in meta /\ b \notin again => task[b] \in {"tracked", "done"}
    /\ task[b] = "failed" => b \notin blob \cap object \/ b \in again

\* The inductive invariant of the derived content.
ContentInv ==
    /\ ContentTypeOK /\ ThumbnailsWhole
    /\ \A h \in Hashes \ torn : Guarded(h)
    /\ \A b \in Blobs : TaskFits(b)

-----------------------------------------------------------------------------
(* Trash                                                                   *)

LEMMA TrashPairs ==
    ASSUME TypeOK
    PROVE  /\ \A p \in trash : p = <<p[1], p[2]>> /\ p[1] \in InTrash /\ p[2] \in InTrash
           /\ InTrash \subseteq Items
           /\ \A i \in InTrash : <<i, i>> \in trash
  BY DEF TypeOK, Orders, InTrash

\* Rows leave Trash.
LEMMA TrashWithout ==
    ASSUME TypeOK, NEW S \in SUBSET Items, trash' = Without(S)
    PROVE  InTrash' = InTrash \ S /\ trash' \in Orders(InTrash')
  <1>1. InTrash' = InTrash \ S
    BY DEF InTrash, Without
  <1>2. trash' \subseteq InTrash' \X InTrash'
    BY <1>1, TrashPairs DEF Without
  <1>3. \A i, j \in InTrash' : <<i, j>> \in trash' <=> <<i, j>> \in trash
    BY <1>1 DEF Without
  <1>4. trash \in Orders(InTrash)
    BY DEF TypeOK
  <1>. QED
    BY <1>1, <1>2, <1>3, <1>4 DEF Orders

\* Rows come into Trash, before all others.
LEMMA TrashFirst ==
    ASSUME TypeOK, NEW S \in SUBSET Items, NEW first \in Orders(S \cap Rows),
           trash' = first \cup ((S \cap Rows) \X (InTrash \ S)) \cup Without(S)
    PROVE  InTrash' = InTrash \cup (S \cap Rows) /\ trash' \in Orders(InTrash')
  <1>. DEFINE T == S \cap Rows
              U == InTrash \ S
  <1>1. /\ first \subseteq T \X T /\ T \cap U = {} /\ T \subseteq Items /\ U \subseteq Items
        /\ Without(S) \subseteq U \X U /\ T \cup U = InTrash \cup T
    BY TrashPairs DEF Orders, Without, Rows
  <1>2. ASSUME NEW i, NEW j
        PROVE  <<i, j>> \in trash' <=>
                 \/ <<i, j>> \in first
                 \/ i \in T /\ j \in U
                 \/ i \in U /\ j \in U /\ <<i, j>> \in trash
    BY <1>1, TrashPairs DEF Without
  <1>3. InTrash' = T \cup U
    <2>1. \A i \in T : <<i, i>> \in first
      BY DEF Orders
    <2>2. \A i \in U : <<i, i>> \in trash
      BY TrashPairs
    <2>. QED
      BY <1>1, <1>2, <2>1, <2>2 DEF InTrash
  <1>4. trash' \subseteq (T \cup U) \X (T \cup U)
    BY <1>1
  <1>5. first \in Orders(T) /\ trash \in Orders(InTrash) /\ U \subseteq InTrash
    BY DEF TypeOK
  <1>. HIDE DEF T, U
  <1>6. \A i, j \in T \cup U : <<i, j>> \in trash' \/ <<j, i>> \in trash'
    BY <1>1, <1>2, <1>5 DEF Orders
  <1>7. \A i, j \in T \cup U : <<i, j>> \in trash' /\ <<j, i>> \in trash' => i = j
    BY <1>1, <1>2, <1>5 DEF Orders
  <1>8. ASSUME NEW i \in T \cup U, NEW j \in T \cup U, NEW k \in T \cup U,
               <<i, j>> \in trash', <<j, k>> \in trash'
        PROVE  <<i, k>> \in trash'
    <2>1. \A x, y : <<x, y>> \in first => x \in T /\ y \in T
      BY <1>1
    <2>. QED
      BY <1>1, <1>2, <1>5, <1>8, <2>1 DEF Orders
  <1>9. trash' \in Orders(T \cup U)
    BY <1>4, <1>6, <1>7, <1>8 DEF Orders
  <1>. QED
    BY <1>1, <1>3, <1>9 DEF T

\* As long as Trash fits into a page, the first page is all of it.
LEMMA FirstPage ==
    ASSUME TypeOK
    PROVE  /\ \A n \in Nat : ListDeleted(n) \subseteq InTrash
           /\ Cardinality(InTrash) <= BatchSize => ListDeleted(0) = InTrash
  <1>1. IsFiniteSet(InTrash) /\ BatchSize \in Nat \ {0}
    BY TrashPairs, FS_Subset, LibraryAssumption DEF Items
  <1>2. ASSUME NEW i \in InTrash, Cardinality(InTrash) <= BatchSize
        PROVE  Cardinality({j \in InTrash \ {i} : <<j, i>> \in trash}) \in 0..(0 + BatchSize - 1)
    <2>. DEFINE before == {j \in InTrash \ {i} : <<j, i>> \in trash}
    <2>1. before \subseteq InTrash /\ before # InTrash
      OBVIOUS
    <2>. HIDE DEF before
    <2>a. /\ IsFiniteSet(before) /\ Cardinality(before) <= Cardinality(InTrash)
          /\ Cardinality(before) # Cardinality(InTrash)
      BY <1>1, <2>1, FS_Subset, Zenon
    <2>b. Cardinality(before) \in Nat /\ Cardinality(InTrash) \in Nat
      BY <1>1, <2>a, FS_CardinalityType
    <2>2. /\ Cardinality(before) \in Nat /\ Cardinality(InTrash) \in Nat
          /\ Cardinality(before) < Cardinality(InTrash)
      BY <2>a, <2>b
    <2>3. Cardinality(before) \in 0..(0 + BatchSize - 1)
      BY <1>1, <1>2, <2>2
    <2>. QED
      BY <2>3 DEF before
  <1>. QED
    BY <1>2 DEF ListDeleted

-----------------------------------------------------------------------------
(* What stays                                                              *)

LEMMA RequestKept ==
    ASSUME LibraryInv, NEW c \in Clients, req'[c] = req[c], UNCHANGED <<trash, late>>,
           Past \subseteq Past', live' \cap Past \subseteq live
    PROVE  RequestFits(req[c])' /\ PurgeFits(req[c])'
  <1>1. RequestFits(req[c]) /\ PurgeFits(req[c]) /\ StagesFit
    BY DEF LibraryInv
  <1>2. InTrash' = InTrash
    BY DEF InTrash
  <1>3. RequestFits(req[c])'
    BY <1>1, <1>2 DEF RequestFits, Deletes, Rows
  <1>4. req[c] # None /\ req[c].op = "purge" => Deletes(req[c])
    BY DEF Deletes
  <1>5. PurgeFits(req[c])'
    BY <1>1, <1>2, <1>4 DEF PurgeFits, RequestFits
  <1>. QED
    BY <1>3, <1>5

LEMMA JobsKept ==
    ASSUME LibraryInv, UNCHANGED jobs, Past \subseteq Past',
           \A c \in Clients : At(c, "enqueue")' => At(c, "enqueue") /\ req'[c].job = req[c].job
    PROVE  JobsFit'
  BY DEF LibraryInv, JobsFit

LEMMA StageMoves ==
    ASSUME TypeOK, NEW i \in Items, NEW s \in Stages, stage' = [stage EXCEPT ![i] = s],
           i \in Past => s \in {"item", "done", "lost"}
    PROVE  /\ stage' \in [Items -> Stages] /\ Past \subseteq Past'
           /\ stage'[i] = s /\ \A k \in Items \ {i} : stage'[k] = stage[k]
  BY DEF TypeOK, Past

LEMMA TypeParts ==
    ASSUME LibraryInv
    PROVE  /\ TypeOK /\ ContentTypeOK
           /\ live \subseteq Items /\ fav \subseteq Rows /\ trash \in Orders(InTrash)
           /\ live \cap InTrash = {} /\ stage \in [Items -> Stages]
           /\ req \in [Clients -> Request \cup Marking \cup {None}]
           /\ jobs \in [JobIds -> Job \cup {None}]
           /\ late \subseteq Items /\ missed \subseteq Items /\ orphans \subseteq Items
           /\ crowded \in BOOLEAN
           /\ blob \subseteq Items /\ object \subseteq Items
  BY DEF LibraryInv, TypeOK, ContentTypeOK, Items

-----------------------------------------------------------------------------
(* Uploads                                                                 *)

LEMMA UploadStoreSafe ==
    ASSUME LibraryInv, NEW i \in Items, UploadStore(i)
    PROVE  LibraryInv'
  <1>1. /\ stage[i] = "none" /\ object' = object \cup {i} /\ stage' = [stage EXCEPT ![i] = "stored"]
        /\ UNCHANGED <<blob, task, meta, thumb, lock, view, faults, torn, served, again, live, trash,
                       req, jobs, late, missed, crowded, orphans, fav>>
    BY DEF UploadStore, derivedOnly, derived
  <1>2. TypeOK /\ ContentTypeOK /\ StagesFit /\ ItemsHaveContent
    BY TypeParts DEF LibraryInv
  <1>3. /\ stage' \in [Items -> Stages] /\ Past \subseteq Past'
        /\ stage'[i] = "stored" /\ \A k \in Items \ {i} : stage'[k] = stage[k]
    BY <1>1, <1>2, StageMoves DEF Past, Stages
  <1>4. ContentTypeOK'
    BY <1>1, <1>2 DEF ContentTypeOK, Items
  <1>5. InTrash' = InTrash /\ Rows' = Rows
    BY <1>1 DEF InTrash, Rows
  <1>6. TypeOK'
    BY <1>1, <1>2, <1>3, <1>4, <1>5 DEF TypeOK
  <1>7. StagesFit'
    BY <1>1, <1>2, <1>3, <1>5 DEF StagesFit
  <1>8. ItemsHaveContent'
    BY <1>1, <1>2, <1>5 DEF ItemsHaveContent
  <1>9. JobsFit'
    BY <1>1, <1>3, JobsKept DEF At
  <1>10. \A c \in Clients : RequestFits(req[c])' /\ PurgeFits(req[c])'
    BY <1>1, <1>3, RequestKept
  <1>11. OnePagePurged'
    BY <1>1 DEF LibraryInv, OnePagePurged
  <1>. QED
    BY <1>6, <1>7, <1>8, <1>9, <1>10, <1>11 DEF LibraryInv

LEMMA UploadSaveBlobSafe ==
    ASSUME LibraryInv, NEW i \in Items, UploadSaveBlob(i)
    PROVE  LibraryInv'
  <1>1. /\ stage[i] = "stored" /\ blob' = blob \cup {i} /\ stage' = [stage EXCEPT ![i] = "blob"]
        /\ UNCHANGED <<object, task, meta, thumb, lock, view, faults, torn, served, again, live,
                       trash, req, jobs, late, missed, crowded, orphans, fav>>
    BY DEF UploadSaveBlob, derivedOnly, derived
  <1>2. TypeOK /\ ContentTypeOK /\ StagesFit /\ ItemsHaveContent
    BY TypeParts DEF LibraryInv
  <1>3. /\ stage' \in [Items -> Stages] /\ Past \subseteq Past'
        /\ stage'[i] = "blob" /\ \A k \in Items \ {i} : stage'[k] = stage[k]
    BY <1>1, <1>2, StageMoves DEF Past, Stages
  <1>4. ContentTypeOK'
    BY <1>1, <1>2 DEF ContentTypeOK, Items
  <1>5. InTrash' = InTrash /\ Rows' = Rows
    BY <1>1 DEF InTrash, Rows
  <1>6. TypeOK'
    BY <1>1, <1>2, <1>3, <1>4, <1>5 DEF TypeOK
  <1>7. StagesFit'
    BY <1>1, <1>2, <1>3, <1>5 DEF StagesFit
  <1>8. ItemsHaveContent'
    BY <1>1, <1>2, <1>5 DEF ItemsHaveContent
  <1>9. JobsFit'
    BY <1>1, <1>3, JobsKept DEF At
  <1>10. \A c \in Clients : RequestFits(req[c])' /\ PurgeFits(req[c])'
    BY <1>1, <1>3, RequestKept
  <1>11. OnePagePurged'
    BY <1>1 DEF LibraryInv, OnePagePurged
  <1>. QED
    BY <1>6, <1>7, <1>8, <1>9, <1>10, <1>11 DEF LibraryInv

LEMMA UploadSaveItemSafe ==
    ASSUME LibraryInv, NEW i \in Items, UploadSaveItem(i)
    PROVE  LibraryInv'
  <1>1. /\ stage[i] = "blob" /\ live' = live \cup {i} /\ stage' = [stage EXCEPT ![i] = "item"]
        /\ UNCHANGED <<blob, object, task, meta, thumb, lock, view, faults, torn, served, again,
                       trash, req, jobs, late, missed, crowded, orphans, fav>>
    BY DEF UploadSaveItem, derivedOnly, derived
  <1>2. TypeOK /\ ContentTypeOK /\ StagesFit /\ ItemsHaveContent /\ JobsFit
    BY TypeParts DEF LibraryInv
  <1>3. /\ stage' \in [Items -> Stages] /\ Past \subseteq Past'
        /\ stage'[i] = "item" /\ \A k \in Items \ {i} : stage'[k] = stage[k]
    BY <1>1, <1>2, StageMoves DEF Past, Stages
  <1>4. ContentTypeOK'
    BY <1>1, <1>2 DEF ContentTypeOK, Items
  <1>5. InTrash' = InTrash /\ Rows' = Rows \cup {i} /\ i \notin Past /\ i \notin Rows
    BY <1>1, <1>2 DEF InTrash, Rows, Past, StagesFit
  <1>6. TypeOK'
    BY <1>1, <1>2, <1>3, <1>4, <1>5 DEF TypeOK, Rows
  <1>7. StagesFit'
    <2>1. i \in Past'
      BY <1>3 DEF Past
    <2>. QED
      BY <1>1, <1>2, <1>3, <1>5, <2>1 DEF StagesFit
  <1>8. ItemsHaveContent'
    BY <1>1, <1>2, <1>5 DEF ItemsHaveContent, StagesFit, JobsFit
  <1>9. JobsFit'
    BY <1>1, <1>3, JobsKept DEF At
  <1>10. \A c \in Clients : RequestFits(req[c])' /\ PurgeFits(req[c])'
    BY <1>1, <1>3, <1>5, RequestKept
  <1>11. OnePagePurged'
    BY <1>1 DEF LibraryInv, OnePagePurged
  <1>. QED
    BY <1>6, <1>7, <1>8, <1>9, <1>10, <1>11 DEF LibraryInv

\* The last step of an upload, or its end by a crash.
LEMMA UploadEndsSafe ==
    ASSUME LibraryInv, NEW i \in Items, UploadEnqueue(i) \/ UploadCrash(i)
    PROVE  LibraryInv'
  <1>1. /\ stage' = [stage EXCEPT ![i] = "done"] \/ stage' = [stage EXCEPT ![i] = "lost"]
        /\ UNCHANGED <<blob, object, meta, thumb, lock, view, torn, served, again, live, trash, req,
                       jobs, late, missed, crowded, fav>>
    BY DEF UploadEnqueue, UploadCrash, derivedOnly, derived
  <1>2. TypeOK /\ ContentTypeOK /\ StagesFit /\ ItemsHaveContent
    BY TypeParts DEF LibraryInv
  <1>3. /\ stage' \in [Items -> Stages] /\ Past \subseteq Past'
        /\ stage'[i] \in {"done", "lost"} /\ \A k \in Items \ {i} : stage'[k] = stage[k]
    BY <1>1, <1>2, StageMoves DEF Stages
  <1>4. ContentTypeOK'
    <2>1. task' \in [Blobs -> TaskStates]
      BY <1>2 DEF UploadEnqueue, UploadCrash, Enqueue, Step, ContentTypeOK, TaskStates, Items
    <2>2. faults' \in 0..MaxFaults
      BY <1>2, ContentAssumption DEF UploadEnqueue, UploadCrash, derivedOnly, ContentTypeOK
    <2>. QED
      BY <1>1, <1>2, <2>1, <2>2 DEF ContentTypeOK
  <1>5. InTrash' = InTrash /\ Rows' = Rows
    BY <1>1 DEF InTrash, Rows
  <1>6. orphans' \subseteq Items
    BY <1>2 DEF UploadEnqueue, UploadCrash, TypeOK
  <1>7. TypeOK'
    BY <1>1, <1>2, <1>3, <1>4, <1>5, <1>6 DEF TypeOK
  <1>8. StagesFit'
    BY <1>1, <1>2, <1>3, <1>5 DEF StagesFit
  <1>9. ItemsHaveContent'
    BY <1>1, <1>2, <1>5 DEF ItemsHaveContent
  <1>10. JobsFit'
    BY <1>1, <1>3, JobsKept DEF At
  <1>11. \A c \in Clients : RequestFits(req[c])' /\ PurgeFits(req[c])'
    BY <1>1, <1>3, RequestKept
  <1>12. OnePagePurged'
    BY <1>1 DEF LibraryInv, OnePagePurged
  <1>. QED
    BY <1>7, <1>8, <1>9, <1>10, <1>11, <1>12 DEF LibraryInv

-----------------------------------------------------------------------------
(* Requests                                                                *)

\* One request changes, and no row does.
LEMMA OneRequest ==
    ASSUME LibraryInv, NEW c \in Clients, NEW r \in Request \cup Marking \cup {None},
           req' = [req EXCEPT ![c] = r], UNCHANGED <<live, trash, stage, late>>,
           RequestFits(r), PurgeFits(r)
    PROVE  /\ req' \in [Clients -> Request \cup Marking \cup {None}]
           /\ \A d \in Clients : RequestFits(req[d])' /\ PurgeFits(req[d])'
           /\ Past' = Past /\ InTrash' = InTrash /\ Rows' = Rows
  <1>1. req \in [Clients -> Request \cup Marking \cup {None}]
    BY TypeParts
  <1>2. Past' = Past /\ InTrash' = InTrash /\ Rows' = Rows
    BY DEF Past, InTrash, Rows
  <1>3. req'[c] = r /\ \A d \in Clients \ {c} : req'[d] = req[d]
    BY <1>1
  <1>4. RequestFits(req[c])'
    BY <1>2, <1>3 DEF RequestFits, Deletes
  <1>5. PurgeFits(req[c])'
    BY <1>2, <1>3 DEF PurgeFits
  <1>6. \A d \in Clients \ {c} : RequestFits(req[d])' /\ PurgeFits(req[d])'
    BY <1>2, <1>3, RequestKept
  <1>. QED
    BY <1>1, <1>2, <1>4, <1>5, <1>6

\* Whatever else a request does to marks, ghosts and faults.
LEMMA OneRequestSafe ==
    ASSUME LibraryInv, NEW c \in Clients, NEW r \in Request \cup Marking \cup {None},
           req' = [req EXCEPT ![c] = r], UNCHANGED <<live, trash, stage, late, jobs>>,
           UNCHANGED <<blob, object, derived, task, view, torn, served, again>>,
           RequestFits(r), PurgeFits(r), r # None => r.op = "mark" \/ r.at # "enqueue",
           faults' \in 0..MaxFaults, fav' \subseteq Rows, orphans' \subseteq Items,
           missed' \subseteq Items, crowded' \in BOOLEAN, OnePagePurged'
    PROVE  LibraryInv'
  <1>1. TypeOK /\ ContentTypeOK /\ StagesFit /\ ItemsHaveContent
    BY TypeParts DEF LibraryInv
  <1>2. /\ req' \in [Clients -> Request \cup Marking \cup {None}]
        /\ \A d \in Clients : RequestFits(req[d])' /\ PurgeFits(req[d])'
        /\ Past' = Past /\ InTrash' = InTrash /\ Rows' = Rows
    BY OneRequest
  <1>3. ContentTypeOK'
    BY <1>1 DEF ContentTypeOK, derived
  <1>4. TypeOK'
    BY <1>1, <1>2, <1>3 DEF TypeOK
  <1>5. StagesFit'
    BY <1>1, <1>2 DEF StagesFit
  <1>6. ItemsHaveContent'
    BY <1>1, <1>2 DEF ItemsHaveContent
  <1>7. JobsFit'
    <2>1. req'[c] = r /\ \A d \in Clients \ {c} : req'[d] = req[d]
      BY <1>1 DEF TypeOK
    <2>2. \A d \in Clients : At(d, "enqueue")' => At(d, "enqueue") /\ req'[d].job = req[d].job
      BY <2>1 DEF At
    <2>. QED
      BY <1>2, <2>2, JobsKept
  <1>. QED
    BY <1>2, <1>4, <1>5, <1>6, <1>7 DEF LibraryInv

LEMMA RequestTyped ==
    ASSUME LibraryInv, NEW c \in Clients, req[c] # None, req[c].op # "mark"
    PROVE  /\ req[c] \in Request /\ RequestFits(req[c]) /\ PurgeFits(req[c]) /\ Deletes(req[c])
           /\ req[c].ids \subseteq Items /\ req[c].held \subseteq Items
           /\ req[c].due \subseteq Items /\ req[c].crowd \subseteq Items /\ req[c].offset \in Nat
           /\ req[c].op \in {"delete_immediately", "purge"}
  <1>1. req[c] \in Request
    BY TypeParts DEF Marking
  <1>. QED
    BY <1>1 DEF LibraryInv, Deletes, Request

LEMMA DeleteImmediatelySafe ==
    ASSUME LibraryInv, NEW c \in Clients, NEW S \in SUBSET Items, DeleteImmediately(c, S)
    PROVE  LibraryInv'
  <1>. DEFINE r == NewRequest("delete_immediately", "begin", S \cap Rows, {})
  <1>1. /\ req' = [req EXCEPT ![c] = r]
        /\ UNCHANGED <<contentVars, live, trash, stage, jobs, late, missed, crowded, orphans, fav>>
    BY DEF DeleteImmediately, Set
  <1>2. r = [op |-> "delete_immediately", at |-> "begin", ids |-> S \cap Rows, held |-> {},
             job |-> None, offset |-> 0, due |-> {}, crowd |-> {}]
    BY DEF NewRequest
  <1>3. r \in Request
    BY <1>2 DEF Request, Steps
  <1>4. RequestFits(r) /\ PurgeFits(r) /\ r.at # "enqueue"
    <2>1. /\ r.op = "delete_immediately" /\ r.at = "begin"
          /\ r.ids = S \cap Rows /\ r.held = {}
      BY <1>2
    <2>2. S \cap Rows \subseteq Past
      BY DEF LibraryInv, StagesFit
    <2>. HIDE DEF r
    <2>. QED
      BY <2>1, <2>2 DEF RequestFits, PurgeFits
  <1>. HIDE DEF r
  <1>5. faults' \in 0..MaxFaults /\ UNCHANGED <<blob, object, derived, task, view, torn, served, again>>
    BY <1>1, TypeParts DEF contentVars, ContentTypeOK
  <1>. QED
    BY <1>1, <1>3, <1>4, <1>5, TypeParts, OneRequestSafe DEF LibraryInv, OnePagePurged

LEMMA PurgeSafe ==
    ASSUME LibraryInv, NEW c \in Clients, Purge(c)
    PROVE  LibraryInv'
  <1>0. PICK T \in SUBSET Items : T = InTrash
    BY DEF InTrash
  <1>. DEFINE r == [op |-> "purge", at |-> "page", ids |-> {}, held |-> {},
                    job |-> None, offset |-> 0, due |-> T, crowd |-> T]
  <1>1. /\ req' = [req EXCEPT ![c] = r]
        /\ UNCHANGED <<contentVars, live, trash, stage, jobs, late, missed, crowded, orphans, fav>>
    BY <1>0 DEF Purge, Set, NewRequest
  <1>2. r \in Request
    BY DEF Request, Steps
  <1>3. r.op = "purge" /\ r.at = "page" /\ r.ids = {} /\ r.held = {} /\ r.offset = 0
        /\ r.due = InTrash /\ r.crowd = InTrash
    BY <1>0
  <1>4. RequestFits(r) /\ PurgeFits(r) /\ r.at # "enqueue"
    <2>1. InTrash \subseteq Past /\ InTrash \cap live = {}
      BY TypeParts DEF LibraryInv, StagesFit, Rows
    <2>. QED
      BY <1>3, <2>1 DEF RequestFits, PurgeFits
  <1>. HIDE DEF r
  <1>5. faults' \in 0..MaxFaults /\ UNCHANGED <<blob, object, derived, task, view, torn, served, again>>
    BY <1>1, TypeParts DEF contentVars, ContentTypeOK
  <1>. QED
    BY <1>1, <1>2, <1>4, <1>5, TypeParts, OneRequestSafe DEF LibraryInv, OnePagePurged

LEMMA NoRequest == RequestFits(None) /\ PurgeFits(None)
  BY DEF RequestFits, PurgeFits, Deletes

LEMMA PurgePageSafe ==
    ASSUME LibraryInv, NEW c \in Clients, PurgePage(c)
    PROVE  LibraryInv'
  <1>. DEFINE page == ListDeleted(req[c].offset)
              r == [req[c] EXCEPT !.at = "begin", !.ids = page]
  <1>0. req[c] # None /\ req[c].op # "mark" /\ req[c].at = "page"
    BY DEF PurgePage, At
  <1>1. /\ UNCHANGED <<contentVars, live, trash, stage, jobs, late, orphans, fav>>
        /\ \/ /\ page # {} /\ req' = [req EXCEPT ![c] = r] /\ UNCHANGED <<missed, crowded>>
           \/ /\ page = {} /\ req' = [req EXCEPT ![c] = None]
              /\ missed' = missed \cup (req[c].due \cap InTrash)
              /\ crowded' = (crowded \/ Cardinality(req[c].crowd) > BatchSize)
    BY DEF PurgePage, Set
  <1>2. /\ req[c] \in Request /\ RequestFits(req[c]) /\ PurgeFits(req[c]) /\ Deletes(req[c])
        /\ req[c].offset \in Nat /\ req[c].crowd \subseteq Items /\ req[c].op = "purge"
        /\ req[c].held = {} /\ req[c].due \subseteq Items
    BY <1>0, RequestTyped DEF RequestFits
  <1>3. faults' \in 0..MaxFaults /\ UNCHANGED <<blob, object, derived, task, view, torn, served, again>>
    BY <1>1, TypeParts DEF contentVars, ContentTypeOK
  <1>4. /\ page \subseteq InTrash /\ InTrash \subseteq Items
        /\ Cardinality(req[c].crowd) <= BatchSize /\ req[c].offset = 0 => page = InTrash
    <2>1. page \subseteq InTrash /\ InTrash \subseteq Items /\ InTrash \subseteq req[c].crowd
      BY <1>0, <1>2, FirstPage, TypeParts DEF InTrash, PurgeFits
    <2>2. IsFiniteSet(req[c].crowd)
      BY <1>2, FS_Subset, LibraryAssumption DEF Items
    <2>3. /\ Cardinality(InTrash) <= Cardinality(req[c].crowd)
          /\ Cardinality(InTrash) \in Nat /\ Cardinality(req[c].crowd) \in Nat
      BY <2>1, <2>2, FS_Subset, FS_CardinalityType
    <2>4. BatchSize \in Nat
      BY LibraryAssumption
    <2>5. Cardinality(req[c].crowd) <= BatchSize => Cardinality(InTrash) <= BatchSize
      BY <2>3, <2>4
    <2>. QED
      BY <2>1, <2>5, FirstPage, TypeParts
  <1>5. CASE page # {} /\ req' = [req EXCEPT ![c] = r] /\ UNCHANGED <<missed, crowded>>
    <2>1. r \in Request
      BY <1>2, <1>4 DEF Request, Steps
    <2>2. /\ r.at = "begin" /\ r.ids = page /\ r.held = {} /\ r.op = "purge" /\ r.due = req[c].due
          /\ r.crowd = req[c].crowd /\ r.offset = req[c].offset
      BY <1>2 DEF Request
    <2>. HIDE DEF r, page
    <2>3. page \subseteq Past /\ page \cap live = {}
      BY <1>4, TypeParts DEF LibraryInv, StagesFit, Rows
    <2>4. RequestFits(r)
      BY <2>2, <2>3 DEF RequestFits
    <2>5. PurgeFits(r)
      BY <1>0, <1>2, <1>4, <2>2, <2>3 DEF PurgeFits
    <2>. QED
      BY <1>1, <1>3, <1>5, <2>1, <2>2, <2>4, <2>5, TypeParts, OneRequestSafe
         DEF LibraryInv, OnePagePurged
  <1>6. CASE /\ page = {} /\ req' = [req EXCEPT ![c] = None]
             /\ missed' = missed \cup (req[c].due \cap InTrash)
             /\ crowded' = (crowded \/ Cardinality(req[c].crowd) > BatchSize)
    <2>1. Cardinality(req[c].crowd) <= BatchSize => req[c].due \cap InTrash = {}
      BY <1>0, <1>2, <1>4, <1>6 DEF PurgeFits
    <2>2. Cardinality(req[c].crowd) \in Nat /\ BatchSize \in Nat
      BY <1>2, FS_Subset, FS_CardinalityType, LibraryAssumption DEF Items
    <2>3. Cardinality(req[c].crowd) <= BatchSize \/ Cardinality(req[c].crowd) > BatchSize
      BY <2>2
    <2>4. OnePagePurged'
      BY <1>6, <2>1, <2>3 DEF LibraryInv, OnePagePurged
    <2>5. missed' \subseteq Items /\ crowded' \in BOOLEAN
      BY <1>2, <1>6, TypeParts
    <2>. QED
      BY <1>1, <1>3, <1>6, <2>4, <2>5, TypeParts, NoRequest, OneRequestSafe
  <1>. QED
    BY <1>1, <1>5, <1>6

LEMMA DeletePermanentlySafe ==
    ASSUME LibraryInv, NEW c \in Clients, DeletePermanently(c)
    PROVE  LibraryInv'
  <1>. DEFINE r == [req[c] EXCEPT !.at = "rows", !.held = req[c].ids \cap Rows]
  <1>0. req[c] # None /\ req[c].op # "mark" /\ req[c].at = "begin"
    BY DEF DeletePermanently, At
  <1>1. /\ req' = [req EXCEPT ![c] = r]
        /\ UNCHANGED <<contentVars, live, trash, stage, jobs, late, missed, crowded, orphans, fav>>
    BY DEF DeletePermanently, Set
  <1>2. req[c] \in Request /\ RequestFits(req[c]) /\ PurgeFits(req[c]) /\ Deletes(req[c])
    BY <1>0, RequestTyped
  <1>3. r \in Request
    BY <1>2 DEF Request, Steps
  <1>4. /\ r.at = "rows" /\ r.ids = req[c].ids /\ r.held = req[c].ids \cap Rows /\ r.op = req[c].op
        /\ r.due = req[c].due /\ r.crowd = req[c].crowd /\ r.offset = req[c].offset
    BY <1>2 DEF Request
  <1>. HIDE DEF r
  <1>5. RequestFits(r)
    BY <1>2, <1>4 DEF RequestFits
  <1>6. PurgeFits(r)
    BY <1>0, <1>2, <1>4 DEF PurgeFits
  <1>7. faults' \in 0..MaxFaults /\ UNCHANGED <<blob, object, derived, task, view, torn, served, again>>
    BY <1>1, TypeParts DEF contentVars, ContentTypeOK
  <1>. QED
    BY <1>1, <1>3, <1>4, <1>5, <1>6, <1>7, TypeParts, OneRequestSafe DEF LibraryInv, OnePagePurged

\* The rows go: no request loses its rows' being gone by it.
LEMMA DeletePermanentlyRowsSafe ==
    ASSUME LibraryInv, NEW c \in Clients, DeletePermanentlyRows(c)
    PROVE  LibraryInv'
  <1>0. req[c] # None /\ req[c].op # "mark" /\ req[c].at = "rows"
    BY DEF DeletePermanentlyRows, At
  <1>i. PICK ids \in SUBSET Items : ids = req[c].ids
    BY <1>0, RequestTyped
  <1>. DEFINE r == [req[c] EXCEPT !.at = "blobs", !.due = req[c].due \ ids]
  <1>1. /\ live' = live \ ids /\ trash' = Without(ids) /\ fav' = fav \ ids
        /\ req' = [req EXCEPT ![c] = r]
        /\ UNCHANGED <<contentVars, stage, jobs, late, missed, crowded, orphans>>
    BY <1>i DEF DeletePermanentlyRows, DeleteRows, Set
  <1>2. req[c] \in Request /\ RequestFits(req[c]) /\ PurgeFits(req[c]) /\ Deletes(req[c])
    BY <1>0, RequestTyped
  <1>3. TypeOK /\ ContentTypeOK /\ StagesFit /\ ItemsHaveContent /\ JobsFit
    BY TypeParts DEF LibraryInv
  <1>4. InTrash' = InTrash \ ids /\ trash' \in Orders(InTrash')
    BY <1>1, <1>3, TrashWithout
  <1>5. Past' = Past /\ Rows' = Rows \ ids
    BY <1>1, <1>4 DEF Past, Rows
  <1>6. r \in Request
    BY <1>2 DEF Request, Steps
  <1>7. /\ r.at = "blobs" /\ r.ids = ids /\ r.held = req[c].held /\ r.op = req[c].op
        /\ r.due = req[c].due \ ids /\ r.crowd = req[c].crowd /\ r.offset = req[c].offset
    BY <1>2, <1>i DEF Request
  <1>. HIDE DEF r
  <1>8. /\ req \in [Clients -> Request \cup Marking \cup {None}]
        /\ req' \in [Clients -> Request \cup Marking \cup {None}] /\ req'[c] = r
        /\ \A d \in Clients \ {c} : req'[d] = req[d]
    BY <1>1, <1>3, <1>6 DEF TypeOK
  <1>9. RequestFits(req[c])'
    BY <1>2, <1>5, <1>7, <1>8, <1>i DEF RequestFits, Deletes
  <1>10. PurgeFits(req[c])'
    BY <1>0, <1>1, <1>2, <1>4, <1>5, <1>7, <1>8, <1>i DEF PurgeFits
  <1>11. ASSUME NEW d \in Clients \ {c} PROVE RequestFits(req[d])' /\ PurgeFits(req[d])'
    <2>1. RequestFits(req[d]) /\ PurgeFits(req[d])
      BY DEF LibraryInv
    <2>2. RequestFits(req[d])'
      BY <1>5, <1>8, <2>1 DEF RequestFits, Deletes
    <2>3. PurgeFits(req[d])'
      BY <1>1, <1>4, <1>5, <1>8, <2>1 DEF PurgeFits
    <2>. QED
      BY <2>2, <2>3
  <1>12. ContentTypeOK'
    BY <1>1, <1>3 DEF ContentTypeOK, contentVars, derived
  <1>13. TypeOK'
    BY <1>1, <1>3, <1>4, <1>5, <1>8, <1>12 DEF TypeOK
  <1>14. StagesFit' /\ ItemsHaveContent'
    BY <1>1, <1>3, <1>5 DEF StagesFit, ItemsHaveContent, contentVars
  <1>15. JobsFit'
    <2>1. \A d \in Clients : At(d, "enqueue")' => At(d, "enqueue") /\ req'[d].job = req[d].job
      BY <1>7, <1>8 DEF At
    <2>. QED
      BY <1>1, <1>5, <2>1, JobsKept
  <1>16. OnePagePurged'
    BY <1>1 DEF LibraryInv, OnePagePurged
  <1>. QED
    BY <1>9, <1>10, <1>11, <1>13, <1>14, <1>15, <1>16 DEF LibraryInv

\* What is left of a request whose blobs are dealt with fits.
LEMMA ContinuedFits ==
    ASSUME LibraryInv, NEW c \in Clients, At(c, "blobs") \/ At(c, "enqueue")
    PROVE  /\ Continued(req[c]) \in Request \cup Marking \cup {None}
           /\ RequestFits(Continued(req[c])) /\ PurgeFits(Continued(req[c]))
           /\ Continued(req[c]) # None => Continued(req[c]).at = "page"
  <1>0. req[c] # None /\ req[c].op # "mark" /\ req[c].at \in {"blobs", "enqueue"}
    BY DEF At
  <1>1. CASE req[c].op # "purge"
    BY <1>1, NoRequest DEF Continued
  <1>2. CASE req[c].op = "purge"
    <2>1. /\ req[c] \in Request /\ PurgeFits(req[c]) /\ req[c].offset \in Nat
      BY <1>0, RequestTyped
    <2>2. BatchSize \in Nat \ {0} /\ req[c].offset + BatchSize \in Nat \ {0}
      BY <2>1, LibraryAssumption
    <2>. DEFINE r == [req[c] EXCEPT !.at = "page", !.ids = {}, !.held = {}, !.job = None,
                                    !.offset = req[c].offset + BatchSize]
    <2>3. Continued(req[c]) = r
      BY <1>2 DEF Continued
    <2>4. r \in Request
      BY <2>1, <2>2 DEF Request, Steps
    <2>5. /\ r.at = "page" /\ r.ids = {} /\ r.held = {} /\ r.offset # 0 /\ r.op = "purge"
          /\ r.due = req[c].due /\ r.crowd = req[c].crowd
      BY <1>2, <2>1, <2>2 DEF Request
    <2>. HIDE DEF r
    <2>6. RequestFits(r)
      BY <2>5 DEF RequestFits
    <2>7. PurgeFits(r)
      BY <1>0, <1>2, <2>1, <2>5 DEF PurgeFits
    <2>. QED
      BY <2>3, <2>4, <2>5, <2>6, <2>7
  <1>. QED
    BY <1>1, <1>2

LEMMA DeletePermanentlyBlobsSafe ==
    ASSUME LibraryInv, NEW c \in Clients, DeletePermanentlyBlobs(c)
    PROVE  LibraryInv'
  <1>0. At(c, "blobs") /\ req[c] # None /\ req[c].op # "mark" /\ req[c].at = "blobs"
    BY DEF DeletePermanentlyBlobs, At
  <1>f. PICK found \in SUBSET Items : found = req[c].held \cap blob
    BY <1>0, RequestTyped
  <1>1. /\ UNCHANGED <<contentVars, live, trash, stage, late, missed, crowded, orphans, fav>>
        /\ \/ req' = [req EXCEPT ![c] = Continued(req[c])] /\ UNCHANGED jobs
           \/ \E j \in FreshJob :
               /\ jobs' = [jobs EXCEPT ![j] = [blobs |-> found, at |-> "saved"]]
               /\ req' = [req EXCEPT ![c] = [req[c] EXCEPT !.at = "enqueue", !.job = j]]
    BY <1>f DEF DeletePermanentlyBlobs, Set
  <1>2. faults' \in 0..MaxFaults /\ UNCHANGED <<blob, object, derived, task, view, torn, served, again>>
    BY <1>1, TypeParts DEF contentVars, ContentTypeOK
  <1>3. CASE req' = [req EXCEPT ![c] = Continued(req[c])] /\ UNCHANGED jobs
    <2>1. PICK r \in Request \cup Marking \cup {None} : r = Continued(req[c])
      BY <1>0, ContinuedFits
    <2>2. RequestFits(r) /\ PurgeFits(r) /\ (r # None => r.at = "page")
      BY <1>0, <2>1, ContinuedFits
    <2>3. req' = [req EXCEPT ![c] = r]
      BY <1>3, <2>1
    <2>. QED
      BY <1>1, <1>2, <1>3, <2>2, <2>3, TypeParts, OneRequestSafe DEF LibraryInv, OnePagePurged
  <1>4. ASSUME NEW j \in FreshJob, jobs' = [jobs EXCEPT ![j] = [blobs |-> found, at |-> "saved"]],
               req' = [req EXCEPT ![c] = [req[c] EXCEPT !.at = "enqueue", !.job = j]]
        PROVE  LibraryInv'
    <2>. DEFINE r == [req[c] EXCEPT !.at = "enqueue", !.job = j]
                job == [blobs |-> found, at |-> "saved"]
    <2>1. j \in JobIds /\ jobs[j] = None
      BY DEF FreshJob
    <2>2. req[c] \in Request /\ RequestFits(req[c]) /\ PurgeFits(req[c]) /\ Deletes(req[c])
      BY <1>0, RequestTyped
    <2>3. r \in Request /\ job \in Job
      BY <2>1, <2>2 DEF Request, Steps, Job
    <2>4. /\ r.at = "enqueue" /\ r.ids = req[c].ids /\ r.held = req[c].held /\ r.op = req[c].op
          /\ r.due = req[c].due /\ r.crowd = req[c].crowd /\ r.offset = req[c].offset /\ r.job = j
          /\ job.blobs = found /\ job.at = "saved"
      BY <2>2 DEF Request
    <2>a. jobs' = [jobs EXCEPT ![j] = job] /\ req' = [req EXCEPT ![c] = r]
      BY <1>4
    <2>. HIDE DEF r, job
    <2>5. TypeOK /\ ContentTypeOK /\ StagesFit /\ ItemsHaveContent /\ JobsFit
      BY TypeParts DEF LibraryInv
    <2>6. RequestFits(r)
      BY <1>0, <2>2, <2>4 DEF RequestFits
    <2>7. PurgeFits(r)
      BY <1>0, <2>2, <2>4 DEF PurgeFits
    <2>8. /\ req' \in [Clients -> Request \cup Marking \cup {None}]
          /\ \A d \in Clients : RequestFits(req[d])' /\ PurgeFits(req[d])'
          /\ Past' = Past /\ InTrash' = InTrash /\ Rows' = Rows
      BY <1>1, <2>3, <2>6, <2>7, <2>a, OneRequest
    <2>9. /\ jobs' \in [JobIds -> Job \cup {None}] /\ jobs'[j] = job
          /\ \A k \in JobIds \ {j} : jobs'[k] = jobs[k]
      BY <2>1, <2>3, <2>5, <2>a DEF TypeOK
    <2>10. req'[c] = r /\ \A d \in Clients \ {c} : req'[d] = req[d]
      BY <2>5, <2>a DEF TypeOK
    <2>11. found \subseteq Past /\ found \cap Rows = {}
      BY <1>0, <1>f, <2>2 DEF RequestFits
    <2>12. ContentTypeOK' /\ TypeOK'
      <3>1. ContentTypeOK'
        BY <1>1, <2>5 DEF ContentTypeOK, contentVars, derived
      <3>. QED
        BY <1>1, <2>5, <2>8, <2>9, <3>1 DEF TypeOK
    <2>13. StagesFit'
      BY <1>1, <1>2, <2>5, <2>8 DEF StagesFit
    <2>14. ItemsHaveContent'
      BY <1>2, <2>4, <2>5, <2>8, <2>9, <2>11 DEF ItemsHaveContent
    <2>15. JobsFit'
      <3>1. \A k \in JobIds : jobs'[k] # None => jobs'[k].blobs \subseteq Past'
        BY <2>4, <2>5, <2>8, <2>9, <2>11 DEF JobsFit
      <3>2. \A d \in Clients \ {c} : At(d, "enqueue")' => At(d, "enqueue") /\ req'[d].job = req[d].job
        BY <2>10 DEF At
      <3>3. \A d \in Clients : At(d, "enqueue") => req[d].job # j
        BY <2>1, <2>5, JobAssumption DEF JobsFit
      <3>. QED
        BY <2>1, <2>3, <2>4, <2>5, <2>9, <2>10, <3>1, <3>2, <3>3 DEF JobsFit
    <2>16. OnePagePurged'
      BY <1>1 DEF LibraryInv, OnePagePurged
    <2>. QED
      BY <2>8, <2>12, <2>13, <2>14, <2>15, <2>16 DEF LibraryInv
  <1>. QED
    BY <1>1, <1>3, <1>4

LEMMA DeletePermanentlyEnqueueSafe ==
    ASSUME LibraryInv, NEW c \in Clients, DeletePermanentlyEnqueue(c)
    PROVE  LibraryInv'
  <1>0. At(c, "enqueue")
    BY DEF DeletePermanentlyEnqueue
  <1>1. PICK r \in Request \cup Marking \cup {None} : r = Continued(req[c])
    BY <1>0, ContinuedFits
  <1>2. RequestFits(r) /\ PurgeFits(r) /\ (r # None => r.at = "page")
    BY <1>0, <1>1, ContinuedFits
  <1>3. TypeOK /\ ContentTypeOK /\ StagesFit /\ ItemsHaveContent /\ JobsFit
    BY TypeParts DEF LibraryInv
  <1>4. PICK j \in JobIds : j = req[c].job /\ jobs[j] \in Job
    BY <1>0, <1>3 DEF JobsFit
  <1>. DEFINE job == [jobs[j] EXCEPT !.at = "queued"]
  <1>5. /\ jobs' = [jobs EXCEPT ![j] = job] /\ req' = [req EXCEPT ![c] = r]
        /\ UNCHANGED <<contentVars, live, trash, stage, late, missed, crowded, orphans, fav>>
    BY <1>1, <1>4 DEF DeletePermanentlyEnqueue, Set
  <1>6. job \in Job /\ job.blobs = jobs[j].blobs
    BY <1>4 DEF Job
  <1>. HIDE DEF job
  <1>7. /\ req' \in [Clients -> Request \cup Marking \cup {None}]
        /\ \A d \in Clients : RequestFits(req[d])' /\ PurgeFits(req[d])'
        /\ Past' = Past /\ InTrash' = InTrash /\ Rows' = Rows
    BY <1>2, <1>5, OneRequest
  <1>8. /\ jobs' \in [JobIds -> Job \cup {None}] /\ jobs'[j] = job
        /\ \A k \in JobIds \ {j} : jobs'[k] = jobs[k]
    BY <1>3, <1>5, <1>6 DEF TypeOK
  <1>9. req'[c] = r /\ \A d \in Clients \ {c} : req'[d] = req[d]
    BY <1>3, <1>5 DEF TypeOK
  <1>10. jobs[j] # None
    BY <1>4, JobAssumption
  <1>11. TypeOK'
    <2>1. ContentTypeOK'
      BY <1>3, <1>5 DEF ContentTypeOK, contentVars, derived
    <2>. QED
      BY <1>3, <1>5, <1>7, <1>8, <2>1 DEF TypeOK
  <1>12. StagesFit'
    BY <1>3, <1>5, <1>7 DEF StagesFit, contentVars
  <1>13. ItemsHaveContent'
    BY <1>3, <1>5, <1>6, <1>7, <1>8, <1>10 DEF ItemsHaveContent, contentVars
  <1>14. JobsFit'
    <2>1. \A k \in JobIds : jobs'[k] # None => jobs'[k].blobs \subseteq Past'
      BY <1>3, <1>6, <1>7, <1>8, <1>10 DEF JobsFit
    <2>2. \A d \in Clients : At(d, "enqueue")' =>
            At(d, "enqueue") /\ req'[d].job = req[d].job /\ d # c
      BY <1>2, <1>9 DEF At
    <2>3. \A d \in Clients : At(d, "enqueue") /\ d # c => req[d].job # j
      BY <1>0, <1>3, <1>4 DEF JobsFit
    <2>. QED
      BY <1>3, <1>8, <2>1, <2>2, <2>3 DEF JobsFit
  <1>15. OnePagePurged'
    BY <1>5 DEF LibraryInv, OnePagePurged
  <1>. QED
    BY <1>7, <1>11, <1>12, <1>13, <1>14, <1>15 DEF LibraryInv

LEMMA DeleteCrashSafe ==
    ASSUME LibraryInv, NEW c \in Clients, DeleteCrash(c)
    PROVE  LibraryInv'
  <1>1. /\ req' = [req EXCEPT ![c] = None]
        /\ UNCHANGED <<blob, object, derived, task, view, torn, served, again, live, trash, stage,
                       jobs, late, missed, crowded, fav>>
    BY DEF DeleteCrash, Set
  <1>2. faults' \in 0..MaxFaults
    BY TypeParts, ContentAssumption DEF DeleteCrash, ContentTypeOK
  <1>3. orphans' \subseteq Items
    <2>1. At(c, "blobs") \/ At(c, "enqueue") => req[c].held \subseteq Items
      BY RequestTyped DEF At
    <2>. QED
      BY <2>1, TypeParts DEF DeleteCrash
  <1>. QED
    BY <1>1, <1>2, <1>3, TypeParts, NoRequest, OneRequestSafe DEF LibraryInv, OnePagePurged

LEMMA MarkReadSafe ==
    ASSUME LibraryInv, NEW c \in Clients, NEW S \in SUBSET Items, MarkRead(c, S)
    PROVE  LibraryInv'
  <1>1. PICK T \in SUBSET Items : T = S \cap Rows
    OBVIOUS
  <1>. DEFINE r == [op |-> "mark", ids |-> T]
  <1>2. r \in Marking /\ r.op = "mark"
    BY DEF Marking
  <1>3. /\ req' = [req EXCEPT ![c] = r]
        /\ UNCHANGED <<contentVars, live, trash, fav, stage, jobs, late, missed, crowded, orphans>>
    BY <1>1 DEF MarkRead, Set
  <1>. HIDE DEF r
  <1>4. RequestFits(r) /\ PurgeFits(r)
    BY <1>2 DEF RequestFits, PurgeFits, Deletes
  <1>5. faults' \in 0..MaxFaults /\ UNCHANGED <<blob, object, derived, task, view, torn, served, again>>
    BY <1>3, TypeParts DEF contentVars, ContentTypeOK
  <1>. QED
    BY <1>2, <1>3, <1>4, <1>5, TypeParts, OneRequestSafe DEF LibraryInv, OnePagePurged

LEMMA MarkSaveSafe ==
    ASSUME LibraryInv, NEW c \in Clients, MarkSave(c)
    PROVE  LibraryInv'
  <1>1. /\ req' = [req EXCEPT ![c] = None] /\ fav' \subseteq Rows
        /\ UNCHANGED <<contentVars, live, trash, stage, jobs, late, missed, crowded, orphans>>
    BY TypeParts DEF MarkSave, Set
  <1>2. faults' \in 0..MaxFaults /\ UNCHANGED <<blob, object, derived, task, view, torn, served, again>>
    BY <1>1, TypeParts DEF contentVars, ContentTypeOK
  <1>. QED
    BY <1>1, <1>2, TypeParts, NoRequest, OneRequestSafe DEF LibraryInv, OnePagePurged

\* Nothing of the library changes but the marks.
LEMMA LibraryKept ==
    ASSUME LibraryInv, UNCHANGED <<live, trash, stage, req, jobs, late, missed, crowded, orphans>>,
           UNCHANGED <<blob, object>>, ContentTypeOK', fav' \subseteq Rows
    PROVE  LibraryInv'
  <1>1. TypeOK /\ StagesFit /\ ItemsHaveContent
    BY DEF LibraryInv
  <1>2. Past' = Past /\ InTrash' = InTrash /\ Rows' = Rows
    BY DEF Past, InTrash, Rows
  <1>3. TypeOK'
    BY <1>1, <1>2 DEF TypeOK
  <1>4. StagesFit' /\ ItemsHaveContent'
    BY <1>1, <1>2 DEF StagesFit, ItemsHaveContent
  <1>5. JobsFit'
    BY <1>2, JobsKept DEF At
  <1>6. \A c \in Clients : RequestFits(req[c])' /\ PurgeFits(req[c])'
    BY <1>2, RequestKept
  <1>7. OnePagePurged'
    BY DEF LibraryInv, OnePagePurged
  <1>. QED
    BY <1>3, <1>4, <1>5, <1>6, <1>7 DEF LibraryInv

-----------------------------------------------------------------------------
(* Trash and jobs                                                          *)

\* What a deletion and a restore do to the purges under way.
LEMMA PurgesTyped ==
    ASSUME LibraryInv, NEW c \in Purges, NEW T \in SUBSET Items
    PROVE  /\ req[c] \in Request
           /\ [req[c] EXCEPT !.crowd = req[c].crowd \cup T] \in Request
           /\ [req[c] EXCEPT !.due = req[c].due \ T] \in Request
  <1>1. req[c] \in Request /\ req[c].crowd \subseteq Items /\ req[c].due \subseteq Items
    BY RequestTyped DEF Purges
  <1>. QED
    BY <1>1 DEF Request

LEMMA DeleteBatchSafe ==
    ASSUME LibraryInv, NEW S \in SUBSET Items, DeleteBatch(S)
    PROVE  LibraryInv'
  <1>0. PICK T \in SUBSET Items : T = S \cap Rows
    OBVIOUS
  <1>1. /\ live' = live \ S
        /\ req' = [c \in Clients |-> IF c \in Purges
                     THEN [req[c] EXCEPT !.crowd = req[c].crowd \cup T] ELSE req[c]]
        /\ UNCHANGED <<contentVars, stage, jobs, late, missed, crowded, orphans, fav>>
    BY <1>0 DEF DeleteBatch
  <1>2. TypeOK /\ ContentTypeOK /\ StagesFit /\ ItemsHaveContent /\ JobsFit
    BY TypeParts DEF LibraryInv
  <1>3. InTrash' = InTrash \cup T /\ trash' \in Orders(InTrash')
    BY <1>0, <1>2, TrashFirst DEF DeleteBatch
  <1>4. Past' = Past /\ Rows' = Rows /\ live' \cap InTrash' = {}
    BY <1>0, <1>1, <1>2, <1>3 DEF Past, Rows, TypeOK
  <1>5. req' \in [Clients -> Request \cup Marking \cup {None}]
    BY <1>1, <1>2, PurgesTyped DEF TypeOK
  <1>6. ASSUME NEW c \in Clients PROVE RequestFits(req[c])' /\ PurgeFits(req[c])' /\ (At(c, "enqueue")'
                => At(c, "enqueue") /\ req'[c].job = req[c].job)
    <2>0. RequestFits(req[c]) /\ PurgeFits(req[c])
      BY DEF LibraryInv
    <2>1. CASE c \notin Purges
      <3>1. req'[c] = req[c]
        BY <1>1, <2>1
      <3>2. req[c] = None \/ req[c].op # "purge"
        BY <2>1 DEF Purges
      <3>. QED
        BY <1>4, <2>0, <3>1, <3>2 DEF RequestFits, PurgeFits, Deletes, At
    <2>2. CASE c \in Purges
      <3>. DEFINE r == [req[c] EXCEPT !.crowd = req[c].crowd \cup T]
      <3>1. req[c] \in Request /\ req[c] # None /\ req[c].op = "purge" /\ req[c].op # "mark"
        BY <2>2, PurgesTyped DEF Purges
      <3>2. req'[c] = r
        BY <1>1, <2>2
      <3>3. /\ r.op = "purge" /\ r.at = req[c].at /\ r.ids = req[c].ids /\ r.held = req[c].held
            /\ r.job = req[c].job /\ r.offset = req[c].offset /\ r.due = req[c].due
            /\ r.crowd = req[c].crowd \cup T
        BY <3>1 DEF Request
      <3>. HIDE DEF r
      <3>4. Cardinality(r.crowd) <= BatchSize => Cardinality(req[c].crowd) <= BatchSize
        <4>1. req[c].crowd \subseteq r.crowd /\ r.crowd \subseteq Items
          BY <3>1, <3>3, RequestTyped
        <4>2. IsFiniteSet(r.crowd)
          BY <4>1, FS_Subset, LibraryAssumption DEF Items
        <4>3. /\ Cardinality(req[c].crowd) <= Cardinality(r.crowd)
              /\ Cardinality(r.crowd) \in Nat /\ Cardinality(req[c].crowd) \in Nat
          BY <4>1, <4>2, FS_Subset, FS_CardinalityType
        <4>. QED
          BY <4>3, LibraryAssumption
      <3>5. req[c].due \cap InTrash' = req[c].due \cap InTrash
        <4>1. req[c].due \cap live = {}
          BY <2>0, <3>1 DEF PurgeFits
        <4>. QED
          BY <1>0, <1>3, <4>1 DEF Rows
      <3>6. RequestFits(req[c])'
        BY <1>4, <2>0, <3>1, <3>2, <3>3 DEF RequestFits, Deletes
      <3>7. PurgeFits(req[c])'
        BY <1>1, <1>3, <1>4, <2>0, <3>1, <3>2, <3>3, <3>4, <3>5 DEF PurgeFits
      <3>. QED
        BY <3>1, <3>2, <3>3, <3>6, <3>7 DEF At
    <2>. QED
      BY <2>1, <2>2
  <1>7. TypeOK'
    <2>1. ContentTypeOK'
      BY <1>1, <1>2 DEF ContentTypeOK, contentVars, derived
    <2>. QED
      BY <1>1, <1>2, <1>3, <1>4, <1>5, <2>1 DEF TypeOK
  <1>8. StagesFit' /\ ItemsHaveContent'
    BY <1>1, <1>2, <1>4 DEF StagesFit, ItemsHaveContent, contentVars
  <1>9. JobsFit'
    BY <1>1, <1>4, <1>6, JobsKept
  <1>10. OnePagePurged'
    BY <1>1 DEF LibraryInv, OnePagePurged
  <1>. QED
    BY <1>6, <1>7, <1>8, <1>9, <1>10 DEF LibraryInv

LEMMA RestoreBatchSafe ==
    ASSUME LibraryInv, NEW S \in SUBSET Items, RestoreBatch(S)
    PROVE  LibraryInv'
  <1>1. /\ live' = live \cup (S \cap Rows) /\ trash' = Without(S)
        /\ late' = late \cup {i \in S \cap InTrash : Doomed(i)}
        /\ req' = [c \in Clients |-> IF c \in Purges
                     THEN [req[c] EXCEPT !.due = req[c].due \ S] ELSE req[c]]
        /\ UNCHANGED <<contentVars, stage, jobs, missed, crowded, orphans, fav>>
    BY DEF RestoreBatch
  <1>2. TypeOK /\ ContentTypeOK /\ StagesFit /\ ItemsHaveContent /\ JobsFit
    BY TypeParts DEF LibraryInv
  <1>3. InTrash' = InTrash \ S /\ trash' \in Orders(InTrash')
    BY <1>1, <1>2, TrashWithout
  <1>4. Past' = Past /\ Rows' = Rows /\ live' \cap InTrash' = {} /\ live' \subseteq Items
    BY <1>1, <1>2, <1>3 DEF Past, Rows, TypeOK
  <1>5. /\ req' \in [Clients -> Request \cup Marking \cup {None}]
        /\ late' \subseteq Items
    BY <1>1, <1>2, PurgesTyped DEF TypeOK
  <1>6. ASSUME NEW c \in Clients PROVE RequestFits(req[c])' /\ PurgeFits(req[c])' /\ (At(c, "enqueue")'
                => At(c, "enqueue") /\ req'[c].job = req[c].job)
    <2>0. RequestFits(req[c]) /\ PurgeFits(req[c])
      BY DEF LibraryInv
    <2>1. CASE c \notin Purges
      <3>1. req'[c] = req[c]
        BY <1>1, <2>1
      <3>2. req[c] = None \/ req[c].op # "purge"
        BY <2>1 DEF Purges
      <3>. QED
        BY <1>4, <2>0, <3>1, <3>2 DEF RequestFits, PurgeFits, Deletes, At
    <2>2. CASE c \in Purges
      <3>. DEFINE r == [req[c] EXCEPT !.due = req[c].due \ S]
      <3>1. req[c] \in Request /\ req[c] # None /\ req[c].op = "purge" /\ req[c].op # "mark"
        BY <2>2, PurgesTyped DEF Purges
      <3>2. req'[c] = r
        BY <1>1, <2>2
      <3>3. /\ r.op = "purge" /\ r.at = req[c].at /\ r.ids = req[c].ids /\ r.held = req[c].held
            /\ r.job = req[c].job /\ r.offset = req[c].offset /\ r.due = req[c].due \ S
            /\ r.crowd = req[c].crowd
        BY <3>1 DEF Request
      <3>. HIDE DEF r
      <3>4. r.ids \cap live' \subseteq late'
        <4>1. \A i \in r.ids : Doomed(i)
          BY <3>1, <3>3 DEF Doomed
        <4>2. r.ids \cap live \subseteq late
          BY <2>0, <3>1, <3>3 DEF PurgeFits
        <4>. QED
          BY <1>1, <4>1, <4>2 DEF Rows
      <3>5. RequestFits(req[c])'
        BY <1>4, <2>0, <3>1, <3>2, <3>3 DEF RequestFits, Deletes
      <3>6. r.due \cap live' = {}
        BY <1>1, <2>0, <3>1, <3>3 DEF PurgeFits
      <3>7. PurgeFits(req[c])'
        BY <1>3, <1>4, <2>0, <3>1, <3>2, <3>3, <3>4, <3>6 DEF PurgeFits
      <3>. QED
        BY <3>1, <3>2, <3>3, <3>5, <3>7 DEF At
    <2>. QED
      BY <2>1, <2>2
  <1>7. TypeOK'
    <2>1. ContentTypeOK'
      BY <1>1, <1>2 DEF ContentTypeOK, contentVars, derived
    <2>. QED
      BY <1>1, <1>2, <1>3, <1>4, <1>5, <2>1 DEF TypeOK
  <1>8. StagesFit' /\ ItemsHaveContent'
    BY <1>1, <1>2, <1>4 DEF StagesFit, ItemsHaveContent, contentVars
  <1>9. JobsFit'
    BY <1>1, <1>4, <1>6, JobsKept
  <1>10. OnePagePurged'
    BY <1>1 DEF LibraryInv, OnePagePurged
  <1>. QED
    BY <1>6, <1>7, <1>8, <1>9, <1>10 DEF LibraryInv

\* A job goes on or ends; it is not one whose message is still to be sent.
LEMMA JobMoves ==
    ASSUME LibraryInv, NEW j \in JobIds, NEW job \in Job \cup {None},
           jobs[j] # None, jobs[j].at # "saved", jobs' = [jobs EXCEPT ![j] = job],
           job # None => job.blobs = jobs[j].blobs,
           object \ jobs[j].blobs \subseteq object', object' \subseteq object,
           blob \ jobs[j].blobs \subseteq blob', blob' \subseteq blob, meta' \subseteq meta,
           UNCHANGED <<thumb, lock, task, view, faults, torn, served, again,
                       live, trash, stage, req, late, missed, crowded, orphans, fav>>
    PROVE  LibraryInv'
  <1>1. TypeOK /\ ContentTypeOK /\ StagesFit /\ ItemsHaveContent /\ JobsFit
    BY TypeParts DEF LibraryInv
  <1>2. Past' = Past /\ InTrash' = InTrash /\ Rows' = Rows
    BY DEF Past, InTrash, Rows
  <1>3. /\ jobs' \in [JobIds -> Job \cup {None}] /\ jobs'[j] = job
        /\ \A k \in JobIds \ {j} : jobs'[k] = jobs[k]
    BY <1>1 DEF TypeOK
  <1>4. jobs[j].blobs \subseteq Past /\ jobs[j].blobs \cap Rows = {}
    BY <1>1 DEF JobsFit, ItemsHaveContent
  <1>5. TypeOK'
    <2>1. ContentTypeOK'
      BY <1>1 DEF ContentTypeOK
    <2>. QED
      BY <1>1, <1>2, <1>3, <2>1 DEF TypeOK
  <1>6. StagesFit'
    <2>1. \A i \in Items : stage[i] \in {"stored", "blob"} => i \notin jobs[j].blobs
      BY <1>4 DEF Past
    <2>. QED
      BY <1>1, <1>2, <2>1 DEF StagesFit
  <1>7. ItemsHaveContent'
    <2>1. Rows \subseteq blob' \cap object'
      BY <1>1, <1>4 DEF ItemsHaveContent
    <2>2. \A k \in JobIds : jobs'[k] # None => jobs'[k].blobs \cap Rows = {}
      BY <1>1, <1>3, <1>4 DEF ItemsHaveContent
    <2>. QED
      BY <1>2, <2>1, <2>2 DEF ItemsHaveContent
  <1>8. JobsFit'
    <2>1. \A k \in JobIds : jobs'[k] # None => jobs'[k].blobs \subseteq Past
      BY <1>1, <1>3, <1>4 DEF JobsFit
    <2>2. \A c \in Clients : At(c, "enqueue")' <=> At(c, "enqueue")
      BY DEF At
    <2>3. \A c \in Clients : At(c, "enqueue") => req[c].job # j
      BY <1>1 DEF JobsFit
    <2>. QED
      BY <1>1, <1>2, <1>3, <2>1, <2>2, <2>3 DEF JobsFit
  <1>9. \A c \in Clients : RequestFits(req[c])' /\ PurgeFits(req[c])'
    BY <1>2, RequestKept
  <1>10. OnePagePurged'
    BY DEF LibraryInv, OnePagePurged
  <1>. QED
    BY <1>5, <1>6, <1>7, <1>8, <1>9, <1>10 DEF LibraryInv

LEMMA WorkSafe ==
    ASSUME LibraryInv, NEW j \in JobIds, Work(j)
    PROVE  LibraryInv'
  <1>1. jobs[j] # None /\ jobs[j] \in Job
    BY TypeParts DEF Work, JobStore, JobSave
  <1>2. CASE JobStore(j)
    <2>. DEFINE job == [jobs[j] EXCEPT !.at = "removed"]
    <2>1. job \in Job /\ job.blobs = jobs[j].blobs
      BY <1>1 DEF Job
    <2>2. /\ jobs' = [jobs EXCEPT ![j] = job] /\ jobs[j].at = "queued"
          /\ object' = object \ jobs[j].blobs
          /\ UNCHANGED <<blob, meta, thumb, lock, task, view, faults, torn, served, again,
                         live, trash, stage, req, late, missed, crowded, orphans, fav>>
      BY <1>2 DEF JobStore, derivedOnly, derived
    <2>. HIDE DEF job
    <2>. QED
      BY <1>1, <2>1, <2>2, JobMoves
  <1>3. CASE JobSave(j)
    <2>1. /\ jobs' = [jobs EXCEPT ![j] = None] /\ jobs[j].at = "removed"
          /\ blob' = blob \ jobs[j].blobs /\ meta' = meta \ jobs[j].blobs
          /\ UNCHANGED <<object, thumb, lock, task, view, faults, torn, served, again,
                         live, trash, stage, req, late, missed, crowded, orphans, fav>>
      BY <1>3 DEF JobSave
    <2>. QED
      BY <1>1, <2>1, JobMoves
  <1>. QED
    BY <1>2, <1>3 DEF Work

-----------------------------------------------------------------------------
(* The types of the content                                                *)

LEMMA TaskTyped ==
    ASSUME ContentTypeOK, NEW b \in Blobs, NEW s \in TaskStates, Step(b, s)
    PROVE  /\ task' \in [Blobs -> TaskStates] /\ task'[b] = s
           /\ \A a \in Blobs \ {b} : task'[a] = task[a]
  BY DEF ContentTypeOK, Step

LEMMA LockTyped ==
    ASSUME ContentTypeOK, NEW h \in Hashes, NEW p \in Blobs \cup Viewers,
           Acquire(h, p) \/ Release(h, p) \/ UNCHANGED lock
    PROVE  /\ lock' \in [Hashes -> Blobs \cup Viewers \cup {None}]
           /\ \A g \in Hashes \ {h} : lock'[g] = lock[g]
  BY DEF ContentTypeOK, Acquire, Release

LEMMA ThumbTyped ==
    ASSUME ContentTypeOK, NEW h \in Hashes, SaveBegin(h) \/ SaveEnd(h)
    PROVE  /\ thumb' \in [Hashes -> Thumbs]
           /\ SaveBegin(h) => thumb'[h] = "partial"
           /\ SaveEnd(h) => thumb'[h] = "whole"
           /\ \A g \in Hashes \ {h} : thumb'[g] = thumb[g]
  BY DEF ContentTypeOK, SaveBegin, SaveEnd, Thumbs

\* A request for a thumbnail under way, and what may become of it.
LEMMA ViewTyped ==
    ASSUME ContentTypeOK, NEW v \in Viewers
    PROVE  /\ view[v] # None => view[v] \in View /\ view[v].blob \in Blobs
                                  /\ Chash[view[v].blob] \in Hashes
           /\ ViewEnds(v) => view' \in [Viewers -> View \cup {None}] /\ view'[v] = None
           /\ \A s \in ViewStates : view[v] # None /\ ViewAt(v, s) =>
                /\ view' \in [Viewers -> View \cup {None}] /\ view'[v] \in View
                /\ view'[v].at = s /\ view'[v].blob = view[v].blob
           /\ ViewEnds(v) \/ (\E s : ViewAt(v, s)) =>
                \A w \in Viewers \ {v} : view'[w] = view[w]
  <1>1. view \in [Viewers -> View \cup {None}]
    BY DEF ContentTypeOK
  <1>2. view[v] # None => view[v] \in View /\ view[v].blob \in Blobs
                            /\ Chash[view[v].blob] \in Hashes
    BY <1>1, ContentAssumption DEF View
  <1>3. ViewEnds(v) => view' \in [Viewers -> View \cup {None}] /\ view'[v] = None
    BY <1>1 DEF ViewEnds
  <1>4. ASSUME NEW s \in ViewStates, view[v] # None, ViewAt(v, s)
        PROVE  /\ view' \in [Viewers -> View \cup {None}] /\ view'[v] \in View
               /\ view'[v].at = s /\ view'[v].blob = view[v].blob
    <2>. DEFINE w == [view[v] EXCEPT !.at = s]
    <2>1. w \in View /\ w.at = s /\ w.blob = view[v].blob
      BY <1>2, <1>4 DEF View
    <2>2. view' = [view EXCEPT ![v] = w]
      BY <1>4 DEF ViewAt
    <2>. HIDE DEF w
    <2>. QED
      BY <1>1, <2>1, <2>2
  <1>5. ViewEnds(v) \/ (\E s : ViewAt(v, s)) => \A w \in Viewers \ {v} : view'[w] = view[w]
    BY <1>1 DEF ViewEnds, ViewAt
  <1>. QED
    BY <1>2, <1>3, <1>4, <1>5

LEMMA ServedTyped ==
    ASSUME ContentTypeOK, NEW h \in Hashes, NEW t \in {"partial", "whole"}, Serve(h, t)
    PROVE  /\ served' \in [Hashes -> SUBSET {"partial", "whole"}]
           /\ served'[h] = served[h] \cup {t}
           /\ \A g \in Hashes \ {h} : served'[g] = served[g]
  BY DEF ContentTypeOK, Serve

-----------------------------------------------------------------------------
(* Who works on a thumbnail                                                *)

Actors == Blobs \cup Viewers

LEMMA WriterAtWork ==
    ASSUME NEW h, NEW p, Writing(h, p)
    PROVE  AtWork(h, p)
  BY DEF Writing, AtWork

\* A task of the worker takes a step.
LEMMA TaskMoves ==
    ASSUME ContentTypeOK, NEW b \in Blobs, NEW s \in TaskStates, Step(b, s), UNCHANGED view,
           NEW h
    PROVE  /\ \A q \in Actors \ {b} : /\ AtWork(h, q)' <=> AtWork(h, q)
                                      /\ Writing(h, q)' <=> Writing(h, q)
           /\ AtWork(h, b) <=> Chash[b] = h /\ task[b] \in {"making", "writing"}
           /\ AtWork(h, b)' <=> Chash[b] = h /\ s \in {"making", "writing"}
           /\ Writing(h, b) <=> Chash[b] = h /\ task[b] = "writing"
           /\ Writing(h, b)' <=> Chash[b] = h /\ s = "writing"
  <1>1. b \notin Viewers
    BY ContentAssumption
  <1>2. task'[b] = s /\ \A a \in Blobs \ {b} : task'[a] = task[a]
    BY TaskTyped
  <1>. QED
    BY <1>1, <1>2 DEF AtWork, Writing, Actors

\* A request for a thumbnail takes a step.
LEMMA ViewMoves ==
    ASSUME ContentTypeOK, NEW v \in Viewers, NEW b, NEW s, NEW t,
           view[v] # None, view[v].blob = b, view[v].at = s,
           \/ view'[v] = None /\ t = "none"
           \/ view'[v] \in View /\ view'[v].blob = b /\ view'[v].at = t,
           \A w \in Viewers \ {v} : view'[w] = view[w], UNCHANGED task, NEW h
    PROVE  /\ \A q \in Actors \ {v} : /\ AtWork(h, q)' <=> AtWork(h, q)
                                      /\ Writing(h, q)' <=> Writing(h, q)
           /\ AtWork(h, v) <=> Chash[b] = h /\ s \in {"locked", "making", "writing"}
           /\ AtWork(h, v)' <=> Chash[b] = h /\ t \in {"locked", "making", "writing"}
           /\ Writing(h, v) <=> Chash[b] = h /\ s = "writing"
           /\ Writing(h, v)' <=> Chash[b] = h /\ t = "writing"
  <1>1. v \notin Blobs
    BY ContentAssumption
  <1>2. \A q \in Actors \ {v} : /\ AtWork(h, q)' <=> AtWork(h, q)
                                /\ Writing(h, q)' <=> Writing(h, q)
    BY DEF AtWork, Writing, Actors
  <1>3. /\ AtWork(h, v) <=> Chash[b] = h /\ s \in {"locked", "making", "writing"}
        /\ Writing(h, v) <=> Chash[b] = h /\ s = "writing"
    BY <1>1 DEF AtWork, Writing
  <1>4. CASE view'[v] = None /\ t = "none"
    BY <1>1, <1>2, <1>3, <1>4 DEF AtWork, Writing
  <1>5. CASE view'[v] \in View /\ view'[v].blob = b /\ view'[v].at = t
    BY <1>1, <1>2, <1>3, <1>5, NoneAssumption DEF AtWork, Writing
  <1>. QED
    BY <1>4, <1>5

\* The step of one actor p on hash g: it takes a free lock, it writes under its
\* lock, or it leaves a file that it is not writing or has written.
Quiet(g, p) ==
    /\ lock'[g] = lock[g] /\ thumb'[g] = thumb[g]
    /\ AtWork(g, p)' => AtWork(g, p)
    /\ Writing(g, p) => Writing(g, p)'

Takes(g, p) ==
    /\ lock[g] = None /\ lock'[g] = p /\ thumb'[g] = thumb[g]

Writes(g, p) ==
    /\ AtWork(g, p) /\ lock'[g] = lock[g] /\ Writing(g, p)'

Leaves(g, p) ==
    /\ AtWork(g, p) /\ ~AtWork(g, p)'
    /\ \/ thumb'[g] = "whole"
       \/ thumb'[g] = thumb[g] /\ ~Writing(g, p)

LEMMA MoveGuarded ==
    ASSUME ContentTypeOK, NEW p \in Actors, NEW g \in Hashes, torn \subseteq torn',
           \A h \in Hashes \ torn : Guarded(h),
           \A h \in Hashes, q \in Actors \ {p} : /\ AtWork(h, q)' <=> AtWork(h, q)
                                                 /\ Writing(h, q)' <=> Writing(h, q),
           \A h \in Hashes \ {g} : /\ ~AtWork(h, p) /\ ~AtWork(h, p)'
                                   /\ lock'[h] = lock[h] /\ thumb'[h] = thumb[h],
           \/ g \in torn'
           \/ Quiet(g, p) \/ Takes(g, p) \/ Writes(g, p) \/ Leaves(g, p)
    PROVE  \A h \in Hashes \ torn' : Guarded(h)'
  <1>. SUFFICES ASSUME NEW h \in Hashes, h \notin torn' PROVE Guarded(h)'
    OBVIOUS
  <1>1. /\ \A q \in Actors : AtWork(h, q) => lock[h] = q
        /\ thumb[h] = "partial" => \E q \in Actors : Writing(h, q)
    BY DEF Guarded, Actors
  <1>2. \A q \in Actors : Writing(h, q) => AtWork(h, q)
    BY WriterAtWork
  <1>3. None \notin Actors
    BY ContentAssumption DEF Actors
  <1>4. SUFFICES /\ \A q \in Actors : AtWork(h, q)' => lock'[h] = q
                 /\ thumb'[h] = "partial" => \E q \in Actors : Writing(h, q)'
    BY DEF Guarded, Actors
  <1>5. CASE h # g
    BY <1>1, <1>2, <1>5
  <1>6. CASE h = g /\ Quiet(g, p)
    BY <1>1, <1>6 DEF Quiet
  <1>7. CASE h = g /\ Takes(g, p)
    BY <1>1, <1>2, <1>3, <1>7 DEF Takes
  <1>8. CASE h = g /\ Writes(g, p)
    BY <1>1, <1>8 DEF Writes
  <1>9. CASE h = g /\ Leaves(g, p)
    BY <1>1, <1>2, <1>9 DEF Leaves
  <1>. QED
    BY <1>5, <1>6, <1>7, <1>8, <1>9

-----------------------------------------------------------------------------
(* The worker                                                              *)

LEMMA TasksFit ==
    ASSUME ContentInv, NEW b \in Blobs, NEW s \in TaskStates, Step(b, s), task[b] # "none",
           UNCHANGED <<stage, blob, object>>, again \subseteq again',
           meta' \subseteq meta \cup {b},
           b \in meta' /\ b \notin again' => s \in {"tracked", "done"},
           s = "failed" => b \notin blob \cap object \/ b \in again'
    PROVE  \A a \in Blobs : TaskFits(a)'
  <1>. SUFFICES ASSUME NEW a \in Blobs PROVE TaskFits(a)'
    OBVIOUS
  <1>1. ContentTypeOK /\ TaskFits(a)
    BY DEF ContentInv
  <1>2. task'[b] = s /\ (a # b => task'[a] = task[a])
    BY <1>1, TaskTyped
  <1>. QED
    BY <1>1, <1>2 DEF TaskFits

\* A step of a task that neither takes nor leaves a lock, or is cut off.
LEMMA TaskMovesSafe ==
    ASSUME ContentInv, NEW b \in Blobs, NEW s \in TaskStates, Step(b, s), task[b] # "none",
           UNCHANGED <<stage, blob, object, thumb, lock, view, served>>, again \subseteq again',
           again' \subseteq Blobs, faults' \in 0..MaxFaults, torn \subseteq torn',
           torn' \subseteq Hashes, meta' \subseteq meta \cup {b},
           b \in meta' /\ b \notin again' => s \in {"tracked", "done"},
           s = "failed" => b \notin blob \cap object \/ b \in again',
           s \notin {"making", "writing"}, task[b] = "writing" => Chash[b] \in torn'
    PROVE  ContentInv'
  <1>1. ContentTypeOK /\ ThumbnailsWhole /\ \A h \in Hashes \ torn : Guarded(h)
    BY DEF ContentInv
  <1>2. PICK g \in Hashes : g = Chash[b]
    BY ContentAssumption
  <1>3. ContentTypeOK'
    <2>1. task' \in [Blobs -> TaskStates]
      BY <1>1, TaskTyped
    <2>. QED
      BY <1>1, <2>1 DEF ContentTypeOK
  <1>4. ThumbnailsWhole'
    BY <1>1 DEF ThumbnailsWhole
  <1>5. \A h \in Hashes \ torn' : Guarded(h)'
    <2>1. b \in Actors
      BY DEF Actors
    <2>2. \A h \in Hashes, q \in Actors \ {b} :
            (AtWork(h, q)' <=> AtWork(h, q)) /\ (Writing(h, q)' <=> Writing(h, q))
      BY <1>1, TaskMoves
    <2>3. \A h \in Hashes \ {g} : /\ ~AtWork(h, b) /\ ~AtWork(h, b)'
                                  /\ lock'[h] = lock[h] /\ thumb'[h] = thumb[h]
      BY <1>1, <1>2, TaskMoves
    <2>4. g \in torn' \/ Quiet(g, b)
      BY <1>1, <1>2, TaskMoves DEF Quiet
    <2>. QED
      BY <1>1, <2>1, <2>2, <2>3, <2>4, MoveGuarded
  <1>6. \A a \in Blobs : TaskFits(a)'
    BY TasksFit
  <1>. QED
    BY <1>3, <1>4, <1>5, <1>6 DEF ContentInv

\* The steps of a task that touch the lock or the file of its hash.
LEMMA TaskWritesSafe ==
    ASSUME ContentInv, NEW b \in Blobs, NEW s \in {"track", "making", "writing"}, Step(b, s),
           task[b] \in {"loaded", "making", "writing"},
           UNCHANGED <<stage, blob, object, meta, view, faults, torn, served, again>>,
           lock' \in [Hashes -> Blobs \cup Viewers \cup {None}], thumb' \in [Hashes -> Thumbs],
           NEW g \in Hashes, g = Chash[b],
           \A h \in Hashes \ {g} : lock'[h] = lock[h] /\ thumb'[h] = thumb[h],
           Quiet(g, b) \/ Takes(g, b) \/ Writes(g, b) \/ Leaves(g, b)
    PROVE  ContentInv'
  <1>1. ContentTypeOK /\ ThumbnailsWhole /\ (\A h \in Hashes \ torn : Guarded(h)) /\ TaskFits(b)
    BY DEF ContentInv
  <1>2. s \in TaskStates
    BY DEF TaskStates
  <1>3. ContentTypeOK'
    <2>1. task' \in [Blobs -> TaskStates]
      BY <1>1, <1>2, TaskTyped
    <2>. QED
      BY <1>1, <2>1 DEF ContentTypeOK
  <1>4. ThumbnailsWhole'
    BY <1>1 DEF ThumbnailsWhole
  <1>5. \A h \in Hashes \ torn' : Guarded(h)'
    <2>1. b \in Actors
      BY DEF Actors
    <2>2. \A h \in Hashes, q \in Actors \ {b} :
            (AtWork(h, q)' <=> AtWork(h, q)) /\ (Writing(h, q)' <=> Writing(h, q))
      BY <1>1, <1>2, TaskMoves
    <2>3. \A h \in Hashes \ {g} : /\ ~AtWork(h, b) /\ ~AtWork(h, b)'
                                  /\ lock'[h] = lock[h] /\ thumb'[h] = thumb[h]
      BY <1>1, <1>2, TaskMoves
    <2>. QED
      BY <1>1, <2>1, <2>2, <2>3, MoveGuarded
  <1>6. \A a \in Blobs : TaskFits(a)'
    <2>1. b \in meta => b \in again
      BY <1>1 DEF TaskFits
    <2>. QED
      BY <1>2, <2>1, TasksFit
  <1>. QED
    BY <1>3, <1>4, <1>5, <1>6 DEF ContentInv

LEMMA ProcessSafe ==
    ASSUME ContentInv, NEW b \in Blobs, Process(b), UNCHANGED stage
    PROVE  ContentInv'
  <1>1. ContentTypeOK /\ TaskFits(b)
    BY DEF ContentInv
  <1>2. PICK g \in Hashes : g = Chash[b]
    BY ContentAssumption
  <1>3. faults \in 0..MaxFaults /\ torn \subseteq Hashes /\ again \subseteq Blobs
        /\ lock \in [Hashes -> Blobs \cup Viewers \cup {None}] /\ thumb \in [Hashes -> Thumbs]
    BY <1>1 DEF ContentTypeOK
  <1>4. ASSUME task[b] \notin {"tracked", "done"} PROVE b \in meta => b \in again
    BY <1>1, <1>4 DEF TaskFits
  <1>5. \A s \in {"read", "failed", "loaded", "track", "tracked", "done", "making", "writing"} :
          s \in TaskStates
    BY DEF TaskStates
  <1>6. CASE ProcessRead(b) \/ ProcessDownload(b) \/ GenerateNothing(b)
    <2>1. PICK s \in {"read", "failed", "loaded", "track"} :
            Step(b, s) /\ (s = "failed" => b \notin blob \cap object)
      BY <1>6 DEF ProcessRead, ProcessDownload, GenerateNothing
    <2>2. /\ task[b] \in {"queued", "read", "loaded"}
          /\ UNCHANGED <<blob, object, meta, thumb, lock, view, faults, torn, served, again>>
      BY <1>6 DEF ProcessRead, ProcessDownload, GenerateNothing, derived
    <2>. QED
      BY <1>3, <1>4, <1>5, <2>1, <2>2, TaskMovesSafe
  <1>7. CASE GenerateLock(b)
    <2>1. /\ task[b] = "loaded" /\ lock[g] = None
          /\ UNCHANGED <<blob, object, meta, thumb, view, faults, torn, served, again>>
      BY <1>2, <1>7 DEF GenerateLock
    <2>2. CASE Step(b, "track") /\ UNCHANGED lock
      BY <1>3, <1>4, <1>5, <2>1, <2>2, TaskMovesSafe
    <2>3. CASE Step(b, "making") /\ Acquire(g, b)
      <3>1. /\ lock' \in [Hashes -> Blobs \cup Viewers \cup {None}] /\ lock'[g] = b
            /\ \A h \in Hashes \ {g} : lock'[h] = lock[h]
        BY <1>3, <2>3 DEF Acquire
      <3>2. Takes(g, b)
        BY <2>1, <3>1 DEF Takes
      <3>. QED
        BY <1>2, <1>3, <1>5, <2>1, <2>3, <3>1, <3>2, TaskWritesSafe
    <2>. QED
      BY <1>2, <1>7, <2>2, <2>3 DEF GenerateLock
  <1>8. CASE GenerateSave(b)
    <2>1. /\ task[b] = "making" /\ SaveBegin(g) /\ Step(b, "writing")
          /\ UNCHANGED <<blob, object, meta, lock, view, faults, torn, served, again>>
      BY <1>2, <1>8 DEF GenerateSave
    <2>2. thumb' \in [Hashes -> Thumbs] /\ \A h \in Hashes \ {g} : thumb'[h] = thumb[h]
      BY <1>1, <2>1, ThumbTyped
    <2>3. Writes(g, b)
      BY <1>1, <1>2, <1>5, <2>1, TaskMoves DEF Writes
    <2>. QED
      BY <1>2, <1>3, <2>1, <2>2, <2>3, TaskWritesSafe
  <1>9. CASE GenerateSaved(b)
    <2>1. /\ task[b] = "writing" /\ SaveEnd(g) /\ Release(g, b) /\ Step(b, "track")
          /\ UNCHANGED <<blob, object, meta, view, faults, torn, served, again>>
      BY <1>2, <1>9 DEF GenerateSaved
    <2>2. /\ thumb' \in [Hashes -> Thumbs] /\ thumb'[g] = "whole"
          /\ \A h \in Hashes \ {g} : thumb'[h] = thumb[h]
      BY <1>1, <2>1, ThumbTyped
    <2>3. /\ lock' \in [Hashes -> Blobs \cup Viewers \cup {None}]
          /\ \A h \in Hashes \ {g} : lock'[h] = lock[h]
      BY <1>1, <2>1, LockTyped
    <2>4. Leaves(g, b)
      <3>1. AtWork(g, b) /\ ~AtWork(g, b)'
        BY <1>1, <1>2, <1>5, <2>1, TaskMoves
      <3>. QED
        BY <2>2, <3>1 DEF Leaves
    <2>. QED
      BY <1>2, <2>1, <2>2, <2>3, <2>4, TaskWritesSafe
  <1>10. CASE Track(b)
    <2>1. /\ task[b] = "track"
          /\ UNCHANGED <<blob, object, thumb, lock, view, faults, torn, served, again>>
      BY <1>10 DEF Track
    <2>2. PICK s \in {"tracked", "failed"} :
            /\ Step(b, s) /\ meta' \subseteq meta \cup {b}
            /\ s = "failed" => UNCHANGED meta /\ b \notin blob \ meta
      BY <1>10 DEF Track, MetadataAccepted
    <2>. QED
      BY <1>3, <1>4, <1>5, <2>1, <2>2, TaskMovesSafe
  <1>11. CASE Finish(b)
    <2>1. /\ task[b] = "tracked" /\ Step(b, "done")
          /\ UNCHANGED <<blob, object, meta, thumb, lock, view, faults, torn, served, again>>
      BY <1>11 DEF Finish, derived
    <2>. QED
      BY <1>3, <1>5, <2>1, TaskMovesSafe
  <1>. QED
    BY <1>6, <1>7, <1>8, <1>9, <1>10, <1>11 DEF Process

LEMMA WorkerCrashSafe ==
    ASSUME ContentInv, NEW b \in Blobs, WorkerCrash(b), UNCHANGED stage
    PROVE  ContentInv'
  <1>1. ContentTypeOK
    BY DEF ContentInv
  <1>2. Chash[b] \in Hashes
    BY ContentAssumption
  <1>3. faults' \in 0..MaxFaults
    BY <1>1, ContentAssumption DEF WorkerCrash, ContentTypeOK
  <1>4. /\ again' = again \cup {b} /\ again' \subseteq Blobs
        /\ torn \subseteq torn' /\ torn' \subseteq Hashes
        /\ task[b] = "writing" => Chash[b] \in torn'
    BY <1>1, <1>2 DEF WorkerCrash, ContentTypeOK
  <1>5. /\ Step(b, "queued") /\ task[b] # "none" /\ "queued" \in TaskStates
        /\ UNCHANGED <<blob, object, meta, thumb, lock, view, served>>
    BY DEF WorkerCrash, derived, TaskStates
  <1>. QED
    BY <1>3, <1>4, <1>5, TaskMovesSafe

-----------------------------------------------------------------------------
(* Requests for thumbnails and locks that run out                          *)

LEMMA TasksKept ==
    ASSUME ContentInv, UNCHANGED <<task, again>>, meta' \subseteq meta,
           \A b \in Blobs : stage[b] = "done" => stage'[b] = "done",
           \A b \in Blobs : task[b] = "failed" /\ b \in blob' \cap object' => b \in blob \cap object
    PROVE  \A b \in Blobs : TaskFits(b)'
  BY DEF ContentInv, TaskFits

\* A step of a request under way.
LEMMA ViewMovesSafe ==
    ASSUME ContentInv, NEW v \in Viewers, NEW s, NEW t, NEW b \in Blobs,
           view[v] # None, view[v].blob = b, view[v].at = s,
           \/ view'[v] = None /\ t = "none"
           \/ view'[v] \in View /\ view'[v].blob = b /\ view'[v].at = t,
           \A w \in Viewers \ {v} : view'[w] = view[w],
           view' \in [Viewers -> View \cup {None}],
           UNCHANGED <<stage, blob, object, meta, task, again>>,
           lock' \in [Hashes -> Blobs \cup Viewers \cup {None}], thumb' \in [Hashes -> Thumbs],
           faults' \in 0..MaxFaults, torn \subseteq torn', torn' \subseteq Hashes,
           served' \in [Hashes -> SUBSET {"partial", "whole"}], ThumbnailsWhole',
           NEW g \in Hashes, g = Chash[b],
           \A h \in Hashes \ {g} : lock'[h] = lock[h] /\ thumb'[h] = thumb[h],
           \/ g \in torn'
           \/ Quiet(g, v) \/ Takes(g, v) \/ Writes(g, v) \/ Leaves(g, v)
    PROVE  ContentInv'
  <1>1. ContentTypeOK /\ \A h \in Hashes \ torn : Guarded(h)
    BY DEF ContentInv
  <1>2. ContentTypeOK'
    BY <1>1 DEF ContentTypeOK
  <1>3. \A h \in Hashes \ torn' : Guarded(h)'
    <2>1. v \in Actors
      BY DEF Actors
    <2>2. \A h \in Hashes, q \in Actors \ {v} :
            (AtWork(h, q)' <=> AtWork(h, q)) /\ (Writing(h, q)' <=> Writing(h, q))
      BY <1>1, ViewMoves
    <2>3. \A h \in Hashes \ {g} : ~AtWork(h, v) /\ ~AtWork(h, v)'
      BY <1>1, ViewMoves
    <2>. QED
      BY <1>1, <2>1, <2>2, <2>3, MoveGuarded
  <1>4. \A a \in Blobs : TaskFits(a)'
    BY TasksKept
  <1>. QED
    BY <1>2, <1>3, <1>4 DEF ContentInv

LEMMA ThumbnailSafe ==
    ASSUME ContentInv, NEW v \in Viewers, Thumbnail(v), UNCHANGED stage
    PROVE  ContentInv'
  <1>1. ContentTypeOK /\ ThumbnailsWhole /\ \A h \in Hashes \ torn : Guarded(h)
    BY DEF ContentInv
  <1>2. view[v] # None
    BY DEF Thumbnail, ThumbnailLock, ThumbnailLoad, ThumbnailSave, ThumbnailSaved
  <1>3. PICK b \in Blobs : b = view[v].blob
    BY <1>1, <1>2, ViewTyped
  <1>4. PICK g \in Hashes : g = Chash[b]
    BY ContentAssumption
  <1>5. faults \in 0..MaxFaults /\ torn \subseteq Hashes
        /\ lock \in [Hashes -> Blobs \cup Viewers \cup {None}] /\ thumb \in [Hashes -> Thumbs]
        /\ served \in [Hashes -> SUBSET {"partial", "whole"}]
    BY <1>1 DEF ContentTypeOK
  <1>6. ASSUME ViewEnds(v)
        PROVE  /\ view' \in [Viewers -> View \cup {None}] /\ view'[v] = None
               /\ \A w \in Viewers \ {v} : view'[w] = view[w]
    BY <1>1, <1>6, ViewTyped
  <1>7. ASSUME NEW s \in ViewStates, ViewAt(v, s)
        PROVE  /\ view' \in [Viewers -> View \cup {None}] /\ view'[v] \in View
               /\ view'[v].at = s /\ view'[v].blob = b
               /\ \A w \in Viewers \ {v} : view'[w] = view[w]
    BY <1>1, <1>2, <1>3, <1>7, ViewTyped
  <1>8. \A s \in {"locked", "making", "writing"} : s \in ViewStates
    BY DEF ViewStates
  <1>9. CASE ThumbnailLock(v)
    <2>1. /\ view[v].at = "ready" /\ lock[g] = None
          /\ UNCHANGED <<blob, object, meta, thumb, task, faults, torn, again>>
      BY <1>3, <1>4, <1>9 DEF ThumbnailLock
    <2>2. CASE thumb[g] # "none" /\ Serve(g, thumb[g]) /\ ViewEnds(v) /\ UNCHANGED lock
      <3>1. PICK t \in {"partial", "whole"} : t = thumb[g]
        BY <1>5, <2>2 DEF Thumbs
      <3>2. /\ served' \in [Hashes -> SUBSET {"partial", "whole"}]
            /\ served'[g] = served[g] \cup {t}
            /\ \A h \in Hashes \ {g} : served'[h] = served[h]
        BY <1>1, <2>2, <3>1, ServedTyped
      <3>3. t = "partial" => g \in torn
        <4>1. ASSUME g \notin torn, thumb[g] = "partial" PROVE FALSE
          <5>1. PICK p \in Blobs \cup Viewers : Writing(g, p)
            BY <1>1, <4>1 DEF Guarded
          <5>2. lock[g] = p
            BY <1>1, <4>1, <5>1, WriterAtWork DEF Guarded
          <5>. QED
            BY <2>1, <5>2, ContentAssumption
        <4>. QED
          BY <3>1, <4>1
      <3>4. ThumbnailsWhole'
        BY <1>1, <2>1, <3>2, <3>3 DEF ThumbnailsWhole
      <3>5. Quiet(g, v)
        <4>1. AtWork(g, v)' => AtWork(g, v)
          BY <1>1, <1>2, <1>3, <1>6, <2>1, <2>2, ViewMoves
        <4>2. ~Writing(g, v)
          BY <1>1, <1>2, <1>3, <1>6, <2>1, <2>2, ViewMoves
        <4>. QED
          BY <2>1, <2>2, <4>1, <4>2 DEF Quiet
      <3>. QED
        BY <1>2, <1>3, <1>4, <1>5, <1>6, <2>1, <2>2, <3>2, <3>4, <3>5, ViewMovesSafe
    <2>3. CASE Acquire(g, v) /\ ViewAt(v, "locked") /\ UNCHANGED served
      <3>1. /\ lock' \in [Hashes -> Blobs \cup Viewers \cup {None}] /\ lock'[g] = v
            /\ \A h \in Hashes \ {g} : lock'[h] = lock[h]
        BY <1>5, <2>3 DEF Acquire
      <3>2. Takes(g, v)
        BY <2>1, <3>1 DEF Takes
      <3>3. ThumbnailsWhole'
        BY <1>1, <2>1, <2>3 DEF ThumbnailsWhole
      <3>. QED
        BY <1>2, <1>3, <1>4, <1>5, <1>7, <1>8, <2>1, <2>3, <3>1, <3>2, <3>3, ViewMovesSafe
    <2>. QED
      BY <1>3, <1>4, <1>9, <2>2, <2>3 DEF ThumbnailLock
  <1>10. CASE ThumbnailLoad(v)
    <2>1. /\ view[v].at = "locked"
          /\ UNCHANGED <<blob, object, meta, thumb, task, faults, torn, served, again>>
      BY <1>10 DEF ThumbnailLoad
    <2>2. ThumbnailsWhole'
      BY <1>1, <2>1 DEF ThumbnailsWhole
    <2>3. CASE ViewAt(v, "making") /\ UNCHANGED lock
      <3>1. Quiet(g, v)
        <4>1. AtWork(g, v) /\ ~Writing(g, v)
          BY <1>1, <1>2, <1>3, <1>4, <1>7, <1>8, <2>1, <2>3, ViewMoves
        <4>. QED
          BY <2>1, <2>3, <4>1 DEF Quiet
      <3>. QED
        BY <1>2, <1>3, <1>4, <1>5, <1>7, <1>8, <2>1, <2>2, <2>3, <3>1, ViewMovesSafe
    <2>4. CASE Release(g, v) /\ ViewEnds(v)
      <3>1. /\ lock' \in [Hashes -> Blobs \cup Viewers \cup {None}]
            /\ \A h \in Hashes \ {g} : lock'[h] = lock[h]
        BY <1>1, <2>4, LockTyped
      <3>2. Leaves(g, v)
        <4>1. AtWork(g, v) /\ ~Writing(g, v) /\ ~AtWork(g, v)'
          BY <1>1, <1>2, <1>3, <1>4, <1>6, <2>1, <2>4, ViewMoves
        <4>. QED
          BY <2>1, <4>1 DEF Leaves
      <3>. QED
        BY <1>2, <1>3, <1>4, <1>5, <1>6, <2>1, <2>2, <2>4, <3>1, <3>2, ViewMovesSafe
    <2>. QED
      BY <1>3, <1>4, <1>10, <2>3, <2>4 DEF ThumbnailLoad
  <1>11. CASE ThumbnailSave(v)
    <2>1. /\ view[v].at = "making" /\ SaveBegin(g) /\ ViewAt(v, "writing")
          /\ UNCHANGED <<blob, object, meta, lock, task, faults, torn, served, again>>
      BY <1>3, <1>4, <1>11 DEF ThumbnailSave
    <2>2. ThumbnailsWhole'
      BY <1>1, <2>1 DEF ThumbnailsWhole
    <2>3. thumb' \in [Hashes -> Thumbs] /\ \A h \in Hashes \ {g} : thumb'[h] = thumb[h]
      BY <1>1, <2>1, ThumbTyped
    <2>4. Writes(g, v)
      <3>1. AtWork(g, v) /\ Writing(g, v)'
        BY <1>1, <1>2, <1>3, <1>4, <1>7, <1>8, <2>1, ViewMoves
      <3>. QED
        BY <2>1, <3>1 DEF Writes
    <2>. QED
      BY <1>2, <1>3, <1>4, <1>5, <1>7, <1>8, <2>1, <2>2, <2>3, <2>4, ViewMovesSafe
  <1>12. CASE ThumbnailSaved(v)
    <2>1. /\ view[v].at = "writing" /\ SaveEnd(g) /\ Release(g, v) /\ Serve(g, "whole")
          /\ ViewEnds(v) /\ UNCHANGED <<blob, object, meta, task, faults, torn, again>>
      BY <1>3, <1>4, <1>12 DEF ThumbnailSaved
    <2>2. /\ served' \in [Hashes -> SUBSET {"partial", "whole"}]
          /\ served'[g] = served[g] \cup {"whole"}
          /\ \A h \in Hashes \ {g} : served'[h] = served[h]
      BY <1>1, <2>1, ServedTyped
    <2>3. ThumbnailsWhole'
      BY <1>1, <2>1, <2>2 DEF ThumbnailsWhole
    <2>4. /\ thumb' \in [Hashes -> Thumbs] /\ thumb'[g] = "whole"
          /\ \A h \in Hashes \ {g} : thumb'[h] = thumb[h]
      BY <1>1, <2>1, ThumbTyped
    <2>5. /\ lock' \in [Hashes -> Blobs \cup Viewers \cup {None}]
          /\ \A h \in Hashes \ {g} : lock'[h] = lock[h]
      BY <1>1, <2>1, LockTyped
    <2>6. Leaves(g, v)
      <3>1. AtWork(g, v) /\ ~AtWork(g, v)'
        BY <1>1, <1>2, <1>3, <1>4, <1>6, <2>1, ViewMoves
      <3>. QED
        BY <2>4, <3>1 DEF Leaves
    <2>. QED
      BY <1>2, <1>3, <1>4, <1>5, <1>6, <2>1, <2>2, <2>3, <2>4, <2>5, <2>6, ViewMovesSafe
  <1>. QED
    BY <1>9, <1>10, <1>11, <1>12 DEF Thumbnail

LEMMA ViewCrashSafe ==
    ASSUME ContentInv, NEW v \in Viewers, ViewCrash(v), UNCHANGED stage
    PROVE  ContentInv'
  <1>1. ContentTypeOK /\ ThumbnailsWhole
    BY DEF ContentInv
  <1>2. view[v] # None
    BY DEF ViewCrash
  <1>3. PICK b \in Blobs : b = view[v].blob
    BY <1>1, <1>2, ViewTyped
  <1>4. PICK g \in Hashes : g = Chash[b]
    BY ContentAssumption
  <1>5. /\ view' \in [Viewers -> View \cup {None}] /\ view'[v] = None
        /\ \A w \in Viewers \ {v} : view'[w] = view[w]
    BY <1>1, ViewTyped DEF ViewCrash
  <1>6. /\ UNCHANGED <<blob, object, meta, thumb, lock, task, served, again>>
        /\ torn \subseteq torn' /\ torn' \subseteq Hashes
        /\ view[v].at = "writing" => g \in torn'
    BY <1>1, <1>3, <1>4 DEF ViewCrash, derived, ContentTypeOK
  <1>7. faults' \in 0..MaxFaults
    BY <1>1, ContentAssumption DEF ViewCrash, ContentTypeOK
  <1>8. /\ lock \in [Hashes -> Blobs \cup Viewers \cup {None}] /\ thumb \in [Hashes -> Thumbs]
        /\ served \in [Hashes -> SUBSET {"partial", "whole"}]
    BY <1>1 DEF ContentTypeOK
  <1>9. ThumbnailsWhole'
    BY <1>1, <1>6 DEF ThumbnailsWhole
  <1>10. g \in torn' \/ Quiet(g, v)
    <2>1. ~AtWork(g, v)' /\ (Writing(g, v) => view[v].at = "writing")
      BY <1>1, <1>2, <1>3, <1>5, <1>6, ViewMoves
    <2>. QED
      BY <1>6, <2>1 DEF Quiet
  <1>. QED
    BY <1>2, <1>3, <1>4, <1>5, <1>6, <1>7, <1>8, <1>9, <1>10, ViewMovesSafe

LEMMA LockExpiresSafe ==
    ASSUME ContentInv, NEW g \in Hashes, LockExpires(g), UNCHANGED stage
    PROVE  ContentInv'
  <1>1. ContentTypeOK /\ ThumbnailsWhole /\ \A h \in Hashes \ torn : Guarded(h)
    BY DEF ContentInv
  <1>2. /\ UNCHANGED <<blob, object, meta, thumb, task, view, served, again>>
        /\ lock' = [lock EXCEPT ![g] = None]
        /\ torn \subseteq torn' /\ torn' \subseteq Hashes
        /\ AtWork(g, lock[g]) => g \in torn'
    BY <1>1 DEF LockExpires, ContentTypeOK
  <1>3. faults' \in 0..MaxFaults
    BY <1>1, ContentAssumption DEF LockExpires, ContentTypeOK
  <1>4. /\ lock' \in [Hashes -> Blobs \cup Viewers \cup {None}]
        /\ \A h \in Hashes \ {g} : lock'[h] = lock[h]
    BY <1>1, <1>2 DEF ContentTypeOK
  <1>5. ContentTypeOK'
    BY <1>1, <1>2, <1>3, <1>4 DEF ContentTypeOK
  <1>6. ThumbnailsWhole'
    BY <1>1, <1>2 DEF ThumbnailsWhole
  <1>7. ASSUME NEW h \in Hashes, h \notin torn' PROVE Guarded(h)'
    <2>1. Guarded(h)
      BY <1>1, <1>2, <1>7
    <2>2. \A p : (AtWork(h, p)' <=> AtWork(h, p)) /\ (Writing(h, p)' <=> Writing(h, p))
      BY <1>2 DEF AtWork, Writing
    <2>3. h = g => \A p \in Blobs \cup Viewers : ~AtWork(h, p)
      BY <1>2, <1>7, <2>1 DEF Guarded
    <2>4. h = g => thumb[h] # "partial"
      BY <2>1, <2>3, WriterAtWork DEF Guarded
    <2>. QED
      BY <1>2, <1>4, <2>1, <2>2, <2>3, <2>4 DEF Guarded
  <1>8. \A a \in Blobs : TaskFits(a)'
    BY <1>2, TasksKept
  <1>. QED
    BY <1>5, <1>6, <1>7, <1>8 DEF ContentInv

-----------------------------------------------------------------------------
(* The content under the steps of the library                              *)

LEMMA ContentKept ==
    ASSUME ContentInv, ContentTypeOK', UNCHANGED <<thumb, lock, task, view, torn, served, again>>,
           meta' \subseteq meta,
           \A b \in Blobs : stage[b] = "done" => stage'[b] = "done",
           \A b \in Blobs : task[b] = "failed" /\ b \in blob' \cap object' => b \in blob \cap object
    PROVE  ContentInv'
  <1>1. \A h, p : (AtWork(h, p)' <=> AtWork(h, p)) /\ (Writing(h, p)' <=> Writing(h, p))
    BY DEF AtWork, Writing
  <1>2. \A h \in Hashes \ torn' : Guarded(h)'
    BY <1>1 DEF ContentInv, Guarded
  <1>3. ThumbnailsWhole'
    BY DEF ContentInv, ThumbnailsWhole
  <1>4. \A b \in Blobs : TaskFits(b)'
    BY TasksKept
  <1>. QED
    BY <1>2, <1>3, <1>4 DEF ContentInv

LEMMA UploadContentSafe ==
    ASSUME LibraryInv, ContentInv, ContentTypeOK', NEW i \in Items, Upload(i) \/ UploadCrash(i)
    PROVE  ContentInv'
  <1>1. ContentTypeOK /\ stage \in [Items -> Stages] /\ Items = Blobs
    BY TypeParts DEF Items
  <1>2. /\ stage[i] # "done" /\ UNCHANGED <<thumb, lock, view, torn, served, again, meta>>
        /\ \A k \in Items \ {i} : stage'[k] = stage[k]
    BY <1>1 DEF Upload, UploadStore, UploadSaveBlob, UploadSaveItem, UploadEnqueue, UploadCrash,
                derivedOnly, derived
  <1>3. task[i] = "none"
    BY <1>1, <1>2 DEF ContentInv, TaskFits
  <1>4. /\ \A b \in Blobs : stage[b] = "done" => stage'[b] = "done"
        /\ \A b \in Blobs \ {i} : b \in blob' \cap object' => b \in blob \cap object
    <2>1. \A b \in Blobs \ {i} : b \in blob' \cap object' => b \in blob \cap object
      BY DEF Upload, UploadStore, UploadSaveBlob, UploadSaveItem, UploadEnqueue, UploadCrash
    <2>. QED
      BY <1>1, <1>2, <2>1
  <1>5. CASE UNCHANGED task
    BY <1>2, <1>3, <1>4, <1>5, ContentKept
  <1>6. CASE UploadEnqueue(i)
    <2>1. Step(i, "queued") /\ UNCHANGED <<blob, object>> /\ stage' = [stage EXCEPT ![i] = "done"]
      BY <1>6 DEF UploadEnqueue, Enqueue
    <2>2. i \in Blobs /\ "queued" \in TaskStates /\ i \in Actors
      BY <1>1 DEF TaskStates, Actors
    <2>3. \A h \in Hashes, q \in Actors \ {i} :
            (AtWork(h, q)' <=> AtWork(h, q)) /\ (Writing(h, q)' <=> Writing(h, q))
      BY <1>1, <1>2, <2>1, <2>2, TaskMoves
    <2>4. \A h \in Hashes : ~AtWork(h, i) /\ ~AtWork(h, i)' /\ ~Writing(h, i)
      BY <1>1, <1>2, <1>3, <2>1, <2>2, TaskMoves
    <2>5. \A h \in Hashes \ torn' : Guarded(h)'
      <3>1. \A h \in Hashes : Quiet(h, i)
        BY <1>2, <2>4 DEF Quiet
      <3>2. PICK g \in Hashes : g = Chash[i]
        BY <2>2, ContentAssumption
      <3>. QED
        BY <1>1, <1>2, <2>2, <2>3, <2>4, <3>1, MoveGuarded DEF ContentInv
    <2>6. ThumbnailsWhole'
      BY <1>2 DEF ContentInv, ThumbnailsWhole
    <2>7. ASSUME NEW b \in Blobs PROVE TaskFits(b)'
      <3>1. TaskFits(b)
        BY DEF ContentInv
      <3>2. /\ b = i => task'[b] = "queued" /\ stage'[b] = "done"
            /\ b # i => task'[b] = task[b] /\ stage'[b] = stage[b]
        BY <1>1, <2>1, <2>2, TaskTyped
      <3>. QED
        BY <1>2, <1>3, <2>1, <3>1, <3>2 DEF TaskFits
    <2>. QED
      BY <2>5, <2>6, <2>7 DEF ContentInv
  <1>. QED
    BY <1>5, <1>6 DEF Upload, UploadStore, UploadSaveBlob, UploadSaveItem, UploadCrash

LEMMA GetThumbnailContentSafe ==
    ASSUME ContentInv, NEW v \in Viewers, NEW b \in Blobs, ThumbnailAsk(v, b), UNCHANGED stage
    PROVE  ContentInv'
  <1>1. ContentTypeOK
    BY DEF ContentInv
  <1>. DEFINE w == [at |-> "ready", blob |-> b]
  <1>2. /\ view[v] = None /\ view' = [view EXCEPT ![v] = w]
        /\ UNCHANGED <<blob, object, meta, thumb, lock, task, faults, torn, served, again>>
    BY DEF ThumbnailAsk, derived
  <1>3. w \in View /\ w.at = "ready" /\ v \notin Blobs
    BY ContentAssumption DEF View, ViewStates
  <1>. HIDE DEF w
  <1>4. /\ view' \in [Viewers -> View \cup {None}] /\ view'[v] = w
        /\ \A u \in Viewers \ {v} : view'[u] = view[u]
    BY <1>1, <1>2, <1>3 DEF ContentTypeOK
  <1>5. ContentTypeOK'
    BY <1>1, <1>2, <1>4 DEF ContentTypeOK
  <1>6. ThumbnailsWhole'
    BY <1>2 DEF ContentInv, ThumbnailsWhole
  <1>7. \A h \in Hashes \ torn' : Guarded(h)'
    <2>1. \A h, q : q # v => (AtWork(h, q)' <=> AtWork(h, q)) /\ (Writing(h, q)' <=> Writing(h, q))
      BY <1>2, <1>4 DEF AtWork, Writing
    <2>2. \A h : ~AtWork(h, v)' /\ ~Writing(h, v)
      BY <1>2, <1>3, <1>4 DEF AtWork, Writing
    <2>. QED
      BY <1>2, <2>1, <2>2 DEF ContentInv, Guarded
  <1>8. \A a \in Blobs : TaskFits(a)'
    BY <1>2, TasksKept
  <1>. QED
    BY <1>5, <1>6, <1>7, <1>8 DEF ContentInv

-----------------------------------------------------------------------------
(* Theorems                                                                *)

Inv == LibraryInv /\ ContentInv

LEMMA InitInv == Init => Inv
  <1>. SUFFICES ASSUME Init PROVE Inv
    OBVIOUS
  <1>1. /\ blob = Processed /\ object = Processed /\ meta = Processed \cap Tagged
        /\ lock = [h \in Hashes |-> None] /\ view = [v \in Viewers |-> None]
        /\ task = [b \in Blobs |-> IF b \in Processed THEN "done" ELSE "none"]
        /\ faults = 0 /\ torn = {} /\ again = {} /\ served = [h \in Hashes |-> {}]
        /\ live = Processed /\ trash = {} /\ fav = {}
        /\ stage = [i \in Items |-> IF i \in Processed THEN "done" ELSE "none"]
        /\ req = [c \in Clients |-> None] /\ jobs = [j \in JobIds |-> None]
        /\ late = {} /\ missed = {} /\ orphans = {} /\ crowded = FALSE
    BY DEF Init, ContentInit
  <1>2. thumb \in [Hashes -> Thumbs] /\ \A h \in Hashes : thumb[h] # "partial"
    BY DEF Init, ContentInit, Thumbs
  <1>3. ContentTypeOK
    <2>1. blob \subseteq Blobs /\ object \subseteq Blobs /\ meta \subseteq Blobs /\ faults \in 0..MaxFaults
      BY <1>1, ContentAssumption
    <2>2. task \in [Blobs -> TaskStates]
      BY <1>1 DEF TaskStates
    <2>3. view \in [Viewers -> View \cup {None}] /\ lock \in [Hashes -> Blobs \cup Viewers \cup {None}]
      BY <1>1
    <2>4. served \in [Hashes -> SUBSET {"partial", "whole"}]
      BY <1>1
    <2>. QED
      BY <1>1, <1>2, <2>1, <2>2, <2>3, <2>4 DEF ContentTypeOK
  <1>4. InTrash = {} /\ Rows = Processed /\ Processed \subseteq Items
    BY <1>1, ContentAssumption DEF InTrash, Rows, Items
  <1>5. TypeOK
    <2>1. trash \in Orders(InTrash)
      BY <1>1, <1>4 DEF Orders
    <2>2. stage \in [Items -> Stages]
      BY <1>1 DEF Stages
    <2>. QED
      BY <1>1, <1>3, <1>4, <2>1, <2>2 DEF TypeOK
  <1>6. StagesFit
    BY <1>1, <1>4 DEF StagesFit, Past
  <1>7. ItemsHaveContent /\ OnePagePurged /\ JobsFit
    BY <1>1, <1>4 DEF ItemsHaveContent, OnePagePurged, JobsFit, At
  <1>8. \A c \in Clients : RequestFits(req[c]) /\ PurgeFits(req[c])
    BY <1>1, NoRequest
  <1>9. ThumbnailsWhole
    BY <1>1 DEF ThumbnailsWhole
  <1>10. \A h \in Hashes : Guarded(h)
    BY <1>1, <1>2 DEF Guarded, AtWork
  <1>11. \A b \in Blobs : TaskFits(b)
    BY <1>1 DEF TaskFits, Items
  <1>. QED
    BY <1>3, <1>5, <1>6, <1>7, <1>8, <1>9, <1>10, <1>11 DEF Inv, LibraryInv, ContentInv

\* The steps of the library that leave its content alone.
LEMMA PlainSafe ==
    ASSUME Inv, LibraryInv', UNCHANGED <<blob, object, meta, thumb, lock, task, view, torn, served,
                                         again, stage>>
    PROVE  Inv'
  <1>1. ContentTypeOK'
    BY DEF LibraryInv, TypeOK
  <1>2. ContentInv'
    BY <1>1, ContentKept DEF Inv
  <1>. QED
    BY <1>2 DEF Inv

\* The steps of the content.
LEMMA ContentStepSafe ==
    ASSUME Inv, ContentInv', UNCHANGED library, UNCHANGED <<blob, object>>
    PROVE  Inv'
  <1>1. LibraryInv /\ fav \subseteq Rows
    BY TypeParts DEF Inv
  <1>2. ContentTypeOK'
    BY DEF ContentInv
  <1>. QED
    BY <1>1, <1>2, LibraryKept DEF Inv, library

LEMMA NextInv ==
    ASSUME Inv, [Next]_vars
    PROVE  Inv'
  <1>1. LibraryInv /\ ContentInv
    BY DEF Inv
  <1>2. ASSUME NEW i \in Items, Upload(i) \/ UploadCrash(i) PROVE Inv'
    <2>1. LibraryInv'
      BY <1>1, <1>2, UploadStoreSafe, UploadSaveBlobSafe, UploadSaveItemSafe, UploadEndsSafe
         DEF Upload
    <2>2. ContentTypeOK'
      BY <2>1 DEF LibraryInv, TypeOK
    <2>. QED
      BY <1>1, <1>2, <2>1, <2>2, UploadContentSafe DEF Inv
  <1>3. ASSUME NEW S \in SUBSET Items, Trash(S) PROVE Inv'
    <2>1. LibraryInv'
      BY <1>1, <1>3, DeleteBatchSafe, RestoreBatchSafe DEF Trash
    <2>2. UNCHANGED <<contentVars, stage>>
      BY <1>3 DEF Trash, DeleteBatch, RestoreBatch
    <2>. QED
      BY <2>1, <2>2, PlainSafe DEF contentVars, derived
  <1>4. ASSUME NEW S \in SUBSET Items, Unmark(S) PROVE Inv'
    <2>1. /\ UNCHANGED <<contentVars, live, trash, stage, req, jobs, late, missed, crowded, orphans>>
          /\ fav' \subseteq Rows
      BY <1>1, <1>4, TypeParts DEF Unmark
    <2>2. ContentTypeOK'
      BY <1>1, <2>1 DEF ContentInv, ContentTypeOK, contentVars, derived
    <2>3. UNCHANGED <<blob, object, meta, thumb, lock, task, view, torn, served, again>>
      BY <2>1 DEF contentVars, derived
    <2>4. LibraryInv'
      BY <1>1, <2>1, <2>2, <2>3, LibraryKept
    <2>. QED
      BY <2>1, <2>3, <2>4, PlainSafe
  <1>5. ASSUME NEW c \in Clients, NEW S \in SUBSET Items,
               DeleteImmediately(c, S) \/ MarkRead(c, S)
        PROVE  Inv'
    <2>1. LibraryInv'
      BY <1>1, <1>5, DeleteImmediatelySafe, MarkReadSafe
    <2>2. UNCHANGED <<contentVars, stage>>
      BY <1>5 DEF DeleteImmediately, MarkRead
    <2>. QED
      BY <2>1, <2>2, PlainSafe DEF contentVars, derived
  <1>6. ASSUME NEW c \in Clients, Purge(c) \/ Delete(c) \/ MarkSave(c) PROVE Inv'
    <2>1. LibraryInv'
      BY <1>1, <1>6, PurgeSafe, PurgePageSafe, DeletePermanentlySafe, DeletePermanentlyRowsSafe,
         DeletePermanentlyBlobsSafe, DeletePermanentlyEnqueueSafe, MarkSaveSafe DEF Delete
    <2>2. UNCHANGED <<contentVars, stage>>
      BY <1>6 DEF Purge, Delete, PurgePage, DeletePermanently, DeletePermanentlyRows,
                  DeletePermanentlyBlobs, DeletePermanentlyEnqueue, MarkSave
    <2>. QED
      BY <2>1, <2>2, PlainSafe DEF contentVars, derived
  <1>7. ASSUME NEW c \in Clients, DeleteCrash(c) PROVE Inv'
    <2>1. LibraryInv'
      BY <1>1, <1>7, DeleteCrashSafe
    <2>2. UNCHANGED <<blob, object, meta, thumb, lock, task, view, torn, served, again, stage>>
      BY <1>7 DEF DeleteCrash, derived
    <2>. QED
      BY <2>1, <2>2, PlainSafe
  <1>8. ASSUME NEW j \in JobIds, Work(j) PROVE Inv'
    <2>1. LibraryInv'
      BY <1>1, <1>8, WorkSafe
    <2>2. /\ UNCHANGED <<thumb, lock, task, view, torn, served, again, stage>>
          /\ meta' \subseteq meta /\ blob' \subseteq blob /\ object' \subseteq object
      BY <1>8 DEF Work, JobStore, JobSave, derivedOnly, derived
    <2>3. ContentTypeOK'
      BY <2>1 DEF LibraryInv, TypeOK
    <2>. QED
      BY <1>1, <2>1, <2>2, <2>3, ContentKept DEF Inv
  <1>9. ASSUME NEW v \in Viewers, NEW i \in Items, GetThumbnail(v, i) PROVE Inv'
    <2>1. ThumbnailAsk(v, i) /\ UNCHANGED library /\ i \in Blobs
      BY <1>9 DEF GetThumbnail, Items
    <2>2. UNCHANGED <<blob, object, stage>>
      BY <2>1 DEF ThumbnailAsk, library
    <2>. QED
      BY <1>1, <2>1, <2>2, GetThumbnailContentSafe, ContentStepSafe
  <1>10. ASSUME ContentNext, UNCHANGED library PROVE Inv'
    <2>1. UNCHANGED stage
      BY <1>10 DEF library
    <2>2. UNCHANGED <<blob, object>>
      BY <1>10 DEF ContentNext, Process, ProcessRead, ProcessDownload, GenerateNothing, GenerateLock,
           GenerateSave, GenerateSaved, Track, Finish, WorkerCrash, Thumbnail, ThumbnailLock,
           ThumbnailLoad, ThumbnailSave, ThumbnailSaved, ViewCrash, LockExpires
    <2>3. ContentInv'
      BY <1>1, <1>10, <2>1, ProcessSafe, WorkerCrashSafe, ThumbnailSafe, ViewCrashSafe,
         LockExpiresSafe DEF ContentNext
    <2>. QED
      BY <1>10, <2>2, <2>3, ContentStepSafe
  <1>11. CASE UNCHANGED vars
    <2>1. UNCHANGED contentVars /\ UNCHANGED library
      BY <1>11 DEF vars
    <2>2. UNCHANGED <<blob, object, meta, thumb, lock, task, view, faults, torn, served, again, stage>>
      BY <2>1 DEF contentVars, derived, library
    <2>3. ContentTypeOK'
      BY <1>1, <2>2 DEF ContentInv, ContentTypeOK
    <2>4. ContentInv'
      BY <1>1, <2>2, <2>3, ContentKept
    <2>. QED
      BY <2>1, <2>2, <2>4, ContentStepSafe
  <1>. QED
    BY <1>2, <1>3, <1>4, <1>5, <1>6, <1>7, <1>8, <1>9, <1>10, <1>11 DEF Next

LEMMA AlwaysInv == Spec => []Inv
  BY InitInv, NextInv, PTL DEF Spec

\* Every variable of the library and of its content keeps its type; a row is in
\* Trash or out of it, and Trash has an order (media item and blob repositories).
THEOREM TypeCorrect == Spec => []TypeOK
  <1>1. Inv => TypeOK
    BY DEF Inv, LibraryInv
  <1>. QED
    BY <1>1, AlwaysInv, PTL

\* An item with a row has its blob row and its object, and no delete job is ever
\* saved for it (MediaItemUseCase.delete_permanently, process_blob_jobs).
THEOREM ContentOfItems == Spec => []ItemsHaveContent
  <1>1. Inv => ItemsHaveContent
    BY DEF Inv, LibraryInv
  <1>. QED
    BY <1>1, AlwaysInv, PTL

\* A purge leaves an item of Trash behind only if Trash held more than a page
\* meanwhile (iter_deleted, purge).
THEOREM OnePageIsPurged == Spec => []OnePagePurged
  <1>1. Inv => OnePagePurged
    BY DEF Inv, LibraryInv
  <1>. QED
    BY <1>1, AlwaysInv, PTL

\* What a purge deletes outside Trash was restored after the purge had read it
\* (purge, delete_permanently).
THEOREM PurgesSpareLive == Spec => PurgeSparesLive
  <1>1. ASSUME Inv, NEW c \in Clients, DeletePermanentlyRows(c), req[c].op = "purge"
        PROVE  req[c].ids \cap live \subseteq late
    <2>1. PurgeFits(req[c])
      BY <1>1 DEF Inv, LibraryInv
    <2>2. req[c] # None
      BY <1>1 DEF DeletePermanentlyRows, At
    <2>. QED
      BY <1>1, <2>1, <2>2 DEF PurgeFits
  <1>2. Inv => [\A c \in Clients : DeletePermanentlyRows(c) /\ req[c].op = "purge"
                  => req[c].ids \cap live \subseteq late]_vars
    BY <1>1
  <1>. QED
    BY <1>2, AlwaysInv, PTL DEF PurgeSparesLive

\* A thumbnail that is not whole is served only for a content on which a writer
\* was killed or lost its lock (BlobThumbnailService.generate, thumbnail).
THEOREM ThumbnailsAreWhole == Spec => []ThumbnailsWhole
  <1>1. Inv => ThumbnailsWhole
    BY DEF Inv, ContentInv
  <1>. QED
    BY <1>1, AlwaysInv, PTL

\* A processing task fails only if its blob is going or the task was delivered
\* before (BlobContentProcessor.process, BlobMetadataRepository.save).
THEOREM TasksFailForCause == Spec => []TasksFailOnlyIfGone
  <1>1. Inv => TasksFailOnlyIfGone
    BY DEF Inv, ContentInv, TaskFits, TasksFailOnlyIfGone
  <1>. QED
    BY <1>1, AlwaysInv, PTL
=============================================================================
