----------------------------- MODULE BlobContent -----------------------------
(***************************************************************************)
(* What the system derives from the content of a blob: thumbnails and      *)
(* content metadata.  The worker's process_blob_content task makes them    *)
(* once after an upload; a request for a thumbnail that is not there yet   *)
(* makes it on the spot.                                                   *)
(*                                                                         *)
(* A thumbnail belongs to a content hash, not to a blob, so that blobs     *)
(* with equal content share it.  Whoever makes one holds a lock in the     *)
(* cache named after the hash, which the cache drops after 30 seconds      *)
(* whether or not its holder has finished.  One thumbnail size stands for  *)
(* the configured ones: each has a key and a lock of its own.  The storage *)
(* is the filesystem backend, whose save first truncates the file.         *)
(***************************************************************************)
EXTENDS Naturals, FiniteSets

CONSTANTS
    Blobs,        \* blobs, each standing for its row and for its object
    Hashes,       \* content hashes
    Chash,        \* Chash[b]: the content hash of b
    Pictures,     \* blobs a thumbnail can be made of
    Tagged,       \* blobs whose content has metadata to load
    Viewers,      \* requests for a thumbnail
    Processed,    \* blobs uploaded, and processed, before
    None,
    MaxFaults     \* bound on killed processes and locks lost by a slow holder

ASSUME ContentAssumption ==
    /\ Chash \in [Blobs -> Hashes]
    /\ Pictures \subseteq Blobs /\ Tagged \subseteq Blobs
    /\ Processed \subseteq Blobs
    /\ Blobs \cap Viewers = {}
    /\ None \notin Blobs \cup Viewers
    /\ MaxFaults \in Nat

VARIABLES
    blob,         \* rows of the blobs table
    object,       \* blobs whose object is in the storage
    meta,         \* blobs with a row in the metadata table
    thumb,        \* thumb[h]: the file under the thumbnail key of h
    lock,         \* lock[h]: the worker task (a blob) or viewer holding it
    task,         \* task[b]: how far process_blob_content has come for b
    view,         \* view[v]: the thumbnail request of v
    faults,       \* crashes and lost locks so far
    torn,         \* hashes a writer was killed on or lost its lock on
    served,       \* served[h]: what viewers got for h
    again         \* blobs whose task has been delivered more than once

derived == <<meta, thumb, lock>>
contentVars == <<blob, object, derived, task, view, faults, torn, served, again>>

TaskStates == {"none", "queued", "read", "loaded", "making", "writing", "track",
               "tracked", "done", "failed"}
ViewStates == {"ready", "locked", "making", "writing"}
Thumbs     == {"none", "partial", "whole"}
View       == [at : ViewStates, blob : Blobs]

ASSUME NoneAssumption == None \notin View

ContentTypeOK ==
    /\ blob \subseteq Blobs /\ object \subseteq Blobs /\ meta \subseteq Blobs
    /\ thumb \in [Hashes -> Thumbs]
    /\ lock \in [Hashes -> Blobs \cup Viewers \cup {None}]
    /\ task \in [Blobs -> TaskStates]
    /\ view \in [Viewers -> View \cup {None}]
    /\ faults \in 0..MaxFaults
    /\ torn \subseteq Hashes /\ again \subseteq Blobs
    /\ served \in [Hashes -> SUBSET {"partial", "whole"}]

ContentInit ==
    /\ blob = Processed /\ object = Processed /\ meta = Processed \cap Tagged
    /\ thumb = [h \in Hashes |->
                  IF \E b \in Processed \cap Pictures : Chash[b] = h
                  THEN "whole" ELSE "none"]
    /\ lock = [h \in Hashes |-> None]
    /\ task = [b \in Blobs |-> IF b \in Processed THEN "done" ELSE "none"]
    /\ view = [v \in Viewers |-> None]
    /\ faults = 0
    /\ torn = {} /\ again = {}
    /\ served = [h \in Hashes |-> {}]

-----------------------------------------------------------------------------
(* The locks of the cache                                                  *)

Acquire(h, p) == lock[h] = None /\ lock' = [lock EXCEPT ![h] = p]

\* A holder that has lost its lock leaves the lock of another one alone.
Release(h, p) == lock' = IF lock[h] = p THEN [lock EXCEPT ![h] = None] ELSE lock

\* Whether p still works under the lock it took on h.
AtWork(h, p) ==
    \/ p \in Blobs /\ Chash[p] = h /\ task[p] \in {"making", "writing"}
    \/ p \in Viewers /\ view[p] # None /\ Chash[view[p].blob] = h
         /\ view[p].at \in {"locked", "making", "writing"}

\* Mutant of LockExpires: the lock of a holder that was killed stays.
LockOfDeadStays(h) ==
    /\ lock[h] # None
    /\ AtWork(h, lock[h])
    /\ faults < MaxFaults /\ faults' = faults + 1
    /\ lock' = [lock EXCEPT ![h] = None]
    /\ torn' = torn \cup {h}
    /\ UNCHANGED <<blob, object, meta, thumb, task, view, served, again>>

\* A lock outlives its holder at most by its time to live; it may also run out
\* under a holder that is slow, after which two may be at work on one file.
LockExpires(h) ==
    /\ lock[h] # None
    /\ lock' = [lock EXCEPT ![h] = None]
    /\ IF AtWork(h, lock[h])
       THEN faults < MaxFaults /\ faults' = faults + 1 /\ torn' = torn \cup {h}
       ELSE UNCHANGED <<faults, torn>>
    /\ UNCHANGED <<blob, object, meta, thumb, task, view, served, again>>

\* storage.save: the file is truncated, then written.
SaveBegin(h) == thumb' = [thumb EXCEPT ![h] = "partial"]
SaveEnd(h)   == thumb' = [thumb EXCEPT ![h] = "whole"]

-----------------------------------------------------------------------------
(* The worker: process_blob_content                                        *)

Step(b, s) == task' = [task EXCEPT ![b] = s]

\* BlobContentProcessor.process_async
Enqueue(b) == Step(b, "queued")

\* The row is read; without one the task fails, and a failed task is not retried.
ProcessRead(b) ==
    /\ task[b] = "queued"
    /\ Step(b, IF b \in blob THEN "read" ELSE "failed")
    /\ UNCHANGED <<blob, object, derived, view, faults, torn, served, again>>

\* The object is downloaded; without one the storage raises File.NotFound.
ProcessDownload(b) ==
    /\ task[b] = "read"
    /\ Step(b, IF b \in object THEN "loaded" ELSE "failed")
    /\ UNCHANGED <<blob, object, derived, view, faults, torn, served, again>>

\* generate of a content no thumbnail is made of: too large, of another type or
\* not readable.
GenerateNothing(b) ==
    /\ task[b] = "loaded"
    /\ b \notin Pictures
    /\ Step(b, "track")
    /\ UNCHANGED <<blob, object, derived, view, faults, torn, served, again>>

\* Mutant of GenerateLock: the thumbnail is made without its lock.
GenerateUnlocked(b) ==
    LET h == Chash[b] IN
    /\ task[b] = "loaded"
    /\ b \in Pictures
    /\ Step(b, IF thumb[h] = "none" THEN "making" ELSE "track")
    /\ UNCHANGED <<blob, object, derived, view, faults, torn, served, again>>

\* generate waits for the lock; a thumbnail that exists, whatever is in its
\* file, is left alone.
GenerateLock(b) ==
    LET h == Chash[b] IN
    /\ task[b] = "loaded"
    /\ b \in Pictures
    /\ lock[h] = None
    /\ \/ /\ thumb[h] # "none"
          /\ Step(b, "track")
          /\ UNCHANGED lock
       \/ /\ thumb[h] = "none"
          /\ Acquire(h, b)
          /\ Step(b, "making")
    /\ UNCHANGED <<blob, object, meta, thumb, view, faults, torn, served, again>>

GenerateSave(b) ==
    /\ task[b] = "making"
    /\ SaveBegin(Chash[b])
    /\ Step(b, "writing")
    /\ UNCHANGED <<blob, object, meta, lock, view, faults, torn, served, again>>

GenerateSaved(b) ==
    /\ task[b] = "writing"
    /\ SaveEnd(Chash[b])
    /\ Release(Chash[b], b)
    /\ Step(b, "track")
    /\ UNCHANGED <<blob, object, meta, view, faults, torn, served, again>>

\* Mutant of Track: content without metadata is not told apart.
TrackRegardless(b) ==
    /\ task[b] = "track"
    /\ \/ /\ b \in Tagged /\ b \in blob \ meta
          /\ meta' = meta \cup {b}
          /\ Step(b, "tracked")
       \/ /\ b \notin Tagged \/ b \notin blob \ meta
          /\ Step(b, "failed")
          /\ UNCHANGED meta
    /\ UNCHANGED <<blob, object, thumb, lock, view, faults, torn, served, again>>

\* BlobMetadataRepository.save is refused both when the blob row is gone and when
\* it has metadata already; either way Blob.NotFound is raised.
MetadataAccepted(b) == b \in blob \ meta

\* BlobMetadataService.track
Track(b) ==
    /\ task[b] = "track"
    /\ \/ b \notin Tagged /\ Step(b, "tracked") /\ UNCHANGED meta
       \/ /\ b \in Tagged /\ MetadataAccepted(b)
          /\ meta' = meta \cup {b}
          /\ Step(b, "tracked")
       \/ /\ b \in Tagged /\ ~MetadataAccepted(b)
          /\ Step(b, "failed")
          /\ UNCHANGED meta
    /\ UNCHANGED <<blob, object, thumb, lock, view, faults, torn, served, again>>

\* The worker records that the task is done.
Finish(b) ==
    /\ task[b] = "tracked"
    /\ Step(b, "done")
    /\ UNCHANGED <<blob, object, derived, view, faults, torn, served, again>>

\* The worker is killed at the task of b, which is delivered again.  A file
\* under way stays as it is and so does the lock.
WorkerCrash(b) ==
    /\ faults < MaxFaults
    /\ task[b] \in {"read", "loaded", "making", "writing", "track", "tracked"}
    /\ faults' = faults + 1
    /\ torn' = IF task[b] = "writing" THEN torn \cup {Chash[b]} ELSE torn
    /\ Step(b, "queued")
    /\ again' = again \cup {b}
    /\ UNCHANGED <<blob, object, derived, view, served>>

-----------------------------------------------------------------------------
(* Requests: BlobThumbnailService.thumbnail                                *)

ViewAt(v, s) == view' = [view EXCEPT ![v].at = s]
ViewEnds(v)  == view' = [view EXCEPT ![v] = None]
Serve(h, t)  == served' = [served EXCEPT ![h] = @ \cup {t}]

\* The caller has found the row of blob b and asks for its thumbnail.
ThumbnailAsk(v, b) ==
    /\ view[v] = None
    /\ view' = [view EXCEPT ![v] = [at |-> "ready", blob |-> b]]
    /\ UNCHANGED <<blob, object, derived, task, faults, torn, served, again>>

\* Under the lock: the file is served when there is one.  Else the row and the
\* object are needed; without the row, without the object or when the content
\* has no thumbnail the request fails.
ThumbnailLock(v) ==
    /\ view[v] # None /\ view[v].at = "ready"
    /\ LET b == view[v].blob
           h == Chash[b]
       IN  /\ lock[h] = None
           /\ \/ /\ thumb[h] # "none"
                 /\ Serve(h, thumb[h])
                 /\ ViewEnds(v)
                 /\ UNCHANGED lock
              \/ /\ thumb[h] = "none"
                 /\ Acquire(h, v)
                 /\ ViewAt(v, "locked")
                 /\ UNCHANGED served
    /\ UNCHANGED <<blob, object, meta, thumb, task, faults, torn, again>>

ThumbnailLoad(v) ==
    /\ view[v] # None /\ view[v].at = "locked"
    /\ LET b == view[v].blob IN
       \/ /\ b \in blob \cap object \cap Pictures
          /\ ViewAt(v, "making")
          /\ UNCHANGED lock
       \/ /\ b \notin blob \cap object \cap Pictures
          /\ Release(Chash[b], v)
          /\ ViewEnds(v)
    /\ UNCHANGED <<blob, object, meta, thumb, task, faults, torn, served, again>>

ThumbnailSave(v) ==
    /\ view[v] # None /\ view[v].at = "making"
    /\ SaveBegin(Chash[view[v].blob])
    /\ ViewAt(v, "writing")
    /\ UNCHANGED <<blob, object, meta, lock, task, faults, torn, served, again>>

\* The thumbnail just made is served, not what is in its file.
ThumbnailSaved(v) ==
    /\ view[v] # None /\ view[v].at = "writing"
    /\ LET h == Chash[view[v].blob] IN
       /\ SaveEnd(h)
       /\ Release(h, v)
       /\ Serve(h, "whole")
    /\ ViewEnds(v)
    /\ UNCHANGED <<blob, object, meta, task, faults, torn, again>>

\* The process that serves v is killed.
ViewCrash(v) ==
    /\ faults < MaxFaults
    /\ view[v] # None
    /\ faults' = faults + 1
    /\ torn' = IF view[v].at = "writing"
               THEN torn \cup {Chash[view[v].blob]} ELSE torn
    /\ ViewEnds(v)
    /\ UNCHANGED <<blob, object, derived, task, served, again>>

Process(b) == \/ ProcessRead(b) \/ ProcessDownload(b)
              \/ GenerateNothing(b) \/ GenerateLock(b)
              \/ GenerateSave(b) \/ GenerateSaved(b)
              \/ Track(b) \/ Finish(b)

Thumbnail(v) == \/ ThumbnailLock(v) \/ ThumbnailLoad(v)
                \/ ThumbnailSave(v) \/ ThumbnailSaved(v)

ContentNext ==
    \/ \E b \in Blobs : Process(b) \/ WorkerCrash(b)
    \/ \E v \in Viewers : Thumbnail(v) \/ ViewCrash(v)
    \/ \E h \in Hashes : LockExpires(h)

ContentFairness ==
    /\ \A b \in Blobs : WF_contentVars(Process(b))
    /\ \A v \in Viewers : WF_contentVars(Thumbnail(v))
    /\ \A h \in Hashes : WF_contentVars(LockExpires(h) /\ ~AtWork(h, lock[h]))

-----------------------------------------------------------------------------
(* Properties                                                              *)

\* A viewer is served a thumbnail that is not whole only when a process was
\* killed while it wrote the file or lost its lock to the 30 second limit
\* (BlobThumbnailService.generate, thumbnail): equal contents, the worker and
\* requests never get in each other's way otherwise.
ThumbnailsWhole ==
    \A h \in Hashes : "partial" \in served[h] => h \in torn

\* A processing task fails only when its blob is going or when the task has been
\* delivered before: redelivery meets the metadata row of the first attempt,
\* which the repository reports as Blob.NotFound.
TasksFailOnlyIfGone ==
    \A b \in Blobs : task[b] = "failed" => b \notin blob \cap object \/ b \in again

\* Every enqueued content task ends, though others may hold the lock it waits
\* for and may have died with it.
ContentProcessed ==
    \A b \in Blobs : task[b] = "queued" ~> task[b] \in {"done", "failed"}
=============================================================================
