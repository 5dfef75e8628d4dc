----------------------------- MODULE S3Storage ------------------------------
(***************************************************************************)
(* The S3 storage backend and its client: uploads in parts, listings page  *)
(* by page, folders that are moved, deleted or downloaded as many objects, *)
(* each request to S3 a step that may fail.                                *)
(*                                                                         *)
(* S3 is external: single requests are atomic, a listing goes on after the *)
(* last key it gave, DeleteObjects may refuse single keys in an answer of  *)
(* status 200, a copy of a key that is gone is NoSuchKey.                  *)
(***************************************************************************)
EXTENDS Naturals, FiniteSets, SequencesExt

CONSTANTS
    Dirs,         \* folders of the bucket, in the order of their names
    Begins,       \* Begins[d]: the folders whose keys begin with the name of d
    Names,        \* names of objects in a folder, numbers
    Stored,       \* the keys there are at first
    Sizes,        \* sizes of contents that are saved
    Clients,      \* calls that are under way
    None,
    MinPart,      \* _5_MB
    MaxParts,     \* 10_000 parts, the limit of S3 and the divisor in upload_obj
    Concurrency,  \* max_concurrency of MultipartUpload
    Page,         \* keys in one answer of ListObjectsV2
    Chunk,        \* keys in one DeleteObjects
    MaxFaults,    \* bound on failed requests, refused keys and killed processes
    MaxCalls,     \* bound on calls
    OpSets        \* the sets of operations of which users make one

Dir == ToSet(Dirs)
Key == [dir : Dir, name : Names]

\* An object has a size and parts, and is one of the stored objects (None: one that
\* was saved since).
Object == [of : Key \cup {None}, size : Nat, parts : Seq(Nat)]

ASSUME S3Assumption ==
    /\ Dirs \in Seq(Dir)
    /\ None \notin Dir \cup Key
    /\ Names \subseteq Nat /\ IsFiniteSet(Names)
    /\ Begins \in [Dir -> SUBSET Dir] /\ \A d \in Dir : d \in Begins[d]
    /\ Stored \subseteq Key
    /\ Sizes \subseteq Nat
    /\ {MinPart, MaxParts, Concurrency, Page, Chunk} \subseteq Nat \ {0} /\ MinPart > 1
    /\ Page <= Chunk
    /\ {MaxFaults, MaxCalls} \subseteq Nat

VARIABLES
    object,    \* object[k]: the object with key k
    upload,    \* upload[c]: the parts S3 has of the multipart upload of c
    call,      \* call[c]: a call and how far it is
    calls, faults,
    ops,       \* the operations users make
    \* What the properties speak about.
    archive,   \* the last archive that was sent to its end
    lost,      \* keys a move deleted without having copied their object
    left,      \* keys that outlived a move or a deletion of their folder
    excused    \* clients whose multipart upload was left for a known reason

vars == <<object, upload, call, calls, faults, ops, archive, lost, left, excused>>

\* A call on an upload in parts, and one on a folder: its page of keys, the tasks it
\* has made, and what is due of it.
Idle == [op |-> "idle"]
UploadCall == [op : {"upload"}, at : {"parts", "abort"}, key : Key, size : Sizes,
               sending : SUBSET Nat]
FolderCall == [op : {"movedir", "deletedir", "downloaddir"}, at : {"list", "delete"},
               dir : Dir, to : Dir \cup {None}, listing : BOOLEAN, last : Key \cup {None},
               files : Seq(Key), copies : SUBSET Key, chunks : SUBSET SUBSET Key,
               done : SUBSET Key, due : SUBSET Key, crossed : BOOLEAN]

\* The type invariant.
TypeOK ==
    /\ object \in [Key -> Object \cup {None}]
    /\ upload \in [Clients -> Seq(Nat) \cup {None}]
    /\ call \in [Clients -> {Idle} \cup UploadCall \cup FolderCall]
    /\ calls \in 0..MaxCalls /\ faults \in 0..MaxFaults /\ ops \in OpSets
    /\ archive \in [of : Dir, keys : SUBSET Key, due : SUBSET Key] \cup {None}
    /\ lost \subseteq Key /\ left \subseteq Key /\ excused \subseteq Clients

\* The members of S in the order op: each by the number of those before it.
InOrder(S, op(_, _)) ==
    [n \in 1..Cardinality(S) |-> CHOOSE x \in S : Cardinality({y \in S : op(y, x)}) = n - 1]

\* Keys in the order of S3.
Position(d) == CHOOSE n \in DOMAIN Dirs : Dirs[n] = d
Before(j, k) == \/ Position(j.dir) < Position(k.dir)
                \/ j.dir = k.dir /\ j.name < k.name

Exists(k) == object[k] # None
At(c, op, s) == call[c].op = op /\ call[c].at = s
Set(c, r) == call' = [call EXCEPT ![c] = r]
MoreCalls == calls < MaxCalls /\ calls' = calls + 1
Fault == faults < MaxFaults /\ faults' = faults + 1

\* Calls on whole folders, and a marking of those that D concerns: whoever writes
\* to a folder while a call works on it may disturb the call.
OnFolder(c) == call[c].op \in {"movedir", "deletedir", "downloaddir"}
Touches(c, D) == OnFolder(c) /\ {call[c].dir, call[c].to} \cap (D \ {None}) # {}
Crossed(D) == [c \in Clients |-> IF Touches(c, D) THEN [call[c] EXCEPT !.crossed = TRUE]
                                                 ELSE call[c]]

\* The chunks _readchunks gives: the last one is the first that is not full, and
\* empty if the size is a multiple of the chunk.
ChunkSize(size) ==
    LET share == size \div (MinPart * MaxParts)
    IN  IF share > MinPart THEN share ELSE MinPart
Parts(size) == IF size < MinPart THEN 1 ELSE size \div ChunkSize(size) + 1
Whole(o) == o.parts = [n \in 1..Parts(o.size) |-> n]

Init ==
    /\ object = [k \in Key |-> IF k \in Stored
                               THEN [of |-> k, size |-> 1, parts |-> <<1>>] ELSE None]
    /\ upload = [c \in Clients |-> None]
    /\ call = [c \in Clients |-> Idle]
    /\ calls = 0 /\ faults = 0
    /\ ops \in OpSets
    /\ archive = None /\ lost = {} /\ left = {} /\ excused = {}

-----------------------------------------------------------------------------
(* save: upload_obj                                                        *)

\* put_object: a small content in one request.
PutObject(k, size) ==
    /\ "save" \in ops /\ size < MinPart
    /\ MoreCalls
    /\ object' = [object EXCEPT ![k] = [of |-> None, size |-> size, parts |-> <<1>>]]
    /\ call' = Crossed({k.dir})
    /\ UNCHANGED <<upload, faults, ops, archive, lost, left, excused>>

\* MultipartUpload.create.
UploadCreate(c, k, size) ==
    /\ "upload" \in ops /\ size >= MinPart
    /\ MoreCalls
    /\ call[c] = Idle /\ upload[c] = None
    /\ upload' = [upload EXCEPT ![c] = <<>>]
    /\ Set(c, [op |-> "upload", at |-> "parts", key |-> k, size |-> size, sending |-> {}])
    /\ UNCHANGED <<object, faults, ops, archive, lost, left, excused>>

\* A part is sent once the semaphore lets it.
PartSend(c, n) ==
    /\ At(c, "upload", "parts")
    /\ n \in 1..Parts(call[c].size) \ (call[c].sending \cup ToSet(upload[c]))
    /\ Cardinality(call[c].sending) < Concurrency
    /\ Set(c, [call[c] EXCEPT !.sending = @ \cup {n}])
    /\ UNCHANGED <<object, upload, calls, faults, ops, archive, lost, left, excused>>

\* S3 takes it, and upload_part notes its tag; the tags stand in the order in which
\* the answers came.
PartDone(c, n) ==
    /\ At(c, "upload", "parts") /\ n \in call[c].sending
    /\ n <= MaxParts
    /\ upload' = [upload EXCEPT ![c] = Append(@, n)]
    /\ Set(c, [call[c] EXCEPT !.sending = @ \ {n}])
    /\ UNCHANGED <<object, calls, faults, ops, archive, lost, left, excused>>

\* S3 refuses a part with too high a number, or the request fails: the group ends
\* the other parts.
PartFails(c, n) ==
    /\ At(c, "upload", "parts") /\ n \in call[c].sending
    /\ IF n > MaxParts THEN UNCHANGED faults ELSE Fault
    /\ Set(c, [call[c] EXCEPT !.at = "abort", !.sending = {}])
    /\ UNCHANGED <<object, upload, calls, ops, archive, lost, left, excused>>

\* A mutant of Abort: the upload that failed is left.
AbortNothing(c) ==
    /\ At(c, "upload", "abort")
    /\ Set(c, Idle)
    /\ UNCHANGED <<object, upload, calls, faults, ops, archive, lost, left, excused>>

Abort(c) ==
    /\ At(c, "upload", "abort")
    /\ upload' = [upload EXCEPT ![c] = None]
    /\ Set(c, Idle)
    /\ UNCHANGED <<object, calls, faults, ops, archive, lost, left, excused>>

\* A mutant of Listed: the parts in the order of their answers.
ListedAsDone(parts) == parts

\* The parts complete sends: sorted(self._parts.items()).
Listed(parts) == InOrder(ToSet(parts), <)

AllDone(c) == /\ At(c, "upload", "parts")
              /\ ToSet(upload[c]) = 1..Parts(call[c].size)

Complete(c) ==
    /\ AllDone(c)
    /\ object' = [object EXCEPT ![call[c].key] =
                    [of |-> None, size |-> call[c].size, parts |-> Listed(upload[c])]]
    /\ upload' = [upload EXCEPT ![c] = None]
    /\ call' = [Crossed({call[c].key.dir}) EXCEPT ![c] = Idle]
    /\ UNCHANGED <<calls, faults, ops, archive, lost, left, excused>>

\* Abort or complete fails itself: nobody tries again.
EndFails(c) ==
    /\ At(c, "upload", "abort") \/ AllDone(c)
    /\ Fault
    /\ excused' = excused \cup {c}
    /\ Set(c, Idle)
    /\ UNCHANGED <<object, upload, calls, ops, archive, lost, left>>

-----------------------------------------------------------------------------
(* list_objects                                                            *)

\* The keys with a prefix: "d/", or d as it stands.
Within(d) == {k \in Key : Exists(k) /\ k.dir = d}
Beginning(d) == {k \in Key : Exists(k) /\ k.dir \in Begins[d]}

\* The next page of the keys S after a key, in order, and whether there are more.
After(S, last) == {k \in S : last = None \/ Before(last, k)}
NextPage(S, last) ==
    LET all == InOrder(After(S, last), Before)
    IN  SubSeq(all, 1, IF Len(all) < Page THEN Len(all) ELSE Page)
Truncated(S, last) == Cardinality(After(S, last)) > Page

\* The record of c once it has the next page of S.
Paged(c, S) ==
    LET page == NextPage(S, call[c].last)
    IN  [call[c] EXCEPT !.listing = Truncated(S, call[c].last),
                        !.last = IF page = <<>> THEN @ ELSE Last(page),
                        !.files = @ \o page]

\* A call on the folder d begins. Due of it are the keys that are there now.
Started(op, at, d, to, files) ==
    [op |-> op, at |-> at, dir |-> d, to |-> to, listing |-> TRUE, last |-> None,
     files |-> files, copies |-> {}, chunks |-> {}, done |-> {}, due |-> Within(d),
     crossed |-> \E c \in Clients : call[c].op # "downloaddir" /\ Touches(c, {d, to})]

Begin(c, op, d, to) ==
    /\ op \in ops
    /\ MoreCalls
    /\ call[c] = Idle /\ d # to
    /\ call' = [Crossed(IF op = "downloaddir" THEN {} ELSE {d, to})
                    EXCEPT ![c] = Started(op, "list", d, to, <<>>)]
    /\ UNCHANGED <<object, upload, faults, ops, archive, lost, left, excused>>

-----------------------------------------------------------------------------
(* move and movedir                                                        *)

Moved(c, k) == [k EXCEPT !.dir = call[c].to]

\* Each key of the page gets a task that copies it.
MoveDirList(c) ==
    LET r == Paged(c, Within(call[c].dir))
    IN  /\ At(c, "movedir", "list") /\ call[c].listing
        /\ Set(c, [r EXCEPT !.copies = @ \cup (ToSet(r.files) \ ToSet(call[c].files))])
        /\ UNCHANGED <<object, upload, calls, faults, ops, archive, lost, left, excused>>

MoveDirCopy(c, k) ==
    /\ At(c, "movedir", "list") /\ k \in call[c].copies /\ Exists(k)
    /\ object' = [object EXCEPT ![Moved(c, k)] = object[k]]
    /\ Set(c, [call[c] EXCEPT !.copies = @ \ {k}])
    /\ UNCHANGED <<upload, calls, faults, ops, archive, lost, left, excused>>

\* A copy fails, by a fault or because its source is gone: the group ends the
\* other copies and nothing is deleted.
MoveDirCopyFails(c, k) ==
    /\ At(c, "movedir", "list") /\ k \in call[c].copies
    /\ IF Exists(k) THEN Fault ELSE UNCHANGED faults
    /\ Set(c, Idle)
    /\ UNCHANGED <<object, upload, calls, ops, archive, lost, left, excused>>

\* The chunks of a sequence of keys.
Chunks(files) ==
    LET Ends(n) == IF n * Chunk + Chunk < Len(files) THEN n * Chunk + Chunk ELSE Len(files)
    IN  {ToSet(SubSeq(files, n * Chunk + 1, Ends(n))) :
            n \in {m \in 0..Len(files) : m * Chunk < Len(files)}}

\* A mutant of MoveDirCopied: the keys are deleted as soon as they are listed.
MoveDirListed(c) ==
    /\ At(c, "movedir", "list") /\ ~call[c].listing
    /\ Set(c, [call[c] EXCEPT !.at = "delete", !.copies = {}, !.files = <<>>,
                              !.chunks = Chunks(call[c].files)])
    /\ UNCHANGED <<object, upload, calls, faults, ops, archive, lost, left, excused>>

\* The group of copies is done: delete makes tasks of the keys, a chunk each.
MoveDirCopied(c) ==
    /\ At(c, "movedir", "list") /\ ~call[c].listing /\ call[c].copies = {}
    /\ Set(c, [call[c] EXCEPT !.at = "delete", !.files = <<>>,
                              !.chunks = Chunks(call[c].files)])
    /\ UNCHANGED <<object, upload, calls, faults, ops, archive, lost, left, excused>>

\* move: the copy of one object, whose deletion follows.
MoveCopy(c, k, d) ==
    /\ "move" \in ops
    /\ MoreCalls
    /\ call[c] = Idle /\ d # k.dir /\ Exists(k)
    /\ object' = [object EXCEPT ![[k EXCEPT !.dir = d]] = object[k]]
    /\ call' = [Crossed({k.dir, d}) EXCEPT ![c] =
                   [Started("movedir", "delete", k.dir, d, <<>>) EXCEPT
                        !.listing = FALSE, !.chunks = {{k}}, !.due = {k}]]
    /\ UNCHANGED <<upload, faults, ops, archive, lost, left, excused>>

-----------------------------------------------------------------------------
(* delete and delete_recursive                                             *)

\* Full chunks become tasks, and after the last page so does the rest. (A page is
\* no longer than a chunk.)
Cut(r) ==
    IF ~r.listing THEN [r EXCEPT !.chunks = @ \cup Chunks(r.files), !.files = <<>>]
    ELSE IF Len(r.files) < Chunk THEN r
    ELSE [r EXCEPT !.chunks = @ \cup {ToSet(SubSeq(r.files, 1, Chunk))},
                   !.files = SubSeq(@, Chunk + 1, Len(@))]

DeleteDirList(c) ==
    /\ At(c, "deletedir", "list") /\ call[c].listing
    /\ Set(c, Cut(Paged(c, Within(call[c].dir))))
    /\ UNCHANGED <<object, upload, calls, faults, ops, archive, lost, left, excused>>

\* _delete_1000_files, in any order: the keys but those S3 refuses, of which the
\* client hears nothing.
DeleteChunk(c, chunk, refused) ==
    /\ OnFolder(c) /\ chunk \in call[c].chunks
    /\ refused \subseteq {k \in chunk : Exists(k)}
    /\ IF refused = {} THEN UNCHANGED faults ELSE Fault
    /\ object' = [k \in Key |-> IF k \in chunk \ refused THEN None ELSE object[k]]
    /\ lost' = lost \cup {k \in chunk \ refused :
                             /\ call[c].op = "movedir" /\ ~call[c].crossed
                             /\ Exists(k) /\ object[Moved(c, k)] # object[k]}
    /\ Set(c, [call[c] EXCEPT !.chunks = @ \ {chunk}, !.due = @ \ refused])
    /\ UNCHANGED <<upload, calls, ops, archive, left, excused>>

\* The call returns.
DeleteEnds(c) ==
    /\ \/ At(c, "movedir", "delete")
       \/ At(c, "deletedir", "list") /\ ~call[c].listing
    /\ call[c].chunks = {}
    /\ left' = left \cup {k \in call[c].due : Exists(k) /\ ~call[c].crossed}
    /\ Set(c, Idle)
    /\ UNCHANGED <<object, upload, calls, faults, ops, archive, lost, excused>>

-----------------------------------------------------------------------------
(* downloaddir: the entries of a page are read before the next page        *)

\* The listing has the name of the folder without a slash for its prefix.
DownloadDirList(c) ==
    /\ At(c, "downloaddir", "list") /\ call[c].listing /\ call[c].files = <<>>
    /\ Set(c, Paged(c, Beginning(call[c].dir)))
    /\ UNCHANGED <<object, upload, calls, faults, ops, archive, lost, left, excused>>

DownloadDirRead(c) ==
    /\ At(c, "downloaddir", "list") /\ call[c].files # <<>>
    /\ Exists(Head(call[c].files))
    /\ Set(c, [call[c] EXCEPT !.files = Tail(@), !.done = @ \cup {Head(call[c].files)}])
    /\ UNCHANGED <<object, upload, calls, faults, ops, archive, lost, left, excused>>

\* The object is gone by now: the archive breaks off.
DownloadDirBreaks(c) ==
    /\ At(c, "downloaddir", "list") /\ call[c].files # <<>>
    /\ ~Exists(Head(call[c].files))
    /\ Set(c, Idle)
    /\ UNCHANGED <<object, upload, calls, faults, ops, archive, lost, left, excused>>

\* A mutant of DownloadDirEnds: the archive ends with the first page.
DownloadDirEndsEarly(c) ==
    /\ At(c, "downloaddir", "list") /\ call[c].last # None /\ call[c].files = <<>>
    /\ archive' = [of |-> call[c].dir, keys |-> call[c].done,
                   due |-> {k \in call[c].due : ~call[c].crossed}]
    /\ Set(c, Idle)
    /\ UNCHANGED <<object, upload, calls, faults, ops, lost, left, excused>>

DownloadDirEnds(c) ==
    /\ At(c, "downloaddir", "list") /\ ~call[c].listing /\ call[c].files = <<>>
    /\ archive' = [of |-> call[c].dir, keys |-> call[c].done,
                   due |-> {k \in call[c].due : ~call[c].crossed}]
    /\ Set(c, Idle)
    /\ UNCHANGED <<object, upload, calls, faults, ops, lost, left, excused>>

-----------------------------------------------------------------------------
\* The process is killed, or a request fails: the call ends where it is.
Killed(c) ==
    /\ call[c] # Idle /\ Fault
    /\ excused' = IF upload[c] # None THEN excused \cup {c} ELSE excused
    /\ Set(c, Idle)
    /\ UNCHANGED <<object, upload, calls, ops, archive, lost, left>>

Upload(c) ==
    \/ \E k \in Key, size \in Sizes : UploadCreate(c, k, size)
    \/ \E n \in 1..(MaxParts + 1) : PartSend(c, n) \/ PartDone(c, n) \/ PartFails(c, n)
    \/ Abort(c) \/ Complete(c) \/ EndFails(c)

Folder(c) ==
    \/ \E d, e \in Dir : Begin(c, "movedir", d, e)
    \/ \E d \in Dir : Begin(c, "deletedir", d, None) \/ Begin(c, "downloaddir", d, None)
    \/ MoveDirList(c) \/ MoveDirCopied(c)
    \/ \E k \in Key : MoveDirCopy(c, k) \/ MoveDirCopyFails(c, k)
    \/ \E k \in Key, d \in Dir : MoveCopy(c, k, d)
    \/ DeleteDirList(c) \/ DeleteEnds(c)
    \/ OnFolder(c) /\ \E chunk \in call[c].chunks, refused \in {{}} \cup {{k} : k \in Key} :
                        DeleteChunk(c, chunk, refused)
    \/ DownloadDirList(c) \/ DownloadDirRead(c) \/ DownloadDirBreaks(c) \/ DownloadDirEnds(c)

Next ==
    \/ \E k \in Key, size \in Sizes : PutObject(k, size)
    \/ \E c \in Clients : Upload(c) \/ Folder(c) \/ Killed(c)

Spec == Init /\ [][Next]_vars

-----------------------------------------------------------------------------
(* Properties                                                              *)

\* Every object has all the parts of one content, in order, whatever the order in
\* which its parts were sent, taken or refused (MultipartUpload.complete).
ObjectsWhole == \A k \in Key : Exists(k) => Whole(object[k])

\* A multipart upload nobody works on is left only by a killed process or when
\* abort or complete failed itself: a part that fails, or is refused because its
\* number is too high, does not leave one (MultipartUpload.__aexit__).
DanglingKnown ==
    \A c \in Clients : upload[c] # None /\ call[c] = Idle => c \in excused

\* A folder that nobody else touches is moved or deleted as a whole: move and
\* movedir delete no object they have not copied, though a copy may fail at any
\* time, and when they or deletedir return, all keys that were there when they
\* began are gone but those S3 refused to delete, of which the client is not told.
FoldersWhole == lost = {} /\ left = {}

\* An archive that is sent to its end has every object that was in the folder all
\* the time, on whichever page of the listing it stands. (It may have objects of
\* folders whose names merely begin with the folder's.)
ArchiveComplete == archive # None => archive.due \subseteq archive.keys
=============================================================================
