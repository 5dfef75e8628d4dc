# TLA+ models of shelf-back

shelf-back is the back end of a file-sharing service: users keep files in
namespaces and photos in a library; an API process (FastAPI) and worker
processes (arq) share a PostgreSQL database, a Redis cache and an object store
(a directory tree or S3).  The modules here model the parts of it in which
state is shared, deferred or cached; TLC checks them on small instances, TLAPS
proves theorems about them.

## Inventory

| Component | State | Operations | Interacts through | Hard about it | Correct when |
| --- | --- | --- | --- | --- | --- |
| Files, blobs, storage (`app/files/services/file`, `app/blobs`, `infrastructure/storage`, `worker/jobs/blobs.py`) | file rows, blob rows, blob job rows, objects, messages to the worker | upload, delete, move, move to Trash, empty Trash, folders, process a job | one transaction for file rows and job rows; arq messages; the object store, outside any transaction | storage work is deferred and done by another process; a message is published before the commit; every half of a job may be lost | each file keeps its bytes; nothing deleted comes back or is left over |
| Names of uploads (`FileCoreService.get_available_path`) | the paths of the files table | pick a name when one is taken | called twice by each upload | counts with a regular expression built from the name | the name given is free |
| File tree (`FileCoreService`, `FileRepository`, `NamespaceUseCase`, `Path`) | rows with path, kind, size | as above, on rows | several statements, then a transaction | reads are stale at the write; lookups ignore case and updates do not | parents exist, sizes add up, the quota holds |
| Refresh tokens (`app/auth`) | family id -> current token id, in the cache | create, rotate | two cache commands without a transaction | overlap, lost replies | a token is used once; a revoked family stays so; honest clients stay in |
| Blob content processing (`app/blobs/services`) | thumbnail files, metadata rows, locks in the cache | process a blob, get a thumbnail | a task after an upload; requests; blobs of equal content share a thumbnail | a lock runs out under a slow holder and outlives a dead one; tasks are delivered again | what is served is whole, every task ends |
| Photos: media items (`app/photos`) | rows with `deleted_at`, favourites, blobs | upload, favourite, delete, restore, purge | blob service, worker | no transactions; the purge pages by offset while it deletes | only what is in Trash is purged; what has a row has content |
| Photos: albums (`app/photos`) | rows with slug, `items_count`, cover; item links | create, rename, add, remove, cover, delete | media items | a counter beside a table; a slug chosen before it is saved | count, cover and slug fit the links and the index |
| Users and accounts (`app/users`, `api/accounts`) | users, sessions, four cache entries and four limiters per user | sign-up, sign-in, confirmation and change of the address | mail, cache with time limits | entries with different lives; steps cut off by a restart | an address that counts as verified is proven; answers are bounded |
| Sharing and download sessions (`app/files/services/sharing.py`, `api/shortcuts.py`) | links from tokens to files; cache entries that copy a row | create, revoke, get a URL, download | files, photos, storage | a copy outlives what it was taken from; read and delete are two commands | a session serves once, and what it was made for |
| Bookmarks, favourites | sets of pairs | add, remove | files, photos | the file goes between the read and the insert | marks are of rows |
| Background tasks (`worker/jobs/files.py`, `infrastructure/worker/arq.py`) | arq jobs, results, what the client knows | enqueue, run item by item, check | arq, use cases | a batch is delivered again from its beginning; results expire | what the client is told is so, and it is told |
| Audit trail (`app/audit`) | two append-only tables | write an entry | coroutines nobody awaits | two inserts without a transaction | it tells what was done |
| S3 storage and client (`infrastructure/storage/s3`) | objects, multipart uploads | save, move, delete, list, download; folders | HTTP requests that fail one by one | concurrent parts, pages, chunks | objects and folders are whole |
| API, mail, context, migrations, toolkit | none of their own | translation and I/O | - | - | - |

`PROJECT.json` lists the components with what is modelled of each, the hazards
with the properties that watch them, and the lines every definition stands for.

## Modules

| Module | What it is |
| --- | --- |
| `UserFiles` | What the owner of a namespace is promised: a map from paths to contents, changed at one instant by each request. |
| `FileBlobs` | Files, blobs, jobs, objects and the worker; implements `UserFiles` when the environment is calm. |
| `AvailablePath` | The names that uploads get. |
| `FileTree` | The rows of one namespace with casing, sizes and quota. |
| `TokenRotation` | Rotation of refresh tokens. |
| `BlobContent` | Thumbnails and metadata of blobs, with the locks of the cache. |
| `MediaItems` | The photo library; extends `BlobContent`: one id is an item and its blob, and every step of either module leaves the rest of the other alone. |
| `Albums` | Slugs, counts, covers and links of albums. |
| `Accounts` | Users, addresses, codes, limiters. |
| `SharedLinks` | Shared links, download sessions, bookmarks. |
| `S3Storage` | The S3 backend request by request. |
| `BackgroundTasks` | Batches of the worker, the check endpoints, the audit trail. |
| `...Proofs` | Theorems on `FileBlobs`, `FileTree`, `AvailablePath`, `TokenRotation`, `MediaItems` (with `BlobContent`), `Albums`, `Accounts`, `SharedLinks`, `BackgroundTasks`, `S3Storage`; those on `TokenRotation` are in `AccountsProofs`, those on `AvailablePath` in `FileTreeProofs`. |
| `MC...` | Instances for TLC: model values, finite sets of paths, symmetry. |

`FileBlobs`, `AvailablePath` and `FileTree` look at the same requests from three
sides, so that each stays small: what happens to bytes, which name is chosen,
what happens to rows and sizes.  What one leaves out, another has: `FileBlobs`
and `FileTree` let an upload take any free name; `AvailablePath` has the choice
itself; `FileBlobs` has one level of folders and no sizes; `FileTree` has any
depth and no objects.  In the same way `BackgroundTasks` and `SharedLinks` take a
move or a deletion as one step, `FileBlobs` takes a storage call as one step and
`S3Storage` has its requests, and the covers that `MediaItemUseCase.delete_batch`
reassigns are in `Albums`, where the covers are.

Constants and history variables say which behaviours a property is about.
`Serial`, `Drained`, `EarlyPickup`, `CrashSites` of `FileBlobs` and `overlapping`
of `FileTree` choose an environment; the code is the same in all of them.
Variables such as `plain`, `emptied`, `overlapped`, `torn`, `late`, `drifted`,
`mixed`, `lapped`, `excused` record that something has happened, which is a known
cause of what a property forbids otherwise: a property of the form "only if"
says that there is no other cause.

### FileBlobs and the code

An upload `u` stands for its content, its blob row and its file row.  `file`,
`blob` and `jobs` are the tables, `object` and `storageDirs` the store, `queue`
the arq messages, `running` the jobs between their two halves, `req`, `stage`
and `target` what requests have read.

* `UploadName`, `UploadStore`, `UploadSaveBlob`, `UploadSaveFile` are the four
  steps of `FileCoreService.create_file`: name, object, blob row, file row.
* `DeleteRead`/`DeleteSave` and `MoveRead`/`MoveSave` split a request where the
  row was read.  `Defer` is the job row with its message; with `EarlyPickup` the
  message may be taken before the commit and is lost.  Requests for folders are
  one step each.
* `WorkerStore` is the storage half of `process_blob_jobs`, `WorkerSave` its
  database half with the constraints of the schema, `WorkerFail` the move of an
  object that is not there, `WorkerSkip` a message without a row.
* Crashes: of the worker between the halves (arq delivers the message again), of
  the API between the steps of an upload or between publishing and committing.

The storage operations differ by backend as in the code: the filesystem moves a
directory into an existing one, S3 moves key by key and has no directories.

### FileTree and the code

A path is a sequence of names, `Fold` the casefolding of names.  `Same` is
`Path.__eq__` and `iexact`; `IncrSize` and `ReplacedPrefix` compare with casing
as `incr_size_batch` and `replace_path_prefix` do.  Each operation is a step up
to its last check (`Upload`, `Delete`, `MoveItem`, ...) and one for its
transaction (`...Save`); an upload has a step for the second choice of the name
between them.  All files have size 1.

An asking says what users do in a behaviour: the paths they name, the operations,
and those among them that overlap (`overlapping`); other requests wait until nothing
is under way.  The properties are about two kinds of askings.  `Tidy`: users keep to
one casing and only uploads and new folders overlap, with no path that a file may
get being one that a folder may get.  `Calm`: requests come one by one and nothing is
moved, in any casing.  The askings of the run are of these kinds.

### AvailablePath and TokenRotation

A name is a stem and the tags `(n)` after it; `Counted` is what the pattern
matches.  In `TokenRotation` each of the two cache commands of `rotate` is an
action; the variables in `history` record what was presented and accepted.

### BlobContent and MediaItems

`task[b]` is how far `process_blob_content` has come for a blob: row, download,
thumbnail, metadata.  `GenerateLock` waits for `cache.lock`; `SaveBegin` and
`SaveEnd` are the truncation and the end of `storage.save` on the filesystem (an
object of S3 appears at once).  `LockExpires` frees the lock of a dead holder, or
of a slow one as a fault.  `ThumbnailLock` ... `ThumbnailSaved` are the request.
`served` collects what viewers got.

`UploadStore`, `UploadSaveBlob`, `UploadSaveItem`, `UploadEnqueue` are
`MediaItemUseCase.upload`.  `trash` is the order of the deleted items by
`deleted_at`, as a set of pairs; items deleted together have one `deleted_at`, so
that any order of them may be the one a query gives; `ListDeleted` takes the items
with the right number of predecessors; `PurgePage` reads a page of it at the request's offset;
`DeletePermanently`, `...Rows`, `...Blobs`, `...Enqueue` are the statements of
`delete_permanently` and of `BlobService.delete_batch`; `JobStore` and `JobSave`
the halves of the job.  A purge that ends records what stayed in Trash all the
time it ran (`missed`) and whether Trash was ever larger than a page (`crowded`).

### Albums

A slug is its words and its numbers.  `GetAvailableSlug` is the choice,
`CreateRead`/`CreateSave` and `RenameRead`/`RenameSave` the two statements around
it.  `ItemsRead` reads the row; `AddSave` and `RemoveSave` write links, count and
cover from it.  `Touched` marks the requests under way whose reading is stale
after a step.  A title of which `slugify` keeps nothing has the empty slug after
a rename (`rename` does not pass `allow_unicode`); such an album can no longer be
addressed, so no later operation takes one.

### Accounts

Time is counted in ticks.  The four lives keep their order: code (2 minutes),
pending address (10), limiter window (30), mark of a change (6 hours).  The
limiter is external: a window opens with its first call and lasts a period, and
the first call too many prolongs it.  A request is one action per command:
`ChangeEmailStart`, `ChangeEmailSetPending`, `ResendRead`, `ResendSetCode` are
`change_email_start`, whose end is `change_email_resend_code`.  Codes are
numbered; `sent[n]` is the address code `n` was made for.  A mail that is lost is
a user who never gives the right answer.

### SharedLinks

A session is a record in the cache with the copy of a row.  `PopRead` and
`PopDelete` are the two cache commands of `pop_download_cache` and
`get_download_session`; `Serve` and `ServeNotFound` are the endpoint.  `Content`
says what each kind finds: a file by its id, a folder by its remembered path, a
photo by its remembered key.  `stored` follows the rows by jobs in their order.

### S3Storage

An object is its size and its parts.  `PartSend`, `PartDone`, `PartFails` are the
tasks of the group in `upload_obj`; `Complete` and `Abort` the two ends of
`MultipartUpload.__aexit__`.  `NextPage` is one answer of a listing, which goes on
after the last key it gave.  `MoveDirList`/`MoveDirCopy` fill and empty the group
of copies of `movedir`, `DeleteChunk` is `_delete_1000_files`.  A refused key of
`DeleteObjects` counts as a fault.  `crossed` marks a call during which another
call that writes (not a download) worked on its folder: the properties are about
the others.  `InOrder` is any sorting: the place of a member of a set is the number
of members before it.

### BackgroundTasks

`Start` is a delivery of the job, `ItemDone`, `ItemRefused`, `ItemFails` one
iteration of a batch, `EmptyTrash` and `EmptyTrashFails` the job `empty_trash`,
`Timeout`, `WorkerDies`, `Expire` what arq does.  `CheckStatus` and `CheckResult`
are the two requests to Redis of a check endpoint.  `Schedule` is
`taskgroups.schedule`; `SaveTrail` and `SaveAsset` the two inserts.  There is one
worker process: its death ends all runs under way.

## Runs

| Run | Instance | Shows |
| --- | --- | --- |
| `calm` | `FileBlobs`, one request at a time, worker idle when it starts; all operations, filesystem, one crash of the worker in any job but the move of a single object | `ContentIntact`, `StorageMirrorsFiles`, `StorageReclaimed` (liveness), refinement of `UserFiles` |
| `storm` | `FileBlobs`, requests for files overlap, messages are lost, a process crashes; S3 | `DeleteJobsAreSafe`, `NoResurrection` |
| `names` | `AvailablePath`: tagged names, a stem that is no literal pattern, deletions, moves | `PlainContentKept`, `PlainCopiesSequential`, `OnlySecondGuessesCollide` |
| `tree` | `FileTree`, either one casing with all operations, of which uploads and folder creations overlap, or two casings, one request at a time, without moves | `OneRowPerPath`, `TreeClosed`, `SizesUntilEmptied`, `QuotaNearlyKept` |
| `tokens` | `TokenRotation`, overlapping requests, expiry, lost replies | `RevokedOnlyOnReuse`, `RotatedTwiceOnlyIfOverlapped`, `RevivedOnlyIfOverlapped` |
| `photos` | `MediaItems`, two items, two clients, pages of one item, one fault | `ItemsHaveContent`, `OnePagePurged`, `PurgeSparesLive` |
| `content` | `MediaItems` with `BlobContent`, two uploads of equal content, a viewer, deletions, one fault | `ThumbnailsWhole`, `TasksFailOnlyIfGone`; `ContentProcessed` and `Reclaimed` (liveness) |
| `albums` | `Albums`, two items, three albums, two clients | `CountsDriftKnown`, `CoversFit`, `RefusedKnown` |
| `accounts` | `Accounts`, a user who changes or confirms an address, another who may take it, a restart | `VerifiedIsProven`, `TriesBounded`, `ChangesSpaced` |
| `sharing` | `SharedLinks`, a file, two folders, two photos, two clients | `ServedOnce`, `FolderServedKnown`, `LinkRefusedKnown`, `RevokedServedBriefly` |
| `s3` | `S3Storage`, two calls, a fault, pages and chunks of two keys | `ObjectsWhole`, `DanglingKnown`, `FoldersWhole`, `ArchiveComplete` |
| `tasks` | `BackgroundTasks`, two batches over two files, one fault | `ResultsTrue`, `AuditKnown`; `TasksAnswered` (liveness) |

Every property has a mutant of a definition of the code that breaks it in its
run (`mutants` in `PROJECT.json`; the mutated definition stands before the real
one).  Type invariants are not part of the runs: those of the modules with proofs
are theorems, the others can be added to a configuration.

**Bounds.**  Two uploads are enough for one to get in the way of another; two
names and four folders (Home, Trash, a folder and that folder in Trash) let a
file or a folder move away, back and into Trash.  Two job ids let two jobs run
in either order; `MaxCrashes` and `MaxFaults` bound what goes wrong.  `FileTree`
uses up to four rows beside Home and Trash, so that a folder in a folder with
two files fits; `MaxDrift` bounds how far the size of Home may fall below 0 once
Trash is emptied repeatedly.  `names` uses five uploads: the shortest collision
takes four.  `tokens` uses two families, five token ids and two requests under
way.  In `photos` a page is one item, so that two items are two pages.  In `s3` a
part is at least 2 and there are at most 3 parts, so that 5 is three parts, 6 is
one part too many; four keys are two pages and two chunks; `MaxCalls` is two.  In
`accounts` the lives are 2 < 3 < 4 < 5 ticks, limits are 2, and two codes can be
made with up to five requests (one fewer where they overlap): enough for a window
to end within the life of a code.  In `tasks` one fault allows one redelivery, so
that the end of `MaxTries` is not reached.

`OpSets` of `Albums`, `Accounts`, `SharedLinks` and `S3Storage`, `Askings` of
`FileTree` and `Orders` of `BackgroundTasks` choose, at the start of a behaviour,
which operations users make in it; `MC...` lists the sets.  Operations that share
no state are in different sets; those that interact are together in at least one.

Deadlock is not checked where the instance can run out of uploads, ids, codes or
calls with nothing left to do, which is all of them: users may stop at any time.

**Fairness.**  `FairSpec` of `FileBlobs` assumes that a request that has started
is carried through and that a published job is taken by the worker (arq polls
its queue; asyncio runs a ready task).  `FairSpec` of `MediaItems` assumes the
same of uploads, requests, jobs and content tasks, and that the cache drops a
lock whose holder is no longer at work (its time to live).  `FairSpec` of
`BackgroundTasks` assumes that the worker runs its jobs and that a client goes on
asking; the audit entries need no fairness.  Weak fairness is enough throughout.
Users need not do anything, and no crash or fault is forced or forbidden beyond
its bound.

## Where properties end

The passing runs stop where their properties stop holding.  These are behaviours
of the code that the models show once a constant is widened or a named cause is
taken out of a property:

* An upload to the path a file has just left replaces the object that the pending
  job has not carried away (`filecore.py:88`; `calm` with `Drained = FALSE`); two
  uploads of one path share a key (`Serial = FALSE`).
* A move job delivered again after its storage half finds no object and fails for
  good (`blob.py:178`; `CrashSites` with `"move"`).
* A job whose message came before its commit is never run (`EarlyPickup = TRUE`);
  an upload killed after its blob row keeps its key taken (`CrashSites` with
  `"api"`).
* After a deletion two uploads are given one name, and the second replaces the
  content of the first (`filecore.py:247`).
* Emptying Trash takes its size off Home and, because it names Trash in lower
  case, not off Trash: each further emptying takes it again (`namespace.py:171`).
* A folder created in one casing, filled in another and then moved leaves its
  contents behind; a folder named in another casing does not grow
  (`repositories/file.py:223`, `:289`).  Overlapping moves and deletions leave
  rows without a folder and sizes taken off twice.  A file uploaded to the path of a
  folder that another request has just found missing leaves what that request saves
  below a file (`filecore.py:111`): hence the last condition of `Tidy`.
* A rotation under way writes the entry of a family just revoked (`token.py:82`).
* A purge of more than a page of photos (1000) leaves every second page in Trash
  (`media_item.py:203`): `OnePagePurged` is the part that holds.
* A photo restored after a purge read its page is deleted (`media_item.py:160`).
* A writer killed in the middle leaves a thumbnail file that is served as it is
  from then on (`thumbnailer.py:80`).
* Redelivered content tasks fail on the metadata row of the first attempt.
* `items_count` counts ids, not links; permanent deletion does not touch it.
* The mark of a completed change of address is set also when the code was wrong
  (`users/usecases/user.py:68`), and the code of an earlier pending address
  confirms a later one.
* An archive of folder `a` from S3 has the objects of its sibling `ab` too: its
  listing has no slash (`s3/storage.py:139`).
* Keys that `DeleteObjects` refuses in a successful answer are reported as
  deleted (`async_client.py:146`).  The chunk size of multipart uploads stays at
  5 MB for every content that S3 takes, so that one above 50 GB has too many
  parts (`async_client.py:262`).
* A client whose result arq has forgotten is told "pending" for good
  (`arq.py:46`); `empty_trash` reports success when it failed.

## Theorems

For every value of the constants:

* `FileBlobsProofs`: `TypeCorrect`; `DeleteJobsSafe`, that a delete job never
  names a blob that a file has or is about to have.  The property is not
  inductive: a delete job is saved by a request that read the row earlier, and a
  file row comes from an upload or a move that may be under way.  The invariant
  adds that an upload under way has no file row and no request that names it,
  that a request names only uploads that are finished, and that a file's blob row
  is there; then no step can bring a file back to a blob that a job names.
  `DeletedStaysDeleted` is the action property `NoResurrection` from the same
  facts.
  For the calm environments (`Calm`: the constants of the run `calm`, with any
  uploads, folders, clients, operations and crashes, and either backend):
  `ContentStaysIntact`, `StorageMirrors`, and `CalmImplements`, the refinement of
  `UserFiles`.  Their invariant `CalmInv` says that at most one upload, request or
  job is under way and what each leaves to be done.  With a job, the files are what
  the blobs will be after it; the objects are where the blobs say before its storage
  half and where the files say after it, and a storage half done again changes
  nothing, unless it is the move of a single object.  That a moved folder does not
  end up inside a directory takes that directories of the storage are folders, or
  about to be removed by the job.  For the refinement each step that changes the
  files table is one step of `UserFiles`, and the others leave what users see.
* `FileTreeProofs`: on `FileTree` `TypeCorrect`, whatever overlaps; `PathsHaveOneRow`
  and `TreeStaysClosed` for askings that are `Tidy` or `Calm`; `SizesAreExact` and
  `QuotaIsNearlyKept` for those that are `Tidy`; for any rows, names, casefolding,
  depth, clients and quota.
  - That rows are in folders is not inductive, since what a transaction saves was
    found missing, free or there before.  `TreeInv` adds that everything above a row
    is a folder (`Rooted`), what each request still knows (`RequestsFit`: the folders
    it will create are in folders that are there or created with them, what has come
    to be at their paths since is a folder, the folder of an upload is there, a row
    that was read is unchanged), which requests run alone (`Solo`), and that with one
    casing all paths are made of the names in use (`PathsUsed`), so that the comparisons
    with casing and those without agree.
  - A move is the hard step: what was below the old path is below the new one and
    nothing else is, since the new path was free and its parent is not in the subtree.
  - `SizesFit` says of every folder that its size is the number of the files below it,
    as a cardinality and not as a sum over children, so that no induction is needed:
    each transaction changes the set of files below a folder by a file or by the files of
    the subtree, whose number is the size of its top row by the same invariant, and
    the cardinality theorems do the rest.  Sizes add up at the parents of a path, and
    these are the folders it is below.
  - `QuotaFits` counts the uploads under way with the files: the check of `add_file`
    sees the files but not the uploads of the other clients.

  On `AvailablePath`: `CollisionsNeedTwoTags`, whatever users do, since the
  second answer of `get_available_path` adds a tag to the first;
  `PlainUploadsKeepContent` and `PlainUploadsAreSequential` until something else
  than an upload under a plain name happens.  The invariant is
  `PlainCopiesSequential` with types: the numbers in use are exactly 1..n, so that
  n + 1 is free, which takes the cardinality theorems of finite sets.
* `MediaItemsProofs`, on `MediaItems` with the `BlobContent` it extends:
  `TypeCorrect`; `ContentOfItems`, `OnePageIsPurged`, `PurgesSpareLive`,
  `ThumbnailsAreWhole`, `TasksFailForCause`.
  - That an item with a row has content is not inductive, since what deletes the
    content has read the rows steps before.  `LibraryInv` adds how far an upload
    puts what (`StagesFit`), that a job names only items whose upload is past
    (`JobsFit`), and that a request, when it comes to the blobs, holds none with a
    row (`RequestFits`): rows once gone do not come back.
  - `PurgeFits` relates a purge to Trash.  If Trash never held more than a page,
    the first page is all of Trash: no item has as many predecessors as a page has
    places, by the cardinality theorems.  After the first page nothing is left that
    was there all the time.
  - `ContentInv` says of a content on which nobody was killed and no lock was lost
    (`Guarded`) that whoever works on it has the lock and that a partial file is
    being written, and of a task (`TaskFits`) that it finds metadata before its own
    only if it was delivered before.
* `AlbumsProofs`: `TypeCorrect`, `CountsDriftForCause`, `CoversAlwaysFit`,
  `RefusedForCause`.  What a request writes, it computed from a row it read:
  `Fresh` says that a request that is not stale still knows its row, so that the
  count it writes is the right one if the ids are as many as the links they change.
  `Numbering` says that, as long as nothing put numbers out of order, no slug has a
  number above the count of the numbered slugs with its words, and a slug chosen by
  a request that is not stale is free.
* `AccountsProofs`: `TypeCorrect`; `VerifiedIsAlwaysProven`, `ChangesAreSpaced`,
  `TriesAreBounded`; and, on `TokenRotation`, the other half of signing in,
  `TokensTypeCorrect`, `HonestStayLoggedIn`, `TokensRotateOnce`, `RevocationIsFinal`.
  - `ProvenInv` follows a code: every code that lives was sent, the one for a
    confirmation to the address of the row, the one for a change to the pending
    address or its user is known to be `mixed`; requests keep what they have read.
  - `OneAtATime` is about users whose requests did not overlap: after a change there
    is the mark or the request about to set it, and no other change begins.
  - `TriesWithin` bounds the tries of a living code by the window of its limiter:
    a window that ends before the code does was opened before there was the code, so
    that its calls and those of the next window are all there can be; a window opened
    in the life of a code outlives it, since a code lives shorter than a period
    (`AccountsAssumption`, the order of the four lives in the code).
  - `TokenInv` relates what was presented to what is under way, so that a token not
    presented twice has at most one request, and that request's token is the current
    one; `RotationInv` says that in a family without overlap a request found current
    still is, and the current token was never rotated.
* `SharedLinksProofs`: `TypeCorrect`, `SessionsServedOnce`, `LinksRefusedKnown`,
  `RevokedLinksServeBriefly`, `FoldersServedKnown`.  `OneHand` and `LinksOfRows` are
  about two requests with one session or one file; `RevokedLately` trades the age of
  a revocation against the life a session has left.  `StorageFollows` is the hard
  part: storage lags behind rows by a sequence of jobs, so the invariant has a
  witness, the states of storage while it follows them (`Future`), of which the last
  has every folder under its path; a path that no job touches stays as it is, so an
  undisturbed copy of a row is still true (`CopiesStillThere`).  The witness takes
  the place of an induction over the jobs.
* `BackgroundTasksProofs`: `TypeCorrect`, `ResultsAreTrue`, `AuditIsKnown`.
  `ResultsInv` says that what the present run of a batch did is what it reports as
  done, and the reverse, with entries named by batch, item and try; a new try starts
  with no results, so that what a client is told is about the last one.  `AuditInv`
  adds that what is still to be written was done.
* `S3StorageProofs`: `TypeCorrect`, `ObjectsAreWhole`, `DanglingIsKnown`,
  `FoldersStayWhole`, `ArchivesComplete`, for any bucket, lengths of pages, chunks and
  parts, calls and faults.
  - `UploadInv`: a multipart upload has a call that works on it, or it is excused.
    When all parts are in, what `complete` sorts is 1..n in whatever order they came.
  - `FolderInv` is about calls that are not `crossed`.  What is due of a call is in
    view (`InView`): done, at hand, in a chunk, or after the last key of the listing,
    on a page to come; a move has copied every key it may delete (`Kept`); and two
    such calls work on different folders (`Apart`), so that a step of one leaves what
    the other relies on, while whoever writes elsewhere marks the calls concerned.
  - That pages lose no key and chunks cut no key would be an induction over a
    sequence.  With the order of a set defined by ranks (`InOrder`) and the chunks by
    quotients it follows from the cardinality theorems: a key not on a page has at
    least a page of keys before it.

The proofs rest on the named assumptions of the modules, which TLC evaluates in
every run: the special folders differ, folders start under different paths (the
unique index on paths), `None` is not a value, row or request, the sets of uploads,
blobs, items, albums, rows and clients are finite, casefolding twice is casefolding once, lists of item ids are not empty
(`min_length=1` in `api/photos/albums/schemas.py`), the lives of cache entries
have the order they have in the code, a part of an upload has more than one byte
(`_5_MB`), and a page of a listing is no longer than a chunk (1000 keys each).  The inductive invariants were checked with
TLC on the instances of the runs before they were proved.

Only model-checked: liveness (`StorageReclaimed`, `ContentProcessed`, `Reclaimed`,
`TasksAnswered`), which with `ENABLED` is out of the prover's reach.  Every other
property of the runs is a theorem.

## Not modelled

Listings and searches change nothing.  Moves between namespaces have no caller.
Formats, media types and hashes are data.  Mail and the signing of requests are
I/O; a failure of either is a failed step of its caller.  Buckets are made once.
The schema of the migrations is in the modules as the constraints that the
statements meet; the data migration `0009` runs once, before the service does.
The audit entry of a sign-in names no file and is written like the others.

## Plan

The safety properties of the runs are proved.  What a next step could add: where the
object of a file ends up that was moved away and back before the worker ran
(`blob.py:94`), in `FileBlobs` with `Drained = FALSE`; and promises for the
environments listed under "Where properties end", once the code keeps them.
