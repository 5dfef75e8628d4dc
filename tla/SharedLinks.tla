---------------------------- MODULE SharedLinks -----------------------------
(***************************************************************************)
(* What is handed out to be opened later: shared links, the download       *)
(* sessions behind a download URL, for files, folders and photos, and      *)
(* bookmarks, while files and folders are moved and deleted.               *)
(*                                                                         *)
(* A download session is a cache entry that lives SessionTtl ticks and     *)
(* holds a copy of the row as it was: the id decides what a file session   *)
(* serves, the path what a folder session serves.  Storage follows the     *)
(* rows by jobs, here in their order; FileBlobs is about other orders.     *)
(***************************************************************************)
EXTENDS Naturals, Sequences, FiniteSets

CONSTANTS
    Files, Folders,  \* ids of file rows
    Paths,           \* paths of folders
    Home,            \* Home[d]: where folder d is at first
    Photos,          \* media items
    Tokens,          \* tokens of shared links
    Keys,            \* keys of download sessions
    Clients,         \* requests that are under way
    None,
    SharedLinksEnabled, Superuser,   \* who may share
    SessionTtl,      \* expire=60 of a download session
    MaxJobs,         \* bound on the jobs storage is behind
    OpSets           \* the sets of operations of which users make one

Ids == Files \cup Folders

ASSUME SharedLinksAssumption ==
    /\ Home \in [Folders -> Paths] /\ Files \cap Folders = {}
    /\ \A d, e \in Folders : Home[d] = Home[e] => d = e   \* the unique index on path
    /\ SharedLinksEnabled \in BOOLEAN /\ Superuser \in BOOLEAN
    /\ SessionTtl \in Nat \ {0} /\ MaxJobs \in Nat
    /\ None \notin Ids \cup Paths \cup Photos

VARIABLES
    rows,      \* ids of files and folders that have a row
    path,      \* path[d]: the path of folder d's row
    stored,    \* stored[p]: the folder whose content lies under p in storage
    jobs,      \* moves and deletions that storage has not seen yet
    items,     \* photos that have a row and content
    link,      \* link[t]: the file of the row of models.SharedLink
    marks,     \* bookmarked files
    session,   \* session[k]: the cache entry
    req,       \* req[c]: what a request has read
    ops,       \* the operations users make
    \* What the properties speak about.
    answered,  \* answered[k]: how often the session was answered with content
    lapped,    \* sessions that two requests had in hand at one time
    wasted,    \* sessions gone for nothing, for a known reason
    revoked,   \* revoked[t]: ticks since t was revoked, at most SessionTtl + 1
    slow       \* tokens of requests during which time passed

vars == <<rows, path, stored, jobs, items, link, marks, session, req, ops,
          answered, lapped, wasted, revoked, slow>>
tables == <<rows, path, stored, jobs, items, link, marks>>
ghosts == <<answered, lapped, wasted, revoked, slow>>

Linked == {link[t] : t \in Tokens} \ {None}
Idle == [op |-> "idle"]
Set(c, r) == req' = [req EXCEPT ![c] = r]

Init ==
    /\ rows = Ids /\ path = Home
    /\ stored = [p \in Paths |-> IF \E d \in Folders : Home[d] = p
                                 THEN CHOOSE d \in Folders : Home[d] = p ELSE None]
    /\ jobs = <<>> /\ items = Photos
    /\ link = [t \in Tokens |-> None] /\ marks = {}
    /\ session = [k \in Keys |-> None]
    /\ req = [c \in Clients |-> Idle]
    /\ ops \in OpSets
    /\ answered = [k \in Keys |-> 0] /\ lapped = {} /\ wasted = {}
    /\ revoked = [t \in Tokens |-> 0] /\ slow = {}

-----------------------------------------------------------------------------
(* Files and folders: moves and deletions                                  *)

\* A session's path is disturbed when its folder, or another that comes to lie
\* there, is moved or deleted.
Disturbed(p) ==
    session' = [k \in Keys |->
        IF session[k] # None /\ session[k].kind = "folder" /\ session[k].path = p
        THEN [session[k] EXCEPT !.moved = TRUE] ELSE session[k]]

\* Requests that hold a copy of a session are disturbed as well.
DisturbedRequests(p) ==
    req' = [c \in Clients |->
        IF req[c].op \in {"delete", "serve"} /\ req[c].copy.kind = "folder"
             /\ req[c].copy.path = p
        THEN [req[c] EXCEPT !.copy.moved = TRUE] ELSE req[c]]

\* A mutant of MoveFolder: storage is not told.
MoveFolderRowOnly(d, p) ==
    /\ "move" \in ops /\ Len(jobs) < MaxJobs
    /\ d \in rows /\ \A e \in Folders \cap rows : path[e] # p
    /\ path' = [path EXCEPT ![d] = p]
    /\ Disturbed(path[d]) /\ DisturbedRequests(path[d])
    /\ UNCHANGED <<rows, stored, jobs, items, link, marks, ops, ghosts>>

\* FileCoreService.move of a folder, to a path that is free.
MoveFolder(d, p) ==
    /\ "move" \in ops /\ Len(jobs) < MaxJobs
    /\ d \in rows /\ \A e \in Folders \cap rows : path[e] # p
    /\ path' = [path EXCEPT ![d] = p]
    /\ jobs' = Append(jobs, [from |-> path[d], to |-> p])
    /\ Disturbed(path[d]) /\ DisturbedRequests(path[d])
    /\ UNCHANGED <<rows, stored, items, link, marks, ops, ghosts>>

\* The row is deleted, and with it its shared link and bookmarks.
DeleteFile(i) ==
    /\ "delete" \in ops
    /\ i \in rows /\ rows' = rows \ {i}
    /\ link' = [t \in Tokens |-> IF link[t] = i THEN None ELSE link[t]]
    /\ revoked' = [t \in Tokens |-> IF link[t] = i THEN 1 ELSE revoked[t]]
    /\ marks' = marks \ {i}
    /\ IF i \in Folders
       THEN /\ Len(jobs) < MaxJobs
            /\ jobs' = Append(jobs, [from |-> path[i], to |-> None])
            /\ Disturbed(path[i]) /\ DisturbedRequests(path[i])
       ELSE UNCHANGED <<jobs, session, req>>
    /\ UNCHANGED <<path, stored, items, ops, answered, lapped, wasted, slow>>

DeletePhoto(m) ==
    /\ "photo" \in ops
    /\ m \in items /\ items' = items \ {m}
    /\ UNCHANGED <<rows, path, stored, jobs, link, marks, session, req, ops, ghosts>>

RunJob ==
    /\ jobs # <<>> /\ jobs' = Tail(jobs)
    /\ stored' = LET j == Head(jobs)
                 IN  [p \in Paths |-> CASE p = j.from -> None
                                        [] p = j.to -> stored[j.from]
                                        [] OTHER -> stored[p]]
    /\ UNCHANGED <<rows, path, items, link, marks, session, req, ops, ghosts>>

-----------------------------------------------------------------------------
(* Shared links                                                            *)

\* SharingUseCase.create_link: not for everyone if the feature is off.
MayShare == SharedLinksEnabled \/ Superuser

\* A mutant of CreateLinkRead: the link that exists is not looked for.
CreateLinkReadNothing(c, i) ==
    /\ "share" \in ops
    /\ req[c] = Idle /\ MayShare /\ i \in rows
    /\ Set(c, [op |-> "link", file |-> i, lapped |-> FALSE])
    /\ UNCHANGED <<tables, session, ops, ghosts>>

\* SharedLinkRepository.save looks for the link of the file and returns it, ...
CreateLinkRead(c, i) ==
    /\ "share" \in ops
    /\ req[c] = Idle /\ MayShare /\ i \in rows
    /\ i \notin Linked
    /\ Set(c, [op |-> "link", file |-> i, lapped |-> FALSE])
    /\ UNCHANGED <<tables, session, ops, ghosts>>

Unused(t) == link[t] = None /\ revoked[t] = 0

\* ... or inserts one.
CreateLinkSave(c) ==
    /\ req[c].op = "link"
    /\ req[c].file \in rows \ Linked
    /\ \E t \in Tokens : Unused(t) /\ link' = [link EXCEPT ![t] = req[c].file]
    /\ req' = [b \in Clients |->
                 IF b = c THEN Idle
                 ELSE IF req[b].op = "link" /\ req[b].file = req[c].file
                 THEN [req[b] EXCEPT !.lapped = TRUE] ELSE req[b]]
    /\ UNCHANGED <<rows, path, stored, jobs, items, marks, session, ops, ghosts>>

\* Either index or foreign key refuses the insert; both are File.NotFound.
CreateLinkRefused(c) ==
    /\ req[c].op = "link"
    /\ req[c].file \notin rows \ Linked
    /\ Set(c, Idle)
    /\ UNCHANGED <<tables, session, ops, ghosts>>

RevokeLink(t) ==
    /\ "share" \in ops
    /\ link[t] # None
    /\ link' = [link EXCEPT ![t] = None]
    /\ revoked' = [revoked EXCEPT ![t] = 1]
    /\ UNCHANGED <<rows, path, stored, jobs, items, marks, session, req, ops, answered,
                   lapped, wasted, slow>>

-----------------------------------------------------------------------------
(* Download sessions                                                       *)

Busy(p) == \E n \in 1..Len(jobs) : p \in {jobs[n].from, jobs[n].to}

\* create_download_cache: a copy of the row of i, for a link's token or for the
\* owner (via None).
CopyOf(i, via) ==
    [kind |-> IF i \in Folders THEN "folder" ELSE "file", file |-> i, via |-> via,
     path |-> IF i \in Folders THEN path[i] ELSE None,
     moved |-> i \in Folders /\ Busy(path[i]), ttl |-> SessionTtl]

\* token_urlsafe: a key that never was.
FreshKey(k) ==
    /\ session[k] = None /\ answered[k] = 0 /\ k \notin wasted
    /\ \A c \in Clients : req[c].op \in {"delete", "serve"} => req[c].key # k

CreateDownloadCache(k, copy) ==
    /\ FreshKey(k)
    /\ session' = [session EXCEPT ![k] = copy]

\* get_download_url
GetDownloadUrl(k, i) ==
    /\ "download" \in ops
    /\ i \in rows
    /\ CreateDownloadCache(k, CopyOf(i, None))
    /\ UNCHANGED <<tables, req, ops, ghosts>>

\* get_shared_link_download_url: the link is read, then the row of its file.
GetSharedItem(c, t) ==
    /\ "share" \in ops
    /\ req[c] = Idle /\ link[t] # None
    /\ Set(c, [op |-> "item", file |-> link[t], via |-> t])
    /\ UNCHANGED <<tables, session, ops, ghosts>>

GetSharedLinkDownloadUrl(c) ==
    /\ req[c].op = "item"
    /\ IF req[c].file \in rows
       THEN \E k \in Keys : CreateDownloadCache(k, CopyOf(req[c].file, req[c].via))
       ELSE UNCHANGED session
    /\ Set(c, Idle)
    /\ UNCHANGED <<tables, ops, ghosts>>

\* _get_download_items: the photos of S that are there.
DownloadItems(S) == S \cap items

\* create_download_session
CreateDownloadSession(k, S) ==
    /\ "photo" \in ops
    /\ DownloadItems(S) # {}
    /\ CreateDownloadCache(k, [kind |-> "photo", photos |-> DownloadItems(S), via |-> None,
                               ttl |-> SessionTtl])
    /\ UNCHANGED <<tables, req, ops, ghosts>>

InHand(k) == \E c \in Clients : req[c].op = "delete" /\ req[c].key = k

\* pop_download_cache and get_download_session read the entry, ...
PopRead(c, k, batch) ==
    /\ req[c] = Idle
    /\ session[k] # None
    /\ batch => session[k].kind = "photo"
    /\ Set(c, [op |-> "delete", key |-> k, copy |-> session[k], batch |-> batch])
    /\ lapped' = IF InHand(k) THEN lapped \cup {k} ELSE lapped
    /\ UNCHANGED <<tables, session, ops, answered, wasted, revoked, slow>>

\* A mutant of PopDelete: the entry stays.
PopNothing(c) ==
    /\ req[c].op = "delete"
    /\ Set(c, [req[c] EXCEPT !.op = "serve"])
    /\ UNCHANGED <<tables, session, ops, ghosts>>

\* ... then delete it.
PopDelete(c) ==
    /\ req[c].op = "delete"
    /\ session' = [session EXCEPT ![req[c].key] = None]
    /\ Set(c, [req[c] EXCEPT !.op = "serve"])
    /\ UNCHANGED <<tables, ops, ghosts>>

\* download_media_item_cache and download_media_item_batch_cache: one photo, or
\* more than one.
Fits(copy, batch) == IF batch THEN Cardinality(copy.photos) >= 2
                              ELSE Cardinality(copy.photos) = 1

\* A mutant of Content: a file is served by the copy, though its row is gone.
ContentOfCopy(copy) ==
    CASE copy.kind = "file" -> {copy.file}
      [] copy.kind = "folder" -> {stored[copy.path]}
      [] OTHER -> copy.photos \cap items

\* What there is to stream: a file's row is looked up by its id, a folder by the
\* path it had, photos by the storage keys they had.
FileContent(copy) == {copy.file} \cap rows
FolderContent(copy) == {stored[copy.path]} \ {None}
PhotoContent(copy) == copy.photos \cap items

Content(copy) ==
    CASE copy.kind = "file" -> FileContent(copy)
      [] copy.kind = "folder" -> FolderContent(copy)
      [] OTHER -> PhotoContent(copy)

\* download, download_folder, download_media_item, download_media_items_batch:
\* the answer is content, or an error.
Serve(c) ==
    LET copy == req[c].copy
        k == req[c].key
    IN  /\ req[c].op = "serve"
        /\ copy.kind = "photo" => Fits(copy, req[c].batch)
        /\ Content(copy) # {}
        /\ answered' = [answered EXCEPT ![k] = @ + 1]
        /\ Set(c, Idle)
        /\ UNCHANGED <<tables, session, ops, lapped, wasted, revoked, slow>>

\* The session was of the wrong kind or its file is gone: it is spent all the same.
ServeNotFound(c) ==
    LET copy == req[c].copy
    IN  /\ req[c].op = "serve"
        /\ (copy.kind = "photo" /\ ~Fits(copy, req[c].batch)) \/ Content(copy) = {}
        /\ wasted' = wasted \cup {req[c].key}
        /\ Set(c, Idle)
        /\ UNCHANGED <<tables, session, ops, answered, lapped, revoked, slow>>

\* The process is killed with a request in hand.
Killed(c) ==
    /\ "kill" \in ops /\ req[c].op \in {"delete", "serve"}
    /\ wasted' = wasted \cup {req[c].key}
    /\ Set(c, Idle)
    /\ UNCHANGED <<tables, session, ops, answered, lapped, revoked, slow>>

\* Time passes; entries expire.
Tick ==
    /\ session' = [k \in Keys |->
         IF session[k] = None \/ session[k].ttl = 1 THEN None
         ELSE [session[k] EXCEPT !.ttl = @ - 1]]
    /\ wasted' = wasted \cup {k \in Keys : session[k] # None /\ session[k].ttl = 1}
    /\ revoked' = [t \in Tokens |-> IF revoked[t] \in 1..SessionTtl
                                    THEN revoked[t] + 1 ELSE revoked[t]]
    /\ slow' = slow \cup {t \in Tokens : \E c \in Clients :
                  \/ req[c].op = "item" /\ req[c].via = t
                  \/ req[c].op \in {"delete", "serve"} /\ req[c].copy.via = t}
    /\ UNCHANGED <<tables, req, ops, answered, lapped>>

-----------------------------------------------------------------------------
(* Bookmarks                                                               *)

\* add_bookmark_batch reads the files, ...
AddBookmarkRead(c, S) ==
    /\ "mark" \in ops
    /\ req[c] = Idle /\ S \cap rows # {}
    /\ Set(c, [op |-> "mark", ids |-> S \cap rows])
    /\ UNCHANGED <<tables, session, ops, ghosts>>

\* ... then inserts the rows, all or none: a mark that is there is skipped, a file
\* that is gone refuses them all.
AddBookmarkSave(c) ==
    /\ req[c].op = "mark" /\ req[c].ids \subseteq rows
    /\ marks' = marks \cup req[c].ids
    /\ Set(c, Idle)
    /\ UNCHANGED <<rows, path, stored, jobs, items, link, session, ops, ghosts>>

AddBookmarkRefused(c) ==
    /\ req[c].op = "mark" /\ ~(req[c].ids \subseteq rows)
    /\ Set(c, Idle)
    /\ UNCHANGED <<tables, session, ops, ghosts>>

AddBookmark(c) == AddBookmarkSave(c) \/ AddBookmarkRefused(c)

RemoveBookmarks(S) ==
    /\ S \cap marks # {}
    /\ marks' = marks \ S
    /\ UNCHANGED <<rows, path, stored, jobs, items, link, session, req, ops, ghosts>>

-----------------------------------------------------------------------------
Next ==
    /\ \/ \E d \in Folders, p \in Paths : MoveFolder(d, p)
       \/ \E i \in Ids : DeleteFile(i) \/ \E k \in Keys : GetDownloadUrl(k, i)
       \/ \E m \in Photos : DeletePhoto(m)
       \/ RunJob \/ Tick
       \/ \E t \in Tokens : RevokeLink(t)
       \/ \E k \in Keys, S \in SUBSET Photos : CreateDownloadSession(k, S)
       \/ \E S \in SUBSET Ids : RemoveBookmarks(S)
       \/ \E c \in Clients :
            \/ \E i \in Ids : CreateLinkRead(c, i)
            \/ CreateLinkSave(c) \/ CreateLinkRefused(c)
            \/ \E t \in Tokens : GetSharedItem(c, t)
            \/ GetSharedLinkDownloadUrl(c)
            \/ \E k \in Keys, batch \in BOOLEAN : PopRead(c, k, batch)
            \/ PopDelete(c) \/ Serve(c) \/ ServeNotFound(c) \/ Killed(c)
            \/ \E S \in SUBSET Ids : AddBookmarkRead(c, S)
            \/ AddBookmark(c)
    /\ UNCHANGED ops

Spec == Init /\ [][Next]_vars

-----------------------------------------------------------------------------
(* Properties                                                              *)

\* The type invariant: links and bookmarks are those of rows, one link a file.
TypeOK ==
    /\ rows \subseteq Ids /\ items \subseteq Photos
    /\ path \in [Folders -> Paths] /\ stored \in [Paths -> Folders \cup {None}]
    /\ Linked \cup marks \subseteq rows
    /\ \A s, t \in Tokens : link[s] = link[t] /\ link[s] # None => s = t
    /\ \A k \in Keys : session[k] # None => session[k].ttl \in 1..SessionTtl

\* "Creates a shared link ... if the link already exists, then existing link will
\* be returned": create_link fails with File.NotFound only if the file has gone
\* or another create_link for it came in between.
LinkRefusedKnown ==
    [][\A c \in Clients : CreateLinkRefused(c) =>
         req[c].file \notin rows \/ req[c].lapped]_vars

\* A download session is answered twice only if two requests read it before the
\* first deleted it (pop_download_cache, get_download_session).
ServedOnce == \A k \in Keys : answered[k] > 1 => k \in lapped

\* A link that was revoked, or whose file was deleted, gives content for no longer
\* than a session lives, unless a request was slow; and none at all of a file
\* whose row is gone.
RevokedServedBriefly ==
    [][\A c \in Clients : Serve(c) =>
         LET copy == req[c].copy
         IN  /\ copy.kind = "file" => copy.file \in rows
             /\ copy.via # None /\ revoked[copy.via] > SessionTtl => copy.via \in slow]_vars

\* A folder's session gives the content of another folder, or none, only if a
\* folder was moved from its path or deleted there after the session was made, or
\* storage had not yet followed such a move when it was made.
FolderServedKnown ==
    \A c \in Clients :
        req[c].op = "serve" /\ req[c].copy.kind = "folder" /\ ~req[c].copy.moved
            => Content(req[c].copy) = {req[c].copy.file}
=============================================================================
