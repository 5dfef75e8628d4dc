------------------------- MODULE SharedLinksProofs --------------------------
(***************************************************************************)
(* Proofs about SharedLinks for any files, folders, photos, links,         *)
(* sessions and requests.                                                  *)
(***************************************************************************)
EXTENDS SharedLinks, SequenceTheorems, TLAPS

Copy ==
    [kind : {"file", "folder"}, file : Ids, via : Tokens \cup {None},
     path : Paths \cup {None}, moved : BOOLEAN, ttl : 1..SessionTtl]
    \cup [kind : {"photo"}, photos : SUBSET Photos, via : {None}, ttl : 1..SessionTtl]

Request ==
    [op : {"idle"}]
    \cup [op : {"link"}, file : Ids, lapped : BOOLEAN]
    \cup [op : {"item"}, file : Ids, via : Tokens]
    \cup [op : {"delete", "serve"}, key : Keys, copy : Copy, batch : BOOLEAN]
    \cup [op : {"mark"}, ids : SUBSET Ids]

Job == [from : Paths, to : Paths \cup {None}]

Typed ==
    /\ rows \subseteq Ids /\ items \subseteq Photos /\ marks \subseteq rows
    /\ path \in [Folders -> Paths] /\ stored \in [Paths -> Folders \cup {None}]
    /\ jobs \in Seq(Job) /\ \A n \in 1..Len(jobs) : jobs[n].from # jobs[n].to
    /\ link \in [Tokens -> Ids \cup {None}]
    /\ session \in [Keys -> Copy \cup {None}] /\ req \in [Clients -> Request]
    /\ answered \in [Keys -> Nat] /\ lapped \subseteq Keys
    /\ revoked \in [Tokens -> 0..(SessionTtl + 1)] /\ slow \subseteq Tokens

\* A request that has a copy of session k in hand.
Has(c, k) == req[c].op \in {"delete", "serve"} /\ req[c].key = k

\* Of a session that no two requests had in hand at one time: who serves it has
\* deleted it, and nobody has answered it before.
OneHand ==
    \A k \in Keys \ lapped :
        /\ answered[k] <= 1
        /\ session[k] # None => answered[k] = 0
        /\ \A b, c \in Clients : Has(b, k) /\ Has(c, k) => b = c
        /\ \A c \in Clients : Has(c, k) =>
             answered[k] = 0 /\ (req[c].op = "serve" => session[k] = None)

\* Links are those of rows, one a file, and who is about to insert one was alone
\* or knows.
LinksOfRows ==
    /\ Linked \subseteq rows
    /\ \A s, t \in Tokens : link[s] = link[t] /\ link[s] # None => s = t
    /\ \A c \in Clients : req[c].op = "link" /\ req[c].file \in Linked => req[c].lapped

\* How long a link can have been revoked of which a request or a session tells, if
\* no time passed during its requests.
RevokedLately ==
    \A t \in Tokens :
        /\ link[t] # None => revoked[t] = 0
        /\ t # None /\ t \notin slow =>
             /\ \A k \in Keys : session[k] # None /\ session[k].via = t /\ revoked[t] > 0 =>
                  revoked[t] + session[k].ttl <= SessionTtl + 1
             /\ \A c \in Clients :
                  /\ req[c].op = "item" /\ req[c].via = t => revoked[t] <= 1
                  /\ req[c].op \in {"delete", "serve"} /\ req[c].copy.via = t =>
                       revoked[t] <= SessionTtl

\* Storage after it has followed job j from s.
Followed(j, s) ==
    [p \in Paths |-> IF p = j.from THEN None ELSE IF p = j.to THEN s[j.from] ELSE s[p]]

\* The states of storage while it follows the jobs: in the last one every folder
\* lies under its path, and a path that no job touches is as it was.
Future(F) ==
    /\ F \in [1..(Len(jobs) + 1) -> [Paths -> Folders \cup {None}]]
    /\ F[1] = stored
    /\ \A n \in 1..Len(jobs) : F[n + 1] = Followed(jobs[n], F[n])
    /\ \A d \in Folders \cap rows : F[Len(jobs) + 1][path[d]] = d
    /\ \A n \in 1..(Len(jobs) + 1), p \in Paths :
         (\A m \in n..Len(jobs) : p # jobs[m].from /\ p # jobs[m].to) =>
           F[n][p] = F[Len(jobs) + 1][p]

StorageFollows ==
    /\ \A d, e \in Folders \cap rows : path[d] = path[e] => d = e
    /\ \E F : Future(F)

\* A copy of a folder's row that nothing disturbed is still true of the folder.
StillThere(copy) ==
    copy.kind = "folder" /\ ~copy.moved =>
        /\ copy.file \in Folders \cap rows /\ path[copy.file] = copy.path
        /\ ~Busy(copy.path) /\ stored[copy.path] = copy.file

CopiesStillThere ==
    /\ \A k \in Keys : session[k] # None => StillThere(session[k])
    /\ \A c \in Clients : req[c].op \in {"delete", "serve"} => StillThere(req[c].copy)

\* The inductive invariant.
IInv == /\ Typed
        /\ OneHand
        /\ LinksOfRows
        /\ RevokedLately
        /\ StorageFollows
        /\ CopiesStillThere

-----------------------------------------------------------------------------

\* The fields of a copy.
LEMMA CopyFacts ==
  ASSUME NEW r \in Copy
  PROVE  /\ r.kind \in {"file", "folder", "photo"}
         /\ r.via \in Tokens \cup {None} /\ r.ttl \in 1..SessionTtl
         /\ r.kind = "photo" => r.photos \subseteq Photos
         /\ r.kind # "photo" =>
              /\ r.file \in Ids /\ r.path \in Paths \cup {None} /\ r.moved \in BOOLEAN
              /\ r \in [kind : {"file", "folder"}, file : Ids, via : Tokens \cup {None},
                        path : Paths \cup {None}, moved : BOOLEAN, ttl : 1..SessionTtl]
  BY DEF Copy

\* The fields of a request.
LEMMA RequestFacts ==
  ASSUME Typed, NEW c \in Clients
  PROVE  /\ req[c] \in Request
         /\ req[c].op \in {"idle", "link", "item", "delete", "serve", "mark"}
         /\ req[c].op = "link" => req[c].file \in Ids /\ req[c].lapped \in BOOLEAN
         /\ req[c].op = "item" => req[c].file \in Ids /\ req[c].via \in Tokens
         /\ req[c].op \in {"delete", "serve"} =>
              /\ req[c].key \in Keys /\ req[c].copy \in Copy /\ req[c].batch \in BOOLEAN
              /\ req[c] \in [op : {"delete", "serve"}, key : Keys, copy : Copy, batch : BOOLEAN]
         /\ req[c].op = "mark" => req[c].ids \subseteq Ids
  <1>1. req[c] \in Request
    BY DEF Typed
  <1>2. QED
    BY <1>1 DEF Request

\* The copy of a row.
LEMMA CopyOfFacts ==
  ASSUME Typed, NEW i \in rows, NEW via \in Tokens \cup {None}
  PROVE  /\ CopyOf(i, via) \in Copy
         /\ CopyOf(i, via).via = via /\ CopyOf(i, via).ttl = SessionTtl
         /\ CopyOf(i, via).file = i
         /\ CopyOf(i, via).kind = "folder" => i \in Folders /\ CopyOf(i, via).path = path[i]
         /\ CopyOf(i, via).kind = "folder" /\ ~CopyOf(i, via).moved => ~Busy(path[i])
  <1>1. i \in Ids /\ SessionTtl \in 1..SessionTtl
    BY SharedLinksAssumption DEF Typed
  <1>2. i \in Folders => path[i] \in Paths
    BY DEF Typed
  <1> DEFINE moved == i \in Folders /\ Busy(path[i])
  <1>3. moved \in BOOLEAN
    OBVIOUS
  <1> HIDE DEF moved
  <1>4. CopyOf(i, via) =
          [kind |-> IF i \in Folders THEN "folder" ELSE "file", file |-> i, via |-> via,
           path |-> IF i \in Folders THEN path[i] ELSE None, moved |-> moved,
           ttl |-> SessionTtl]
    BY DEF CopyOf, moved
  <1>5. CopyOf(i, via) \in Copy
    BY <1>1, <1>2, <1>3, <1>4 DEF Copy
  <1>6. /\ CopyOf(i, via).via = via /\ CopyOf(i, via).ttl = SessionTtl
        /\ CopyOf(i, via).file = i
        /\ CopyOf(i, via).kind = "folder" => i \in Folders /\ CopyOf(i, via).path = path[i]
        /\ CopyOf(i, via).moved = moved
    BY <1>4
  <1>7. i \in Folders /\ ~CopyOf(i, via).moved => ~Busy(path[i])
    BY <1>6 DEF moved
  <1>8. QED
    BY <1>5, <1>6, <1>7

\* What a move or a deletion at p does to the copies of it: they know.
LEMMA DisturbedFacts ==
  ASSUME Typed, NEW p \in Paths, Disturbed(p), DisturbedRequests(p)
  PROVE  /\ session' \in [Keys -> Copy \cup {None}] /\ req' \in [Clients -> Request]
         /\ \A k \in Keys : session'[k] # None =>
              /\ session[k] # None
              /\ session'[k].via = session[k].via /\ session'[k].ttl = session[k].ttl
              /\ \/ session'[k].kind = "folder" /\ session'[k].moved
                 \/ /\ session'[k] = session[k]
                    /\ session[k].kind = "folder" => session[k].path # p
         /\ \A c \in Clients :
              /\ req'[c].op = req[c].op
              /\ req[c].op \notin {"delete", "serve"} => req'[c] = req[c]
              /\ req[c].op \in {"delete", "serve"} =>
                   /\ req'[c].key = req[c].key /\ req'[c].copy.via = req[c].copy.via
                   /\ \/ req'[c].copy.kind = "folder" /\ req'[c].copy.moved
                      \/ /\ req'[c].copy = req[c].copy
                         /\ req[c].copy.kind = "folder" => req[c].copy.path # p
  <1>1. ASSUME NEW r \in Copy, r.kind = "folder"
        PROVE  LET new == [r EXCEPT !.moved = TRUE]
               IN  /\ new \in Copy /\ new.kind = "folder" /\ new.moved = TRUE
                   /\ new.via = r.via /\ new.ttl = r.ttl
    <2>1. r \in [kind : {"file", "folder"}, file : Ids, via : Tokens \cup {None},
                 path : Paths \cup {None}, moved : BOOLEAN, ttl : 1..SessionTtl]
      BY <1>1, CopyFacts
    <2>2. QED
      BY <1>1, <2>1 DEF Copy
  <1>2. ASSUME NEW k \in Keys
        PROVE  /\ session'[k] \in Copy \cup {None}
               /\ session'[k] # None =>
                    /\ session[k] # None
                    /\ session'[k].via = session[k].via /\ session'[k].ttl = session[k].ttl
                    /\ \/ session'[k].kind = "folder" /\ session'[k].moved
                       \/ /\ session'[k] = session[k]
                          /\ session[k].kind = "folder" => session[k].path # p
    <2>1. CASE session[k] # None /\ session[k].kind = "folder" /\ session[k].path = p
      <3>1. session'[k] = [session[k] EXCEPT !.moved = TRUE]
        BY <2>1 DEF Disturbed
      <3>2. session[k] \in Copy
        BY <2>1 DEF Typed
      <3>3. QED
        BY <1>1, <2>1, <3>1, <3>2
    <2>2. CASE ~(session[k] # None /\ session[k].kind = "folder" /\ session[k].path = p)
      <3>1. session'[k] = session[k]
        BY <2>2 DEF Disturbed
      <3>2. QED
        BY <2>2, <3>1 DEF Typed
    <2>3. QED
      BY <2>1, <2>2
  <1>3. session' \in [Keys -> Copy \cup {None}]
    BY <1>2 DEF Disturbed
  <1>4. ASSUME NEW c \in Clients
        PROVE  /\ req'[c] \in Request
               /\ req'[c].op = req[c].op
               /\ req[c].op \notin {"delete", "serve"} => req'[c] = req[c]
               /\ req[c].op \in {"delete", "serve"} =>
                   /\ req'[c].key = req[c].key /\ req'[c].copy.via = req[c].copy.via
                   /\ \/ req'[c].copy.kind = "folder" /\ req'[c].copy.moved
                      \/ /\ req'[c].copy = req[c].copy
                         /\ req[c].copy.kind = "folder" => req[c].copy.path # p
    <2>1. CASE /\ req[c].op \in {"delete", "serve"} /\ req[c].copy.kind = "folder"
               /\ req[c].copy.path = p
      <3>1. /\ req[c] \in [op : {"delete", "serve"}, key : Keys, copy : Copy, batch : BOOLEAN]
            /\ req[c].copy \in Copy
        BY <2>1, RequestFacts
      <3> DEFINE new == [req[c].copy EXCEPT !.moved = TRUE]
      <3>2. new \in Copy /\ new.kind = "folder" /\ new.moved = TRUE /\ new.via = req[c].copy.via
        BY <1>1, <2>1, <3>1
      <3>3. req'[c] = [req[c] EXCEPT !.copy = new]
        BY <2>1 DEF DisturbedRequests
      <3> HIDE DEF new
      <3>4. /\ req'[c] \in [op : {"delete", "serve"}, key : Keys, copy : Copy, batch : BOOLEAN]
            /\ req'[c].op = req[c].op /\ req'[c].key = req[c].key /\ req'[c].copy = new
        BY <3>1, <3>2, <3>3
      <3>5. QED
        BY <2>1, <3>2, <3>4 DEF Request
    <2>2. CASE ~(/\ req[c].op \in {"delete", "serve"} /\ req[c].copy.kind = "folder"
                 /\ req[c].copy.path = p)
      <3>1. req'[c] = req[c]
        BY <2>2 DEF DisturbedRequests
      <3>2. QED
        BY <2>2, <3>1, RequestFacts
    <2>3. QED
      BY <2>1, <2>2
  <1>5. req' \in [Clients -> Request]
    BY <1>4 DEF DisturbedRequests
  <1>6. QED
    BY <1>2, <1>3, <1>4, <1>5

-----------------------------------------------------------------------------
(* Types                                                                   *)

LEMMA InitTyped == Init => Typed
  <1> SUFFICES ASSUME Init PROVE Typed
    OBVIOUS
  <1>1. stored \in [Paths -> Folders \cup {None}]
    BY DEF Init
  <1>2. jobs \in Seq(Job) /\ Len(jobs) = 0
    BY DEF Init
  <1>3. req \in [Clients -> Request]
    BY DEF Init, Idle, Request
  <1>4. 0 \in 0..(SessionTtl + 1)
    BY SharedLinksAssumption
  <1>5. QED
    BY <1>1, <1>2, <1>3, <1>4, SharedLinksAssumption DEF Init, Typed

\* A job that storage gets at its end.
LEMMA AppendFacts ==
  ASSUME Typed, NEW j \in Job, j.from # j.to, jobs' = Append(jobs, j)
  PROVE  /\ jobs' \in Seq(Job) /\ \A n \in 1..Len(jobs') : jobs'[n].from # jobs'[n].to
         /\ Len(jobs) \in Nat /\ Len(jobs') = Len(jobs) + 1
         /\ jobs'[Len(jobs) + 1] = j
         /\ \A n \in 1..Len(jobs) : jobs'[n] = jobs[n]
         /\ \A p : Busy(p)' => Busy(p) \/ p \in {j.from, j.to}
  <1>1. jobs \in Seq(Job)
    BY DEF Typed
  <1>2. /\ jobs' \in Seq(Job)
        /\ Len(jobs) \in Nat /\ Len(jobs') = Len(jobs) + 1
        /\ jobs'[Len(jobs) + 1] = j
        /\ \A n \in 1..Len(jobs) : jobs'[n] = jobs[n]
    BY <1>1
  <1>3. \A n \in 1..Len(jobs') : jobs'[n].from # jobs'[n].to
    BY <1>2 DEF Typed
  <1>4. \A p : Busy(p)' => Busy(p) \/ p \in {j.from, j.to}
    BY <1>2 DEF Busy
  <1>5. QED
    BY <1>2, <1>3, <1>4

\* What moves and deletions of folders have in common.
LEMMA MoveFacts ==
  ASSUME Typed, NEW d \in Folders, NEW p \in Paths, MoveFolder(d, p)
  PROVE  /\ d \in rows /\ path[d] \in Paths /\ path[d] # p
         /\ \A e \in Folders \cap rows : path[e] # p
         /\ [from |-> path[d], to |-> p] \in Job
         /\ jobs' = Append(jobs, [from |-> path[d], to |-> p])
         /\ path' = [path EXCEPT ![d] = p]
         /\ Disturbed(path[d]) /\ DisturbedRequests(path[d])
         /\ UNCHANGED <<rows, stored, items, link, marks, ops, ghosts>>
  <1>1. d \in rows /\ path[d] \in Paths /\ \A e \in Folders \cap rows : path[e] # p
    BY DEF Typed, MoveFolder
  <1>2. [from |-> path[d], to |-> p] \in Job
    BY <1>1 DEF Job
  <1>3. QED
    BY <1>1, <1>2 DEF MoveFolder

LEMMA DeleteFolderFacts ==
  ASSUME Typed, NEW i \in Folders, DeleteFile(i)
  PROVE  /\ i \in rows /\ path[i] \in Paths /\ path[i] # None
         /\ [from |-> path[i], to |-> None] \in Job
         /\ jobs' = Append(jobs, [from |-> path[i], to |-> None])
         /\ Disturbed(path[i]) /\ DisturbedRequests(path[i])
  <1>1. i \in rows /\ path[i] \in Paths /\ path[i] # None
    BY SharedLinksAssumption DEF Typed, DeleteFile
  <1>2. [from |-> path[i], to |-> None] \in Job
    BY <1>1 DEF Job
  <1>3. QED
    BY <1>1, <1>2 DEF DeleteFile

LEMMA NextTyped ==
  ASSUME Typed, [Next]_vars
  PROVE  Typed'
  <1> USE DEF ghosts, tables
  <1>0. SessionTtl \in Nat \ {0} /\ None \notin Paths
    BY SharedLinksAssumption
  <1>i. Idle \in Request
    BY DEF Idle, Request
  <1>1. CASE UNCHANGED vars
    BY <1>1 DEF vars, Typed
  <1>2. ASSUME NEW d \in Folders, NEW p \in Paths, MoveFolder(d, p) PROVE Typed'
    <2> DEFINE j == [from |-> path[d], to |-> p]
    <2>1. /\ path[d] \in Paths /\ path[d] # p /\ j \in Job /\ jobs' = Append(jobs, j)
          /\ path' = [path EXCEPT ![d] = p]
          /\ Disturbed(path[d]) /\ DisturbedRequests(path[d])
          /\ UNCHANGED <<rows, stored, items, link, marks, ops, ghosts>>
      BY <1>2, MoveFacts
    <2>2. j.from # j.to
      BY <2>1
    <2> HIDE DEF j
    <2>3. jobs' \in Seq(Job) /\ \A n \in 1..Len(jobs') : jobs'[n].from # jobs'[n].to
      BY <2>1, <2>2, AppendFacts
    <2>4. session' \in [Keys -> Copy \cup {None}] /\ req' \in [Clients -> Request]
      BY <2>1, DisturbedFacts
    <2>5. QED
      BY <2>1, <2>3, <2>4 DEF Typed
  <1>3. ASSUME NEW i \in Ids, DeleteFile(i) PROVE Typed'
    <2>1. /\ rows' \subseteq Ids /\ marks' \subseteq rows'
          /\ link' \in [Tokens -> Ids \cup {None}]
          /\ revoked' \in [Tokens -> 0..(SessionTtl + 1)]
          /\ UNCHANGED <<path, stored, items, ops, answered, lapped, wasted, slow>>
      BY <1>0, <1>3 DEF DeleteFile, Typed
    <2>2. CASE i \in Folders
      <3> DEFINE j == [from |-> path[i], to |-> None]
      <3>1. /\ path[i] \in Paths /\ path[i] # None /\ j \in Job /\ jobs' = Append(jobs, j)
            /\ Disturbed(path[i]) /\ DisturbedRequests(path[i])
        BY <1>3, <2>2, DeleteFolderFacts
      <3>2. j.from # j.to
        BY <3>1
      <3> HIDE DEF j
      <3>3. jobs' \in Seq(Job) /\ \A n \in 1..Len(jobs') : jobs'[n].from # jobs'[n].to
        BY <3>1, <3>2, AppendFacts
      <3>4. session' \in [Keys -> Copy \cup {None}] /\ req' \in [Clients -> Request]
        BY <3>1, DisturbedFacts
      <3>5. QED
        BY <2>1, <3>3, <3>4 DEF Typed
    <2>3. CASE i \notin Folders
      BY <1>3, <2>1, <2>3 DEF DeleteFile, Typed
    <2>4. QED
      BY <2>2, <2>3
  <1>4. ASSUME NEW m \in Photos, DeletePhoto(m) PROVE Typed'
    BY <1>4 DEF DeletePhoto, Typed
  <1>5. ASSUME RunJob PROVE Typed'
    <2>1. /\ jobs \in Seq(Job) /\ jobs # <<>> /\ jobs' = Tail(jobs)
          /\ UNCHANGED <<rows, path, items, link, marks, session, req, ops, ghosts>>
      BY <1>5 DEF RunJob, Typed
    <2>2. /\ jobs' \in Seq(Job) /\ Len(jobs') = Len(jobs) - 1 /\ Len(jobs) \in Nat \ {0}
          /\ \A n \in 1..Len(jobs') : jobs'[n] = jobs[n + 1]
          /\ Head(jobs) = jobs[1] /\ jobs[1] \in Job
      BY <2>1
    <2>3. ASSUME NEW n \in 1..Len(jobs') PROVE jobs'[n].from # jobs'[n].to
      <3>1. n + 1 \in 1..Len(jobs)
        BY <2>2
      <3>2. QED
        BY <2>2, <3>1 DEF Typed
    <2>4. stored' \in [Paths -> Folders \cup {None}]
      <3>1. /\ Head(jobs).from \in Paths /\ stored[Head(jobs).from] \in Folders \cup {None}
        BY <2>2 DEF Job, Typed
      <3>2. stored' = [p \in Paths |-> CASE p = Head(jobs).from -> None
                                         [] p = Head(jobs).to -> stored[Head(jobs).from]
                                         [] OTHER -> stored[p]]
        BY <1>5 DEF RunJob
      <3>3. QED
        BY <3>1, <3>2 DEF Typed
    <2>5. QED
      BY <2>1, <2>2, <2>3, <2>4 DEF Typed
  <1>6. ASSUME Tick PROVE Typed'
    <2>1. \A k \in Keys : session'[k] =
            IF session[k] = None \/ session[k].ttl = 1 THEN None
            ELSE [session[k] EXCEPT !.ttl = session[k].ttl - 1]
      BY <1>6 DEF Tick
    <2>2. ASSUME NEW r \in Copy, r.ttl # 1
          PROVE  [r EXCEPT !.ttl = r.ttl - 1] \in Copy
      <3>1. r.ttl - 1 \in 1..SessionTtl
        BY <1>0, <2>2, CopyFacts
      <3>2. QED
        BY <3>1 DEF Copy
    <2>3. session' \in [Keys -> Copy \cup {None}]
      BY <1>6, <2>1, <2>2 DEF Tick, Typed
    <2>4. revoked' \in [Tokens -> 0..(SessionTtl + 1)] /\ slow' \subseteq Tokens
      BY <1>0, <1>6 DEF Tick, Typed
    <2>5. QED
      BY <1>6, <2>3, <2>4 DEF Tick, Typed
  <1>7. ASSUME NEW t \in Tokens, RevokeLink(t) PROVE Typed'
    BY <1>0, <1>7 DEF RevokeLink, Typed
  <1>8. ASSUME NEW k \in Keys, NEW r \in Copy, CreateDownloadCache(k, r),
               UNCHANGED <<tables, req, ops, ghosts>>
        PROVE  Typed'
    BY <1>8 DEF CreateDownloadCache, Typed
  <1>9. ASSUME NEW k \in Keys, NEW i \in Ids, GetDownloadUrl(k, i) PROVE Typed'
    <2>1. CopyOf(i, None) \in Copy
      BY <1>9, CopyOfFacts DEF GetDownloadUrl
    <2>2. QED
      BY <1>8, <1>9, <2>1 DEF GetDownloadUrl
  <1>10. ASSUME NEW k \in Keys, NEW S \in SUBSET Photos, CreateDownloadSession(k, S)
         PROVE  Typed'
    <2>1. [kind |-> "photo", photos |-> DownloadItems(S), via |-> None, ttl |-> SessionTtl]
            \in Copy
      BY <1>0 DEF DownloadItems, Copy
    <2>2. QED
      BY <1>8, <1>10, <2>1 DEF CreateDownloadSession
  <1>11. ASSUME NEW S \in SUBSET Ids, RemoveBookmarks(S) PROVE Typed'
    BY <1>11 DEF RemoveBookmarks, Typed
  <1>12. ASSUME NEW c \in Clients, NEW r \in Request, Set(c, r),
                UNCHANGED <<tables, session, answered, revoked, slow>>, lapped' \subseteq Keys
         PROVE  Typed'
    BY <1>12 DEF Set, Typed
  <1>13. ASSUME NEW c \in Clients, NEW i \in Ids, CreateLinkRead(c, i) PROVE Typed'
    <2>1. [op |-> "link", file |-> i, lapped |-> FALSE] \in Request
      BY DEF Request
    <2>2. QED
      BY <1>12, <1>13, <2>1 DEF CreateLinkRead, Typed
  <1>14. ASSUME NEW c \in Clients, CreateLinkSave(c) PROVE Typed'
    <2>1. req[c].file \in Ids /\ req[c].file \in rows
      BY <1>14 DEF CreateLinkSave, Typed
    <2>2. ASSUME NEW b \in Clients, req[b].op = "link"
          PROVE  [req[b] EXCEPT !.lapped = TRUE] \in Request
      <3>1. req[b] \in Request
        BY DEF Typed
      <3>2. QED
        BY <2>2, <3>1 DEF Request
    <2>3. req' \in [Clients -> Request]
      BY <1>14, <1>i, <2>2, RequestFacts DEF CreateLinkSave
    <2>4. link' \in [Tokens -> Ids \cup {None}]
      BY <1>14, <2>1 DEF CreateLinkSave, Typed
    <2>5. QED
      BY <1>14, <2>3, <2>4 DEF CreateLinkSave, Typed
  <1>15. ASSUME NEW c \in Clients, NEW t \in Tokens, GetSharedItem(c, t) PROVE Typed'
    <2>1. [op |-> "item", file |-> link[t], via |-> t] \in Request
      BY <1>15 DEF GetSharedItem, Request, Typed
    <2>2. QED
      BY <1>12, <1>15, <2>1 DEF GetSharedItem, Typed
  <1>16. ASSUME NEW c \in Clients, GetSharedLinkDownloadUrl(c) PROVE Typed'
    <2>1. req[c].via \in Tokens
      BY <1>16, RequestFacts DEF GetSharedLinkDownloadUrl
    <2>2. session' \in [Keys -> Copy \cup {None}]
      <3>1. CASE req[c].file \in rows
        <4>1. CopyOf(req[c].file, req[c].via) \in Copy
          BY <2>1, <3>1, CopyOfFacts
        <4>2. QED
          BY <1>16, <3>1, <4>1 DEF GetSharedLinkDownloadUrl, CreateDownloadCache, Typed
      <3>2. CASE req[c].file \notin rows
        BY <1>16, <3>2 DEF GetSharedLinkDownloadUrl, Typed
      <3>3. QED
        BY <3>1, <3>2
    <2>3. QED
      BY <1>16, <1>i, <2>2 DEF GetSharedLinkDownloadUrl, Set, Typed
  <1>17. ASSUME NEW c \in Clients, NEW k \in Keys, NEW batch \in BOOLEAN, PopRead(c, k, batch)
         PROVE  Typed'
    <2>1. session[k] \in Copy
      BY <1>17 DEF PopRead, Typed
    <2>2. [op |-> "delete", key |-> k, copy |-> session[k], batch |-> batch] \in Request
      BY <2>1 DEF Request
    <2>3. lapped' \subseteq Keys
      BY <1>17 DEF PopRead, Typed
    <2>4. QED
      BY <1>12, <1>17, <2>2, <2>3 DEF PopRead
  <1>18. ASSUME NEW c \in Clients, PopDelete(c) PROVE Typed'
    <2>1. /\ req[c].key \in Keys
          /\ req[c] \in [op : {"delete", "serve"}, key : Keys, copy : Copy, batch : BOOLEAN]
      BY <1>18, RequestFacts DEF PopDelete
    <2>2. [req[c] EXCEPT !.op = "serve"] \in Request
      BY <2>1 DEF Request
    <2>3. QED
      BY <1>18, <2>1, <2>2 DEF PopDelete, Set, Typed
  <1>19. ASSUME NEW c \in Clients, Serve(c) PROVE Typed'
    <2>1. req[c].key \in Keys
      BY <1>19, RequestFacts DEF Serve
    <2>2. QED
      BY <1>19, <1>i, <2>1 DEF Serve, Set, Typed
  <1>20. ASSUME NEW c \in Clients,
                \/ ServeNotFound(c) \/ Killed(c) \/ CreateLinkRefused(c)
                \/ AddBookmarkRefused(c)
         PROVE  Typed'
    BY <1>12, <1>20, <1>i DEF ServeNotFound, Killed, CreateLinkRefused, AddBookmarkRefused, Typed
  <1>21. ASSUME NEW c \in Clients, NEW S \in SUBSET Ids, AddBookmarkRead(c, S) PROVE Typed'
    <2>1. [op |-> "mark", ids |-> S \cap rows] \in Request
      BY DEF Request
    <2>2. QED
      BY <1>12, <1>21, <2>1 DEF AddBookmarkRead, Typed
  <1>22. ASSUME NEW c \in Clients, AddBookmarkSave(c) PROVE Typed'
    BY <1>22, <1>i DEF AddBookmarkSave, Set, Typed
  <1>23. QED
    BY <1>1, <1>2, <1>3, <1>4, <1>5, <1>6, <1>7, <1>9, <1>10, <1>11, <1>13, <1>14, <1>15,
       <1>16, <1>17, <1>18, <1>19, <1>20, <1>21, <1>22 DEF Next, AddBookmark

-----------------------------------------------------------------------------
(* Sessions are answered once                                              *)

\* Steps that only let go of sessions and copies.
LEMMA LetGoOneHand ==
  ASSUME OneHand, UNCHANGED <<answered, lapped>>,
         \A k \in Keys : session'[k] # None => session[k] # None,
         \A c \in Clients, k \in Keys : Has(c, k)' => Has(c, k) /\ req'[c].op = req[c].op
  PROVE  OneHand'
  BY DEF OneHand

\* A request that does not hold a copy, before or after, does not matter.
LEMMA SetOneHand ==
  ASSUME Typed, OneHand, NEW c \in Clients, NEW r \in Request, Set(c, r),
         r.op \notin {"delete", "serve"}, UNCHANGED <<answered, lapped, session>>
  PROVE  OneHand'
  <1>1. \A b \in Clients, k \in Keys : Has(b, k)' => Has(b, k) /\ req'[b].op = req[b].op
    BY DEF Set, Typed, Has
  <1>2. QED
    BY <1>1, LetGoOneHand

\* A new session has a key that nobody holds.
LEMMA CreateOneHand ==
  ASSUME Typed, OneHand, NEW k \in Keys, NEW copy, CreateDownloadCache(k, copy),
         UNCHANGED <<answered, lapped>>,
         \A c \in Clients, q \in Keys : Has(c, q)' => Has(c, q) /\ req'[c].op = req[c].op
  PROVE  OneHand'
  <1>1. /\ answered[k] = 0 /\ \A c \in Clients : ~Has(c, k)
        /\ session' = [session EXCEPT ![k] = copy]
    BY DEF CreateDownloadCache, FreshKey, Has
  <1>2. \A q \in Keys : q # k => session'[q] = session[q]
    BY <1>1 DEF Typed
  <1> SUFFICES ASSUME NEW q \in Keys \ lapped
               PROVE  /\ answered[q] <= 1
                      /\ session'[q] # None => answered[q] = 0
                      /\ \A b, c \in Clients : Has(b, q)' /\ Has(c, q)' => b = c
                      /\ \A c \in Clients : Has(c, q)' =>
                           answered[q] = 0 /\ (req'[c].op = "serve" => session'[q] = None)
    BY DEF OneHand
  <1>3. CASE q = k
    BY <1>1, <1>3
  <1>4. CASE q # k
    BY <1>2, <1>4 DEF OneHand
  <1>5. QED
    BY <1>3, <1>4

LEMMA PopReadOneHand ==
  ASSUME Typed, OneHand, NEW c \in Clients, NEW k \in Keys, NEW batch \in BOOLEAN,
         PopRead(c, k, batch)
  PROVE  OneHand'
  <1> DEFINE r == [op |-> "delete", key |-> k, copy |-> session[k], batch |-> batch]
  <1>1. /\ req[c].op = "idle" /\ session[k] # None
        /\ req' = [req EXCEPT ![c] = r]
        /\ lapped' = IF InHand(k) THEN lapped \cup {k} ELSE lapped
        /\ UNCHANGED <<session, answered>>
    BY DEF PopRead, Set, Idle
  <1>2. r.op = "delete" /\ r.key = k
    OBVIOUS
  <1> HIDE DEF r
  <1>3. \A b \in Clients : req'[b] = IF b = c THEN r ELSE req[b]
    BY <1>1 DEF Typed
  <1>4. \A b \in Clients, q \in Keys : Has(b, q)' <=> (b = c /\ q = k) \/ (b # c /\ Has(b, q))
    BY <1>2, <1>3 DEF Has
  <1> SUFFICES ASSUME NEW q \in Keys \ lapped'
               PROVE  /\ answered[q] <= 1
                      /\ session[q] # None => answered[q] = 0
                      /\ \A a, b \in Clients : Has(a, q)' /\ Has(b, q)' => a = b
                      /\ \A b \in Clients : Has(b, q)' =>
                           answered[q] = 0 /\ (req'[b].op = "serve" => session[q] = None)
    BY <1>1 DEF OneHand
  <1>5. q \in Keys \ lapped
    BY <1>1
  <1>6. CASE q = k
    <2>1. ~InHand(k)
      BY <1>1, <1>6
    <2>2. \A b \in Clients : ~Has(b, k)
      BY <1>1, <1>5, <1>6, <2>1 DEF OneHand, InHand, Has
    <2>3. QED
      BY <1>1, <1>2, <1>3, <1>4, <1>5, <1>6, <2>2 DEF OneHand
  <1>7. CASE q # k
    BY <1>3, <1>4, <1>5, <1>7 DEF OneHand
  <1>8. QED
    BY <1>6, <1>7

LEMMA PopDeleteOneHand ==
  ASSUME Typed, OneHand, NEW c \in Clients, PopDelete(c)
  PROVE  OneHand'
  <1> DEFINE r == [req[c] EXCEPT !.op = "serve"]
             k == req[c].key
  <1>1. /\ req[c].op = "delete" /\ k \in Keys
        /\ req[c] \in [op : {"delete", "serve"}, key : Keys, copy : Copy, batch : BOOLEAN]
    BY RequestFacts DEF PopDelete
  <1>2. /\ req' = [req EXCEPT ![c] = r] /\ session' = [session EXCEPT ![k] = None]
        /\ UNCHANGED <<answered, lapped>>
    BY DEF PopDelete, Set, ghosts
  <1>3. r.op = "serve" /\ r.key = k
    BY <1>1
  <1> HIDE DEF r, k
  <1>4. \A b \in Clients : req'[b] = IF b = c THEN r ELSE req[b]
    BY <1>2 DEF Typed
  <1>5. \A q \in Keys : session'[q] = IF q = k THEN None ELSE session[q]
    BY <1>2 DEF Typed
  <1>6. \A b \in Clients, q \in Keys : Has(b, q)' <=> Has(b, q)
    BY <1>1, <1>3, <1>4 DEF Has, k
  <1>7. Has(c, k)
    BY <1>1 DEF Has, k
  <1>8. QED
    BY <1>1, <1>2, <1>4, <1>5, <1>6, <1>7 DEF OneHand, Has

LEMMA ServeOneHand ==
  ASSUME Typed, OneHand, NEW c \in Clients, Serve(c)
  PROVE  OneHand'
  <1> DEFINE k == req[c].key
  <1>1. req[c].op = "serve" /\ k \in Keys /\ Has(c, k)
    BY RequestFacts DEF Serve, Has
  <1>2. /\ req' = [req EXCEPT ![c] = Idle] /\ answered' = [answered EXCEPT ![k] = answered[k] + 1]
        /\ UNCHANGED <<session, lapped>>
    BY DEF Serve, Set
  <1> HIDE DEF k
  <1>3. \A q \in Keys : answered'[q] = IF q = k THEN answered[k] + 1 ELSE answered[q]
    BY <1>2 DEF Typed
  <1>4. \A b \in Clients, q \in Keys : Has(b, q)' <=> b # c /\ Has(b, q)
    BY <1>2 DEF Typed, Has, Idle
  <1>5. \A b \in Clients : b # c => req'[b] = req[b]
    BY <1>2 DEF Typed
  <1> SUFFICES ASSUME NEW q \in Keys \ lapped
               PROVE  /\ answered'[q] <= 1
                      /\ session[q] # None => answered'[q] = 0
                      /\ \A a, b \in Clients : Has(a, q)' /\ Has(b, q)' => a = b
                      /\ \A b \in Clients : Has(b, q)' =>
                           answered'[q] = 0 /\ (req'[b].op = "serve" => session[q] = None)
    BY <1>2 DEF OneHand
  <1>6. CASE q = k
    <2>1. answered[k] = 0 /\ session[k] = None /\ \A b \in Clients : Has(b, k) => b = c
      BY <1>1, <1>6 DEF OneHand
    <2>2. answered'[k] = 1
      BY <1>1, <1>3, <2>1
    <2>3. QED
      BY <1>4, <1>6, <2>1, <2>2
  <1>7. CASE q # k
    BY <1>3, <1>4, <1>5, <1>7 DEF OneHand
  <1>8. QED
    BY <1>6, <1>7

LEMMA NextOneHand ==
  ASSUME Typed, OneHand, [Next]_vars
  PROVE  OneHand'
  <1> USE DEF ghosts
  <1>i. Idle \in Request /\ Idle.op = "idle"
    BY DEF Idle, Request
  <1>d. ASSUME NEW p \in Paths, Disturbed(p), DisturbedRequests(p),
               UNCHANGED <<answered, lapped>>
        PROVE  OneHand'
    <2>1. \A k \in Keys : session'[k] # None => session[k] # None
      BY <1>d, DisturbedFacts
    <2>2. \A c \in Clients, k \in Keys : Has(c, k)' => Has(c, k) /\ req'[c].op = req[c].op
      BY <1>d, DisturbedFacts DEF Has
    <2>3. QED
      BY <1>d, <2>1, <2>2, LetGoOneHand
  <1>q. ASSUME UNCHANGED <<session, req, answered, lapped>> PROVE OneHand'
    BY <1>q, LetGoOneHand DEF Has
  <1>1. CASE UNCHANGED vars
    BY <1>1, <1>q DEF vars
  <1>2. ASSUME NEW d \in Folders, NEW p \in Paths, MoveFolder(d, p) PROVE OneHand'
    BY <1>2, <1>d, MoveFacts
  <1>3. ASSUME NEW i \in Ids, DeleteFile(i) PROVE OneHand'
    <2>1. CASE i \in Folders
      BY <1>3, <1>d, <2>1, DeleteFolderFacts DEF DeleteFile
    <2>2. CASE i \notin Folders
      BY <1>3, <1>q, <2>2 DEF DeleteFile
    <2>3. QED
      BY <2>1, <2>2
  <1>4. ASSUME \/ RunJob \/ \E m \in Photos : DeletePhoto(m)
               \/ \E t \in Tokens : RevokeLink(t)
               \/ \E S \in SUBSET Ids : RemoveBookmarks(S)
        PROVE  OneHand'
    BY <1>4, <1>q DEF RunJob, DeletePhoto, RevokeLink, RemoveBookmarks
  <1>5. ASSUME Tick PROVE OneHand'
    <2>1. \A k \in Keys : session'[k] # None => session[k] # None
      BY <1>5 DEF Tick
    <2>2. QED
      BY <1>5, <2>1, LetGoOneHand DEF Tick, Has
  <1>6. ASSUME NEW k \in Keys,
               \/ \E i \in Ids : GetDownloadUrl(k, i)
               \/ \E S \in SUBSET Photos : CreateDownloadSession(k, S)
        PROVE  OneHand'
    <2>1. PICK copy : CreateDownloadCache(k, copy) /\ UNCHANGED <<req, answered, lapped>>
      BY <1>6 DEF GetDownloadUrl, CreateDownloadSession
    <2>2. QED
      BY <2>1, CreateOneHand DEF Has
  <1>7. ASSUME NEW c \in Clients, GetSharedLinkDownloadUrl(c) PROVE OneHand'
    <2>1. /\ req' = [req EXCEPT ![c] = Idle] /\ UNCHANGED <<answered, lapped>>
      BY <1>7 DEF GetSharedLinkDownloadUrl, Set
    <2>2. \A b \in Clients, k \in Keys : Has(b, k)' => Has(b, k) /\ req'[b].op = req[b].op
      BY <1>i, <2>1 DEF Typed, Has
    <2>3. CASE req[c].file \in rows
      <3>1. PICK k \in Keys : CreateDownloadCache(k, CopyOf(req[c].file, req[c].via))
        BY <1>7, <2>3 DEF GetSharedLinkDownloadUrl
      <3>2. QED
        BY <2>1, <2>2, <3>1, CreateOneHand
    <2>4. CASE req[c].file \notin rows
      BY <1>7, <2>1, <2>2, <2>4, LetGoOneHand DEF GetSharedLinkDownloadUrl
    <2>5. QED
      BY <2>3, <2>4
  <1>8. ASSUME NEW c \in Clients, CreateLinkSave(c) PROVE OneHand'
    <2>1. \A b \in Clients : \/ req'[b] = req[b] \/ req'[b] = Idle
                             \/ req'[b] = [req[b] EXCEPT !.lapped = TRUE] /\ req[b].op = "link"
      BY <1>8 DEF CreateLinkSave
    <2>2. \A b \in Clients : req'[b] = req[b] \/ req'[b].op \in {"idle", "link"}
      <3> SUFFICES ASSUME NEW b \in Clients, req[b].op = "link",
                          req'[b] = [req[b] EXCEPT !.lapped = TRUE]
                   PROVE  req'[b].op = "link"
        BY <1>i, <2>1
      <3>1. req[b] \in Request
        BY DEF Typed
      <3>2. QED
        BY <3>1 DEF Request
    <2>3. \A b \in Clients, k \in Keys : Has(b, k)' => Has(b, k) /\ req'[b].op = req[b].op
      BY <2>2 DEF Has
    <2>4. QED
      BY <1>8, <2>3, LetGoOneHand DEF CreateLinkSave
  <1>9. ASSUME NEW c \in Clients,
               \/ ServeNotFound(c) \/ Killed(c) \/ CreateLinkRefused(c) \/ AddBookmark(c)
        PROVE  OneHand'
    BY <1>9, <1>i, SetOneHand
    DEF ServeNotFound, Killed, CreateLinkRefused, AddBookmark, AddBookmarkSave, AddBookmarkRefused
  <1>10. ASSUME NEW c \in Clients,
                \/ \E i \in Ids : CreateLinkRead(c, i)
                \/ \E t \in Tokens : GetSharedItem(c, t)
                \/ \E S \in SUBSET Ids : AddBookmarkRead(c, S)
         PROVE  OneHand'
    <2>1. PICK r : r.op \notin {"delete", "serve"} /\ Set(c, r)
                   /\ UNCHANGED <<answered, lapped, session>>
      BY <1>10 DEF CreateLinkRead, GetSharedItem, AddBookmarkRead
    <2>2. \A b \in Clients, k \in Keys : Has(b, k)' => Has(b, k) /\ req'[b].op = req[b].op
      BY <2>1 DEF Typed, Has, Set
    <2>3. QED
      BY <2>1, <2>2, LetGoOneHand
  <1>11. ASSUME NEW c \in Clients,
                \/ \E k \in Keys, batch \in BOOLEAN : PopRead(c, k, batch)
                \/ PopDelete(c) \/ Serve(c)
         PROVE  OneHand'
    BY <1>11, PopReadOneHand, PopDeleteOneHand, ServeOneHand
  <1>12. QED
    BY <1>1, <1>2, <1>3, <1>4, <1>5, <1>6, <1>7, <1>8, <1>9, <1>10, <1>11 DEF Next

-----------------------------------------------------------------------------
(* Links                                                                   *)

\* Who inserts a link tells the others that are about to.
LEMMA CreateLinkSaveFacts ==
  ASSUME Typed, NEW c \in Clients, CreateLinkSave(c)
  PROVE  /\ req[c].file \in rows \ Linked /\ req[c].file # None
         /\ req'[c] = Idle
         /\ \A b \in Clients \ {c} :
              /\ req'[b].op = req[b].op
              /\ req[b].op # "link" => req'[b] = req[b]
              /\ req[b].op = "link" =>
                   /\ req'[b].file = req[b].file
                   /\ req'[b].lapped = IF req[b].file = req[c].file THEN TRUE ELSE req[b].lapped
  <1>1. req[c].file \in rows \ Linked /\ req[c].file # None
    BY SharedLinksAssumption DEF CreateLinkSave, Typed
  <1>2. req'[c] = Idle
    BY DEF CreateLinkSave
  <1>3. ASSUME NEW b \in Clients \ {c}
        PROVE  /\ req'[b].op = req[b].op
               /\ req[b].op # "link" => req'[b] = req[b]
               /\ req[b].op = "link" =>
                    /\ req'[b].file = req[b].file
                    /\ req'[b].lapped = IF req[b].file = req[c].file THEN TRUE ELSE req[b].lapped
    <2>1. CASE req[b].op = "link" /\ req[b].file = req[c].file
      <3>1. req'[b] = [req[b] EXCEPT !.lapped = TRUE]
        BY <2>1 DEF CreateLinkSave
      <3>2. req[b] \in Request
        BY DEF Typed
      <3>3. req[b] \in [op : {"link"}, file : Ids, lapped : BOOLEAN]
        BY <2>1, <3>2 DEF Request
      <3>4. QED
        BY <2>1, <3>1, <3>3
    <2>2. CASE ~(req[b].op = "link" /\ req[b].file = req[c].file)
      <3>1. req'[b] = req[b]
        BY <2>2 DEF CreateLinkSave
      <3>2. QED
        BY <2>2, <3>1
    <2>3. QED
      BY <2>1, <2>2
  <1>4. QED
    BY <1>1, <1>2, <1>3

\* Steps that take links only, and begin no insertion but of a file without a link.
LEMMA KeptLinks ==
  ASSUME LinksOfRows, Linked' \subseteq rows', Linked' \subseteq Linked,
         \A t \in Tokens : link'[t] \in {link[t], None},
         \A c \in Clients : req'[c].op = "link" =>
            \/ req'[c] = req[c]
            \/ req'[c].file \notin Linked
  PROVE  LinksOfRows'
  BY DEF LinksOfRows

LEMMA NextLinks ==
  ASSUME Typed, LinksOfRows, [Next]_vars
  PROVE  LinksOfRows'
  <1> USE DEF ghosts, tables
  <1>i. Idle.op = "idle"
    BY DEF Idle
  <1>n. None \notin Ids
    BY SharedLinksAssumption
  <1>q. ASSUME UNCHANGED <<rows, link>>,
               \A c \in Clients : req'[c].op = "link" =>
                  req'[c] = req[c] \/ req'[c].file \notin Linked
        PROVE  LinksOfRows'
    <2>1. Linked' = Linked
      BY <1>q DEF Linked
    <2>2. QED
      BY <1>q, <2>1 DEF LinksOfRows
  <1>s. ASSUME NEW c \in Clients, NEW r, Set(c, r),
               r.op = "link" => r.file \notin Linked, UNCHANGED <<rows, link>>
        PROVE  LinksOfRows'
    <2>1. \A b \in Clients : req'[b] = IF b = c THEN r ELSE req[b]
      BY <1>s DEF Set, Typed
    <2>2. QED
      BY <1>q, <1>s, <2>1
  <1>1. CASE UNCHANGED vars
    BY <1>1, <1>q DEF vars
  <1>2. ASSUME NEW d \in Folders, NEW p \in Paths, MoveFolder(d, p) PROVE LinksOfRows'
    <2>1. \A c \in Clients : req'[c].op = "link" => req'[c] = req[c]
      BY <1>2, MoveFacts, DisturbedFacts
    <2>2. QED
      BY <1>2, <1>q, <2>1, MoveFacts
  <1>3. ASSUME NEW i \in Ids, DeleteFile(i) PROVE LinksOfRows'
    <2>1. \A c \in Clients : req'[c].op = "link" => req'[c] = req[c]
      <3>1. CASE i \in Folders
        BY <1>3, <3>1, DeleteFolderFacts, DisturbedFacts
      <3>2. CASE i \notin Folders
        BY <1>3, <3>2 DEF DeleteFile
      <3>3. QED
        BY <3>1, <3>2
    <2>2. /\ rows' = rows \ {i}
          /\ \A t \in Tokens : link'[t] = IF link[t] = i THEN None ELSE link[t]
      BY <1>3 DEF DeleteFile
    <2>3. Linked' \subseteq Linked \ {i}
      BY <2>2 DEF Linked
    <2>4. Linked' \subseteq rows' /\ \A t \in Tokens : link'[t] \in {link[t], None}
      BY <2>2, <2>3 DEF LinksOfRows
    <2>5. QED
      BY <2>1, <2>3, <2>4, KeptLinks
  <1>4. ASSUME NEW t \in Tokens, RevokeLink(t) PROVE LinksOfRows'
    <2>1. /\ \A s \in Tokens : link'[s] = IF s = t THEN None ELSE link[s]
          /\ UNCHANGED <<rows, req>>
      BY <1>4 DEF RevokeLink, Typed
    <2>2. Linked' \subseteq Linked
      BY <2>1 DEF Linked
    <2>3. Linked' \subseteq rows'
      BY <2>1, <2>2 DEF LinksOfRows
    <2>4. QED
      BY <2>1, <2>2, <2>3, KeptLinks
  <1>5. ASSUME \/ RunJob \/ Tick \/ \E m \in Photos : DeletePhoto(m)
               \/ \E S \in SUBSET Ids : RemoveBookmarks(S)
               \/ \E k \in Keys, i \in Ids : GetDownloadUrl(k, i)
               \/ \E k \in Keys, S \in SUBSET Photos : CreateDownloadSession(k, S)
        PROVE  LinksOfRows'
    BY <1>5, <1>q
    DEF RunJob, Tick, DeletePhoto, RemoveBookmarks, GetDownloadUrl, CreateDownloadSession
  <1>6. ASSUME NEW c \in Clients, CreateLinkSave(c) PROVE LinksOfRows'
    <2>1. PICK t \in Tokens : Unused(t) /\ link' = [link EXCEPT ![t] = req[c].file]
      BY <1>6 DEF CreateLinkSave
    <2>2. /\ link[t] = None
          /\ \A s \in Tokens : link'[s] = IF s = t THEN req[c].file ELSE link[s]
          /\ rows' = rows
      BY <1>6, <2>1 DEF Unused, Typed, CreateLinkSave
    <2>3. /\ req[c].file \in rows \ Linked /\ req[c].file # None
          /\ req'[c] = Idle
          /\ \A b \in Clients \ {c} :
              /\ req'[b].op = req[b].op
              /\ req[b].op = "link" =>
                   /\ req'[b].file = req[b].file
                   /\ req'[b].lapped = IF req[b].file = req[c].file THEN TRUE ELSE req[b].lapped
      BY <1>6, CreateLinkSaveFacts
    <2>4. Linked' = Linked \cup {req[c].file}
      BY <2>2, <2>3 DEF Linked
    <2>5. \A s \in Tokens : link[s] # req[c].file
      BY <2>3 DEF Linked
    <2>6. \A r, s \in Tokens : link'[r] = link'[s] /\ link'[r] # None => r = s
      BY <2>2, <2>5 DEF LinksOfRows
    <2>7. \A b \in Clients : req'[b].op = "link" /\ req'[b].file \in Linked' => req'[b].lapped
      <3> SUFFICES ASSUME NEW b \in Clients, req'[b].op = "link", req'[b].file \in Linked'
                   PROVE  req'[b].lapped
        OBVIOUS
      <3>1. b # c /\ req[b].op = "link" /\ req'[b].file = req[b].file
        BY <1>i, <2>3
      <3>2. CASE req[b].file = req[c].file
        BY <2>3, <3>1, <3>2
      <3>3. CASE req[b].file # req[c].file
        <4>1. req[b].lapped
          BY <2>4, <3>1, <3>3 DEF LinksOfRows
        <4>2. req'[b].lapped = req[b].lapped
          BY <2>3, <3>1, <3>3
        <4>3. QED
          BY <4>1, <4>2
      <3>4. QED
        BY <3>2, <3>3
    <2>8. QED
      BY <2>2, <2>3, <2>4, <2>6, <2>7 DEF LinksOfRows
  <1>7. ASSUME NEW c \in Clients,
               \/ \E i \in Ids : CreateLinkRead(c, i)
               \/ \E t \in Tokens : GetSharedItem(c, t)
               \/ \E S \in SUBSET Ids : AddBookmarkRead(c, S)
               \/ \E k \in Keys, batch \in BOOLEAN : PopRead(c, k, batch)
               \/ CreateLinkRefused(c) \/ GetSharedLinkDownloadUrl(c) \/ AddBookmark(c)
               \/ Serve(c) \/ ServeNotFound(c) \/ Killed(c)
        PROVE  LinksOfRows'
    <2>1. ASSUME NEW i \in Ids, CreateLinkRead(c, i) PROVE LinksOfRows'
      BY <1>s, <2>1 DEF CreateLinkRead
    <2>2. ASSUME NEW t \in Tokens, GetSharedItem(c, t) PROVE LinksOfRows'
      BY <1>s, <2>2 DEF GetSharedItem
    <2>3. ASSUME NEW S \in SUBSET Ids, AddBookmarkRead(c, S) PROVE LinksOfRows'
      BY <1>s, <2>3 DEF AddBookmarkRead
    <2>4. ASSUME NEW k \in Keys, NEW batch \in BOOLEAN, PopRead(c, k, batch) PROVE LinksOfRows'
      BY <1>s, <2>4 DEF PopRead
    <2>5. ASSUME Set(c, Idle), UNCHANGED <<rows, link>> PROVE LinksOfRows'
      BY <1>i, <1>s, <2>5
    <2>6. QED
      BY <1>7, <2>1, <2>2, <2>3, <2>4, <2>5
      DEF CreateLinkRefused, GetSharedLinkDownloadUrl, AddBookmark, AddBookmarkSave,
          AddBookmarkRefused, Serve, ServeNotFound, Killed
  <1>8. ASSUME NEW c \in Clients, PopDelete(c) PROVE LinksOfRows'
    <2>1. req[c].op = "delete" /\ req[c] \in Request
      BY <1>8 DEF PopDelete, Typed
    <2>2. [req[c] EXCEPT !.op = "serve"].op = "serve"
      BY <2>1 DEF Request
    <2>3. QED
      BY <1>8, <1>s, <2>2 DEF PopDelete
  <1>9. QED
    BY <1>1, <1>2, <1>3, <1>4, <1>5, <1>6, <1>7, <1>8 DEF Next

-----------------------------------------------------------------------------
(* Revoked links                                                           *)

\* Where what a step leaves in requests and sessions comes from: a session from a
\* session or a request that read a link, a request from a link, a session or itself.
HandedOn ==
    /\ \A k \in Keys : session'[k] # None =>
         \/ /\ session[k] # None
            /\ session'[k].via = session[k].via /\ session'[k].ttl = session[k].ttl
         \/ session'[k].via = None
         \/ \E c \in Clients : req[c].op = "item" /\ req[c].via = session'[k].via
    /\ \A c \in Clients : req'[c].op = "item" =>
         \/ req[c].op = "item" /\ req[c].via = req'[c].via
         \/ link[req'[c].via] # None
    /\ \A c \in Clients : req'[c].op \in {"delete", "serve"} =>
         \/ req[c].op \in {"delete", "serve"} /\ req[c].copy.via = req'[c].copy.via
         \/ \E k \in Keys : session[k] # None /\ session[k].via = req'[c].copy.via

LEMMA HandedOnLately ==
  ASSUME Typed, Typed', RevokedLately, HandedOn, slow' = slow,
         \A t \in Tokens : link'[t] # None => revoked'[t] = 0,
         \A t \in Tokens : revoked'[t] = revoked[t] \/ (revoked[t] = 0 /\ revoked'[t] = 1)
  PROVE  RevokedLately'
  <1>0. SessionTtl \in Nat \ {0} /\ \A t \in Tokens : revoked[t] \in Nat /\ revoked'[t] \in Nat
    BY SharedLinksAssumption DEF Typed
  <1> SUFFICES ASSUME NEW t \in Tokens, t # None, t \notin slow
               PROVE  /\ \A k \in Keys :
                           session'[k] # None /\ session'[k].via = t /\ revoked'[t] > 0 =>
                             revoked'[t] + session'[k].ttl <= SessionTtl + 1
                      /\ \A c \in Clients :
                           /\ req'[c].op = "item" /\ req'[c].via = t => revoked'[t] <= 1
                           /\ req'[c].op \in {"delete", "serve"} /\ req'[c].copy.via = t =>
                                revoked'[t] <= SessionTtl
    BY DEF RevokedLately
  <1>1. \A k \in Keys : session[k] # None =>
          session[k].ttl \in Nat /\ session[k].ttl >= 1 /\ session[k].ttl <= SessionTtl
    BY <1>0, CopyFacts DEF Typed
  <1>2. \A k \in Keys : session'[k] # None =>
          session'[k].ttl \in Nat /\ session'[k].ttl >= 1 /\ session'[k].ttl <= SessionTtl
    <2>1. \A k \in Keys : session'[k] # None => session'[k] \in Copy
      BY DEF Typed
    <2>2. QED
      BY <1>0, <2>1, CopyFacts
  <1>3. ASSUME NEW k \in Keys, session'[k] # None, session'[k].via = t, revoked'[t] > 0
        PROVE  revoked'[t] + session'[k].ttl <= SessionTtl + 1
    <2>1. CASE revoked'[t] = 1
      BY <1>0, <1>2, <1>3, <2>1
    <2>2. CASE revoked'[t] # 1
      <3>1. revoked'[t] = revoked[t] /\ revoked[t] > 1
        BY <1>0, <1>3, <2>2
      <3>2. \A c \in Clients : ~(req[c].op = "item" /\ req[c].via = t)
        BY <1>0, <3>1 DEF RevokedLately
      <3>3. session[k] # None /\ session[k].via = t /\ session'[k].ttl = session[k].ttl
        BY <1>3, <3>2 DEF HandedOn
      <3>4. revoked[t] + session[k].ttl <= SessionTtl + 1
        BY <1>0, <3>1, <3>3 DEF RevokedLately
      <3>5. QED
        BY <3>1, <3>3, <3>4
    <2>3. QED
      BY <2>1, <2>2
  <1>4. ASSUME NEW c \in Clients, req'[c].op = "item", req'[c].via = t
        PROVE  revoked'[t] <= 1
    BY <1>0, <1>4 DEF HandedOn, RevokedLately
  <1>5. ASSUME NEW c \in Clients, req'[c].op \in {"delete", "serve"}, req'[c].copy.via = t
        PROVE  revoked'[t] <= SessionTtl
    <2>1. CASE revoked'[t] = 1
      BY <1>0, <2>1
    <2>2. CASE revoked'[t] # 1
      <3>1. revoked'[t] = revoked[t]
        BY <2>2
      <3>2. CASE req[c].op \in {"delete", "serve"} /\ req[c].copy.via = t
        BY <3>1, <3>2 DEF RevokedLately
      <3>3. ASSUME NEW k \in Keys, session[k] # None, session[k].via = t
            PROVE  revoked'[t] <= SessionTtl
        BY <1>0, <1>1, <3>1, <3>3 DEF RevokedLately
      <3>4. QED
        BY <1>5, <3>2, <3>3 DEF HandedOn
    <2>3. QED
      BY <2>1, <2>2
  <1>6. QED
    BY <1>3, <1>4, <1>5

LEMMA TickLately ==
  ASSUME Typed, Typed', RevokedLately, Tick
  PROVE  RevokedLately'
  <1>0. SessionTtl \in Nat \ {0} /\ \A t \in Tokens : revoked[t] \in 0..(SessionTtl + 1)
    BY SharedLinksAssumption DEF Typed
  <1>1. /\ \A t \in Tokens : revoked'[t] = IF revoked[t] \in 1..SessionTtl
                                           THEN revoked[t] + 1 ELSE revoked[t]
        /\ UNCHANGED <<link, req>>
    BY DEF Tick, tables
  <1>2. \A t \in Tokens : link'[t] # None => revoked'[t] = 0
    BY <1>1 DEF RevokedLately
  <1> SUFFICES ASSUME NEW t \in Tokens, t # None, t \notin slow'
               PROVE  /\ \A k \in Keys :
                           session'[k] # None /\ session'[k].via = t /\ revoked'[t] > 0 =>
                             revoked'[t] + session'[k].ttl <= SessionTtl + 1
                      /\ \A c \in Clients :
                           /\ ~(req'[c].op = "item" /\ req'[c].via = t)
                           /\ ~(req'[c].op \in {"delete", "serve"} /\ req'[c].copy.via = t)
    BY <1>2 DEF RevokedLately
  <1>3. \A c \in Clients :
          /\ ~(req'[c].op = "item" /\ req'[c].via = t)
          /\ ~(req'[c].op \in {"delete", "serve"} /\ req'[c].copy.via = t)
    BY <1>1 DEF Tick
  <1>4. t \notin slow
    BY DEF Tick
  <1>5. ASSUME NEW k \in Keys, session'[k] # None, session'[k].via = t, revoked'[t] > 0
        PROVE  revoked'[t] + session'[k].ttl <= SessionTtl + 1
    <2>1. /\ session[k] # None
          /\ session'[k] = [session[k] EXCEPT !.ttl = session[k].ttl - 1]
      BY <1>5 DEF Tick
    <2>2. session[k] \in Copy
      BY <2>1 DEF Typed
    <2>3. /\ session'[k].ttl = session[k].ttl - 1 /\ session'[k].via = session[k].via
      BY <2>1, <2>2 DEF Copy
    <2>4. session[k].ttl \in Nat
      BY <1>0, <2>2, CopyFacts
    <2>5. revoked[t] > 0
      BY <1>0, <1>1, <1>5
    <2>6. revoked[t] + session[k].ttl <= SessionTtl + 1
      BY <1>4, <1>5, <2>1, <2>3, <2>5 DEF RevokedLately
    <2>7. revoked'[t] <= revoked[t] + 1 /\ revoked'[t] \in Nat /\ revoked[t] \in Nat
      BY <1>0, <1>1
    <2>8. QED
      BY <1>0, <2>3, <2>4, <2>6, <2>7
  <1>6. QED
    BY <1>3, <1>5

LEMMA NextLately ==
  ASSUME Typed, Typed', RevokedLately, [Next]_vars
  PROVE  RevokedLately'
  <1> USE DEF ghosts, tables
  <1>i. Idle.op = "idle"
    BY DEF Idle
  <1>n. None \notin Ids
    BY SharedLinksAssumption
  <1>q. ASSUME HandedOn, UNCHANGED <<link, revoked, slow>> PROVE RevokedLately'
    BY <1>q, HandedOnLately DEF RevokedLately
  <1>s. ASSUME NEW c \in Clients, NEW r, Set(c, r),
               r.op = "item" => link[r.via] # None,
               r.op \in {"delete", "serve"} =>
                 \/ req[c].op \in {"delete", "serve"} /\ req[c].copy.via = r.copy.via
                 \/ \E k \in Keys : session[k] # None /\ session[k].via = r.copy.via,
               UNCHANGED <<link, revoked, slow>>,
               \A k \in Keys : session'[k] # None => session'[k] = session[k]
        PROVE  RevokedLately'
    <2>1. \A b \in Clients : req'[b] = IF b = c THEN r ELSE req[b]
      BY <1>s DEF Set, Typed
    <2>2. HandedOn
      BY <1>s, <2>1 DEF HandedOn
    <2>3. QED
      BY <1>q, <1>s, <2>2
  <1>d. ASSUME NEW p \in Paths, Disturbed(p), DisturbedRequests(p) PROVE HandedOn
    BY <1>d, DisturbedFacts DEF HandedOn
  <1>1. CASE UNCHANGED vars
    BY <1>1, <1>q DEF vars, HandedOn
  <1>2. ASSUME NEW d \in Folders, NEW p \in Paths, MoveFolder(d, p) PROVE RevokedLately'
    BY <1>2, <1>d, <1>q, MoveFacts
  <1>3. ASSUME NEW i \in Ids, DeleteFile(i) PROVE RevokedLately'
    <2>1. HandedOn
      <3>1. CASE i \in Folders
        BY <1>3, <1>d, <3>1, DeleteFolderFacts
      <3>2. CASE i \notin Folders
        BY <1>3, <3>2 DEF DeleteFile, HandedOn
      <3>3. QED
        BY <3>1, <3>2
    <2>2. /\ \A t \in Tokens : link'[t] = IF link[t] = i THEN None ELSE link[t]
          /\ \A t \in Tokens : revoked'[t] = IF link[t] = i THEN 1 ELSE revoked[t]
          /\ slow' = slow
      BY <1>3 DEF DeleteFile
    <2>3. /\ \A t \in Tokens : link'[t] # None => revoked'[t] = 0
          /\ \A t \in Tokens : revoked'[t] = revoked[t] \/ (revoked[t] = 0 /\ revoked'[t] = 1)
      BY <1>n, <2>2 DEF RevokedLately
    <2>4. QED
      BY <2>1, <2>2, <2>3, HandedOnLately
  <1>4. ASSUME NEW t \in Tokens, RevokeLink(t) PROVE RevokedLately'
    <2>1. /\ \A s \in Tokens : link'[s] = IF s = t THEN None ELSE link[s]
          /\ \A s \in Tokens : revoked'[s] = IF s = t THEN 1 ELSE revoked[s]
          /\ link[t] # None /\ UNCHANGED <<session, req, slow>>
      BY <1>4 DEF RevokeLink, Typed
    <2>2. HandedOn
      BY <2>1 DEF HandedOn
    <2>3. /\ \A s \in Tokens : link'[s] # None => revoked'[s] = 0
          /\ \A s \in Tokens : revoked'[s] = revoked[s] \/ (revoked[s] = 0 /\ revoked'[s] = 1)
      BY <2>1 DEF RevokedLately
    <2>4. QED
      BY <2>1, <2>2, <2>3, HandedOnLately
  <1>5. ASSUME \/ RunJob \/ \E m \in Photos : DeletePhoto(m)
               \/ \E S \in SUBSET Ids : RemoveBookmarks(S)
        PROVE  RevokedLately'
    BY <1>5, <1>q DEF RunJob, DeletePhoto, RemoveBookmarks, HandedOn
  <1>6. ASSUME NEW k \in Keys, NEW copy, copy.via = None, CreateDownloadCache(k, copy),
               UNCHANGED <<req, link, revoked, slow>>
        PROVE  RevokedLately'
    <2>1. \A q \in Keys : session'[q] = IF q = k THEN copy ELSE session[q]
      BY <1>6 DEF CreateDownloadCache, Typed
    <2>2. HandedOn
      BY <1>6, <2>1 DEF HandedOn
    <2>3. QED
      BY <1>6, <1>q, <2>2
  <1>7. ASSUME NEW k \in Keys, NEW i \in Ids, GetDownloadUrl(k, i) PROVE RevokedLately'
    <2>1. CopyOf(i, None).via = None
      BY DEF CopyOf
    <2>2. QED
      BY <1>6, <1>7, <2>1 DEF GetDownloadUrl
  <1>8. ASSUME NEW k \in Keys, NEW S \in SUBSET Photos, CreateDownloadSession(k, S)
        PROVE  RevokedLately'
    <2> DEFINE copy == [kind |-> "photo", photos |-> DownloadItems(S), via |-> None,
                        ttl |-> SessionTtl]
    <2>1. copy.via = None
      OBVIOUS
    <2>2. CreateDownloadCache(k, copy) /\ UNCHANGED <<req, link, revoked, slow>>
      BY <1>8 DEF CreateDownloadSession
    <2> HIDE DEF copy
    <2>3. QED
      BY <1>6, <2>1, <2>2
  <1>9. ASSUME NEW c \in Clients, GetSharedLinkDownloadUrl(c) PROVE RevokedLately'
    <2>1. /\ \A b \in Clients : req'[b] = IF b = c THEN Idle ELSE req[b]
          /\ UNCHANGED <<link, revoked, slow>> /\ req[c].op = "item"
      BY <1>9 DEF GetSharedLinkDownloadUrl, Set, Typed
    <2>2. \A k \in Keys : session'[k] # None =>
            session'[k] = session[k] \/ session'[k].via = req[c].via
      <3>1. CopyOf(req[c].file, req[c].via).via = req[c].via
        BY DEF CopyOf
      <3>2. CASE req[c].file \in rows
        <4>1. PICK k \in Keys : CreateDownloadCache(k, CopyOf(req[c].file, req[c].via))
          BY <1>9, <3>2 DEF GetSharedLinkDownloadUrl
        <4>2. \A q \in Keys : session'[q] = IF q = k THEN CopyOf(req[c].file, req[c].via)
                                            ELSE session[q]
          BY <4>1 DEF CreateDownloadCache, Typed
        <4>3. QED
          BY <3>1, <4>2
      <3>3. CASE req[c].file \notin rows
        BY <1>9, <3>3 DEF GetSharedLinkDownloadUrl
      <3>4. QED
        BY <3>2, <3>3
    <2>3. HandedOn
      BY <1>i, <2>1, <2>2 DEF HandedOn
    <2>4. QED
      BY <1>q, <2>1, <2>3
  <1>10. ASSUME NEW c \in Clients, CreateLinkSave(c) PROVE RevokedLately'
    <2>1. PICK t \in Tokens : Unused(t) /\ link' = [link EXCEPT ![t] = req[c].file]
      BY <1>10 DEF CreateLinkSave
    <2>2. /\ revoked[t] = 0 /\ UNCHANGED <<session, revoked, slow>>
          /\ \A s \in Tokens : s # t => link'[s] = link[s]
      BY <1>10, <2>1 DEF Unused, Typed, CreateLinkSave
    <2>3. /\ req'[c] = Idle
          /\ \A b \in Clients \ {c} : /\ req'[b].op = req[b].op
                                      /\ req[b].op # "link" => req'[b] = req[b]
      BY <1>10, CreateLinkSaveFacts
    <2>4. HandedOn
      BY <1>i, <2>2, <2>3 DEF HandedOn
    <2>5. \A s \in Tokens : link'[s] # None => revoked'[s] = 0
      BY <2>2 DEF RevokedLately
    <2>6. QED
      BY <2>2, <2>4, <2>5, HandedOnLately
  <1>11. ASSUME NEW c \in Clients,
               \/ \E i \in Ids : CreateLinkRead(c, i)
               \/ \E t \in Tokens : GetSharedItem(c, t)
               \/ \E S \in SUBSET Ids : AddBookmarkRead(c, S)
               \/ \E k \in Keys, batch \in BOOLEAN : PopRead(c, k, batch)
               \/ CreateLinkRefused(c) \/ AddBookmark(c)
               \/ Serve(c) \/ ServeNotFound(c) \/ Killed(c)
        PROVE  RevokedLately'
    <2>1. ASSUME NEW i \in Ids, CreateLinkRead(c, i) PROVE RevokedLately'
      BY <1>s, <2>1 DEF CreateLinkRead
    <2>2. ASSUME NEW t \in Tokens, GetSharedItem(c, t) PROVE RevokedLately'
      BY <1>s, <2>2 DEF GetSharedItem
    <2>3. ASSUME NEW S \in SUBSET Ids, AddBookmarkRead(c, S) PROVE RevokedLately'
      BY <1>s, <2>3 DEF AddBookmarkRead
    <2>4. ASSUME NEW k \in Keys, NEW batch \in BOOLEAN, PopRead(c, k, batch)
          PROVE  RevokedLately'
      BY <1>s, <2>4 DEF PopRead
    <2>5. ASSUME Set(c, Idle), UNCHANGED <<link, session, revoked, slow>> PROVE RevokedLately'
      BY <1>i, <1>s, <2>5
    <2>6. QED
      BY <1>11, <2>1, <2>2, <2>3, <2>4, <2>5
      DEF CreateLinkRefused, AddBookmark, AddBookmarkSave, AddBookmarkRefused,
          Serve, ServeNotFound, Killed
  <1>12. ASSUME NEW c \in Clients, PopDelete(c) PROVE RevokedLately'
    <2>1. /\ req[c].op = "delete" /\ req[c].key \in Keys
          /\ req[c] \in [op : {"delete", "serve"}, key : Keys, copy : Copy, batch : BOOLEAN]
      BY <1>12, RequestFacts DEF PopDelete
    <2> DEFINE r == [req[c] EXCEPT !.op = "serve"]
    <2>2. r.op = "serve" /\ r.copy = req[c].copy
      BY <2>1
    <2>3. Set(c, r) /\ UNCHANGED <<link, revoked, slow>>
      BY <1>12 DEF PopDelete
    <2>4. \A k \in Keys : session'[k] # None => session'[k] = session[k]
      BY <1>12, <2>1 DEF PopDelete, Typed
    <2> HIDE DEF r
    <2>5. QED
      BY <1>s, <2>1, <2>2, <2>3, <2>4
  <1>13. QED
    BY <1>1, <1>2, <1>3, <1>4, <1>5, <1>7, <1>8, <1>9, <1>10, <1>11, <1>12, TickLately
    DEF Next

-----------------------------------------------------------------------------
(* Storage follows the rows                                                *)

LEMMA FollowedType ==
  ASSUME NEW j \in Job, NEW s \in [Paths -> Folders \cup {None}]
  PROVE  Followed(j, s) \in [Paths -> Folders \cup {None}]
  BY DEF Followed, Job

\* A folder that no job is about lies under its path.
LEMMA UndisturbedIsStored ==
  ASSUME Typed, StorageFollows, NEW d \in Folders \cap rows, ~Busy(path[d])
  PROVE  stored[path[d]] = d
  <1>1. PICK F : Future(F)
    BY DEF StorageFollows
  <1>2. path[d] \in Paths /\ Len(jobs) \in Nat
    BY DEF Typed
  <1>3. \A m \in 1..Len(jobs) : path[d] # jobs[m].from /\ path[d] # jobs[m].to
    BY DEF Busy
  <1>4. F[1][path[d]] = F[Len(jobs) + 1][path[d]]
    <2>1. 1 \in 1..(Len(jobs) + 1)
      BY <1>2
    <2>2. QED
      BY <1>1, <1>2, <1>3, <2>1 DEF Future
  <1>5. QED
    BY <1>1, <1>4 DEF Future

\* One more job: the last state of storage is what it makes of the one before.
LEMMA AppendFuture ==
  ASSUME Typed, NEW F, Future(F), NEW j \in Job, j.from # j.to,
         jobs' = Append(jobs, j), stored' = stored,
         \A d \in Folders \cap rows' : Followed(j, F[Len(jobs) + 1])[path'[d]] = d
  PROVE  \E G : Future(G)'
  <1>1. PICK L \in Nat : L = Len(jobs)
    BY DEF Typed
  <1>2. /\ Len(jobs') = L + 1 /\ jobs'[L + 1] = j
        /\ \A n \in 1..L : jobs'[n] = jobs[n]
    BY <1>1, AppendFacts
  <1>3. PICK last : last = Followed(j, F[L + 1])
    OBVIOUS
  <1>4. PICK G : G = [n \in 1..(L + 2) |-> IF n = L + 2 THEN last ELSE F[n]]
    OBVIOUS
  <1>5. /\ F \in [1..(L + 1) -> [Paths -> Folders \cup {None}]]
        /\ F[1] = stored
        /\ \A n \in 1..L : F[n + 1] = Followed(jobs[n], F[n])
        /\ \A n \in 1..(L + 1), p \in Paths :
             (\A m \in n..L : p # jobs[m].from /\ p # jobs[m].to) => F[n][p] = F[L + 1][p]
    BY <1>1 DEF Future
  <1>6. last \in [Paths -> Folders \cup {None}]
    BY <1>3, <1>5, FollowedType
  <1>7. G \in [1..(L + 2) -> [Paths -> Folders \cup {None}]]
    BY <1>4, <1>5, <1>6
  <1>8. /\ \A n \in 1..(L + 1) : G[n] = F[n]
        /\ G[L + 2] = last
    BY <1>4
  <1>9. G[1] = stored'
    BY <1>5, <1>8
  <1>10. ASSUME NEW n \in 1..(L + 1)
         PROVE  G[n + 1] = Followed(jobs'[n], G[n])
    <2>1. CASE n = L + 1
      BY <1>2, <1>3, <1>8, <2>1
    <2>2. CASE n # L + 1
      BY <1>2, <1>5, <1>8, <2>2
    <2>3. QED
      BY <2>1, <2>2
  <1>11. ASSUME NEW n \in 1..(L + 2), NEW p \in Paths,
                \A m \in n..(L + 1) : p # jobs'[m].from /\ p # jobs'[m].to
         PROVE  G[n][p] = G[L + 2][p]
    <2>1. CASE n = L + 2
      BY <2>1
    <2>2. CASE n # L + 2
      <3>1. n \in 1..(L + 1) /\ L + 1 \in n..(L + 1)
        BY <2>2
      <3>2. \A m \in n..L : p # jobs[m].from /\ p # jobs[m].to
        BY <1>2, <1>11, <3>1
      <3>3. F[n][p] = F[L + 1][p]
        BY <1>5, <3>1, <3>2
      <3>4. p # j.from /\ p # j.to
        BY <1>2, <1>11, <3>1
      <3>5. last[p] = F[L + 1][p]
        BY <1>3, <3>4 DEF Followed
      <3>6. QED
        BY <1>8, <3>1, <3>3, <3>5
    <2>3. QED
      BY <2>1, <2>2
  <1>12. \A d \in Folders \cap rows' : G[L + 2][path'[d]] = d
    BY <1>1, <1>3, <1>8
  <1>13. L + 2 = Len(jobs') + 1 /\ L + 1 = Len(jobs')
    BY <1>2
  <1>14. PICK M \in Nat : M = L + 1
    OBVIOUS
  <1>15. M = Len(jobs') /\ M + 1 = L + 2
    BY <1>13, <1>14
  <1>16. /\ G \in [1..(M + 1) -> [Paths -> Folders \cup {None}]]
         /\ \A n \in 1..M : G[n + 1] = Followed(jobs'[n], G[n])
         /\ \A d \in Folders \cap rows' : G[M + 1][path'[d]] = d
         /\ \A n \in 1..(M + 1), p \in Paths :
              (\A m \in n..M : p # jobs'[m].from /\ p # jobs'[m].to) => G[n][p] = G[M + 1][p]
    <2>1. \A d \in Folders \cap rows' : G[M + 1][path'[d]] = d
      BY <1>12, <1>15
    <2>2. G \in [1..(M + 1) -> [Paths -> Folders \cup {None}]]
      BY <1>7, <1>15
    <2>3. \A n \in 1..M : G[n + 1] = Followed(jobs'[n], G[n])
      BY <1>10, <1>14
    <2>4. \A n \in 1..(M + 1), p \in Paths :
            (\A m \in n..M : p # jobs'[m].from /\ p # jobs'[m].to) => G[n][p] = G[M + 1][p]
      BY <1>11, <1>14, <1>15
    <2>5. QED
      BY <2>1, <2>2, <2>3, <2>4
  <1>17. Future(G)'
    BY <1>9, <1>15, <1>16 DEF Future
  <1>18. QED
    BY <1>17

LEMMA MoveStorage ==
  ASSUME Typed, StorageFollows, NEW d \in Folders, NEW p \in Paths, MoveFolder(d, p)
  PROVE  StorageFollows'
  <1> DEFINE j == [from |-> path[d], to |-> p]
  <1>1. /\ d \in rows /\ path[d] \in Paths /\ path[d] # p
        /\ \A e \in Folders \cap rows : path[e] # p
        /\ j \in Job /\ jobs' = Append(jobs, j)
        /\ path' = [path EXCEPT ![d] = p] /\ UNCHANGED <<rows, stored>>
    BY MoveFacts
  <1>2. j.from = path[d] /\ j.to = p
    OBVIOUS
  <1> HIDE DEF j
  <1>3. PICK F : Future(F)
    BY DEF StorageFollows
  <1>4. \A e \in Folders : path'[e] = IF e = d THEN p ELSE path[e]
    BY <1>1 DEF Typed
  <1>5. \A e, g \in Folders \cap rows' : path'[e] = path'[g] => e = g
    BY <1>1, <1>4 DEF StorageFollows
  <1>6. ASSUME NEW e \in Folders \cap rows'
        PROVE  Followed(j, F[Len(jobs) + 1])[path'[e]] = e
    <2>1. e \in rows /\ path[e] \in Paths /\ F[Len(jobs) + 1][path[e]] = e
      BY <1>1, <1>3 DEF Typed, Future
    <2>2. CASE e = d
      BY <1>1, <1>2, <1>4, <2>1, <2>2 DEF Followed
    <2>3. CASE e # d
      <3>1. path[e] # path[d] /\ path[e] # p
        BY <1>1, <2>1, <2>3 DEF StorageFollows
      <3>2. QED
        BY <1>2, <1>4, <2>1, <2>3, <3>1 DEF Followed
    <2>4. QED
      BY <2>2, <2>3
  <1>7. \E G : Future(G)'
    BY <1>1, <1>2, <1>3, <1>6, AppendFuture
  <1>8. QED
    BY <1>5, <1>7 DEF StorageFollows

LEMMA DeleteStorage ==
  ASSUME Typed, StorageFollows, NEW i \in Ids, DeleteFile(i)
  PROVE  StorageFollows'
  <1>1. rows' = rows \ {i} /\ UNCHANGED <<path, stored>>
    BY DEF DeleteFile
  <1>2. \A e, g \in Folders \cap rows' : path'[e] = path'[g] => e = g
    BY <1>1 DEF StorageFollows
  <1>3. PICK F : Future(F)
    BY DEF StorageFollows
  <1>4. CASE i \in Folders
    <2> DEFINE j == [from |-> path[i], to |-> None]
    <2>1. /\ i \in rows /\ path[i] \in Paths /\ path[i] # None
          /\ j \in Job /\ jobs' = Append(jobs, j)
      BY <1>4, DeleteFolderFacts
    <2>2. j.from = path[i] /\ j.to = None
      OBVIOUS
    <2> HIDE DEF j
    <2>3. ASSUME NEW e \in Folders \cap rows'
          PROVE  Followed(j, F[Len(jobs) + 1])[path'[e]] = e
      <3>1. e \in rows /\ e # i /\ path[e] \in Paths /\ F[Len(jobs) + 1][path[e]] = e
        BY <1>1, <1>3 DEF Typed, Future
      <3>2. path[e] # path[i] /\ path[e] # None
        BY <1>4, <2>1, <3>1, SharedLinksAssumption DEF StorageFollows
      <3>3. QED
        BY <1>1, <2>2, <3>1, <3>2 DEF Followed
    <2>4. \E G : Future(G)'
      BY <1>1, <1>3, <2>1, <2>2, <2>3, AppendFuture
    <2>5. QED
      BY <1>2, <2>4 DEF StorageFollows
  <1>5. CASE i \notin Folders
    <2>1. jobs' = jobs
      BY <1>5 DEF DeleteFile
    <2>2. Future(F)'
      BY <1>1, <1>3, <2>1 DEF Future
    <2>3. QED
      BY <1>2, <2>2 DEF StorageFollows
  <1>6. QED
    BY <1>4, <1>5

\* What a step of storage does.
LEMMA RunJobFacts ==
  ASSUME Typed, RunJob
  PROVE  /\ jobs[1] \in Job /\ jobs[1].from # jobs[1].to
         /\ stored' = Followed(jobs[1], stored)
         /\ Len(jobs) \in Nat \ {0} /\ Len(jobs') = Len(jobs) - 1
         /\ \A n \in 1..(Len(jobs) - 1) : jobs'[n] = jobs[n + 1]
         /\ UNCHANGED <<rows, path, session, req>>
  <1>1. jobs \in Seq(Job) /\ jobs # <<>> /\ jobs' = Tail(jobs)
    BY DEF RunJob, Typed
  <1>2. /\ jobs[1] \in Job /\ Head(jobs) = jobs[1]
        /\ Len(jobs) \in Nat \ {0} /\ Len(jobs') = Len(jobs) - 1
        /\ \A n \in 1..(Len(jobs) - 1) : jobs'[n] = jobs[n + 1]
    BY <1>1
  <1>3. jobs[1].from # jobs[1].to
    BY <1>2 DEF Typed
  <1>4. stored' = [p \in Paths |-> CASE p = jobs[1].from -> None
                                     [] p = jobs[1].to -> stored[jobs[1].from]
                                     [] OTHER -> stored[p]]
    BY <1>2 DEF RunJob
  <1>5. stored' = Followed(jobs[1], stored)
    BY <1>3, <1>4 DEF Followed
  <1>6. QED
    BY <1>2, <1>3, <1>5 DEF RunJob

LEMMA RunJobStorage ==
  ASSUME Typed, StorageFollows, RunJob
  PROVE  StorageFollows'
  <1>1. PICK F : Future(F)
    BY DEF StorageFollows
  <1>2. PICK L \in Nat \ {0} : L = Len(jobs)
    BY RunJobFacts
  <1>3. /\ stored' = Followed(jobs[1], stored)
        /\ Len(jobs') = L - 1
        /\ \A n \in 1..(L - 1) : jobs'[n] = jobs[n + 1]
        /\ UNCHANGED <<rows, path>>
    BY <1>2, RunJobFacts
  <1>4. PICK G : G = [n \in 1..L |-> F[n + 1]]
    OBVIOUS
  <1>5. /\ F \in [1..(L + 1) -> [Paths -> Folders \cup {None}]]
        /\ F[1] = stored
        /\ \A n \in 1..L : F[n + 1] = Followed(jobs[n], F[n])
        /\ \A d \in Folders \cap rows : F[L + 1][path[d]] = d
        /\ \A n \in 1..(L + 1), p \in Paths :
             (\A m \in n..L : p # jobs[m].from /\ p # jobs[m].to) => F[n][p] = F[L + 1][p]
    BY <1>1, <1>2 DEF Future
  <1>6. G \in [1..L -> [Paths -> Folders \cup {None}]]
    BY <1>4, <1>5
  <1>7. \A n \in 1..L : G[n] = F[n + 1]
    BY <1>4
  <1>8. G[1] = stored'
    BY <1>3, <1>5, <1>7
  <1>9. ASSUME NEW n \in 1..(L - 1)
        PROVE  G[n + 1] = Followed(jobs'[n], G[n])
    <2>1. n \in 1..L /\ n + 1 \in 1..L
      OBVIOUS
    <2>2. QED
      BY <1>3, <1>5, <1>7, <2>1
  <1>10. ASSUME NEW n \in 1..L, NEW p \in Paths,
                \A m \in n..(L - 1) : p # jobs'[m].from /\ p # jobs'[m].to
         PROVE  G[n][p] = G[L][p]
    <2>1. \A m \in (n + 1)..L : p # jobs[m].from /\ p # jobs[m].to
      <3> SUFFICES ASSUME NEW m \in (n + 1)..L
                   PROVE  p # jobs[m].from /\ p # jobs[m].to
        OBVIOUS
      <3>1. m - 1 \in n..(L - 1) /\ m - 1 \in 1..(L - 1) /\ (m - 1) + 1 = m
        OBVIOUS
      <3>2. jobs'[m - 1] = jobs[m]
        BY <1>3, <3>1
      <3>3. QED
        BY <1>10, <3>1, <3>2
    <2>2. n + 1 \in 1..(L + 1)
      OBVIOUS
    <2>3. F[n + 1][p] = F[L + 1][p]
      BY <1>5, <2>1, <2>2
    <2>4. QED
      BY <1>7, <2>3
  <1>11. \A d \in Folders \cap rows' : G[L][path'[d]] = d
    BY <1>3, <1>5, <1>7
  <1>12. L = Len(jobs') + 1 /\ L - 1 = Len(jobs')
    BY <1>3
  <1>13. Future(G)'
    BY <1>6, <1>8, <1>9, <1>10, <1>11, <1>12 DEF Future
  <1>14. QED
    BY <1>3, <1>13 DEF StorageFollows

LEMMA NextStorage ==
  ASSUME Typed, StorageFollows, [Next]_vars
  PROVE  StorageFollows'
  <1>1. ASSUME UNCHANGED <<rows, path, stored, jobs>> PROVE StorageFollows'
    <2>1. PICK F : Future(F)
      BY DEF StorageFollows
    <2>2. Future(F)'
      BY <1>1, <2>1 DEF Future
    <2>3. \A d, e \in Folders \cap rows' : path'[d] = path'[e] => d = e
      BY <1>1 DEF StorageFollows
    <2>4. QED
      BY <2>2, <2>3 DEF StorageFollows
  <1>2. ASSUME [Next]_vars, ~RunJob,
               \A d \in Folders, p \in Paths : ~MoveFolder(d, p),
               \A i \in Ids : ~DeleteFile(i)
        PROVE  UNCHANGED <<rows, path, stored, jobs>>
    BY <1>2
    DEF Next, vars, tables, DeletePhoto, Tick, RevokeLink, CreateDownloadSession,
        RemoveBookmarks, GetDownloadUrl, CreateLinkRead, CreateLinkSave, CreateLinkRefused,
        GetSharedItem, GetSharedLinkDownloadUrl, PopRead, PopDelete, Serve, ServeNotFound,
        Killed, AddBookmarkRead, AddBookmark, AddBookmarkSave, AddBookmarkRefused
  <1>3. QED
    BY <1>1, <1>2, MoveStorage, DeleteStorage, RunJobStorage

-----------------------------------------------------------------------------
(* Copies of folders                                                       *)

\* The copies of what lies at p know, and a copy of a folder elsewhere stays true.
LEMMA DisturbedCopies ==
  ASSUME Typed, CopiesStillThere, NEW p \in Paths, Disturbed(p), DisturbedRequests(p),
         \A r \in Copy :
            StillThere(r) /\ (r.kind = "folder" => r.path # p) => StillThere(r)'
  PROVE  CopiesStillThere'
  <1>1. ASSUME NEW k \in Keys, session'[k] # None PROVE StillThere(session[k])'
    <2>1. /\ session[k] # None
          /\ \/ session'[k].kind = "folder" /\ session'[k].moved
             \/ session'[k] = session[k] /\ (session[k].kind = "folder" => session[k].path # p)
      BY <1>1, DisturbedFacts
    <2>2. session[k] \in Copy /\ StillThere(session[k])
      BY <2>1 DEF Typed, CopiesStillThere
    <2>3. CASE session'[k].kind = "folder" /\ session'[k].moved
      BY <2>3 DEF StillThere
    <2>4. CASE session'[k] = session[k] /\ (session[k].kind = "folder" => session[k].path # p)
      <3>1. PICK r \in Copy : r = session[k]
        BY <2>2
      <3>2. StillThere(r)'
        BY <2>2, <2>4, <3>1
      <3>3. QED
        BY <2>4, <3>1, <3>2
    <2>5. QED
      BY <2>1, <2>3, <2>4
  <1>2. ASSUME NEW c \in Clients, req'[c].op \in {"delete", "serve"}
        PROVE  StillThere(req[c].copy)'
    <2>1. /\ req[c].op \in {"delete", "serve"}
          /\ \/ req'[c].copy.kind = "folder" /\ req'[c].copy.moved
             \/ /\ req'[c].copy = req[c].copy
                /\ req[c].copy.kind = "folder" => req[c].copy.path # p
      BY <1>2, DisturbedFacts
    <2>2. req[c].copy \in Copy /\ StillThere(req[c].copy)
      BY <2>1, RequestFacts DEF CopiesStillThere
    <2>3. CASE req'[c].copy.kind = "folder" /\ req'[c].copy.moved
      BY <2>3 DEF StillThere
    <2>4. CASE /\ req'[c].copy = req[c].copy
               /\ req[c].copy.kind = "folder" => req[c].copy.path # p
      <3>1. PICK r \in Copy : r = req[c].copy
        BY <2>2
      <3>2. StillThere(r)'
        BY <2>2, <2>4, <3>1
      <3>3. QED
        BY <2>4, <3>1, <3>2
    <2>5. QED
      BY <2>1, <2>3, <2>4
  <1>3. QED
    BY <1>1, <1>2 DEF CopiesStillThere

LEMMA MoveCopies ==
  ASSUME Typed, StorageFollows, CopiesStillThere, NEW d \in Folders, NEW p \in Paths,
         MoveFolder(d, p)
  PROVE  CopiesStillThere'
  <1> DEFINE j == [from |-> path[d], to |-> p]
  <1>1. /\ d \in rows /\ path[d] \in Paths /\ path[d] # p
        /\ \A e \in Folders \cap rows : path[e] # p
        /\ j \in Job /\ jobs' = Append(jobs, j)
        /\ path' = [path EXCEPT ![d] = p] /\ UNCHANGED <<rows, stored>>
        /\ Disturbed(path[d]) /\ DisturbedRequests(path[d])
    BY MoveFacts
  <1>2. j.from = path[d] /\ j.to = p
    OBVIOUS
  <1> HIDE DEF j
  <1>3. \A q : Busy(q)' => Busy(q) \/ q \in {path[d], p}
    BY <1>1, <1>2, AppendFacts
  <1>4. ASSUME NEW r \in Copy, StillThere(r), r.kind = "folder" => r.path # path[d]
        PROVE  StillThere(r)'
    <2> SUFFICES ASSUME r.kind = "folder", ~r.moved
                 PROVE  /\ r.file \in Folders \cap rows' /\ path'[r.file] = r.path
                        /\ ~Busy(r.path)' /\ stored'[r.path] = r.file
      BY DEF StillThere
    <2>1. /\ r.file \in Folders \cap rows /\ path[r.file] = r.path
          /\ ~Busy(r.path) /\ stored[r.path] = r.file /\ r.path # path[d]
      BY <1>4 DEF StillThere
    <2>2. r.file # d /\ r.path # p
      BY <1>1, <2>1
    <2>3. QED
      BY <1>1, <1>3, <2>1, <2>2 DEF Typed
  <1>5. QED
    BY <1>1, <1>4, DisturbedCopies

LEMMA DeleteCopies ==
  ASSUME Typed, StorageFollows, CopiesStillThere, NEW i \in Ids, DeleteFile(i)
  PROVE  CopiesStillThere'
  <1>1. rows' = rows \ {i} /\ UNCHANGED <<path, stored>>
    BY DEF DeleteFile
  <1>2. CASE i \in Folders
    <2> DEFINE j == [from |-> path[i], to |-> None]
    <2>1. /\ i \in rows /\ path[i] \in Paths /\ path[i] # None
          /\ j \in Job /\ jobs' = Append(jobs, j)
          /\ Disturbed(path[i]) /\ DisturbedRequests(path[i])
      BY <1>2, DeleteFolderFacts
    <2>2. j.from = path[i] /\ j.to = None
      OBVIOUS
    <2> HIDE DEF j
    <2>3. \A q : Busy(q)' => Busy(q) \/ q \in {path[i], None}
      BY <2>1, <2>2, AppendFacts
    <2>4. ASSUME NEW r \in Copy, StillThere(r), r.kind = "folder" => r.path # path[i]
          PROVE  StillThere(r)'
      <3> SUFFICES ASSUME r.kind = "folder", ~r.moved
                   PROVE  /\ r.file \in Folders \cap rows' /\ path'[r.file] = r.path
                          /\ ~Busy(r.path)' /\ stored'[r.path] = r.file
        BY DEF StillThere
      <3>1. /\ r.file \in Folders \cap rows /\ path[r.file] = r.path
            /\ ~Busy(r.path) /\ stored[r.path] = r.file /\ r.path # path[i]
        BY <2>4 DEF StillThere
      <3>2. r.file # i /\ r.path # None
        BY <3>1, SharedLinksAssumption DEF Typed
      <3>3. QED
        BY <1>1, <2>3, <3>1, <3>2
    <2>5. QED
      BY <2>1, <2>4, DisturbedCopies
  <1>3. CASE i \notin Folders
    <2>1. UNCHANGED <<path, stored, jobs, session, req>>
      BY <1>3 DEF DeleteFile
    <2>2. QED
      BY <1>1, <1>3, <2>1 DEF CopiesStillThere, StillThere, Busy
  <1>4. QED
    BY <1>2, <1>3

LEMMA RunJobCopies ==
  ASSUME Typed, CopiesStillThere, RunJob
  PROVE  CopiesStillThere'
  <1>1. /\ jobs[1] \in Job /\ stored' = Followed(jobs[1], stored)
        /\ Len(jobs) \in Nat \ {0} /\ Len(jobs') = Len(jobs) - 1
        /\ \A n \in 1..(Len(jobs) - 1) : jobs'[n] = jobs[n + 1]
        /\ UNCHANGED <<rows, path, session, req>>
    BY RunJobFacts
  <1>2. ASSUME NEW q, ~Busy(q) PROVE ~Busy(q)' /\ q # jobs[1].from /\ q # jobs[1].to
    <2>1. \A n \in 1..Len(jobs) : q \notin {jobs[n].from, jobs[n].to}
      BY <1>2 DEF Busy
    <2>2. \A n \in 1..(Len(jobs) - 1) : q \notin {jobs'[n].from, jobs'[n].to}
      <3> SUFFICES ASSUME NEW n \in 1..(Len(jobs) - 1)
                   PROVE  q \notin {jobs'[n].from, jobs'[n].to}
        OBVIOUS
      <3>1. n + 1 \in 1..Len(jobs)
        BY <1>1
      <3>2. QED
        BY <1>1, <2>1, <3>1
    <2>3. QED
      BY <1>1, <2>1, <2>2 DEF Busy
  <1>3. ASSUME NEW r, StillThere(r) PROVE StillThere(r)'
    <2> SUFFICES ASSUME r.kind = "folder", ~r.moved
                 PROVE  /\ r.file \in Folders \cap rows' /\ path'[r.file] = r.path
                        /\ ~Busy(r.path)' /\ stored'[r.path] = r.file
      BY DEF StillThere
    <2>1. /\ r.file \in Folders \cap rows /\ path[r.file] = r.path
          /\ ~Busy(r.path) /\ stored[r.path] = r.file /\ r.path \in Paths
      BY <1>3 DEF StillThere, Typed
    <2>2. stored'[r.path] = stored[r.path]
      BY <1>1, <1>2, <2>1 DEF Followed
    <2>3. QED
      BY <1>1, <1>2, <2>1, <2>2
  <1>4. ASSUME NEW k \in Keys, session'[k] # None PROVE StillThere(session[k])'
    <2>1. PICK r : r = session[k]
      OBVIOUS
    <2>2. StillThere(r)'
      BY <1>1, <1>3, <1>4, <2>1 DEF CopiesStillThere
    <2>3. QED
      BY <1>1, <2>1, <2>2
  <1>5. ASSUME NEW c \in Clients, req'[c].op \in {"delete", "serve"}
        PROVE  StillThere(req[c].copy)'
    <2>1. PICK r : r = req[c].copy
      OBVIOUS
    <2>2. StillThere(r)'
      BY <1>1, <1>3, <1>5, <2>1 DEF CopiesStillThere
    <2>3. QED
      BY <1>1, <2>1, <2>2
  <1>6. QED
    BY <1>4, <1>5 DEF CopiesStillThere

LEMMA NextCopies ==
  ASSUME Typed, StorageFollows, CopiesStillThere, [Next]_vars
  PROVE  CopiesStillThere'
  <1> USE DEF ghosts, tables
  <1>i. Idle.op = "idle"
    BY DEF Idle
  <1>q. ASSUME UNCHANGED <<rows, path, stored, jobs>>,
               \A k \in Keys : session'[k] # None => StillThere(session'[k]),
               \A c \in Clients : req'[c].op \in {"delete", "serve"} => StillThere(req'[c].copy)
        PROVE  CopiesStillThere'
    BY <1>q DEF CopiesStillThere, StillThere, Busy
  <1>s. ASSUME NEW c \in Clients, NEW r, Set(c, r), UNCHANGED <<rows, path, stored, jobs>>,
               r.op \in {"delete", "serve"} => StillThere(r.copy),
               \A k \in Keys : session'[k] # None => session'[k] = session[k]
        PROVE  CopiesStillThere'
    <2>1. \A b \in Clients : req'[b] = IF b = c THEN r ELSE req[b]
      BY <1>s DEF Set, Typed
    <2>2. QED
      BY <1>q, <1>s, <2>1 DEF CopiesStillThere
  <1>c. ASSUME NEW i \in rows, NEW via \in Tokens \cup {None} PROVE StillThere(CopyOf(i, via))
    BY CopyOfFacts, UndisturbedIsStored DEF StillThere
  <1>1. CASE UNCHANGED vars
    BY <1>1, <1>q DEF vars, CopiesStillThere
  <1>2. ASSUME \/ Tick \/ \E m \in Photos : DeletePhoto(m)
               \/ \E t \in Tokens : RevokeLink(t)
               \/ \E S \in SUBSET Ids : RemoveBookmarks(S)
        PROVE  CopiesStillThere'
    <2>1. CASE Tick
      <3>1. ASSUME NEW k \in Keys, session'[k] # None PROVE StillThere(session'[k])
        <4>1. /\ session[k] # None
              /\ session'[k] = [session[k] EXCEPT !.ttl = session[k].ttl - 1]
          BY <2>1, <3>1 DEF Tick
        <4>2. session[k] \in Copy /\ StillThere(session[k])
          BY <4>1 DEF Typed, CopiesStillThere
        <4>3. session[k].kind = "folder" =>
                /\ session'[k].kind = session[k].kind /\ session'[k].moved = session[k].moved
                /\ session'[k].file = session[k].file /\ session'[k].path = session[k].path
          BY <4>1, <4>2 DEF Copy
        <4>4. session'[k].kind = session[k].kind
          BY <4>1, <4>2 DEF Copy
        <4>5. QED
          BY <4>2, <4>3, <4>4 DEF StillThere
      <3>2. QED
        BY <1>q, <2>1, <3>1 DEF Tick, CopiesStillThere
    <2>2. QED
      BY <1>2, <1>q, <2>1 DEF DeletePhoto, RevokeLink, RemoveBookmarks, CopiesStillThere
  <1>3. ASSUME NEW k \in Keys, NEW copy, StillThere(copy), CreateDownloadCache(k, copy),
               UNCHANGED <<rows, path, stored, jobs>>,
               \A c \in Clients : req'[c] = req[c] \/ req'[c] = Idle
        PROVE  CopiesStillThere'
    <2>1. \A q \in Keys : session'[q] = IF q = k THEN copy ELSE session[q]
      BY <1>3 DEF CreateDownloadCache, Typed
    <2>2. QED
      BY <1>i, <1>3, <1>q, <2>1 DEF CopiesStillThere
  <1>4. ASSUME NEW k \in Keys, NEW i \in Ids, GetDownloadUrl(k, i) PROVE CopiesStillThere'
    BY <1>3, <1>4, <1>c DEF GetDownloadUrl
  <1>5. ASSUME NEW k \in Keys, NEW S \in SUBSET Photos, CreateDownloadSession(k, S)
        PROVE  CopiesStillThere'
    <2> DEFINE copy == [kind |-> "photo", photos |-> DownloadItems(S), via |-> None,
                        ttl |-> SessionTtl]
    <2>1. StillThere(copy)
      BY DEF StillThere
    <2>2. CreateDownloadCache(k, copy) /\ UNCHANGED <<rows, path, stored, jobs, req>>
      BY <1>5 DEF CreateDownloadSession
    <2> HIDE DEF copy
    <2>3. QED
      BY <1>3, <2>1, <2>2
  <1>6. ASSUME NEW c \in Clients, GetSharedLinkDownloadUrl(c) PROVE CopiesStillThere'
    <2>1. /\ \A b \in Clients : req'[b] = req[b] \/ req'[b] = Idle
          /\ req[c].via \in Tokens /\ UNCHANGED <<rows, path, stored, jobs>>
      BY <1>6, RequestFacts DEF GetSharedLinkDownloadUrl, Set, Typed
    <2>2. CASE req[c].file \in rows
      <3>1. PICK k \in Keys : CreateDownloadCache(k, CopyOf(req[c].file, req[c].via))
        BY <1>6, <2>2 DEF GetSharedLinkDownloadUrl
      <3>2. StillThere(CopyOf(req[c].file, req[c].via))
        BY <1>c, <2>1, <2>2
      <3>3. QED
        BY <1>3, <2>1, <3>1, <3>2
    <2>3. CASE req[c].file \notin rows
      BY <1>6, <1>i, <1>q, <2>1, <2>3 DEF GetSharedLinkDownloadUrl, CopiesStillThere
    <2>4. QED
      BY <2>2, <2>3
  <1>7. ASSUME NEW c \in Clients, CreateLinkSave(c) PROVE CopiesStillThere'
    <2>1. /\ req'[c] = Idle
          /\ \A b \in Clients \ {c} : /\ req'[b].op = req[b].op
                                      /\ req[b].op # "link" => req'[b] = req[b]
      BY <1>7, CreateLinkSaveFacts
    <2>2. UNCHANGED <<rows, path, stored, jobs, session>>
      BY <1>7 DEF CreateLinkSave
    <2>3. QED
      BY <1>i, <1>q, <2>1, <2>2 DEF CopiesStillThere
  <1>8. ASSUME NEW c \in Clients,
               \/ \E i \in Ids : CreateLinkRead(c, i)
               \/ \E t \in Tokens : GetSharedItem(c, t)
               \/ \E S \in SUBSET Ids : AddBookmarkRead(c, S)
               \/ \E k \in Keys, batch \in BOOLEAN : PopRead(c, k, batch)
               \/ CreateLinkRefused(c) \/ AddBookmark(c)
               \/ Serve(c) \/ ServeNotFound(c) \/ Killed(c)
        PROVE  CopiesStillThere'
    <2>1. ASSUME NEW i \in Ids, CreateLinkRead(c, i) PROVE CopiesStillThere'
      BY <1>s, <2>1 DEF CreateLinkRead
    <2>2. ASSUME NEW t \in Tokens, GetSharedItem(c, t) PROVE CopiesStillThere'
      BY <1>s, <2>2 DEF GetSharedItem
    <2>3. ASSUME NEW S \in SUBSET Ids, AddBookmarkRead(c, S) PROVE CopiesStillThere'
      BY <1>s, <2>3 DEF AddBookmarkRead
    <2>4. ASSUME NEW k \in Keys, NEW batch \in BOOLEAN, PopRead(c, k, batch)
          PROVE  CopiesStillThere'
      <3> DEFINE r == [op |-> "delete", key |-> k, copy |-> session[k], batch |-> batch]
      <3>1. r.copy = session[k] /\ StillThere(session[k])
        BY <2>4 DEF PopRead, CopiesStillThere
      <3>2. Set(c, r) /\ UNCHANGED <<rows, path, stored, jobs, session>>
        BY <2>4 DEF PopRead
      <3> HIDE DEF r
      <3>3. QED
        BY <1>s, <3>1, <3>2
    <2>5. ASSUME Set(c, Idle), UNCHANGED <<rows, path, stored, jobs, session>>
          PROVE  CopiesStillThere'
      BY <1>i, <1>s, <2>5
    <2>6. QED
      BY <1>8, <2>1, <2>2, <2>3, <2>4, <2>5
      DEF CreateLinkRefused, AddBookmark, AddBookmarkSave, AddBookmarkRefused,
          Serve, ServeNotFound, Killed
  <1>9. ASSUME NEW c \in Clients, PopDelete(c) PROVE CopiesStillThere'
    <2>1. /\ req[c].op = "delete" /\ req[c].key \in Keys
          /\ req[c] \in [op : {"delete", "serve"}, key : Keys, copy : Copy, batch : BOOLEAN]
      BY <1>9, RequestFacts DEF PopDelete
    <2> DEFINE r == [req[c] EXCEPT !.op = "serve"]
    <2>2. r.copy = req[c].copy /\ StillThere(req[c].copy)
      BY <2>1 DEF CopiesStillThere
    <2>3. Set(c, r) /\ UNCHANGED <<rows, path, stored, jobs>>
      BY <1>9 DEF PopDelete
    <2>4. \A k \in Keys : session'[k] # None => session'[k] = session[k]
      BY <1>9, <2>1 DEF PopDelete, Typed
    <2> HIDE DEF r
    <2>5. QED
      BY <1>s, <2>2, <2>3, <2>4
  <1>10. QED
    BY <1>1, <1>2, <1>4, <1>5, <1>6, <1>7, <1>8, <1>9, MoveCopies, DeleteCopies, RunJobCopies
    DEF Next

-----------------------------------------------------------------------------

LEMMA InitIInv == Init => IInv
  <1> SUFFICES ASSUME Init PROVE IInv
    OBVIOUS
  <1>1. Typed
    BY InitTyped
  <1>2. OneHand
    BY DEF Init, OneHand, Has, Idle
  <1>3. LinksOfRows
    BY DEF Init, LinksOfRows, Linked, Idle
  <1>4. RevokedLately
    BY SharedLinksAssumption DEF Init, RevokedLately, Idle
  <1>5. StorageFollows
    <2>1. \A d \in Folders : stored[Home[d]] = d
      BY SharedLinksAssumption DEF Init
    <2>2. PICK F : F = [n \in 1..1 |-> stored]
      OBVIOUS
    <2>3. jobs = <<>> /\ Len(jobs) = 0 /\ path = Home
      BY DEF Init
    <2>4. F[1] = stored /\ F \in [1..1 -> [Paths -> Folders \cup {None}]]
      BY <1>1, <2>2 DEF Typed
    <2>5. Future(F)
      BY <2>1, <2>3, <2>4 DEF Future
    <2>6. QED
      BY <2>3, <2>5, SharedLinksAssumption DEF StorageFollows
  <1>6. CopiesStillThere
    BY DEF Init, CopiesStillThere, Idle
  <1>7. QED
    BY <1>1, <1>2, <1>3, <1>4, <1>5, <1>6 DEF IInv

LEMMA Invariance == Spec => []IInv
  <1>1. IInv /\ [Next]_vars => IInv'
    <2> SUFFICES ASSUME IInv, [Next]_vars PROVE IInv'
      OBVIOUS
    <2>1. Typed'
      BY NextTyped DEF IInv
    <2>2. QED
      BY <2>1, NextOneHand, NextLinks, NextLately, NextStorage, NextCopies DEF IInv
  <1>2. QED
    BY InitIInv, <1>1, PTL DEF Spec

\* Links and bookmarks are those of rows, and a file has one link.
THEOREM TypeCorrect == Spec => []TypeOK
  <1>1. IInv => TypeOK
    <2> SUFFICES ASSUME IInv PROVE TypeOK
      OBVIOUS
    <2>1. \A k \in Keys : session[k] # None => session[k].ttl \in 1..SessionTtl
      BY CopyFacts DEF IInv, Typed
    <2>2. QED
      BY <2>1 DEF IInv, Typed, LinksOfRows, TypeOK
  <1>2. QED
    BY Invariance, <1>1, PTL

\* A download session is answered twice only if two requests read it before the
\* first deleted it (pop_download_cache, get_download_session).
THEOREM SessionsServedOnce == Spec => []ServedOnce
  <1>1. IInv => ServedOnce
    <2> SUFFICES ASSUME IInv, NEW k \in Keys, answered[k] > 1 PROVE k \in lapped
      BY DEF ServedOnce
    <2>1. answered[k] \in Nat
      BY DEF IInv, Typed
    <2>2. QED
      BY <2>1 DEF IInv, OneHand
  <1>2. QED
    BY Invariance, <1>1, PTL

\* SharedLinkRepository.save refuses a link only of a file that has gone, or that
\* another request gave a link in between.
THEOREM LinksRefusedKnown == Spec => LinkRefusedKnown
  <1>1. IInv => \A c \in Clients : CreateLinkRefused(c) =>
                  req[c].file \notin rows \/ req[c].lapped
    BY DEF IInv, LinksOfRows, CreateLinkRefused
  <1>2. QED
    BY Invariance, <1>1, PTL DEF LinkRefusedKnown

\* A revoked link gives content for no longer than a session lives, unless one of
\* its requests was slow, and never that of a file whose row is gone.
THEOREM RevokedLinksServeBriefly == Spec => RevokedServedBriefly
  <1> DEFINE Brief == \A c \in Clients : Serve(c) =>
         LET copy == req[c].copy
         IN  /\ copy.kind = "file" => copy.file \in rows
             /\ copy.via # None /\ revoked[copy.via] > SessionTtl => copy.via \in slow
  <1>1. IInv => Brief
    <2> SUFFICES ASSUME IInv, NEW c \in Clients, Serve(c)
                 PROVE  /\ req[c].copy.kind = "file" => req[c].copy.file \in rows
                        /\ req[c].copy.via # None /\ revoked[req[c].copy.via] > SessionTtl
                             => req[c].copy.via \in slow
      OBVIOUS
    <2>1. /\ req[c].op = "serve" /\ Content(req[c].copy) # {}
          /\ req[c].copy \in Copy
      BY RequestFacts DEF Serve, IInv
    <2>2. req[c].copy.kind = "file" => req[c].copy.file \in rows
      BY <2>1 DEF Content, FileContent
    <2>3. ASSUME req[c].copy.via # None, revoked[req[c].copy.via] > SessionTtl
          PROVE  req[c].copy.via \in slow
      <3>1. /\ req[c].copy.via \in Tokens /\ SessionTtl \in Nat
            /\ revoked[req[c].copy.via] \in Nat
        BY <2>1, <2>3, CopyFacts, SharedLinksAssumption DEF IInv, Typed
      <3>2. QED
        BY <2>1, <2>3, <3>1 DEF IInv, RevokedLately
    <2>4. QED
      BY <2>2, <2>3
  <1>2. QED
    BY Invariance, <1>1, PTL DEF RevokedServedBriefly

\* A folder's session gives the content of another folder, or none, only if a
\* folder was moved from its path or deleted there, before storage had followed or
\* after the session was made (get_download_url, download_folder).
THEOREM FoldersServedKnown == Spec => []FolderServedKnown
  <1>1. IInv => FolderServedKnown
    <2> SUFFICES ASSUME IInv, NEW c \in Clients, req[c].op = "serve",
                        req[c].copy.kind = "folder", ~req[c].copy.moved
                 PROVE  Content(req[c].copy) = {req[c].copy.file}
      BY DEF FolderServedKnown
    <2>1. StillThere(req[c].copy)
      BY DEF IInv, CopiesStillThere
    <2>2. /\ req[c].copy.file \in Folders
          /\ stored[req[c].copy.path] = req[c].copy.file
      BY <2>1 DEF StillThere
    <2>3. req[c].copy.file # None
      BY <2>2, SharedLinksAssumption DEF Ids
    <2>4. Content(req[c].copy) = FolderContent(req[c].copy)
      BY DEF Content
    <2>5. QED
      BY <2>2, <2>3, <2>4 DEF FolderContent
  <1>2. QED
    BY Invariance, <1>1, PTL
=============================================================================
