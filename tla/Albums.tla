------------------------------- MODULE Albums --------------------------------
(***************************************************************************)
(* The albums of one owner: album rows with their slugs, the number        *)
(* of items each row keeps, covers, and the links between                  *)
(* albums and media items, while items go to Trash, come back or are       *)
(* deleted for good.                                                       *)
(*                                                                         *)
(* Requests that read rows and later write what they computed from them    *)
(* are two steps.  The transactions around some of them (add_album_items,  *)
(* remove_album_items, delete_batch) make the writes one step; they lock   *)
(* nothing that was read.                                                  *)
(***************************************************************************)
EXTENDS Integers, FiniteSets, SequencesExt

CONSTANTS
    Items,        \* media items, numbered in the order of modified_at
    Albums,       \* ids of album rows
    Filled,       \* the albums users put items into
    Titles,       \* titles users give
    Slug,         \* Slug[t]: slugify(t, allow_unicode=True)
    AsciiSlug,    \* AsciiSlug[t]: slugify(t)
    Clients,      \* requests that are under way
    None,
    MaxCount,     \* bound on how far items_count goes, up or down
    Asked,        \* the lists of item ids users send
    Created,      \* an album there is from the start
    FirstTitle,   \* and its title
    OpSets        \* the sets of operations of which users make one

\* A slug is its words and the numbers after them: foo-1 has the number 1.  The
\* slug of a title of which slugify keeps no character is empty.
Slugs == [words : STRING, numbers : Seq(Nat)]
EmptySlug == [words |-> "", numbers |-> <<>>]
Numbered(s) == s.numbers # <<>>
Appended(s, n) == [s EXCEPT !.numbers = Append(@, n)]

ASSUME AlbumsAssumption ==
    /\ Items \subseteq Nat /\ IsFiniteSet(Items)
    /\ Filled \subseteq Albums /\ IsFiniteSet(Albums)
    /\ Slug \in [Titles -> Slugs] /\ AsciiSlug \in [Titles -> Slugs]
    /\ Asked \subseteq Seq(Items) \ {<<>>}
    /\ MaxCount \in Nat
    /\ None \notin Items
    /\ Created \in Albums /\ FirstTitle \in Titles

VARIABLES
    album,        \* album[a]: the row of album a
    links,        \* the album_items table
    live, trash,  \* media items, by deleted_at
    req,          \* req[c]: what a request has read
    drifted,      \* albums with a cause for a wrong items_count
    odd,          \* albums with a cause for a strange cover
    ops,          \* the operations users make
    unnumbered    \* the numbers of slugs have stopped being 1, 2, 3...

vars == <<album, links, live, trash, req, drifted, odd, ops, unnumbered>>

Rows == live \cup trash
Exists(a) == album[a] # None
Linked(a) == {i \in Items : <<a, i>> \in links}

\* The columns of models.Album that change.
Row(title, slug) == [title |-> title, slug |-> slug, count |-> 0, cover |-> None]
AlbumRow == [title : Titles, slug : Slugs, count : -MaxCount..MaxCount,
             cover : Items \cup {None}]

\* What a request keeps of what it has read; stale: a row was written since.
Naming   == [op : {"create"}, title : Titles, stale : BOOLEAN, slug : Slugs]
Renaming == [op : {"rename"}, title : Titles, stale : BOOLEAN, slug : Slugs, old : Slugs]
Changing == [op : {"add", "remove"}, album : Albums, ids : Asked, stale : BOOLEAN,
             slug : Slugs, count : -MaxCount..MaxCount, cover : Items \cup {None}]
Request  == Naming \cup Renaming \cup Changing

ASSUME NoneAssumption == None \notin AlbumRow \cup Request

\* The type invariant.
TypeOK ==
    /\ album \in [Albums -> AlbumRow \cup {None}]
    /\ \A a \in Albums : Exists(a) => album[a].cover \in Rows \cup {None}
    /\ links \subseteq {a \in Albums : Exists(a)} \X Rows
    /\ live \cap trash = {} /\ Rows \subseteq Items
    /\ req \in [Clients -> Request \cup {None}]
    /\ drifted \cup odd \subseteq Albums
    /\ unnumbered \in BOOLEAN

Init ==
    /\ album = [a \in Albums |->
                  IF a = Created THEN Row(FirstTitle, Slug[FirstTitle]) ELSE None]
    /\ ops \in OpSets
    /\ links = {}
    /\ live = Items /\ trash = {}
    /\ req = [c \in Clients |-> None]
    /\ drifted = {} /\ odd = {} 
    /\ unnumbered = (\E a \in Albums : Exists(a) /\ Numbered(album[a].slug))

-----------------------------------------------------------------------------
(* Slugs                                                                   *)

\* exists_with_slug, and the unique index on owner and slug.
Taken(s) == \E a \in Albums : Exists(a) /\ album[a].slug = s

\* count_by_slug_pattern with the pattern slug-[0-9]+$, which is not anchored
\* at its start: the pattern of the empty slug finds every numbered one.
Counted(s) ==
    Cardinality({a \in Albums :
        /\ Exists(a) /\ Numbered(album[a].slug)
        /\ s = EmptySlug \/ [album[a].slug EXCEPT !.numbers = Front(@)] = s})

\* Mutant of GetAvailableSlug: the copies are not counted.
FirstNumber(s) == IF Taken(s) THEN Appended(s, 1) ELSE s

GetAvailableSlug(s) == IF Taken(s) THEN Appended(s, Counted(s) + 1) ELSE s

\* What becomes of the requests under way when the rows of the albums in A are
\* written: one that has read such a row, or chosen a slug, is stale.
Concerned(r, A) ==
    r.op \in {"create", "rename"} \/ r.album \in A
Touched(A) ==
    [c \in Clients |-> IF req[c] # None /\ Concerned(req[c], A)
                       THEN [req[c] EXCEPT !.stale = TRUE] ELSE req[c]]
Done(c, a) == req' = [Touched({a}) EXCEPT ![c] = None]
Idle(c) == req[c] = None
Doing(c, op) == ~Idle(c) /\ req[c].op = op

\* AlbumService.create: the slug is chosen, ...
CreateRead(c, t) ==
    /\ "create" \in ops
    /\ Idle(c)
    /\ req' = [req EXCEPT ![c] = [op |-> "create", title |-> t, stale |-> FALSE,
                                  slug |-> GetAvailableSlug(Slug[t])]]
    /\ unnumbered' = (unnumbered \/ Numbered(Slug[t]))
    /\ UNCHANGED <<album, links, live, trash, drifted, odd>>

\* ... and the row saved.  Refused by the index, the request fails.
CreateSave(c) ==
    /\ Doing(c, "create")
    /\ ~Taken(req[c].slug)
    /\ \E a \in Albums :
         /\ ~Exists(a)
         /\ album' = [album EXCEPT ![a] = Row(req[c].title, req[c].slug)]
         /\ Done(c, a)
    /\ UNCHANGED <<links, live, trash, drifted, odd, unnumbered>>

CreateRefused(c) ==
    /\ Doing(c, "create")
    /\ Taken(req[c].slug)
    /\ req' = [req EXCEPT ![c] = None]
    /\ UNCHANGED <<album, links, live, trash, drifted, odd, unnumbered>>

\* AlbumService.rename: the row is found by its slug and a slug is chosen for
\* the new title, without allow_unicode; the album's own slug counts as taken.
RenameRead(c, a, t) ==
    /\ "rename" \in ops
    /\ Idle(c)
    /\ Exists(a) /\ album[a].slug # EmptySlug
    /\ album[a].title # t
    /\ req' = [req EXCEPT ![c] =
                 [op |-> "rename", title |-> t, stale |-> FALSE,
                  slug |-> GetAvailableSlug(AsciiSlug[t]), old |-> album[a].slug]]
    /\ unnumbered' = (unnumbered \/ Numbered(AsciiSlug[t]) \/ AsciiSlug[t] = EmptySlug)
    /\ UNCHANGED <<album, links, live, trash, drifted, odd>>

\* AlbumRepository.update finds the row once more by the old slug.
RenameSave(c) ==
    /\ Doing(c, "rename")
    /\ \E a \in Albums :
         /\ Exists(a) /\ album[a].slug = req[c].old
         /\ ~Taken(req[c].slug)
         /\ album' = [album EXCEPT ![a] = [album[a] EXCEPT !.title = req[c].title,
                                                        !.slug = req[c].slug]]
         /\ Done(c, a)
    /\ unnumbered' = TRUE
    /\ UNCHANGED <<links, live, trash, drifted, odd>>

RenameRefused(c) ==
    /\ Doing(c, "rename")
    /\ Taken(req[c].slug) \/ ~Taken(req[c].old)
    /\ req' = [req EXCEPT ![c] = None]
    /\ UNCHANGED <<album, links, live, trash, drifted, odd, unnumbered>>

\* AlbumRepository.delete; the links go with the row.
DeleteAlbum(a) ==
    /\ "delete_album" \in ops
    /\ Exists(a) /\ album[a].slug # EmptySlug
    /\ album' = [album EXCEPT ![a] = None]
    /\ links' = {l \in links : l[1] # a}
    /\ drifted' = drifted \ {a} /\ odd' = odd \ {a}
    /\ unnumbered' = TRUE
    /\ req' = Touched({a})
    /\ UNCHANGED <<live, trash>>

-----------------------------------------------------------------------------
(* Items of an album                                                       *)

Within(n) == n \in -MaxCount..MaxCount

\* add_items and remove_items read the row: its count and its cover.
ItemsRead(c, op, a, ids) ==
    /\ op \in ops
    /\ Idle(c)
    /\ a \in Filled /\ Exists(a) /\ album[a].slug # EmptySlug
    /\ req' = [req EXCEPT ![c] = [op |-> op, album |-> a, ids |-> ids, stale |-> FALSE,
                                  slug |-> album[a].slug, count |-> album[a].count,
                                  cover |-> album[a].cover]]
    /\ UNCHANGED <<album, links, live, trash, drifted, odd, unnumbered>>

\* Mutant of AddItems: the number of items is not changed.
AddItemsUncounted(a, r) ==
    /\ links' = links \cup ({a} \X (ToSet(r.ids) \cap Rows))
    /\ album' = [album EXCEPT ![a].cover = IF r.cover = None THEN r.ids[1] ELSE @]

\* Items that exist are linked, in Trash or not; every id is counted.  An album
\* without a cover gets the first id as its cover.
AddItems(a, r) ==
    /\ links' = links \cup ({a} \X (ToSet(r.ids) \cap Rows))
    /\ album' = [album EXCEPT ![a] =
                   [album[a] EXCEPT
                      !.count = r.count + Len(r.ids),
                      !.cover = IF r.cover = None THEN r.ids[1] ELSE album[a].cover]]

\* Whether the ids are as many as the links they add, or remove.
Plain(ids, S) == IsInjective(ids) /\ ToSet(ids) \subseteq S

\* The rest of add_album_items.  It fails when the album is gone, or when the
\* first id, to be the cover, is not an item, or when the album no longer has
\* the slug by which set_cover finds it.
AddSave(c) ==
    /\ Doing(c, "add")
    /\ LET r == req[c]
           a == r.album
           fails == IF Exists(a)
                    THEN /\ r.cover = None
                         /\ r.ids[1] \notin Rows \/ album[a].slug # r.slug
                    ELSE TRUE
       IN  \/ /\ fails
              /\ req' = [req EXCEPT ![c] = None]
              /\ UNCHANGED <<album, links, drifted, odd>>
           \/ /\ ~fails
              /\ Within(r.count + Len(r.ids))
              /\ AddItems(a, r)
              /\ Done(c, a)
              /\ drifted' = IF r.stale \/ ~Plain(r.ids, Rows \ Linked(a))
                            THEN drifted \cup {a} ELSE drifted
              /\ odd' = IF r.stale \/ r.ids[1] \notin live THEN odd \cup {a} ELSE odd
    /\ UNCHANGED <<live, trash, unnumbered>>

\* list_cover_candidates: the newest item of the album outside Trash.
Candidate(a, l, lv) ==
    LET S == {i \in lv : <<a, i>> \in l}
    IN  IF S = {} THEN None ELSE CHOOSE i \in S : \A k \in S : k <= i

\* The links to items that exist go, every id is counted; the cover is replaced
\* when the one that was read is among the ids.
RemoveItems(a, r) ==
    LET left == links \ ({a} \X (ToSet(r.ids) \cap Rows))
    IN  /\ links' = left
        /\ album' = [album EXCEPT ![a] =
                       [album[a] EXCEPT
                          !.count = r.count - Len(r.ids),
                          !.cover = IF r.cover \in ToSet(r.ids)
                                    THEN Candidate(a, left, live) ELSE album[a].cover]]

\* The rest of remove_album_items.  The relation refuses to remove no item.
RemoveSave(c) ==
    /\ Doing(c, "remove")
    /\ LET r == req[c]
           a == r.album
           found == ToSet(r.ids) \cap Rows
       IN  \/ /\ ~Exists(a) \/ found = {}
              /\ req' = [req EXCEPT ![c] = None]
              /\ UNCHANGED <<album, links, drifted>>
           \/ /\ Exists(a) /\ found # {}
              /\ Within(r.count - Len(r.ids))
              /\ RemoveItems(a, r)
              /\ Done(c, a)
              /\ drifted' = IF r.stale \/ ~Plain(r.ids, Linked(a))
                            THEN drifted \cup {a} ELSE drifted
    /\ odd' = IF req[c].stale THEN odd \cup {req[c].album} ELSE odd
    /\ UNCHANGED <<live, trash, unnumbered>>

\* set_cover takes any item, of the album or not.
SetCover(a, i) ==
    /\ "cover" \in ops
    /\ a \in Filled /\ Exists(a) /\ album[a].slug # EmptySlug
    /\ i \in Rows
    /\ album' = [album EXCEPT ![a].cover = i]
    /\ odd' = odd \cup {a}
    /\ req' = Touched({a})
    /\ UNCHANGED <<links, live, trash, drifted, unnumbered>>

RemoveCover(a) ==
    /\ "cover" \in ops
    /\ Exists(a) /\ album[a].slug # EmptySlug /\ album[a].cover # None
    /\ album' = [album EXCEPT ![a].cover = None]
    /\ req' = Touched({a})
    /\ UNCHANGED <<links, live, trash, drifted, odd, unnumbered>>

-----------------------------------------------------------------------------
(* Media items                                                             *)

\* list_ids_by_cover_ids: the albums with one of the items as cover.
CoveredBy(S) == {a \in Albums : Exists(a) /\ album[a].cover \in S}

\* set_cover_batch: the albums in A with the covers given.
WithCovers(A, covers) ==
    [a \in Albums |-> IF a \in A THEN [album[a] EXCEPT !.cover = covers[a]]
                      ELSE album[a]]

\* Mutant of DeleteBatch: covers are not looked after.
DeleteBatchOnly(S) ==
    /\ "trash" \in ops
    /\ S \cap Rows # {}
    /\ trash' = trash \cup (S \cap Rows)
    /\ live' = live \ S
    /\ UNCHANGED <<album, links, req, drifted, odd, unnumbered>>

\* MediaItemUseCase.delete_batch: the items go to Trash and the albums with
\* one of them as cover get another, in one transaction.
DeleteBatch(S) ==
    /\ "trash" \in ops
    /\ S \cap Rows # {}
    /\ trash' = trash \cup (S \cap Rows)
    /\ live' = live \ S
    /\ LET A == CoveredBy(S \cap Rows)
       IN  album' = WithCovers(A, [a \in A |-> Candidate(a, links, live \ S)])
    /\ req' = Touched({a \in Albums : album'[a] # album[a]})
    /\ UNCHANGED <<links, drifted, odd, unnumbered>>

RestoreBatch(S) ==
    /\ "trash" \in ops
    /\ S \cap trash # {}
    /\ live' = live \cup (S \cap Rows)
    /\ trash' = trash \ S
    /\ UNCHANGED <<album, links, req, drifted, odd, unnumbered>>

\* MediaItemRepository.delete_batch: links go with the items,
\* covers become NULL, and the number of items stays.
DeletePermanently(S) ==
    /\ "delete" \in ops
    /\ S \cap Rows # {}
    /\ live' = live \ S /\ trash' = trash \ S
    /\ links' = {l \in links : l[2] \notin S}
    /\ album' = WithCovers(CoveredBy(S), [a \in CoveredBy(S) |-> None])
    /\ req' = Touched({a \in Albums : album'[a] # album[a]})
    /\ drifted' = drifted \cup {a \in Albums : Linked(a) \cap S # {}}
    /\ UNCHANGED <<odd, unnumbered>>

-----------------------------------------------------------------------------
Create(c) == CreateSave(c) \/ CreateRefused(c)
Rename(c) == RenameSave(c) \/ RenameRefused(c)
ChangeItems(c) == AddSave(c) \/ RemoveSave(c)
ChangeCover(a) == RemoveCover(a) \/ \E i \in Items : SetCover(a, i)

Next ==
    \/ \E c \in Clients, t \in Titles :
         CreateRead(c, t) \/ \E a \in Albums : RenameRead(c, a, t)
    \/ \E c \in Clients, a \in Albums, ids \in Asked :
         ItemsRead(c, "add", a, ids) \/ ItemsRead(c, "remove", a, ids)
    \/ \E c \in Clients :
         Create(c) \/ Rename(c) \/ ChangeItems(c)
    \/ \E a \in Albums : DeleteAlbum(a) \/ ChangeCover(a)
    \/ \E S \in SUBSET Items : DeleteBatch(S) \/ RestoreBatch(S) \/ DeletePermanently(S)

Spec == Init /\ [][Next /\ UNCHANGED ops]_vars

-----------------------------------------------------------------------------
(* Properties                                                              *)

\* items_count is the number of links, unless it was asked to add or remove ids
\* that are repeated, linked already, not linked or gone, two requests on one
\* album overlapped, or a linked item was deleted for good (add_items,
\* remove_items, delete_permanently): nothing else makes it drift.
CountsDriftKnown ==
    \A a \in Albums : Exists(a) /\ album[a].count # Cardinality(Linked(a)) => a \in drifted

\* A cover is an item of its album and not in Trash, unless it was set by hand,
\* came from adding an item that was in Trash, or requests on the album
\* overlapped: going to Trash, removal from the album and permanent deletion
\* all leave a fitting cover or none.
CoversFit ==
    \A a \in Albums :
        Exists(a) /\ album[a].cover # None /\ a \notin odd
            => album[a].cover \in live \cap Linked(a)

\* A new album or title is refused by the slug index only when another request
\* came in between, or when the numbers of slugs are not consecutive any more:
\* an album was deleted or renamed, or a title has a number of its own.
RefusedKnown ==
    [][\A c \in Clients :
         /\ CreateRefused(c) => req[c].stale \/ unnumbered
         /\ RenameRefused(c) /\ Taken(req[c].slug) => req[c].stale \/ unnumbered]_vars
=============================================================================
