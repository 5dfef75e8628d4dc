---------------------------- MODULE AlbumsProofs ----------------------------
(***************************************************************************)
(* Proofs about Albums, for any items, albums, titles and requests.        *)
(***************************************************************************)
EXTENDS Albums, FiniteSetTheorems, TLAPS

\* Count and cover of an album.
AlbumFits(a) ==
    Exists(a) =>
      /\ album[a].count # Cardinality(Linked(a)) => a \in drifted
      /\ album[a].cover # None /\ a \notin odd => album[a].cover \in live \cap Linked(a)

\* A request to change the items of an album that is not stale knows its row.
Fresh(r) ==
    r # None /\ r.op \in {"add", "remove"} /\ ~r.stale =>
      Exists(r.album) /\ album[r.album].count = r.count /\ album[r.album].cover = r.cover

\* A slug without its numbers.
Base(s) == [words |-> s.words, numbers |-> <<>>]

\* A slug with no number, or with one that is not above n.
NumberUpTo(s, n) == s.numbers = <<>> \/ \E k \in 1..n : s.numbers = <<k>>

\* As long as slugs are numbered in their order, no number is above the count of
\* the numbered slugs, and none that a request has chosen is above the next.
Numbering ==
    ~unnumbered =>
      /\ \A a \in Albums : Exists(a) => NumberUpTo(album[a].slug, Counted(Base(album[a].slug)))
      /\ \A c \in Clients : req[c] # None =>
           /\ req[c].op = "create" =>
                NumberUpTo(req[c].slug, Counted(Base(req[c].slug)) + 1)
           /\ req[c].op \in {"create", "rename"} /\ ~req[c].stale => ~Taken(req[c].slug)

\* The inductive invariant.
Inv ==
    /\ TypeOK /\ Numbering
    /\ \A a \in Albums : AlbumFits(a)
    /\ \A c \in Clients : Fresh(req[c])

-----------------------------------------------------------------------------
(* Sets                                                                    *)

\* Some items have a newest one.
LEMMA Newest ==
    ASSUME NEW S \in SUBSET Items, S # {}
    PROVE  \E i \in S : \A k \in S : k <= i
  <1>. DEFINE After(i) == {k \in S : k > i}
              T == {Cardinality(After(i)) : i \in S}
              R == OpToRel(<, Nat)
  <1>1. IsFiniteSet(S) /\ S \subseteq Nat
    BY FS_Subset, AlbumsAssumption
  <1>2. \A i \in S : IsFiniteSet(After(i)) /\ Cardinality(After(i)) \in Nat
    BY <1>1, FS_Subset, FS_CardinalityType
  <1>3. T \subseteq Nat /\ T # {}
    BY <1>2
  <1>4. \A m, n \in Nat : <<m, n>> \in R <=> m < n
    BY DEF OpToRel
  <1>5. IsWellFoundedOn(R, Nat)
    BY NatLessThanWellFounded
  <1>. HIDE DEF T, R
  <1>6. PICK n \in T : \A m \in T : ~(<<m, n>> \in R)
    BY <1>3, <1>5, WFMin
  <1>7. PICK i \in S : n = Cardinality(After(i))
    BY <1>6 DEF T
  <1>8. ASSUME NEW k \in S, k > i PROVE FALSE
    <2>0. k \in Nat /\ i \in Nat /\ \A j \in S : j \in Nat
      BY <1>1
    <2>1. After(k) \subseteq After(i) /\ k \in After(i) /\ k \notin After(k)
      <3>1. \A j \in S : j > k => j > i
        BY <1>8, <2>0
      <3>2. ~(k > k)
        BY <2>0
      <3>. QED
        BY <1>8, <3>1, <3>2
    <2>2. Cardinality(After(k)) \in T
      BY DEF T
    <2>. HIDE DEF After
    <2>3. After(k) # After(i)
      BY <2>1
    <2>4. Cardinality(After(k)) <= Cardinality(After(i)) /\ Cardinality(After(k)) # Cardinality(After(i))
      BY <1>2, <2>1, <2>3, FS_Subset
    <2>5. Cardinality(After(k)) < n /\ Cardinality(After(k)) \in Nat /\ n \in Nat
      BY <1>2, <1>7, <2>4
    <2>. QED
      BY <1>4, <1>6, <2>2, <2>5
  <1>. QED
    BY <1>1, <1>8

\* list_cover_candidates gives an item of the album outside Trash, or none.
LEMMA CandidateFits ==
    ASSUME NEW a, NEW l, NEW lv \in SUBSET Items, Candidate(a, l, lv) # None
    PROVE  Candidate(a, l, lv) \in lv /\ <<a, Candidate(a, l, lv)>> \in l
  <1>. DEFINE S == {i \in lv : <<a, i>> \in l}
  <1>1. S # {}
    BY DEF Candidate
  <1>2. \E i \in S : \A k \in S : k <= i
    BY <1>1, Newest
  <1>3. Candidate(a, l, lv) = CHOOSE i \in S : \A k \in S : k <= i
    BY <1>1 DEF Candidate
  <1>. HIDE DEF S
  <1>4. Candidate(a, l, lv) \in S
    BY <1>2, <1>3
  <1>. QED
    BY <1>4 DEF S

\* A list without repetitions is as long as its set is large.
LEMMA Distinct ==
    ASSUME NEW ids \in Seq(Items), IsInjective(ids)
    PROVE  IsFiniteSet(ToSet(ids)) /\ Cardinality(ToSet(ids)) = Len(ids)
  <1>1. ids \in [1..Len(ids) -> ToSet(ids)] /\ Len(ids) \in Nat
    BY DEF ToSet
  <1>2. ids \in Bijection(1..Len(ids), ToSet(ids))
    BY <1>1 DEF Bijection, Injection, Surjection, IsInjective, ToSet
  <1>3. ExistsBijection(1..Len(ids), ToSet(ids))
    BY <1>2 DEF ExistsBijection
  <1>. QED
    BY <1>1, <1>3, FS_CountingElements, FS_NatBijection

\* The cardinalities of a set with more elements and with fewer.
LEMMA MoreLinks ==
    ASSUME NEW S, NEW T, IsFiniteSet(S), IsFiniteSet(T)
    PROVE  /\ S \cap T = {} => Cardinality(S \cup T) = Cardinality(S) + Cardinality(T)
           /\ T \subseteq S => Cardinality(S \ T) = Cardinality(S) - Cardinality(T)
           /\ Cardinality(S) \in Nat /\ Cardinality(T) \in Nat
  <1>1. Cardinality(S) \in Nat /\ Cardinality(T) \in Nat /\ Cardinality(S \cap T) \in Nat
    BY FS_CardinalityType, FS_Subset
  <1>2. ASSUME S \cap T = {} PROVE Cardinality(S \cup T) = Cardinality(S) + Cardinality(T)
    <2>1. Cardinality(S \cap T) = 0
      BY <1>2, FS_EmptySet
    <2>2. Cardinality(S \cup T) = Cardinality(S) + Cardinality(T) - Cardinality(S \cap T)
      BY FS_Union
    <2>. QED
      BY <1>1, <2>1, <2>2
  <1>3. ASSUME T \subseteq S PROVE Cardinality(S \ T) = Cardinality(S) - Cardinality(T)
    <2>1. S \cap T = T
      BY <1>3
    <2>2. Cardinality(S \ T) = Cardinality(S) - Cardinality(S \cap T)
      BY FS_Difference
    <2>. QED
      BY <2>1, <2>2
  <1>. QED
    BY <1>1, <1>2, <1>3

-----------------------------------------------------------------------------
(* What stays                                                              *)

\* A request r that goes on as t: it may have become stale.
Continues(r, t) ==
    t # None =>
      /\ r # None /\ t \in Request /\ t.op = r.op /\ t.slug = r.slug /\ (~t.stale => ~r.stale)
      /\ t.op \in {"add", "remove"} =>
           t.album = r.album /\ t.count = r.count /\ t.cover = r.cover

LEMMA RequestTyped ==
    ASSUME TypeOK, NEW c \in Clients, req[c] # None
    PROVE  /\ req[c] \in Request /\ req[c].stale \in BOOLEAN /\ req[c].slug \in Slugs
           /\ req[c].op \in {"create", "rename", "add", "remove"}
           /\ req[c].op = "create" => req[c] \in Naming /\ req[c].title \in Titles
           /\ req[c].op = "rename" => req[c] \in Renaming /\ req[c].title \in Titles
                                        /\ req[c].old \in Slugs
           /\ req[c].op \in {"add", "remove"} =>
                /\ req[c] \in Changing /\ req[c].album \in Albums /\ req[c].ids \in Asked
                /\ req[c].count \in -MaxCount..MaxCount /\ req[c].cover \in Items \cup {None}
  <1>1. req[c] \in Naming \cup Renaming \cup Changing
    BY DEF TypeOK, Request
  <1>2. CASE req[c] \in Naming
    BY <1>2 DEF Naming, Request
  <1>3. CASE req[c] \in Renaming
    BY <1>3 DEF Renaming, Request
  <1>4. CASE req[c] \in Changing
    BY <1>4 DEF Changing, Request
  <1>. QED
    BY <1>1, <1>2, <1>3, <1>4

LEMMA TouchedFits ==
    ASSUME TypeOK, NEW A
    PROVE  /\ Touched(A) \in [Clients -> Request \cup {None}]
           /\ \A c \in Clients :
                /\ Continues(req[c], Touched(A)[c])
                /\ Touched(A)[c] # None /\ ~Touched(A)[c].stale =>
                     req[c].op \in {"add", "remove"} /\ req[c].album \notin A
  <1>. SUFFICES ASSUME NEW c \in Clients
                PROVE  /\ Touched(A)[c] \in Request \cup {None}
                       /\ Continues(req[c], Touched(A)[c])
                       /\ Touched(A)[c] # None /\ ~Touched(A)[c].stale =>
                            req[c].op \in {"add", "remove"} /\ req[c].album \notin A
    BY DEF Touched
  <1>1. CASE req[c] = None
    BY <1>1 DEF Touched, Continues
  <1>2. CASE req[c] # None /\ ~Concerned(req[c], A)
    <2>1. Touched(A)[c] = req[c]
      BY <1>2 DEF Touched
    <2>2. req[c].op \in {"add", "remove"} /\ req[c].album \notin A
      BY <1>2, RequestTyped DEF Concerned
    <2>. QED
      BY <1>2, <2>1, <2>2, RequestTyped DEF Continues
  <1>3. CASE req[c] # None /\ Concerned(req[c], A)
    <2>. DEFINE t == [req[c] EXCEPT !.stale = TRUE]
    <2>1. Touched(A)[c] = t
      BY <1>3 DEF Touched
    <2>2. /\ t \in Request /\ t.stale /\ t.op = req[c].op /\ t.slug = req[c].slug
          /\ t.op \in {"add", "remove"} =>
               t.album = req[c].album /\ t.count = req[c].count /\ t.cover = req[c].cover
      <3>1. CASE req[c].op = "create"
        BY <1>3, <3>1, RequestTyped DEF Naming, Request
      <3>2. CASE req[c].op = "rename"
        BY <1>3, <3>2, RequestTyped DEF Renaming, Request
      <3>3. CASE req[c].op \in {"add", "remove"}
        BY <1>3, <3>3, RequestTyped DEF Changing, Request
      <3>. QED
        BY <1>3, <3>1, <3>2, <3>3, RequestTyped
    <2>. HIDE DEF t
    <2>. QED
      BY <1>3, <2>1, <2>2 DEF Continues
  <1>. QED
    BY <1>1, <1>2, <1>3

LEMMA DoneFits ==
    ASSUME TypeOK, NEW d \in Clients, NEW a, Done(d, a)
    PROVE  /\ req' \in [Clients -> Request \cup {None}]
           /\ \A c \in Clients :
                /\ Continues(req[c], req'[c])
                /\ req'[c] # None /\ ~req'[c].stale =>
                     req[c].op \in {"add", "remove"} /\ req[c].album # a
  <1>1. /\ req' = [Touched({a}) EXCEPT ![d] = None]
        /\ Touched({a}) \in [Clients -> Request \cup {None}]
    BY TouchedFits DEF Done
  <1>2. req'[d] = None /\ \A c \in Clients \ {d} : req'[c] = Touched({a})[c]
    BY <1>1
  <1>3. req' \in [Clients -> Request \cup {None}]
    BY <1>1
  <1>. QED
    BY <1>2, <1>3, TouchedFits DEF Continues

LEMMA FreshKept ==
    ASSUME NEW c \in Clients, Fresh(req[c]), Continues(req[c], req'[c]),
           req'[c] # None /\ req'[c].op \in {"add", "remove"} /\ ~req'[c].stale =>
             album'[req[c].album] = album[req[c].album]
    PROVE  Fresh(req[c])'
  BY DEF Fresh, Continues, Exists

LEMMA AlbumKept ==
    ASSUME NEW a \in Albums, AlbumFits(a), album'[a] = album[a], Linked(a)' = Linked(a),
           album[a] # None /\ album[a].cover \in live => album[a].cover \in live',
           a \in drifted => a \in drifted', a \in odd => a \in odd'
    PROVE  AlbumFits(a)'
  BY DEF AlbumFits, Exists

LEMMA CountedKept ==
    ASSUME \A a \in Albums : Exists(a)' <=> Exists(a),
           \A a \in Albums : Exists(a) => album'[a].slug = album[a].slug,
           NEW s
    PROVE  Counted(s)' = Counted(s) /\ (Taken(s)' <=> Taken(s))
  <1>. DEFINE N == {a \in Albums : /\ Exists(a) /\ Numbered(album[a].slug)
                                   /\ \/ s = EmptySlug
                                      \/ [album[a].slug EXCEPT !.numbers = Front(@)] = s}
  <1>1. N' = N
    OBVIOUS
  <1>2. Counted(s) = Cardinality(N) /\ Counted(s)' = Cardinality(N')
    BY DEF Counted
  <1>3. Taken(s)' <=> Taken(s)
    BY DEF Taken
  <1>. QED
    BY <1>1, <1>2, <1>3

LEMMA NumberingKept ==
    ASSUME Numbering, UNCHANGED unnumbered,
           \A a \in Albums : Exists(a)' <=> Exists(a),
           \A a \in Albums : Exists(a) => album'[a].slug = album[a].slug,
           \A c \in Clients : Continues(req[c], req'[c])
    PROVE  Numbering'
  <1>. SUFFICES ASSUME ~unnumbered PROVE Numbering'
    BY DEF Numbering
  <1>1. \A s : Counted(s)' = Counted(s) /\ (Taken(s)' <=> Taken(s))
    BY CountedKept
  <1>2. ASSUME NEW a \in Albums, Exists(a)'
        PROVE  NumberUpTo(album'[a].slug, Counted(Base(album[a].slug))')
    BY <1>1, <1>2 DEF Numbering
  <1>3. ASSUME NEW c \in Clients, req'[c] # None
        PROVE  /\ req'[c].op = "create" =>
                    NumberUpTo(req'[c].slug, Counted(Base(req[c].slug))' + 1)
               /\ req'[c].op \in {"create", "rename"} /\ ~req'[c].stale => ~Taken(req[c].slug)'
    BY <1>1, <1>3 DEF Numbering, Continues
  <1>. QED
    BY <1>2, <1>3 DEF Numbering, NumberUpTo, Base

\* The parts of the type invariant.
LEMMA TypeParts ==
    ASSUME Inv
    PROVE  /\ TypeOK /\ album \in [Albums -> AlbumRow \cup {None}]
           /\ \A a \in Albums : Exists(a) => album[a] \in AlbumRow /\ album[a].cover \in Rows \cup {None}
           /\ links \subseteq {a \in Albums : Exists(a)} \X Rows
           /\ live \cap trash = {} /\ Rows \subseteq Items /\ live \subseteq Items
           /\ req \in [Clients -> Request \cup {None}]
           /\ drifted \subseteq Albums /\ odd \subseteq Albums /\ unnumbered \in BOOLEAN
           /\ \A a \in Albums : Linked(a) \subseteq Rows /\ IsFiniteSet(Linked(a))
  <1>1. TypeOK
    BY DEF Inv
  <1>2. \A a \in Albums : Linked(a) \subseteq Rows /\ IsFiniteSet(Linked(a))
    <2>. SUFFICES ASSUME NEW a \in Albums PROVE Linked(a) \subseteq Rows /\ IsFiniteSet(Linked(a))
      OBVIOUS
    <2>1. Linked(a) \subseteq Rows
      BY <1>1 DEF TypeOK, Linked
    <2>2. Linked(a) \subseteq Items
      BY DEF Linked
    <2>. QED
      BY <2>1, <2>2, FS_Subset, AlbumsAssumption
  <1>. QED
    BY <1>1, <1>2 DEF TypeOK, Exists, Rows

-----------------------------------------------------------------------------
(* Requests that read, or end with nothing done                            *)

LEMMA ReadSafe ==
    ASSUME Inv, NEW c \in Clients, NEW r \in Request \cup {None}, req' = [req EXCEPT ![c] = r],
           Fresh(r), UNCHANGED <<album, links, live, trash>>, unnumbered' \in BOOLEAN,
           drifted \subseteq drifted', odd \subseteq odd', drifted' \cup odd' \subseteq Albums,
           unnumbered => unnumbered',
           r # None /\ ~unnumbered' =>
             /\ r.op = "create" => NumberUpTo(r.slug, Counted(Base(r.slug)) + 1)
             /\ r.op \in {"create", "rename"} /\ ~r.stale => ~Taken(r.slug)
    PROVE  Inv'
  <1>1. TypeOK'
    BY TypeParts DEF TypeOK, Exists, Rows
  <1>2. req'[c] = r /\ \A d \in Clients \ {c} : req'[d] = req[d]
    BY TypeParts
  <1>3. \A s : Counted(s)' = Counted(s) /\ (Taken(s)' <=> Taken(s))
    BY DEF Counted, Taken, Exists
  <1>4. \A a \in Albums : AlbumFits(a)'
    BY DEF Inv, AlbumFits, Exists, Linked
  <1>5. \A d \in Clients : Fresh(req[d])'
    BY <1>2 DEF Inv, Fresh, Exists
  <1>6. Numbering'
    <2>. SUFFICES ASSUME ~unnumbered' PROVE Numbering'
      BY DEF Numbering
    <2>1. Numbering /\ ~unnumbered
      BY DEF Inv
    <2>2. ASSUME NEW a \in Albums, Exists(a)'
          PROVE  NumberUpTo(album'[a].slug, Counted(Base(album[a].slug))')
      BY <1>3, <2>1, <2>2 DEF Numbering, Exists
    <2>3. ASSUME NEW d \in Clients, req'[d] # None
          PROVE  /\ req'[d].op = "create" =>
                      NumberUpTo(req'[d].slug, Counted(Base(req[d].slug))' + 1)
                 /\ req'[d].op \in {"create", "rename"} /\ ~req'[d].stale => ~Taken(req[d].slug)'
      <3>1. CASE d = c
        BY <1>2, <1>3, <2>3, <3>1 DEF Base
      <3>2. CASE d # c
        BY <1>2, <1>3, <2>1, <2>3, <3>2 DEF Numbering, Base
      <3>. QED
        BY <3>1, <3>2
    <2>. QED
      BY <2>2, <2>3 DEF Numbering, NumberUpTo, Base
  <1>. QED
    BY <1>1, <1>4, <1>5, <1>6 DEF Inv

LEMMA EndSafe ==
    ASSUME Inv, NEW c \in Clients, req' = [req EXCEPT ![c] = None],
           UNCHANGED <<album, links, live, trash, unnumbered>>,
           drifted \subseteq drifted', odd \subseteq odd', drifted' \cup odd' \subseteq Albums
    PROVE  Inv'
  <1>1. Fresh(None)
    BY DEF Fresh
  <1>. QED
    BY <1>1, TypeParts, ReadSafe

LEMMA CountedTyped ==
    ASSUME NEW s
    PROVE  Counted(s) \in Nat
  <1>. DEFINE N == {a \in Albums : /\ Exists(a) /\ Numbered(album[a].slug)
                                   /\ \/ s = EmptySlug
                                      \/ [album[a].slug EXCEPT !.numbers = Front(@)] = s}
  <1>1. IsFiniteSet(N)
    BY FS_Subset, AlbumsAssumption
  <1>2. Cardinality(N) \in Nat
    BY <1>1, FS_CardinalityType
  <1>. QED
    BY <1>2 DEF Counted

\* A slug with one more number is one.
LEMMA SlugTyped ==
    ASSUME NEW s \in Slugs
    PROVE  GetAvailableSlug(s) \in Slugs
  <1>1. s.numbers \in Seq(Nat) /\ Counted(s) + 1 \in Nat
    BY CountedTyped DEF Slugs
  <1>2. Append(s.numbers, Counted(s) + 1) \in Seq(Nat)
    BY <1>1
  <1>3. Appended(s, Counted(s) + 1) \in Slugs
    BY <1>2 DEF Appended, Slugs
  <1>. QED
    BY <1>3 DEF GetAvailableSlug

\* The slug that get_available_slug chooses is free as long as slugs are numbered
\* in their order.
LEMMA SlugIsFree ==
    ASSUME Inv, ~unnumbered, NEW s \in Slugs, ~Numbered(s)
    PROVE  LET t == GetAvailableSlug(s)
           IN  t \in Slugs /\ ~Taken(t) /\ NumberUpTo(t, Counted(Base(t)) + 1)
  <1>1. s.numbers = <<>> /\ s = Base(s)
    BY DEF Numbered, Base, Slugs
  <1>2. CASE ~Taken(s)
    BY <1>1, <1>2 DEF GetAvailableSlug, NumberUpTo
  <1>3. CASE Taken(s)
    <2>. DEFINE n == Counted(s) + 1
                t == [words |-> s.words, numbers |-> <<n>>]
    <2>1. Counted(s) \in Nat
      BY CountedTyped
    <2>2. GetAvailableSlug(s) = t
      BY <1>1, <1>3, <2>1 DEF GetAvailableSlug, Appended, Slugs
    <2>3. t \in Slugs /\ Base(t) = s /\ t.numbers = <<n>>
      BY <1>1, <2>1 DEF Slugs, Base
    <2>4. NumberUpTo(t, Counted(Base(t)) + 1)
      BY <2>1, <2>3 DEF NumberUpTo
    <2>5. ~Taken(t)
      <3>. SUFFICES ASSUME NEW a \in Albums, Exists(a), album[a].slug = t PROVE FALSE
        BY DEF Taken
      <3>1. NumberUpTo(t, Counted(s))
        BY <2>3 DEF Inv, Numbering
      <3>2. PICK k \in 1..Counted(s) : <<n>> = <<k>>
        BY <2>3, <3>1 DEF NumberUpTo
      <3>3. n = k
        BY <3>2
      <3>. QED
        BY <2>1, <3>3
    <2>. HIDE DEF t
    <2>. QED
      BY <2>2, <2>3, <2>4, <2>5
  <1>. QED
    BY <1>2, <1>3

LEMMA CreateReadSafe ==
    ASSUME Inv, NEW c \in Clients, NEW t \in Titles, CreateRead(c, t)
    PROVE  Inv'
  <1>1. PICK s \in Slugs : s = GetAvailableSlug(Slug[t])
    BY SlugTyped, AlbumsAssumption
  <1>. DEFINE r == [op |-> "create", title |-> t, stale |-> FALSE, slug |-> s]
  <1>2. /\ req' = [req EXCEPT ![c] = r] /\ UNCHANGED <<album, links, live, trash, drifted, odd>>
        /\ unnumbered' = (unnumbered \/ Numbered(Slug[t]))
    BY <1>1 DEF CreateRead
  <1>3. r \in Request /\ r.op = "create" /\ r.slug = s
    BY DEF Request, Naming
  <1>. HIDE DEF r
  <1>4. Fresh(r)
    BY <1>3 DEF Fresh
  <1>5. unnumbered' \in BOOLEAN /\ (unnumbered => unnumbered') /\ (~unnumbered' => ~Numbered(Slug[t]))
    BY <1>2, TypeParts
  <1>6. ~unnumbered' => ~Taken(s) /\ NumberUpTo(s, Counted(Base(s)) + 1)
    BY <1>1, <1>5, SlugIsFree, AlbumsAssumption
  <1>. QED
    BY <1>2, <1>3, <1>4, <1>5, <1>6, TypeParts, ReadSafe

LEMMA RenameReadSafe ==
    ASSUME Inv, NEW c \in Clients, NEW a \in Albums, NEW t \in Titles, RenameRead(c, a, t)
    PROVE  Inv'
  <1>1. PICK s \in Slugs : s = GetAvailableSlug(AsciiSlug[t])
    BY SlugTyped, AlbumsAssumption
  <1>2. PICK o \in Slugs : o = album[a].slug
    BY TypeParts DEF RenameRead, AlbumRow
  <1>. DEFINE r == [op |-> "rename", title |-> t, stale |-> FALSE, slug |-> s, old |-> o]
  <1>3. /\ req' = [req EXCEPT ![c] = r] /\ UNCHANGED <<album, links, live, trash, drifted, odd>>
        /\ unnumbered' = (unnumbered \/ Numbered(AsciiSlug[t]) \/ AsciiSlug[t] = EmptySlug)
    BY <1>1, <1>2 DEF RenameRead
  <1>4. r \in Request /\ r.op = "rename" /\ r.slug = s
    BY DEF Request, Renaming
  <1>. HIDE DEF r
  <1>5. Fresh(r)
    BY <1>4 DEF Fresh
  <1>6. /\ unnumbered' \in BOOLEAN /\ (unnumbered => unnumbered')
        /\ ~unnumbered' => ~Numbered(AsciiSlug[t])
    BY <1>3, TypeParts
  <1>7. ~unnumbered' => ~Taken(s)
    BY <1>1, <1>6, SlugIsFree, AlbumsAssumption
  <1>. QED
    BY <1>3, <1>4, <1>5, <1>6, <1>7, TypeParts, ReadSafe

LEMMA ItemsReadSafe ==
    ASSUME Inv, NEW c \in Clients, NEW a \in Albums, NEW ids \in Asked, NEW op \in {"add", "remove"},
           ItemsRead(c, op, a, ids)
    PROVE  Inv'
  <1>1. Exists(a) /\ album[a] \in AlbumRow
    BY TypeParts DEF ItemsRead
  <1>2. PICK s \in Slugs, n \in -MaxCount..MaxCount, i \in Items \cup {None} :
          s = album[a].slug /\ n = album[a].count /\ i = album[a].cover
    BY <1>1 DEF AlbumRow
  <1>. DEFINE r == [op |-> op, album |-> a, ids |-> ids, stale |-> FALSE,
                    slug |-> s, count |-> n, cover |-> i]
  <1>3. /\ req' = [req EXCEPT ![c] = r]
        /\ UNCHANGED <<album, links, live, trash, drifted, odd, unnumbered>>
    BY <1>2 DEF ItemsRead
  <1>4. r \in Request /\ r.op \in {"add", "remove"} /\ r.album = a /\ r.count = n /\ r.cover = i
    BY DEF Request, Changing
  <1>. HIDE DEF r
  <1>5. Fresh(r)
    BY <1>1, <1>2, <1>4 DEF Fresh
  <1>. QED
    BY <1>3, <1>4, <1>5, TypeParts, ReadSafe

LEMMA RefusedSafe ==
    ASSUME Inv, NEW c \in Clients, CreateRefused(c) \/ RenameRefused(c)
    PROVE  Inv'
  BY TypeParts, EndSafe DEF CreateRefused, RenameRefused

-----------------------------------------------------------------------------
(* Albums come, go and are renamed                                         *)

LEMMA CreateSaveSafe ==
    ASSUME Inv, NEW c \in Clients, CreateSave(c)
    PROVE  Inv'
  <1>1. PICK a \in Albums :
          /\ ~Exists(a) /\ album' = [album EXCEPT ![a] = Row(req[c].title, req[c].slug)]
          /\ Done(c, a)
    BY DEF CreateSave
  <1>2. /\ req[c] # None /\ req[c].op = "create" /\ ~Taken(req[c].slug)
        /\ UNCHANGED <<links, live, trash, drifted, odd, unnumbered>>
    BY DEF CreateSave, Doing, Idle
  <1>3. PICK s \in Slugs, t \in Titles : s = req[c].slug /\ t = req[c].title
    BY <1>2, TypeParts, RequestTyped
  <1>. DEFINE row == [title |-> t, slug |-> s, count |-> 0, cover |-> None]
  <1>4. row \in AlbumRow /\ row.slug = s /\ row.count = 0 /\ row.cover = None
    BY AlbumsAssumption DEF AlbumRow
  <1>5. album' = [album EXCEPT ![a] = row]
    BY <1>1, <1>3 DEF Row
  <1>. HIDE DEF row
  <1>6. /\ album' \in [Albums -> AlbumRow \cup {None}] /\ album'[a] = row
        /\ \A b \in Albums \ {a} : album'[b] = album[b]
    BY <1>4, <1>5, TypeParts
  <1>7. row # None /\ album[a] = None
    BY <1>1, <1>4, NoneAssumption DEF Exists
  <1>8. /\ req' \in [Clients -> Request \cup {None}]
        /\ \A d \in Clients :
             /\ Continues(req[d], req'[d])
             /\ req'[d] # None /\ ~req'[d].stale =>
                  req[d].op \in {"add", "remove"} /\ req[d].album # a
    BY <1>1, TypeParts, DoneFits
  <1>9. TypeOK'
    <2>1. \A b \in Albums : Exists(b)' => album'[b].cover \in Rows' \cup {None}
      BY <1>2, <1>4, <1>6, TypeParts DEF Exists, Rows
    <2>2. links' \subseteq {b \in Albums : Exists(b)'} \X Rows'
      BY <1>2, <1>6, <1>7, TypeParts DEF Exists, Rows
    <2>. QED
      BY <1>2, <1>6, <1>8, <2>1, <2>2, TypeParts DEF TypeOK, Rows
  <1>10. ASSUME NEW b \in Albums PROVE AlbumFits(b)'
    <2>0. AlbumFits(b) /\ Linked(b)' = Linked(b)
      BY <1>2 DEF Inv, Linked
    <2>1. CASE b # a
      BY <1>2, <1>6, <2>0, <2>1, AlbumKept
    <2>2. CASE b = a
      <3>1. Linked(a) = {}
        BY <1>1, TypeParts DEF Linked
      <3>2. Cardinality(Linked(a)) = 0
        BY <3>1, FS_EmptySet
      <3>. QED
        BY <1>4, <1>6, <2>0, <2>2, <3>2 DEF AlbumFits
    <2>. QED
      BY <2>1, <2>2
  <1>11. ASSUME NEW d \in Clients PROVE Fresh(req[d])'
    <2>1. req'[d] # None /\ req'[d].op \in {"add", "remove"} /\ ~req'[d].stale =>
            album'[req[d].album] = album[req[d].album]
      BY <1>6, <1>8, TypeParts, RequestTyped DEF Continues
    <2>. QED
      BY <1>8, <2>1, FreshKept DEF Inv
  <1>12. Numbering'
    <2>. SUFFICES ASSUME ~unnumbered' PROVE Numbering'
      BY DEF Numbering
    <2>0. ~unnumbered /\ Numbering
      BY <1>2 DEF Inv
    <2>1. ASSUME NEW z
          PROVE  /\ Counted(z)' >= Counted(z) /\ Counted(z) \in Nat /\ Counted(z)' \in Nat
                 /\ Numbered(s) /\ [s EXCEPT !.numbers = Front(@)] = z => Counted(z)' = Counted(z) + 1
      <3>. DEFINE N == {b \in Albums : /\ Exists(b) /\ Numbered(album[b].slug)
                                       /\ \/ z = EmptySlug
                                          \/ [album[b].slug EXCEPT !.numbers = Front(@)] = z}
                  M == {b \in Albums : /\ Exists(b)' /\ Numbered(album'[b].slug)
                                       /\ \/ z = EmptySlug
                                          \/ [album'[b].slug EXCEPT !.numbers = Front(@)] = z}
      <3>1. Counted(z) = Cardinality(N) /\ Counted(z)' = Cardinality(M)
        BY DEF Counted
      <3>2. N \subseteq M /\ M \subseteq N \cup {a} /\ a \notin N /\ N \subseteq Albums
        BY <1>6, <1>7 DEF Exists
      <3>3. Numbered(s) /\ [s EXCEPT !.numbers = Front(@)] = z => a \in M
        BY <1>4, <1>6, <1>7 DEF Exists
      <3>. HIDE DEF N, M
      <3>4. IsFiniteSet(N) /\ IsFiniteSet(N \cup {a}) /\ Cardinality(N \cup {a}) = Cardinality(N) + 1
        <4>1. IsFiniteSet(N)
          BY <3>2, FS_Subset, AlbumsAssumption
        <4>. QED
          BY <3>2, <4>1, FS_AddElement
      <3>5. Cardinality(N) \in Nat
        BY <3>4, FS_CardinalityType
      <3>6. M = N \/ M = N \cup {a}
        BY <3>2
      <3>7. Numbered(s) /\ [s EXCEPT !.numbers = Front(@)] = z => M = N \cup {a}
        BY <3>2, <3>3
      <3>8. Counted(z)' = Counted(z) \/ Counted(z)' = Counted(z) + 1
        BY <3>1, <3>4, <3>6
      <3>9. Numbered(s) /\ [s EXCEPT !.numbers = Front(@)] = z => Counted(z)' = Counted(z) + 1
        BY <3>1, <3>4, <3>7
      <3>10. Counted(z) \in Nat
        BY <3>1, <3>5
      <3>11. Counted(z)' >= Counted(z) /\ Counted(z)' \in Nat
        BY <3>8, <3>10
      <3>. QED
        BY <3>9, <3>10, <3>11
    <2>2. NumberUpTo(s, Counted(Base(s)) + 1)
      BY <1>2, <1>3, <2>0 DEF Numbering
    <2>3. NumberUpTo(s, Counted(Base(s))')
      <3>1. CASE s.numbers = <<>>
        BY <3>1 DEF NumberUpTo
      <3>2. CASE s.numbers # <<>>
        <4>1. PICK k \in 1..(Counted(Base(s)) + 1) : s.numbers = <<k>>
          BY <2>2, <3>2 DEF NumberUpTo
        <4>2. Front(s.numbers) = <<>>
          BY <2>1, <4>1 DEF Front
        <4>3. Numbered(s) /\ [s EXCEPT !.numbers = Front(@)] = Base(s)
          BY <3>2, <4>2 DEF Numbered, Base, Slugs
        <4>4. Counted(Base(s))' = Counted(Base(s)) + 1
          BY <2>1, <4>3
        <4>. QED
          BY <2>1, <4>1, <4>4 DEF NumberUpTo
      <3>. QED
        BY <3>1, <3>2
    <2>4. ASSUME NEW z \in Slugs, NumberUpTo(z, Counted(Base(z))) PROVE NumberUpTo(z, Counted(Base(z))')
      BY <2>1, <2>4 DEF NumberUpTo
    <2>5. ASSUME NEW b \in Albums, Exists(b)'
          PROVE  NumberUpTo(album'[b].slug, Counted(Base(album[b].slug))')
      <3>1. CASE b = a
        BY <1>4, <1>6, <2>3, <3>1 DEF Base
      <3>2. CASE b # a
        <4>1. Exists(b) /\ album'[b] = album[b] /\ album[b].slug \in Slugs
          BY <1>6, <2>5, <3>2, TypeParts DEF Exists, AlbumRow
        <4>2. NumberUpTo(album[b].slug, Counted(Base(album[b].slug)))
          BY <2>0, <4>1 DEF Numbering
        <4>3. PICK z \in Slugs : z = album[b].slug /\ z = album'[b].slug
          BY <4>1
        <4>. QED
          BY <2>4, <4>2, <4>3 DEF Base
      <3>. QED
        BY <3>1, <3>2
    <2>6. ASSUME NEW d \in Clients, req'[d] # None
          PROVE  /\ req'[d].op = "create" =>
                      NumberUpTo(req'[d].slug, Counted(Base(req[d].slug))' + 1)
                 /\ req'[d].op \in {"create", "rename"} => req'[d].stale
      <3>1. req[d] # None /\ req'[d].op = req[d].op /\ req'[d].slug = req[d].slug
        BY <1>8, <2>6 DEF Continues
      <3>2. PICK z \in Slugs : z = req[d].slug /\ z = req'[d].slug
        BY <3>1, TypeParts, RequestTyped
      <3>3. req'[d].op = "create" => NumberUpTo(z, Counted(Base(z)) + 1)
        BY <2>0, <3>1, <3>2 DEF Numbering
      <3>4. req'[d].op = "create" => NumberUpTo(z, Counted(Base(z))' + 1)
        BY <2>1, <3>3 DEF NumberUpTo
      <3>. QED
        BY <1>8, <2>6, <3>1, <3>2, <3>4 DEF Base
    <2>. QED
      BY <2>5, <2>6 DEF Numbering, NumberUpTo, Base
  <1>. QED
    BY <1>9, <1>10, <1>11, <1>12 DEF Inv

-----------------------------------------------------------------------------
(* One row is written                                                      *)

LEMMA RowSafe ==
    ASSUME Inv, NEW a \in Albums, Exists(a), NEW row \in AlbumRow, album' = [album EXCEPT ![a] = row],
           \/ row.slug = album[a].slug /\ UNCHANGED unnumbered
           \/ unnumbered' = TRUE,
           row.cover \in Rows \cup {None}, UNCHANGED <<live, trash>>,
           links' \subseteq {b \in Albums : Exists(b)} \X Rows,
           \A b \in Albums \ {a} : Linked(b)' = Linked(b),
           drifted \subseteq drifted', odd \subseteq odd', drifted' \cup odd' \subseteq Albums,
           req' \in [Clients -> Request \cup {None}],
           \A c \in Clients : /\ Continues(req[c], req'[c])
                              /\ req'[c] # None /\ ~req'[c].stale =>
                                   req[c].op \in {"add", "remove"} /\ req[c].album # a,
           row.count # Cardinality(Linked(a)') => a \in drifted',
           row.cover # None /\ a \notin odd' => row.cover \in live /\ row.cover \in Linked(a)'
    PROVE  Inv'
  <1>1. /\ album' \in [Albums -> AlbumRow \cup {None}] /\ album'[a] = row
        /\ \A b \in Albums \ {a} : album'[b] = album[b]
    BY TypeParts
  <1>2. \A b \in Albums : Exists(b)' <=> Exists(b)
    BY <1>1, NoneAssumption DEF Exists
  <1>3. TypeOK'
    <2>1. \A b \in Albums : Exists(b)' => album'[b].cover \in Rows' \cup {None}
      BY <1>1, <1>2, TypeParts DEF Rows
    <2>2. links' \subseteq {b \in Albums : Exists(b)'} \X Rows'
      BY <1>2 DEF Rows
    <2>3. unnumbered' \in BOOLEAN /\ live' \cap trash' = {} /\ Rows' \subseteq Items
      BY TypeParts DEF Rows
    <2>. QED
      BY <1>1, <2>1, <2>2, <2>3 DEF TypeOK
  <1>4. ASSUME NEW b \in Albums PROVE AlbumFits(b)'
    <2>1. CASE b # a
      <3>1. AlbumFits(b) /\ Linked(b)' = Linked(b) /\ album'[b] = album[b]
        BY <1>1, <2>1 DEF Inv
      <3>. QED
        BY <3>1, AlbumKept
    <2>2. CASE b = a
      BY <1>1, <2>2 DEF AlbumFits
    <2>. QED
      BY <2>1, <2>2
  <1>5. ASSUME NEW d \in Clients PROVE Fresh(req[d])'
    <2>1. req'[d] # None /\ req'[d].op \in {"add", "remove"} /\ ~req'[d].stale =>
            album'[req[d].album] = album[req[d].album]
      BY <1>1, TypeParts, RequestTyped DEF Continues
    <2>. QED
      BY <2>1, FreshKept DEF Inv
  <1>6. Numbering'
    <2>1. CASE unnumbered' = TRUE
      BY <2>1 DEF Numbering
    <2>2. CASE row.slug = album[a].slug /\ UNCHANGED unnumbered
      BY <1>1, <1>2, <2>2, NumberingKept DEF Inv
    <2>. QED
      BY <2>1, <2>2
  <1>. QED
    BY <1>3, <1>4, <1>5, <1>6 DEF Inv

\* What a step on the row of album a does to the requests.
LEMMA TouchedAll ==
    ASSUME TypeOK, NEW a, req' = Touched({a})
    PROVE  /\ req' \in [Clients -> Request \cup {None}]
           /\ \A c \in Clients : /\ Continues(req[c], req'[c])
                                 /\ req'[c] # None /\ ~req'[c].stale =>
                                      req[c].op \in {"add", "remove"} /\ req[c].album # a
  BY TouchedFits

LEMMA RenameSaveSafe ==
    ASSUME Inv, NEW c \in Clients, RenameSave(c)
    PROVE  Inv'
  <1>1. PICK a \in Albums :
          /\ Exists(a) /\ Done(c, a)
          /\ album' = [album EXCEPT ![a] = [album[a] EXCEPT !.title = req[c].title, !.slug = req[c].slug]]
    BY DEF RenameSave
  <1>2. /\ req[c] # None /\ req[c].op = "rename" /\ unnumbered' = TRUE
        /\ UNCHANGED <<links, live, trash, drifted, odd>>
    BY DEF RenameSave, Doing, Idle
  <1>3. album[a] \in AlbumRow /\ req[c].slug \in Slugs /\ req[c].title \in Titles
    BY <1>1, <1>2, TypeParts, RequestTyped
  <1>4. PICK row \in AlbumRow : row = [album[a] EXCEPT !.title = req[c].title, !.slug = req[c].slug]
    BY <1>3 DEF AlbumRow
  <1>5. row.count = album[a].count /\ row.cover = album[a].cover
    BY <1>3, <1>4 DEF AlbumRow
  <1>6. \A b \in Albums : Linked(b)' = Linked(b)
    BY <1>2 DEF Linked
  <1>7. /\ row.count # Cardinality(Linked(a)') => a \in drifted'
        /\ row.cover # None /\ a \notin odd' => row.cover \in live /\ row.cover \in Linked(a)'
    BY <1>1, <1>2, <1>5, <1>6 DEF Inv, AlbumFits
  <1>8. /\ req' \in [Clients -> Request \cup {None}]
        /\ \A d \in Clients :
             /\ Continues(req[d], req'[d])
             /\ req'[d] # None /\ ~req'[d].stale =>
                  req[d].op \in {"add", "remove"} /\ req[d].album # a
    BY <1>1, TypeParts, DoneFits
  <1>9. row.cover \in Rows \cup {None} /\ links' \subseteq {b \in Albums : Exists(b)} \X Rows
    BY <1>1, <1>2, <1>5, TypeParts
  <1>10. album' = [album EXCEPT ![a] = row] /\ drifted' \cup odd' \subseteq Albums
    BY <1>1, <1>2, <1>4, TypeParts
  <1>. QED
    BY <1>1, <1>2, <1>6, <1>7, <1>8, <1>9, <1>10, RowSafe

LEMMA SetCoverSafe ==
    ASSUME Inv, NEW a \in Albums, NEW i \in Items \cup {None}, Exists(a), i \in Rows \cup {None},
           album' = [album EXCEPT ![a].cover = i], i # None => a \in odd',
           odd \subseteq odd', odd' \subseteq Albums, req' = Touched({a}),
           UNCHANGED <<links, live, trash, drifted, unnumbered>>
    PROVE  Inv'
  <1>1. album[a] \in AlbumRow
    BY TypeParts
  <1>2. PICK row \in AlbumRow : row = [album[a] EXCEPT !.cover = i]
    BY <1>1 DEF AlbumRow
  <1>3. row.count = album[a].count /\ row.cover = i /\ row.slug = album[a].slug
    BY <1>1, <1>2 DEF AlbumRow
  <1>4. \A b \in Albums : Linked(b)' = Linked(b)
    BY DEF Linked
  <1>5. row.count # Cardinality(Linked(a)') => a \in drifted'
    BY <1>3, <1>4 DEF Inv, AlbumFits
  <1>6. album' = [album EXCEPT ![a] = row]
    BY <1>2
  <1>7. /\ req' \in [Clients -> Request \cup {None}]
        /\ \A d \in Clients :
             /\ Continues(req[d], req'[d])
             /\ req'[d] # None /\ ~req'[d].stale =>
                  req[d].op \in {"add", "remove"} /\ req[d].album # a
    BY TypeParts, TouchedAll
  <1>8. links' \subseteq {b \in Albums : Exists(b)} \X Rows /\ drifted' \cup odd' \subseteq Albums
    BY TypeParts
  <1>9. row.cover # None /\ a \notin odd' => row.cover \in live /\ row.cover \in Linked(a)'
    BY <1>3
  <1>10. /\ \/ row.slug = album[a].slug /\ UNCHANGED unnumbered
            \/ unnumbered' = TRUE
         /\ row.cover \in Rows \cup {None} /\ UNCHANGED <<live, trash>>
         /\ drifted \subseteq drifted' /\ odd \subseteq odd'
         /\ \A b \in Albums \ {a} : Linked(b)' = Linked(b)
    BY <1>3, <1>4
  <1>. QED
    BY <1>5, <1>6, <1>7, <1>8, <1>9, <1>10, RowSafe, Zenon

LEMMA ChangeCoverSafe ==
    ASSUME Inv, NEW a \in Albums, ChangeCover(a)
    PROVE  Inv'
  <1>1. CASE RemoveCover(a)
    BY <1>1, TypeParts, SetCoverSafe DEF RemoveCover
  <1>2. ASSUME NEW i \in Items, SetCover(a, i) PROVE Inv'
    BY <1>2, TypeParts, SetCoverSafe DEF SetCover
  <1>. QED
    BY <1>1, <1>2 DEF ChangeCover

\* What a request to change the items of an album finds.
LEMMA ChangingFinds ==
    ASSUME Inv, NEW c \in Clients, Doing(c, "add") \/ Doing(c, "remove")
    PROVE  /\ req[c] # None /\ req[c].album \in Albums /\ req[c].ids \in Seq(Items)
           /\ req[c].ids # <<>> /\ Len(req[c].ids) \in Nat /\ req[c].ids[1] \in ToSet(req[c].ids)
           /\ ToSet(req[c].ids) \subseteq Items
           /\ req[c].count \in Int /\ req[c].cover \in Items \cup {None} /\ req[c].stale \in BOOLEAN
           /\ ~req[c].stale => Exists(req[c].album)
                                 /\ album[req[c].album].count = req[c].count
                                 /\ album[req[c].album].cover = req[c].cover
  <1>1. req[c] # None /\ req[c].op \in {"add", "remove"}
    BY DEF Doing, Idle
  <1>2. /\ req[c].album \in Albums /\ req[c].ids \in Asked /\ req[c].cover \in Items \cup {None}
        /\ req[c].count \in -MaxCount..MaxCount /\ req[c].stale \in BOOLEAN
    BY <1>1, TypeParts, RequestTyped
  <1>3. req[c].ids \in Seq(Items) /\ req[c].ids # <<>>
    BY <1>2, AlbumsAssumption
  <1>4. Len(req[c].ids) \in Nat /\ req[c].ids[1] \in ToSet(req[c].ids) /\ ToSet(req[c].ids) \subseteq Items
    BY <1>3 DEF ToSet
  <1>5. req[c].count \in Int
    BY <1>2, AlbumsAssumption
  <1>6. Fresh(req[c])
    BY DEF Inv
  <1>. QED
    BY <1>1, <1>2, <1>3, <1>4, <1>5, <1>6 DEF Fresh

LEMMA AddSaveSafe ==
    ASSUME Inv, NEW c \in Clients, AddSave(c)
    PROVE  Inv'
  <1>0. /\ Doing(c, "add") /\ UNCHANGED <<live, trash, unnumbered>>
    BY DEF AddSave
  <1>1. PICK a \in Albums, ids \in Seq(Items), n \in Int, v \in Items \cup {None}, st \in BOOLEAN :
          /\ a = req[c].album /\ ids = req[c].ids /\ n = req[c].count /\ v = req[c].cover
          /\ st = req[c].stale
    BY <1>0, ChangingFinds
  <1>2. /\ Len(ids) \in Nat /\ ids[1] \in ToSet(ids) /\ ToSet(ids) \subseteq Items
        /\ ~st => Exists(a) /\ album[a].count = n /\ album[a].cover = v
    BY <1>0, <1>1, ChangingFinds
  <1>3. CASE req' = [req EXCEPT ![c] = None] /\ UNCHANGED <<album, links, drifted, odd>>
    BY <1>0, <1>3, TypeParts, EndSafe
  <1>4. CASE /\ Exists(a) /\ (v = None => ids[1] \in Rows)
             /\ Within(n + Len(ids)) /\ AddItems(a, req[c]) /\ Done(c, a)
             /\ drifted' = IF st \/ ~Plain(ids, Rows \ Linked(a)) THEN drifted \cup {a} ELSE drifted
             /\ odd' = IF st \/ ids[1] \notin live THEN odd \cup {a} ELSE odd
    <2>1. album[a] \in AlbumRow /\ album[a].cover \in Rows \cup {None} /\ Rows \subseteq Items
      BY <1>4, TypeParts
    <2>2. PICK w \in Rows \cup {None} : w = IF v = None THEN ids[1] ELSE album[a].cover
      BY <1>4, <2>1
    <2>3. PICK row \in AlbumRow : row = [album[a] EXCEPT !.count = n + Len(ids), !.cover = w]
      BY <1>4, <2>1 DEF AlbumRow, Within
    <2>4. row.count = n + Len(ids) /\ row.cover = w /\ row.slug = album[a].slug
      BY <2>1, <2>3 DEF AlbumRow
    <2>5. album' = [album EXCEPT ![a] = row] /\ links' = links \cup ({a} \X (ToSet(ids) \cap Rows))
      BY <1>1, <1>4, <2>2, <2>3 DEF AddItems
    <2>6. /\ \A b \in Albums \ {a} : Linked(b)' = Linked(b)
          /\ Linked(a)' = Linked(a) \cup (ToSet(ids) \cap Rows)
      BY <2>1, <2>5 DEF Linked
    <2>7. links' \subseteq {b \in Albums : Exists(b)} \X Rows
      BY <1>4, <2>5, TypeParts
    <2>8. ASSUME row.count # Cardinality(Linked(a)') PROVE a \in drifted'
      <3>. SUFFICES ASSUME a \notin drifted' PROVE FALSE
        OBVIOUS
      <3>1. ~st /\ Plain(ids, Rows \ Linked(a)) /\ a \notin drifted
        BY <1>4
      <3>2. n = Cardinality(Linked(a))
        BY <1>2, <3>1 DEF Inv, AlbumFits
      <3>3. IsInjective(ids) /\ Linked(a)' = Linked(a) \cup ToSet(ids) /\ Linked(a) \cap ToSet(ids) = {}
        BY <2>6, <3>1 DEF Plain
      <3>4. IsFiniteSet(ToSet(ids)) /\ Cardinality(ToSet(ids)) = Len(ids) /\ IsFiniteSet(Linked(a))
        BY <3>3, Distinct, TypeParts
      <3>5. Cardinality(Linked(a) \cup ToSet(ids)) = Cardinality(Linked(a)) + Cardinality(ToSet(ids))
        BY <3>3, <3>4, MoreLinks
      <3>6. Cardinality(Linked(a)') = n + Len(ids)
        BY <3>2, <3>3, <3>4, <3>5
      <3>. QED
        BY <2>4, <2>8, <3>6
    <2>9. ASSUME row.cover # None, a \notin odd' PROVE row.cover \in live /\ row.cover \in Linked(a)'
      <3>1. ~st /\ ids[1] \in live /\ a \notin odd
        BY <1>4, <2>9
      <3>2. CASE v = None
        BY <1>2, <1>4, <2>2, <2>4, <2>6, <3>1, <3>2
      <3>3. CASE v # None
        <4>1. album[a].cover \in live \cap Linked(a)
          BY <1>2, <3>1, <3>3 DEF Inv, AlbumFits
        <4>. QED
          BY <2>2, <2>4, <2>6, <3>3, <4>1
      <3>. QED
        BY <3>2, <3>3
    <2>10. /\ req' \in [Clients -> Request \cup {None}]
           /\ \A d \in Clients :
                /\ Continues(req[d], req'[d])
                /\ req'[d] # None /\ ~req'[d].stale =>
                     req[d].op \in {"add", "remove"} /\ req[d].album # a
      BY <1>4, TypeParts, DoneFits
    <2>11. drifted \subseteq drifted' /\ odd \subseteq odd' /\ drifted' \cup odd' \subseteq Albums
      BY <1>4, TypeParts
    <2>. QED
      BY <1>0, <1>4, <2>2, <2>4, <2>5, <2>6, <2>7, <2>8, <2>9, <2>10, <2>11, RowSafe
  <1>. QED
    BY <1>1, <1>3, <1>4 DEF AddSave

LEMMA RemoveSaveSafe ==
    ASSUME Inv, NEW c \in Clients, RemoveSave(c)
    PROVE  Inv'
  <1>0. /\ Doing(c, "remove") /\ UNCHANGED <<live, trash, unnumbered>>
        /\ odd' = IF req[c].stale THEN odd \cup {req[c].album} ELSE odd
    BY DEF RemoveSave
  <1>1. PICK a \in Albums, ids \in Seq(Items), n \in Int, v \in Items \cup {None}, st \in BOOLEAN :
          /\ a = req[c].album /\ ids = req[c].ids /\ n = req[c].count /\ v = req[c].cover
          /\ st = req[c].stale
    BY <1>0, ChangingFinds
  <1>2. /\ Len(ids) \in Nat /\ ToSet(ids) \subseteq Items
        /\ ~st => Exists(a) /\ album[a].count = n /\ album[a].cover = v
    BY <1>0, <1>1, ChangingFinds
  <1>a. odd \subseteq odd' /\ odd' \subseteq Albums
    BY <1>0, <1>1, TypeParts
  <1>3. CASE req' = [req EXCEPT ![c] = None] /\ UNCHANGED <<album, links, drifted>>
    BY <1>0, <1>3, <1>a, TypeParts, EndSafe
  <1>4. CASE /\ Exists(a) /\ Within(n - Len(ids)) /\ RemoveItems(a, req[c]) /\ Done(c, a)
             /\ drifted' = IF st \/ ~Plain(ids, Linked(a)) THEN drifted \cup {a} ELSE drifted
    <2>1. album[a] \in AlbumRow /\ album[a].cover \in Rows \cup {None} /\ Rows \subseteq Items
          /\ live \subseteq Items
      BY <1>4, TypeParts
    <2>. DEFINE left == links \ ({a} \X (ToSet(ids) \cap Rows))
                next == Candidate(a, left, live)
    <2>2. links' = left
      BY <1>1, <1>4 DEF RemoveItems
    <2>3. next # None => next \in live /\ <<a, next>> \in left
      BY <2>1, CandidateFits
    <2>4. PICK w \in Rows \cup {None} : w = IF v \in ToSet(ids) THEN next ELSE album[a].cover
      BY <2>1, <2>3 DEF Rows
    <2>5. PICK row \in AlbumRow : row = [album[a] EXCEPT !.count = n - Len(ids), !.cover = w]
      BY <1>4, <2>1 DEF AlbumRow, Within
    <2>6. row.count = n - Len(ids) /\ row.cover = w /\ row.slug = album[a].slug
      BY <2>1, <2>5 DEF AlbumRow
    <2>7. album' = [album EXCEPT ![a] = row]
      BY <1>1, <1>4, <2>4, <2>5 DEF RemoveItems
    <2>8. /\ \A b \in Albums \ {a} : Linked(b)' = Linked(b)
          /\ Linked(a)' = Linked(a) \ ToSet(ids)
      <3>1. Linked(a) \subseteq Rows
        BY TypeParts
      <3>. QED
        BY <2>2, <3>1 DEF Linked
    <2>9. links' \subseteq {b \in Albums : Exists(b)} \X Rows
      BY <2>2, TypeParts
    <2>10. next # None => next \in Linked(a)'
      BY <2>1, <2>2, <2>3 DEF Linked
    <2>. HIDE DEF left, next
    <2>11. ASSUME row.count # Cardinality(Linked(a)') PROVE a \in drifted'
      <3>. SUFFICES ASSUME a \notin drifted' PROVE FALSE
        OBVIOUS
      <3>1. ~st /\ Plain(ids, Linked(a)) /\ a \notin drifted
        BY <1>4
      <3>2. n = Cardinality(Linked(a))
        BY <1>2, <3>1 DEF Inv, AlbumFits
      <3>3. IsInjective(ids) /\ ToSet(ids) \subseteq Linked(a)
        BY <3>1 DEF Plain
      <3>4. IsFiniteSet(ToSet(ids)) /\ Cardinality(ToSet(ids)) = Len(ids) /\ IsFiniteSet(Linked(a))
        BY <3>3, Distinct, TypeParts
      <3>5. Cardinality(Linked(a) \ ToSet(ids)) = Cardinality(Linked(a)) - Cardinality(ToSet(ids))
        BY <3>3, <3>4, MoreLinks
      <3>6. Cardinality(Linked(a)') = n - Len(ids)
        BY <2>8, <3>2, <3>4, <3>5
      <3>. QED
        BY <2>6, <2>11, <3>6
    <2>12. ASSUME row.cover # None, a \notin odd' PROVE row.cover \in live /\ row.cover \in Linked(a)'
      <3>1. ~st /\ a \notin odd
        BY <1>0, <1>1, <2>12
      <3>2. CASE v \in ToSet(ids)
        BY <2>3, <2>4, <2>6, <2>10, <2>12, <3>2
      <3>3. CASE v \notin ToSet(ids)
        <4>1. album[a].cover = v /\ album[a].cover = row.cover
          BY <1>2, <2>4, <2>6, <3>1, <3>3
        <4>2. album[a].cover \in live \cap Linked(a)
          BY <1>2, <2>12, <3>1, <4>1 DEF Inv, AlbumFits
        <4>. QED
          BY <2>8, <3>3, <4>1, <4>2
      <3>. QED
        BY <3>2, <3>3
    <2>13. /\ req' \in [Clients -> Request \cup {None}]
           /\ \A d \in Clients :
                /\ Continues(req[d], req'[d])
                /\ req'[d] # None /\ ~req'[d].stale =>
                     req[d].op \in {"add", "remove"} /\ req[d].album # a
      BY <1>4, TypeParts, DoneFits
    <2>14. drifted \subseteq drifted' /\ drifted' \cup odd' \subseteq Albums
      BY <1>4, <1>a, TypeParts
    <2>. QED
      BY <1>0, <1>a, <1>4, <2>4, <2>6, <2>7, <2>8, <2>9, <2>11, <2>12, <2>13, <2>14, RowSafe
  <1>. QED
    BY <1>1, <1>3, <1>4 DEF RemoveSave

\* The row goes, with its links.
LEMMA DeleteAlbumSafe ==
    ASSUME Inv, NEW a \in Albums, DeleteAlbum(a)
    PROVE  Inv'
  <1>1. /\ album' = [album EXCEPT ![a] = None] /\ links' = {l \in links : l[1] # a}
        /\ drifted' = drifted \ {a} /\ odd' = odd \ {a} /\ unnumbered' = TRUE
        /\ req' = Touched({a}) /\ UNCHANGED <<live, trash>>
    BY DEF DeleteAlbum
  <1>2. /\ album' \in [Albums -> AlbumRow \cup {None}] /\ album'[a] = None
        /\ \A b \in Albums \ {a} : album'[b] = album[b]
    BY <1>1, TypeParts
  <1>3. /\ ~Exists(a)' /\ \A b \in Albums \ {a} : Exists(b)' <=> Exists(b)
    BY <1>2 DEF Exists
  <1>4. /\ req' \in [Clients -> Request \cup {None}]
        /\ \A d \in Clients :
             /\ Continues(req[d], req'[d])
             /\ req'[d] # None /\ ~req'[d].stale =>
                  req[d].op \in {"add", "remove"} /\ req[d].album # a
    BY <1>1, TypeParts, TouchedAll
  <1>5. TypeOK'
    <2>1. \A b \in Albums : Exists(b)' => album'[b].cover \in Rows' \cup {None}
      BY <1>1, <1>2, <1>3, TypeParts DEF Rows
    <2>2. links' \subseteq {b \in Albums : Exists(b)'} \X Rows'
      BY <1>1, <1>3, TypeParts DEF Rows
    <2>3. live' \cap trash' = {} /\ Rows' \subseteq Items /\ drifted' \cup odd' \subseteq Albums
      BY <1>1, TypeParts DEF Rows
    <2>. QED
      BY <1>1, <1>2, <1>4, <2>1, <2>2, <2>3 DEF TypeOK
  <1>6. ASSUME NEW b \in Albums PROVE AlbumFits(b)'
    <2>1. CASE b # a
      <3>1. Linked(b)' = Linked(b)
        BY <1>1, <2>1 DEF Linked
      <3>. QED
        BY <1>1, <1>2, <2>1, <3>1, AlbumKept DEF Inv
    <2>2. CASE b = a
      BY <1>3, <2>2 DEF AlbumFits
    <2>. QED
      BY <2>1, <2>2
  <1>7. ASSUME NEW d \in Clients PROVE Fresh(req[d])'
    <2>1. req'[d] # None /\ req'[d].op \in {"add", "remove"} /\ ~req'[d].stale =>
            album'[req[d].album] = album[req[d].album]
      BY <1>2, <1>4, TypeParts, RequestTyped DEF Continues
    <2>. QED
      BY <1>4, <2>1, FreshKept DEF Inv
  <1>8. Numbering'
    BY <1>1 DEF Numbering
  <1>. QED
    BY <1>5, <1>6, <1>7, <1>8 DEF Inv

-----------------------------------------------------------------------------
(* Covers of many rows are written                                         *)

\* The rows with the covers given are what they were but for the covers.
LEMMA CoversOnly ==
    ASSUME Inv, NEW A \in SUBSET {b \in Albums : Exists(b)}, NEW covers \in [A -> Items \cup {None}],
           album' = WithCovers(A, covers)
    PROVE  /\ album' \in [Albums -> AlbumRow \cup {None}]
           /\ \A b \in Albums :
                /\ Exists(b)' <=> Exists(b)
                /\ Exists(b) => /\ album'[b].slug = album[b].slug
                                /\ album'[b].count = album[b].count
                                /\ album'[b].cover = IF b \in A THEN covers[b] ELSE album[b].cover
                /\ b \notin A => album'[b] = album[b]
  <1>. SUFFICES ASSUME NEW b \in Albums
                PROVE  /\ album'[b] \in AlbumRow \cup {None}
                       /\ Exists(b)' <=> Exists(b)
                       /\ Exists(b) => /\ album'[b].slug = album[b].slug
                                       /\ album'[b].count = album[b].count
                                       /\ album'[b].cover = IF b \in A THEN covers[b] ELSE album[b].cover
                       /\ b \notin A => album'[b] = album[b]
    BY DEF WithCovers
  <1>1. CASE b \in A
    <2>1. Exists(b) /\ album[b] \in AlbumRow /\ covers[b] \in Items \cup {None}
      BY <1>1, TypeParts
    <2>2. album'[b] = [album[b] EXCEPT !.cover = covers[b]]
      BY <1>1 DEF WithCovers
    <2>3. /\ album'[b] \in AlbumRow /\ album'[b].slug = album[b].slug
          /\ album'[b].count = album[b].count /\ album'[b].cover = covers[b]
      BY <2>1, <2>2 DEF AlbumRow
    <2>4. album'[b] # None
      BY <2>3, NoneAssumption
    <2>. QED
      BY <1>1, <2>1, <2>3, <2>4 DEF Exists
  <1>2. CASE b \notin A
    <2>1. album'[b] = album[b]
      BY <1>2 DEF WithCovers
    <2>. QED
      BY <1>2, <2>1, TypeParts DEF Exists
  <1>. QED
    BY <1>1, <1>2

\* A step that writes covers only, marks the requests on the rows it changes and
\* leaves every row fitting.
LEMMA CoversSafe ==
    ASSUME Inv, NEW A \in SUBSET {b \in Albums : Exists(b)}, NEW covers \in [A -> Items \cup {None}],
           album' = WithCovers(A, covers),
           req' = Touched({b \in Albums : album'[b] # album[b]}),
           UNCHANGED <<odd, unnumbered>>, drifted' \subseteq Albums,
           \A b \in A : covers[b] \in Rows' \cup {None},
           \A b \in Albums \ A : Exists(b) => album[b].cover \in Rows' \cup {None},
           links' \subseteq {b \in Albums : Exists(b)} \X Rows',
           live' \cap trash' = {}, Rows' \subseteq Items,
           \A b \in Albums : AlbumFits(b)'
    PROVE  Inv'
  <1>. DEFINE B == {b \in Albums : album'[b] # album[b]}
  <1>1. /\ album' \in [Albums -> AlbumRow \cup {None}]
        /\ \A b \in Albums :
             /\ Exists(b)' <=> Exists(b)
             /\ Exists(b) => /\ album'[b].slug = album[b].slug
                             /\ album'[b].cover = IF b \in A THEN covers[b] ELSE album[b].cover
    BY CoversOnly
  <1>2. /\ req' \in [Clients -> Request \cup {None}]
        /\ \A d \in Clients :
             /\ Continues(req[d], req'[d])
             /\ req'[d] # None /\ ~req'[d].stale =>
                  req[d].op \in {"add", "remove"} /\ req[d].album \notin B
    BY TypeParts, TouchedFits
  <1>3. TypeOK'
    <2>1. \A b \in Albums : Exists(b)' => album'[b].cover \in Rows' \cup {None}
      BY <1>1
    <2>2. links' \subseteq {b \in Albums : Exists(b)'} \X Rows'
      BY <1>1
    <2>3. drifted' \cup odd' \subseteq Albums /\ unnumbered' \in BOOLEAN
      BY TypeParts
    <2>. QED
      BY <1>1, <1>2, <2>1, <2>2, <2>3 DEF TypeOK
  <1>4. ASSUME NEW d \in Clients PROVE Fresh(req[d])'
    <2>1. req'[d] # None /\ req'[d].op \in {"add", "remove"} /\ ~req'[d].stale =>
            album'[req[d].album] = album[req[d].album]
      BY <1>2, TypeParts, RequestTyped DEF Continues
    <2>. QED
      BY <1>2, <2>1, FreshKept DEF Inv
  <1>5. Numbering'
    BY <1>1, <1>2, NumberingKept DEF Inv
  <1>. QED
    BY <1>3, <1>4, <1>5 DEF Inv

LEMMA DeleteBatchSafe ==
    ASSUME Inv, NEW S \in SUBSET Items, DeleteBatch(S)
    PROVE  Inv'
  <1>. DEFINE A == CoveredBy(S \cap Rows)
              covers == [a \in A |-> Candidate(a, links, live \ S)]
  <1>1. /\ album' = WithCovers(A, covers) /\ UNCHANGED <<links, drifted, odd, unnumbered>>
        /\ trash' = trash \cup (S \cap Rows) /\ live' = live \ S
        /\ req' = Touched({b \in Albums : album'[b] # album[b]})
    BY DEF DeleteBatch
  <1>2. /\ A \subseteq {b \in Albums : Exists(b)}
        /\ \A b \in Albums : Exists(b) => (b \in A <=> album[b].cover \in S \cap Rows)
    BY DEF CoveredBy
  <1>3. /\ Rows' = Rows /\ live' \cap trash' = {} /\ live \ S \subseteq Items /\ live' \subseteq Rows
        /\ Rows \subseteq Items
    BY <1>1, TypeParts DEF Rows
  <1>4. \A b \in A : covers[b] # None => covers[b] \in live' /\ <<b, covers[b]>> \in links
    <2>. SUFFICES ASSUME NEW b \in A, covers[b] # None
                  PROVE  covers[b] \in live' /\ <<b, covers[b]>> \in links
      OBVIOUS
    <2>1. covers[b] = Candidate(b, links, live \ S)
      OBVIOUS
    <2>. HIDE DEF covers, A
    <2>. QED
      BY <1>1, <1>3, <2>1, CandidateFits
  <1>. HIDE DEF A
  <1>5. covers \in [A -> Items \cup {None}] /\ \A b \in A : covers[b] \in Rows' \cup {None}
    BY <1>3, <1>4
  <1>. HIDE DEF covers
  <1>6. \A b \in Albums :
          /\ Exists(b)' <=> Exists(b)
          /\ Exists(b) => /\ album'[b].count = album[b].count
                          /\ album'[b].cover = IF b \in A THEN covers[b] ELSE album[b].cover
    BY <1>1, <1>2, <1>5, CoversOnly
  <1>7. \A b \in Albums : Linked(b)' = Linked(b)
    BY <1>1 DEF Linked
  <1>8. ASSUME NEW b \in Albums, Exists(b)' PROVE AlbumFits(b)'
    <2>1. Exists(b) /\ AlbumFits(b)
      BY <1>6, <1>8 DEF Inv
    <2>2. album'[b].count # Cardinality(Linked(b)') => b \in drifted'
      BY <1>1, <1>6, <1>7, <2>1 DEF AlbumFits
    <2>3. ASSUME album'[b].cover # None, b \notin odd' PROVE album'[b].cover \in live' \cap Linked(b)'
      <3>1. CASE b \in A
        <4>1. album'[b].cover \in live' /\ <<b, album'[b].cover>> \in links
          BY <1>4, <1>6, <2>1, <2>3, <3>1
        <4>. QED
          BY <1>3, <1>7, <4>1 DEF Linked
      <3>2. CASE b \notin A
        <4>1. album'[b].cover = album[b].cover /\ album[b].cover \notin S \cap Rows
          BY <1>2, <1>6, <2>1, <3>2
        <4>2. album[b].cover \in live \cap Linked(b)
          BY <1>1, <2>1, <2>3, <4>1 DEF AlbumFits
        <4>. QED
          BY <1>1, <1>7, <4>1, <4>2 DEF Rows
      <3>. QED
        BY <3>1, <3>2
    <2>. QED
      BY <2>2, <2>3 DEF AlbumFits
  <1>9. \A b \in Albums : AlbumFits(b)'
    BY <1>8 DEF AlbumFits
  <1>10. /\ \A b \in Albums \ A : Exists(b) => album[b].cover \in Rows' \cup {None}
         /\ links' \subseteq {b \in Albums : Exists(b)} \X Rows' /\ drifted' \subseteq Albums
    BY <1>1, <1>3, TypeParts
  <1>. QED
    BY <1>1, <1>2, <1>3, <1>5, <1>9, <1>10, CoversSafe

LEMMA RestoreBatchSafe ==
    ASSUME Inv, NEW S \in SUBSET Items, RestoreBatch(S)
    PROVE  Inv'
  <1>1. /\ live' = live \cup (S \cap Rows) /\ trash' = trash \ S
        /\ UNCHANGED <<album, links, req, drifted, odd, unnumbered>>
    BY DEF RestoreBatch
  <1>2. Rows' = Rows /\ live' \cap trash' = {} /\ Rows \subseteq Items /\ live \subseteq live'
    BY <1>1, TypeParts DEF Rows
  <1>3. \A b \in Albums : (Exists(b)' <=> Exists(b)) /\ Linked(b)' = Linked(b)
    BY <1>1 DEF Exists, Linked
  <1>4. TypeOK'
    BY <1>1, <1>2, <1>3, TypeParts DEF TypeOK
  <1>5. \A b \in Albums : AlbumFits(b)'
    BY <1>1, <1>2, <1>3, AlbumKept DEF Inv
  <1>6. ASSUME NEW d \in Clients PROVE Continues(req[d], req'[d])
    BY <1>1, TypeParts DEF Continues
  <1>7. \A d \in Clients : Fresh(req[d])'
    BY <1>1, <1>6, FreshKept DEF Inv
  <1>8. Numbering'
    BY <1>1, <1>3, <1>6, NumberingKept DEF Inv
  <1>. QED
    BY <1>4, <1>5, <1>7, <1>8 DEF Inv

LEMMA DeletePermanentlySafe ==
    ASSUME Inv, NEW S \in SUBSET Items, DeletePermanently(S)
    PROVE  Inv'
  <1>. DEFINE A == CoveredBy(S)
              covers == [a \in A |-> None]
  <1>1. /\ album' = WithCovers(A, covers) /\ UNCHANGED <<odd, unnumbered>>
        /\ live' = live \ S /\ trash' = trash \ S /\ links' = {l \in links : l[2] \notin S}
        /\ drifted' = drifted \cup {a \in Albums : Linked(a) \cap S # {}}
        /\ req' = Touched({b \in Albums : album'[b] # album[b]})
    BY DEF DeletePermanently
  <1>2. /\ A \subseteq {b \in Albums : Exists(b)} /\ covers \in [A -> Items \cup {None}]
        /\ \A b \in Albums : Exists(b) => (b \in A <=> album[b].cover \in S)
        /\ \A b \in A : covers[b] = None
    BY DEF CoveredBy
  <1>. HIDE DEF A, covers
  <1>3. Rows' = Rows \ S /\ live' \cap trash' = {} /\ Rows' \subseteq Items
    BY <1>1, TypeParts DEF Rows
  <1>4. \A b \in Albums :
          /\ Exists(b)' <=> Exists(b)
          /\ Exists(b) => /\ album'[b].count = album[b].count
                          /\ album'[b].cover = IF b \in A THEN covers[b] ELSE album[b].cover
    BY <1>1, <1>2, CoversOnly
  <1>5. \A b \in Albums : Linked(b)' = Linked(b) \ S
    BY <1>1 DEF Linked
  <1>6. ASSUME NEW b \in Albums, Exists(b)' PROVE AlbumFits(b)'
    <2>1. Exists(b) /\ AlbumFits(b)
      BY <1>4, <1>6 DEF Inv
    <2>2. ASSUME b \notin drifted' PROVE album'[b].count = Cardinality(Linked(b)')
      <3>1. b \notin drifted /\ Linked(b)' = Linked(b)
        BY <1>1, <1>5, <2>2
      <3>. QED
        BY <1>4, <2>1, <3>1 DEF AlbumFits
    <2>3. ASSUME album'[b].cover # None, b \notin odd' PROVE album'[b].cover \in live' \cap Linked(b)'
      <3>1. b \notin A /\ album'[b].cover = album[b].cover /\ album[b].cover \notin S
        BY <1>2, <1>4, <2>1, <2>3
      <3>2. album[b].cover \in live \cap Linked(b)
        BY <1>1, <2>1, <2>3, <3>1 DEF AlbumFits
      <3>. QED
        BY <1>1, <1>5, <3>1, <3>2
    <2>. QED
      BY <2>2, <2>3 DEF AlbumFits
  <1>7. \A b \in Albums : AlbumFits(b)'
    BY <1>6 DEF AlbumFits
  <1>8. links' \subseteq {b \in Albums : Exists(b)} \X Rows'
    BY <1>1, <1>3, TypeParts
  <1>9. /\ \A b \in Albums \ A : Exists(b) => album[b].cover \in Rows' \cup {None}
        /\ drifted' \subseteq Albums /\ \A b \in A : covers[b] \in Rows' \cup {None}
    BY <1>1, <1>2, <1>3, TypeParts
  <1>. QED
    BY <1>1, <1>2, <1>3, <1>7, <1>8, <1>9, CoversSafe

-----------------------------------------------------------------------------
(* The specification                                                       *)

LEMMA InitSafe == Init => Inv
  <1>. SUFFICES ASSUME Init PROVE Inv
    OBVIOUS
  <1>. DEFINE s == Slug[FirstTitle]
              row == Row(FirstTitle, s)
  <1>1. s \in Slugs /\ FirstTitle \in Titles /\ Created \in Albums /\ 0 \in -MaxCount..MaxCount
    BY AlbumsAssumption
  <1>. HIDE DEF s
  <1>2. row \in AlbumRow /\ row.slug = s /\ row.count = 0 /\ row.cover = None
    BY <1>1 DEF Row, AlbumRow
  <1>3. album = [a \in Albums |-> IF a = Created THEN row ELSE None]
    BY DEF Init, s
  <1>4. row # None
    BY <1>2, NoneAssumption
  <1>. HIDE DEF row
  <1>5. /\ album \in [Albums -> AlbumRow \cup {None}] /\ album[Created] = row
        /\ \A a \in Albums : Exists(a) <=> a = Created
    BY <1>1, <1>2, <1>3, <1>4 DEF Exists
  <1>6. /\ links = {} /\ live = Items /\ trash = {} /\ drifted = {} /\ odd = {}
        /\ req = [c \in Clients |-> None]
        /\ unnumbered = (\E a \in Albums : Exists(a) /\ Numbered(album[a].slug))
    BY DEF Init
  <1>7. TypeOK
    BY <1>2, <1>5, <1>6 DEF TypeOK, Rows
  <1>8. \A a \in Albums : AlbumFits(a)
    <2>1. \A a \in Albums : Linked(a) = {}
      BY <1>6 DEF Linked
    <2>. QED
      BY <1>2, <1>5, <2>1, FS_EmptySet DEF AlbumFits
  <1>9. \A c \in Clients : Fresh(req[c])
    BY <1>6 DEF Fresh
  <1>10. Numbering
    BY <1>6 DEF Numbering, NumberUpTo, Numbered
  <1>. QED
    BY <1>7, <1>8, <1>9, <1>10 DEF Inv

LEMMA NextSafe == Inv /\ [Next /\ UNCHANGED ops]_vars => Inv'
  <1>. SUFFICES ASSUME Inv, [Next /\ UNCHANGED ops]_vars PROVE Inv'
    OBVIOUS
  <1>1. CASE UNCHANGED vars
    <2>1. UNCHANGED <<album, links, live, trash, req, drifted, odd, unnumbered>>
      BY <1>1 DEF vars
    <2>. QED
      BY <2>1 DEF Inv, TypeOK, Numbering, AlbumFits, Fresh, Counted, Taken, Exists, Linked, Rows
  <1>2. ASSUME NEW c \in Clients, NEW t \in Titles, CreateRead(c, t) PROVE Inv'
    BY <1>2, CreateReadSafe
  <1>3. ASSUME NEW c \in Clients, NEW t \in Titles, NEW a \in Albums, RenameRead(c, a, t) PROVE Inv'
    BY <1>3, RenameReadSafe
  <1>4. ASSUME NEW c \in Clients, NEW a \in Albums, NEW ids \in Asked,
               ItemsRead(c, "add", a, ids) \/ ItemsRead(c, "remove", a, ids)
        PROVE  Inv'
    BY <1>4, ItemsReadSafe
  <1>5. ASSUME NEW c \in Clients, Create(c) PROVE Inv'
    BY <1>5, CreateSaveSafe, RefusedSafe DEF Create
  <1>6. ASSUME NEW c \in Clients, Rename(c) PROVE Inv'
    BY <1>6, RenameSaveSafe, RefusedSafe DEF Rename
  <1>7. ASSUME NEW c \in Clients, ChangeItems(c) PROVE Inv'
    BY <1>7, AddSaveSafe, RemoveSaveSafe DEF ChangeItems
  <1>8. ASSUME NEW a \in Albums, DeleteAlbum(a) \/ ChangeCover(a) PROVE Inv'
    BY <1>8, DeleteAlbumSafe, ChangeCoverSafe
  <1>9. ASSUME NEW S \in SUBSET Items, DeleteBatch(S) \/ RestoreBatch(S) \/ DeletePermanently(S)
        PROVE  Inv'
    BY <1>9, DeleteBatchSafe, RestoreBatchSafe, DeletePermanentlySafe
  <1>. QED
    BY <1>1, <1>2, <1>3, <1>4, <1>5, <1>6, <1>7, <1>8, <1>9 DEF Next

LEMMA Invariance == Spec => []Inv
  BY InitSafe, NextSafe, PTL DEF Spec

\* Rows, links, covers and requests keep their types, covers and links point at
\* items that exist, and no item is both in and out of Trash (the tables behind
\* AlbumRepository and MediaItemRepository).
THEOREM TypeCorrect == Spec => []TypeOK
  <1>1. Inv => TypeOK
    BY DEF Inv
  <1>. QED
    BY <1>1, Invariance, PTL

\* items_count departs from the number of links only for the causes the model
\* records (add_items, remove_items and delete_permanently), for any albums,
\* items and lists of ids.
THEOREM CountsDriftForCause == Spec => []CountsDriftKnown
  <1>1. Inv => CountsDriftKnown
    BY DEF Inv, AlbumFits, CountsDriftKnown
  <1>. QED
    BY <1>1, Invariance, PTL

\* A cover that was not set by hand, nor by adding an item in Trash, nor by
\* requests that overlapped, is an item of its album outside Trash (add_items,
\* remove_items, delete_batch and delete_permanently).
THEOREM CoversAlwaysFit == Spec => []CoversFit
  <1>1. Inv => CoversFit
    BY DEF Inv, AlbumFits, CoversFit
  <1>. QED
    BY <1>1, Invariance, PTL

\* The slug that get_available_slug chose is refused by the index only if a row
\* was written since or the numbers of slugs are out of their order.
THEOREM RefusedForCause == Spec => RefusedKnown
  <1>1. ASSUME Inv, NEW c \in Clients, req[c] # None, req[c].op \in {"create", "rename"},
               Taken(req[c].slug)
        PROVE  req[c].stale \/ unnumbered
    BY <1>1 DEF Inv, Numbering
  <1>2. Inv => \A c \in Clients :
                 /\ CreateRefused(c) => req[c].stale \/ unnumbered
                 /\ RenameRefused(c) /\ Taken(req[c].slug) => req[c].stale \/ unnumbered
    BY <1>1 DEF CreateRefused, RenameRefused, Doing, Idle
  <1>3. Inv /\ [Next /\ UNCHANGED ops]_vars =>
          [\A c \in Clients :
             /\ CreateRefused(c) => req[c].stale \/ unnumbered
             /\ RenameRefused(c) /\ Taken(req[c].slug) => req[c].stale \/ unnumbered]_vars
    BY <1>2
  <1>. QED
    BY <1>3, Invariance, PTL DEF Spec, RefusedKnown
=============================================================================
