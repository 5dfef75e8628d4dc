--------------------------- MODULE S3StorageProofs --------------------------
(***************************************************************************)
(* Proofs about S3Storage for any bucket, any sizes of parts, pages and    *)
(* chunks, and any number of calls and faults.                             *)
(***************************************************************************)
EXTENDS S3Storage, FiniteSetTheorems, TLAPS

-----------------------------------------------------------------------------
(* Keys in their order                                                     *)

LEMMA DirFacts ==
  /\ IsFiniteSet(Dir)
  /\ \A d \in Dir : Position(d) \in Nat /\ Dirs[Position(d)] = d
  <1>1. /\ Dirs \in [1..Len(Dirs) -> Dir] /\ Len(Dirs) \in Nat
        /\ \A d \in Dir : \E n \in 1..Len(Dirs) : Dirs[n] = d
    <2>1. Dirs \in Seq(Dir)
      BY S3Assumption
    <2>2. Dirs \in [1..Len(Dirs) -> Dir] /\ Len(Dirs) \in Nat /\ DOMAIN Dirs = 1..Len(Dirs)
      BY <2>1
    <2>3. Dir = {Dirs[n] : n \in DOMAIN Dirs}
      BY DEF Dir, ToSet
    <2>. QED
      BY <2>2, <2>3
  <1>2. Dirs \in Surjection(1..Len(Dirs), Dir)
    BY <1>1 DEF Surjection
  <1>3. IsFiniteSet(1..Len(Dirs))
    BY <1>1, FS_Interval
  <1>4. IsFiniteSet(Dir)
    BY <1>2, <1>3, FS_Surjection
  <1>5. ASSUME NEW d \in Dir PROVE Position(d) \in 1..Len(Dirs) /\ Dirs[Position(d)] = d
    BY <1>1 DEF Position
  <1>. QED
    BY <1>1, <1>4, <1>5

LEMMA KeysFinite == IsFiniteSet(Key)
  <1>. DEFINE f == [p \in Dir \X Names |-> [dir |-> p[1], name |-> p[2]]]
  <1>1. IsFiniteSet(Dir \X Names)
    BY DirFacts, S3Assumption, FS_Product
  <1>2. f \in Surjection(Dir \X Names, Key)
    <2>1. f \in [Dir \X Names -> Key]
      BY DEF Key
    <2>2. ASSUME NEW k \in Key PROVE \E p \in Dir \X Names : f[p] = k
      <3>1. <<k.dir, k.name>> \in Dir \X Names /\ f[<<k.dir, k.name>>] = k
        BY DEF Key
      <3>. QED
        BY <3>1
    <2>. HIDE DEF f
    <2>. QED
      BY <2>1, <2>2 DEF Surjection
  <1>. QED
    BY <1>1, <1>2, FS_Surjection

\* Before is a strict order of all keys.
LEMMA KeysOrdered ==
  /\ \A k \in Key : ~Before(k, k)
  /\ \A j, k, l \in Key : Before(j, k) /\ Before(k, l) => Before(j, l)
  /\ \A j, k \in Key : j = k \/ Before(j, k) \/ Before(k, j)
  <1>1. \A k \in Key : k.dir \in Dir /\ k.name \in Nat /\ Position(k.dir) \in Nat
                         /\ Dirs[Position(k.dir)] = k.dir
    BY DirFacts, S3Assumption DEF Key
  <1>2. \A j, k \in Key : j.dir = k.dir /\ j.name = k.name => j = k
    BY DEF Key
  <1>3. \A k \in Key : ~Before(k, k)
    BY <1>1 DEF Before
  <1>4. ASSUME NEW j \in Key, NEW k \in Key, NEW l \in Key, Before(j, k), Before(k, l)
        PROVE  Before(j, l)
    BY <1>1, <1>4 DEF Before
  <1>5. ASSUME NEW j \in Key, NEW k \in Key PROVE j = k \/ Before(j, k) \/ Before(k, j)
    <2>1. CASE j.dir = k.dir
      BY <1>1, <1>2, <2>1 DEF Before
    <2>2. CASE j.dir # k.dir
      <3>1. Position(j.dir) # Position(k.dir)
        BY <1>1, <2>2
      <3>. QED
        BY <1>1, <3>1 DEF Before
    <2>. QED
      BY <2>1, <2>2
  <1>. QED
    BY <1>3, <1>4, <1>5

\* The number of members of S before k.
Rank(S, k) == Cardinality({j \in S : Before(j, k)})

LEMMA RankFacts ==
  ASSUME NEW S \in SUBSET Key
  PROVE  /\ IsFiniteSet(S) /\ Cardinality(S) \in Nat
         /\ \A k \in S : Rank(S, k) \in 0..(Cardinality(S) - 1)
         /\ \A j, k \in S : Before(j, k) => Rank(S, j) < Rank(S, k)
  <1>1. IsFiniteSet(S) /\ Cardinality(S) \in Nat
    BY KeysFinite, FS_Subset, FS_CardinalityType
  <1>2. ASSUME NEW k \in S
        PROVE  LET R == {j \in S : Before(j, k)}
               IN  IsFiniteSet(R) /\ Cardinality(R) \in Nat /\ k \notin R
    <2>. DEFINE R == {j \in S : Before(j, k)}
    <2>1. R \in SUBSET S /\ k \notin R
      BY KeysOrdered
    <2>. QED
      BY <1>1, <2>1, FS_Subset, FS_CardinalityType
  <1>3. ASSUME NEW k \in S PROVE Rank(S, k) \in 0..(Cardinality(S) - 1)
    <2>. DEFINE R == {j \in S : Before(j, k)}
    <2>1. IsFiniteSet(R) /\ Cardinality(R) \in Nat /\ k \notin R
      BY <1>2
    <2>2. Cardinality(R \cup {k}) = Cardinality(R) + 1
      BY <2>1, FS_AddElement
    <2>3. R \cup {k} \in SUBSET S
      OBVIOUS
    <2>4. Cardinality(R \cup {k}) <= Cardinality(S)
      BY <1>1, <2>3, FS_Subset
    <2>. HIDE DEF R
    <2>5. Cardinality(R) \in 0..(Cardinality(S) - 1)
      BY <1>1, <2>1, <2>2, <2>4
    <2>. QED
      BY <2>5 DEF Rank, R
  <1>4. ASSUME NEW j \in S, NEW k \in S, Before(j, k) PROVE Rank(S, j) < Rank(S, k)
    <2>. DEFINE Q == {i \in S : Before(i, j)}
                R == {i \in S : Before(i, k)}
    <2>1. /\ IsFiniteSet(Q) /\ Cardinality(Q) \in Nat /\ j \notin Q
          /\ IsFiniteSet(R) /\ Cardinality(R) \in Nat
      BY <1>2
    <2>2. Q \cup {j} \in SUBSET R
      BY <1>4, KeysOrdered
    <2>. HIDE DEF Q, R
    <2>3. Cardinality(Q \cup {j}) = Cardinality(Q) + 1
      BY <2>1, FS_AddElement
    <2>4. Cardinality(Q \cup {j}) <= Cardinality(R)
      BY <2>1, <2>2, FS_Subset
    <2>5. Cardinality(Q) < Cardinality(R)
      BY <2>1, <2>3, <2>4
    <2>. QED
      BY <2>5 DEF Rank, Q, R
  <1>. QED
    BY <1>1, <1>3, <1>4

\* InOrder has every member of S at the place of its rank.
LEMMA InOrderFacts ==
  ASSUME NEW S \in SUBSET Key
  PROVE  LET N == Cardinality(S)
             s == InOrder(S, Before)
         IN  /\ N \in Nat /\ s \in [1..N -> S]
             /\ \A n \in 1..N : Rank(S, s[n]) = n - 1
             /\ \A k \in S : Rank(S, k) + 1 \in 1..N /\ s[Rank(S, k) + 1] = k
  <1>. DEFINE N == Cardinality(S)
              s == InOrder(S, Before)
              rank == [k \in S |-> Rank(S, k)]
  <1>1. /\ IsFiniteSet(S) /\ N \in Nat
        /\ \A k \in S : Rank(S, k) \in 0..(N - 1)
        /\ \A j, k \in S : Before(j, k) => Rank(S, j) < Rank(S, k)
    BY RankFacts
  <1>2. \A j, k \in S : Rank(S, j) = Rank(S, k) => j = k
    <2>. SUFFICES ASSUME NEW j \in S, NEW k \in S, Rank(S, j) = Rank(S, k), j # k PROVE FALSE
      OBVIOUS
    <2>1. Before(j, k) \/ Before(k, j)
      BY KeysOrdered
    <2>2. Rank(S, j) < Rank(S, k) \/ Rank(S, k) < Rank(S, j)
      BY <1>1, <2>1
    <2>3. Rank(S, j) \in Int /\ Rank(S, k) \in Int
      BY <1>1
    <2>. QED
      BY <2>2, <2>3
  <1>3. rank \in Injection(S, 0..(N - 1))
    <2>1. rank \in [S -> 0..(N - 1)] /\ \A k \in S : rank[k] = Rank(S, k)
      BY <1>1
    <2>. HIDE DEF rank
    <2>. QED
      BY <1>2, <2>1 DEF Injection, IsInjective
  <1>4. IsFiniteSet(0..(N - 1)) /\ Cardinality(0..(N - 1)) = N
    BY <1>1, FS_Interval
  <1>. HIDE DEF rank, N
  <1>5. rank \in Surjection(S, 0..(N - 1))
    BY <1>3, <1>4, FS_Injection DEF N
  <1>6. \A n \in 1..N : \E k \in S : Rank(S, k) = n - 1
    <2>1. ASSUME NEW n \in 1..N PROVE \E k \in S : Rank(S, k) = n - 1
      <3>1. n - 1 \in 0..(N - 1)
        BY <1>1
      <3>. QED
        BY <1>5, <3>1 DEF Surjection, rank
    <2>. QED
      BY <2>1
  <1>7. s = [n \in 1..N |-> CHOOSE k \in S : Rank(S, k) = n - 1]
    BY DEF InOrder, Rank, N
  <1>. HIDE DEF s
  <1>8. \A n \in 1..N : s[n] \in S /\ Rank(S, s[n]) = n - 1
    BY <1>6, <1>7
  <1>9. s \in [1..N -> S]
    BY <1>7, <1>8
  <1>10. ASSUME NEW k \in S PROVE Rank(S, k) + 1 \in 1..N /\ s[Rank(S, k) + 1] = k
    <2>1. PICK n \in 1..N : n = Rank(S, k) + 1
      BY <1>1
    <2>2. Rank(S, s[n]) = Rank(S, k) /\ s[n] \in S
      BY <1>1, <1>8, <2>1
    <2>. QED
      BY <1>2, <2>1, <2>2
  <1>. QED
    BY <1>1, <1>8, <1>9, <1>10 DEF N, s

\* A page has keys of the listing, and those it has not are on the pages to come.
LEMMA PageFacts ==
  ASSUME NEW S \in SUBSET Key, NEW last, NEW page, page = NextPage(S, last)
  PROVE  /\ page \in Seq(S)
         /\ page # <<>> => Last(page) \in S
         /\ \A k \in After(S, last) :
              k \in ToSet(page) \/ (Truncated(S, last) /\ page # <<>> /\ Before(Last(page), k))
  <1>. DEFINE A == After(S, last)
              s == InOrder(A, Before)
              M == IF Cardinality(A) < Page THEN Cardinality(A) ELSE Page
  <1>1. A \in SUBSET Key /\ A \in SUBSET S
    BY DEF After
  <1>2. PICK N \in Nat :
          /\ N = Cardinality(A) /\ s \in [1..N -> A]
          /\ \A n \in 1..N : Rank(A, s[n]) = n - 1
          /\ \A k \in A : Rank(A, k) + 1 \in 1..N /\ s[Rank(A, k) + 1] = k
    BY <1>1, InOrderFacts
  <1>3. Page \in Nat \ {0}
    BY S3Assumption
  <1>4. Truncated(S, last) <=> N > Page
    BY <1>2 DEF Truncated
  <1>. HIDE DEF A, s
  <1>5. s \in Seq(A) /\ Len(s) = N
    BY <1>2
  <1>6. page = SubSeq(s, 1, M) /\ M \in Nat /\ M <= N /\ (M < N => M = Page)
    <2>1. page = SubSeq(s, 1, IF Len(s) < Page THEN Len(s) ELSE Page)
      BY DEF NextPage, s, A
    <2>. QED
      BY <1>2, <1>3, <1>5, <2>1
  <1>. HIDE DEF M
  <1>7. page \in Seq(A) /\ Len(page) = M /\ \A n \in 1..M : page[n] = s[n]
    BY <1>2, <1>5, <1>6
  <1>8. page \in Seq(S)
    BY <1>1, <1>7
  <1>9. page # <<>> => Last(page) \in S
    BY <1>8 DEF Last
  <1>10. ASSUME NEW k \in A, k \notin ToSet(page)
         PROVE  Truncated(S, last) /\ page # <<>> /\ Before(Last(page), k)
    <2>1. PICK r \in Nat : r = Rank(A, k) /\ r + 1 \in 1..N /\ s[r + 1] = k
      BY <1>1, <1>2, <1>10, RankFacts
    <2>2. ~(r + 1 <= M)
      <3>. SUFFICES ASSUME r + 1 <= M PROVE FALSE
        OBVIOUS
      <3>1. page[r + 1] = k /\ r + 1 \in DOMAIN page
        BY <1>6, <1>7, <2>1
      <3>. QED
        BY <1>10, <3>1 DEF ToSet
    <2>3. M = Page /\ N > Page /\ M \in 1..N /\ M - 1 < r
      BY <1>3, <1>6, <2>1, <2>2
    <2>4. Last(page) = s[M] /\ page # <<>>
      BY <1>3, <1>7, <2>3 DEF Last
    <2>5. Rank(A, s[M]) < Rank(A, k) /\ s[M] \in A
      BY <1>2, <2>1, <2>3
    <2>6. ~Before(k, s[M]) /\ k # s[M]
      <3>1. Rank(A, k) \in Int /\ Rank(A, s[M]) \in Int
        BY <1>2, <2>1, <2>3
      <3>2. Before(k, s[M]) => Rank(A, k) < Rank(A, s[M])
        BY <1>1, <1>10, <2>5, RankFacts
      <3>. QED
        BY <2>5, <3>1, <3>2
    <2>. QED
      BY <1>1, <1>4, <1>10, <2>3, <2>4, <2>5, <2>6, KeysOrdered
  <1>. QED
    BY <1>8, <1>9, <1>10 DEF A

\* The parts of a content, in order, whatever the order in which they are known.
LEMMA ListedFacts ==
  ASSUME NEW parts, NEW P \in Nat, ToSet(parts) = 1..P
  PROVE  Listed(parts) = [n \in 1..P |-> n]
  <1>1. Cardinality(1..P) = P
    BY FS_Interval
  <1>2. ASSUME NEW x \in 1..P PROVE Cardinality({y \in 1..P : y < x}) = x - 1
    <2>1. {y \in 1..P : y < x} = 1..(x - 1)
      OBVIOUS
    <2>2. Cardinality(1..(x - 1)) = x - 1
      BY FS_Interval
    <2>. QED
      BY <2>1, <2>2
  <1>3. ASSUME NEW n \in 1..P
        PROVE  (CHOOSE x \in 1..P : Cardinality({y \in 1..P : y < x}) = n - 1) = n
    <2>1. \A x \in 1..P : Cardinality({y \in 1..P : y < x}) = n - 1 <=> x = n
      BY <1>2
    <2>. QED
      BY <2>1
  <1>4. Listed(parts) = [n \in 1..P |-> CHOOSE x \in 1..P : Cardinality({y \in 1..P : y < x}) = n - 1]
    BY <1>1 DEF Listed, InOrder
  <1>. QED
    BY <1>3, <1>4

\* The keys from one place of a sequence to another.
LEMMA SubSeqFacts ==
  ASSUME NEW S, NEW files \in Seq(S), NEW a \in Nat, NEW b \in Nat, a <= b, b <= Len(files)
  PROVE  /\ SubSeq(files, a + 1, b) \in Seq(S)
         /\ ToSet(SubSeq(files, a + 1, b)) = {files[i] : i \in (a + 1)..b}
  <1>. DEFINE q == SubSeq(files, a + 1, b)
  <1>1. q \in Seq(S) /\ Len(q) = b - a
    OBVIOUS
  <1>2. DOMAIN q = 1..(b - a)
    BY <1>1
  <1>3. \A i \in 1..(b - a) : q[i] = files[a + i]
    OBVIOUS
  <1>. HIDE DEF q
  <1>4. ASSUME NEW i \in (a + 1)..b PROVE files[i] \in ToSet(q)
    <2>1. PICK n \in 1..(b - a) : i = a + n
      <3>1. i - a \in 1..(b - a) /\ i = a + (i - a)
        OBVIOUS
      <3>. QED
        BY <3>1
    <2>. QED
      BY <1>2, <1>3, <2>1 DEF ToSet
  <1>5. ASSUME NEW i \in 1..(b - a) PROVE q[i] \in {files[n] : n \in (a + 1)..b}
    <2>1. a + i \in (a + 1)..b
      OBVIOUS
    <2>. QED
      BY <1>3, <2>1
  <1>6. ToSet(q) = {q[i] : i \in 1..(b - a)}
    BY <1>2 DEF ToSet
  <1>. QED
    BY <1>1, <1>4, <1>5, <1>6 DEF q

\* The chunks of a sequence have its members, and no others.
LEMMA ChunksFacts ==
  ASSUME NEW S, NEW files \in Seq(S)
  PROVE  UNION Chunks(files) = ToSet(files)
  <1>. DEFINE Ends(n) == IF n * Chunk + Chunk < Len(files) THEN n * Chunk + Chunk ELSE Len(files)
              C(n) == ToSet(SubSeq(files, n * Chunk + 1, Ends(n)))
  <1>1. Chunk \in Nat \ {0} /\ Len(files) \in Nat /\ DOMAIN files = 1..Len(files)
    BY S3Assumption
  <1>2. Chunks(files) = {C(n) : n \in {m \in 0..Len(files) : m * Chunk < Len(files)}}
    BY DEF Chunks
  <1>3. ASSUME NEW n \in Nat, n * Chunk < Len(files)
        PROVE  C(n) = {files[i] : i \in (n * Chunk + 1)..Ends(n)}
    <2>1. PICK a \in Nat : a = n * Chunk
      BY <1>1
    <2>2. Ends(n) \in Nat /\ a <= Ends(n) /\ Ends(n) <= Len(files)
      BY <1>1, <1>3, <2>1
    <2>. HIDE DEF Ends
    <2>. QED
      BY <2>1, <2>2, SubSeqFacts
  <1>4. ASSUME NEW i \in 1..Len(files) PROVE \E c \in Chunks(files) : files[i] \in c
    <2>1. PICK n \in Nat : n = (i - 1) \div Chunk
      BY <1>1
    <2>2. i - 1 = Chunk * n + ((i - 1) % Chunk) /\ (i - 1) % Chunk \in 0..(Chunk - 1)
      BY <1>1, <2>1
    <2>3. PICK a \in Nat : a = n * Chunk
      BY <1>1
    <2>4. a < i /\ i <= a + Chunk /\ a < Len(files)
      BY <1>1, <2>2, <2>3
    <2>5. n <= a
      BY <1>1, <2>3
    <2>6. n \in 0..Len(files) /\ n * Chunk < Len(files)
      BY <1>1, <2>3, <2>4, <2>5
    <2>7. i \in (n * Chunk + 1)..Ends(n)
      BY <1>1, <2>3, <2>4
    <2>. HIDE DEF Ends, C
    <2>8. files[i] \in C(n)
      BY <1>3, <2>6, <2>7
    <2>. QED
      BY <1>2, <2>6, <2>8
  <1>5. ASSUME NEW c \in Chunks(files) PROVE c \subseteq ToSet(files)
    <2>. HIDE DEF C
    <2>1. PICK n \in 0..Len(files) : n * Chunk < Len(files) /\ c = C(n)
      BY <1>2
    <2>2. c = {files[i] : i \in (n * Chunk + 1)..Ends(n)}
      BY <1>3, <2>1
    <2>3. (n * Chunk + 1)..Ends(n) \subseteq 1..Len(files)
      <3>1. PICK a \in Nat : a = n * Chunk
        BY <1>1
      <3>. QED
        BY <1>1, <2>1, <3>1
    <2>. QED
      BY <1>1, <2>2, <2>3 DEF ToSet
  <1>6. ToSet(files) = {files[i] : i \in 1..Len(files)}
    BY <1>1 DEF ToSet
  <1>. QED
    BY <1>4, <1>5, <1>6

-----------------------------------------------------------------------------
(* The inductive invariant                                                 *)

\* What holds of the record r of a call on a folder: the keys it knows are those of
\* its folder, and each kind of call is in the phases that it has.
Homes(r) ==
  /\ \A k \in r.due : k.dir = r.dir
  /\ r.op # "downloaddir" =>
       /\ \A k \in ToSet(r.files) \cup r.copies \cup UNION r.chunks : k.dir = r.dir
       /\ r.done = {}
  /\ r.op = "movedir" => r.to \in Dir /\ r.to # r.dir /\ (r.at = "list" => r.chunks = {})
  /\ r.op = "deletedir" => r.listing \/ r.files = <<>>
  /\ r.op = "downloaddir" => r.chunks = {}
  /\ r.at = "delete" => ~r.listing /\ r.files = <<>>

\* The key k is done, at hand, or on a page that is still to come.
InView(r, k) ==
  \/ k \in r.done \cup ToSet(r.files) \cup UNION r.chunks
  \/ r.listing /\ (r.last = None \/ Before(r.last, k))

\* What holds of it besides, with the objects o, while nobody crosses the call: no
\* key that is due is out of view, an archive finds all of them, and a move has
\* copied what it may delete and what it need not copy any more.
Kept(r, o) ==
  r.crossed \/
    /\ \A k \in r.due : o[k] # None => InView(r, k)
    /\ r.op = "downloaddir" => \A k \in r.due : o[k] # None
    /\ r.op = "movedir" =>
         \A k \in (ToSet(r.files) \ r.copies) \cup UNION r.chunks :
            o[k] # None => o[[k EXCEPT !.dir = r.to]] = o[k]

\* The folders a call works on; r is apart from q if q cannot disturb it.
Near(r) == {r.dir, r.to} \ {None}
Apart(r, q) == r.crossed \/ q.op = "downloaddir" \/ Near(r) \cap Near(q) = {}

FolderInv ==
  \A c \in Clients : OnFolder(c) =>
    /\ Homes(call[c])
    /\ Kept(call[c], object)
    /\ \A e \in Clients \ {c} : OnFolder(e) => Apart(call[c], call[e])

\* An upload that is under way has parts, and one that is left was excused.
UploadInv ==
  \A c \in Clients :
    /\ call[c].op = "upload" => upload[c] \in Seq(Nat)
    /\ upload[c] # None => call[c].op = "upload" \/ c \in excused

IInv ==
  /\ TypeOK
  /\ UploadInv
  /\ FolderInv
  /\ ObjectsWhole
  /\ FoldersWhole
  /\ ArchiveComplete

-----------------------------------------------------------------------------
(* Calls and their records                                                 *)

LEMMA SeqSubset ==
  ASSUME NEW S, NEW T \in SUBSET S, NEW s \in Seq(T)
  PROVE  s \in Seq(S)
  OBVIOUS

LEMMA PartsFacts ==
  ASSUME NEW size \in Nat
  PROVE  Parts(size) \in Nat /\ (size < MinPart => Parts(size) = 1)
  <1>1. MinPart \in Nat \ {0} /\ MaxParts \in Nat \ {0}
    BY S3Assumption
  <1>2. PICK m \in Nat \ {0} : m = MinPart * MaxParts
    BY <1>1
  <1>3. size \div m \in Nat
    BY <1>2
  <1>4. ChunkSize(size) \in Nat \ {0}
    BY <1>1, <1>2, <1>3 DEF ChunkSize
  <1>5. size \div ChunkSize(size) \in Nat
    BY <1>4
  <1>. QED
    BY <1>5 DEF Parts

\* What the type of a call says of it.
LEMMA CallTypes ==
  ASSUME TypeOK, NEW c \in Clients
  PROVE  /\ OnFolder(c) => call[c] \in FolderCall
         /\ call[c].op = "upload" => call[c] \in UploadCall
         /\ call[c] = Idle => ~OnFolder(c) /\ call[c].op # "upload"
  <1>1. call[c] \in {Idle} \cup UploadCall \cup FolderCall
    BY DEF TypeOK
  <1>. QED
    BY <1>1 DEF OnFolder, Idle, UploadCall, FolderCall

\* The objects o and p differ in the folders D only; a call is clear of them.
OnlyIn(D, o, p) == \A k \in Key : k.dir \notin D => p[k] = o[k]
Clear(r, D) == r.crossed \/ Near(r) \cap D = {}

LEMMA Undisturbed ==
  ASSUME NEW r \in FolderCall, NEW o, NEW p, NEW D, Homes(r), Kept(r, o),
         OnlyIn(D, o, p), Clear(r, D)
  PROVE  Kept(r, p)
  <1>1. CASE r.crossed
    BY <1>1 DEF Kept
  <1>2. CASE ~r.crossed
    <2>1. r.dir \notin D /\ (r.op = "movedir" => r.to \notin D)
      BY <1>2, S3Assumption DEF Clear, Near, Homes, FolderCall
    <2>2. ASSUME NEW k \in r.due PROVE p[k] = o[k]
      BY <2>1 DEF OnlyIn, Homes, FolderCall
    <2>3. ASSUME r.op = "movedir", NEW k \in (ToSet(r.files) \ r.copies) \cup UNION r.chunks
          PROVE  p[k] = o[k] /\ p[[k EXCEPT !.dir = r.to]] = o[[k EXCEPT !.dir = r.to]]
      <3>1. k \in Key /\ k.dir = r.dir /\ r.to \in Dir
        BY <2>3 DEF Homes, FolderCall, ToSet
      <3>2. [k EXCEPT !.dir = r.to] \in Key /\ [k EXCEPT !.dir = r.to].dir = r.to
        BY <3>1 DEF Key
      <3>. QED
        BY <2>1, <2>3, <3>1, <3>2 DEF OnlyIn
    <2>. QED
      BY <1>2, <2>2, <2>3 DEF Kept
  <1>. QED
    BY <1>1, <1>2

LEMMA Marking ==
  ASSUME NEW r \in FolderCall, NEW m, m = [r EXCEPT !.crossed = TRUE]
  PROVE  /\ m \in FolderCall
         /\ m.crossed /\ m.op = r.op /\ Near(m) = Near(r)
         /\ Homes(r) => Homes(m)
         /\ \A o : Kept(m, o)
  <1>1. /\ m \in FolderCall /\ m.crossed /\ m.op = r.op /\ m.at = r.at /\ m.dir = r.dir /\ m.to = r.to
        /\ m.files = r.files /\ m.copies = r.copies /\ m.chunks = r.chunks /\ m.due = r.due
        /\ m.done = r.done /\ m.listing = r.listing
    BY DEF FolderCall
  <1>. QED
    BY <1>1 DEF Near, Homes, Kept

\* The record of a call that has the next page of S: what was in view stays in view.
LEMMA PagedFacts ==
  ASSUME NEW c, NEW r \in FolderCall, r = call[c], NEW S \in SUBSET Key,
         NEW q, q = Paged(c, S)
  PROVE  /\ q \in FolderCall
         /\ q.op = r.op /\ q.at = r.at /\ q.dir = r.dir /\ q.to = r.to /\ q.crossed = r.crossed
         /\ q.copies = r.copies /\ q.chunks = r.chunks /\ q.done = r.done /\ q.due = r.due
         /\ ToSet(r.files) \subseteq ToSet(q.files) /\ ToSet(q.files) \subseteq ToSet(r.files) \cup S
         /\ \A k \in S : InView(r, k) => InView(q, k)
  <1>1. PICK page : page = NextPage(S, r.last)
    OBVIOUS
  <1>2. /\ page \in Seq(S)
        /\ page # <<>> => Last(page) \in S
        /\ \A k \in After(S, r.last) :
              k \in ToSet(page) \/ (Truncated(S, r.last) /\ page # <<>> /\ Before(Last(page), k))
    BY <1>1, PageFacts
  <1>3. PICK last \in Key \cup {None} :
           last = IF page = <<>> THEN r.last ELSE Last(page)
    BY <1>2 DEF FolderCall
  <1>4. PICK files \in Seq(Key) : files = r.files \o page
    <2>1. r.files \in Seq(Key)
      BY DEF FolderCall
    <2>2. page \in Seq(Key)
      BY <1>2, SeqSubset
    <2>3. r.files \o page \in Seq(Key)
      BY <2>1, <2>2
    <2>. QED
      BY <2>3, Zenon
  <1>5. PICK more \in BOOLEAN : more = Truncated(S, r.last)
    <2>1. Truncated(S, r.last) \in BOOLEAN
      BY DEF Truncated
    <2>. QED
      BY <2>1
  <1>6. q = [r EXCEPT !.listing = more, !.last = last, !.files = files]
    BY <1>1, <1>3, <1>4, <1>5 DEF Paged
  <1>7. /\ q \in FolderCall
        /\ q.listing = more /\ q.last = last /\ q.files = files
        /\ q.op = r.op /\ q.at = r.at /\ q.dir = r.dir /\ q.to = r.to /\ q.crossed = r.crossed
        /\ q.copies = r.copies /\ q.chunks = r.chunks /\ q.done = r.done /\ q.due = r.due
    <2>1. /\ q.listing = more /\ q.last = last /\ q.files = files
          /\ q.op = r.op /\ q.at = r.at /\ q.dir = r.dir /\ q.to = r.to /\ q.crossed = r.crossed
          /\ q.copies = r.copies /\ q.chunks = r.chunks /\ q.done = r.done /\ q.due = r.due
      BY <1>6 DEF FolderCall
    <2>2. [r EXCEPT !.listing = more] \in FolderCall
      BY DEF FolderCall
    <2>3. [r EXCEPT !.listing = more, !.last = last] \in FolderCall
      BY DEF FolderCall
    <2>. QED
      BY <1>6, <2>1, <2>2, <2>3 DEF FolderCall
  <1>8. ToSet(files) = ToSet(r.files) \cup ToSet(page) /\ ToSet(page) \subseteq S
    <2>1. r.files \in Seq(Key) /\ page \in Seq(Key)
      BY <1>2 DEF FolderCall
    <2>2. DOMAIN files = 1..(Len(r.files) + Len(page)) /\ Len(r.files) \in Nat /\ Len(page) \in Nat
      BY <1>4, <2>1
    <2>3. \A i \in 1..Len(r.files) : files[i] = r.files[i]
      BY <1>4, <2>1
    <2>4. \A i \in 1..Len(page) : files[Len(r.files) + i] = page[i]
      BY <1>4, <2>1
    <2>5. ASSUME NEW i \in DOMAIN files PROVE files[i] \in ToSet(r.files) \cup ToSet(page)
      <3>1. CASE i <= Len(r.files)
        BY <2>1, <2>2, <2>3, <2>5, <3>1 DEF ToSet
      <3>2. CASE ~(i <= Len(r.files))
        <4>1. PICK n \in 1..Len(page) : i = Len(r.files) + n
          <5>1. i - Len(r.files) \in 1..Len(page)
            BY <2>2, <2>5, <3>2
          <5>. QED
            BY <2>2, <2>5, <5>1
        <4>. QED
          BY <2>1, <2>4, <4>1 DEF ToSet
      <3>. QED
        BY <3>1, <3>2
    <2>6. ASSUME NEW i \in 1..Len(r.files) PROVE r.files[i] \in ToSet(files)
      <3>1. i \in DOMAIN files
        BY <2>2
      <3>. QED
        BY <2>3, <3>1 DEF ToSet
    <2>7. ASSUME NEW i \in 1..Len(page) PROVE page[i] \in ToSet(files)
      <3>1. Len(r.files) + i \in DOMAIN files
        BY <2>2
      <3>. QED
        BY <2>4, <3>1 DEF ToSet
    <2>8. ToSet(page) \subseteq S
      BY <1>2 DEF ToSet
    <2>9. DOMAIN r.files = 1..Len(r.files) /\ DOMAIN page = 1..Len(page)
      BY <2>1
    <2>10. ToSet(files) = {files[i] : i \in DOMAIN files}
      BY DEF ToSet
    <2>11. ToSet(r.files) = {r.files[i] : i \in 1..Len(r.files)} /\ ToSet(page) = {page[i] : i \in 1..Len(page)}
      BY <2>9 DEF ToSet
    <2>. QED
      BY <2>5, <2>6, <2>7, <2>8, <2>10, <2>11
  <1>9. ASSUME NEW k \in S, InView(r, k) PROVE InView(q, k)
    <2>1. CASE k \in r.done \cup ToSet(r.files) \cup UNION r.chunks
      BY <1>7, <1>8, <2>1 DEF InView
    <2>2. CASE r.last = None \/ Before(r.last, k)
      <3>1. k \in After(S, r.last)
        BY <2>2 DEF After
      <3>2. k \in ToSet(page) \/ (more /\ page # <<>> /\ Before(Last(page), k))
        BY <1>2, <1>5, <3>1
      <3>. QED
        BY <1>3, <1>7, <1>8, <3>2 DEF InView
    <2>. QED
      BY <1>9, <2>1, <2>2 DEF InView
  <1>. QED
    BY <1>6, <1>7, <1>8, <1>9

-----------------------------------------------------------------------------
(* Steps and the calls on folders                                          *)

FolderOps == {"movedir", "deletedir", "downloaddir"}

\* A step that changes objects of the folders D leaves another client's call alone,
\* or marks it.
Bystander(e, D) ==
  /\ \/ call'[e] = call[e]
     \/ OnFolder(e) /\ call'[e] = [call[e] EXCEPT !.crossed = TRUE]
  /\ OnFolder(e) => Clear(call'[e], D)

\* What is left to show of the call of the client that takes a step.
Mover(c) ==
  call'[c].op \in FolderOps =>
    /\ Homes(call'[c]) /\ Kept(call'[c], object')
    /\ \A e \in Clients \ {c} : call'[e].op \in FolderOps =>
          Apart(call'[c], call'[e]) /\ Apart(call'[e], call'[c])

LEMMA FolderStep ==
  ASSUME TypeOK, FolderInv, NEW M \in SUBSET Clients, NEW D, OnlyIn(D, object, object'),
         \A c, e \in M : c = e,
         \A e \in Clients \ M : Bystander(e, D),
         \A c \in M : Mover(c)
  PROVE  FolderInv'
  <1>1. ASSUME NEW e \in Clients \ M, call'[e].op \in FolderOps
        PROVE  /\ OnFolder(e) /\ call[e] \in FolderCall /\ Homes(call[e]) /\ Kept(call[e], object)
               /\ call'[e] = call[e] \/ call'[e] = [call[e] EXCEPT !.crossed = TRUE]
    <2>1. OnFolder(e)
      BY <1>1 DEF OnFolder, FolderOps, Bystander
    <2>. QED
      BY <2>1, CallTypes DEF FolderInv, Bystander
  <1>2. ASSUME NEW e \in Clients \ M, call'[e].op \in FolderOps
        PROVE  Homes(call'[e]) /\ Kept(call'[e], object')
    <2>1. CASE call'[e] = call[e]
      <3>1. Clear(call[e], D)
        BY <1>1, <1>2, <2>1 DEF Bystander
      <3>2. Kept(call[e], object')
        BY <1>1, <1>2, <3>1, Undisturbed
      <3>. QED
        BY <1>1, <1>2, <2>1, <3>2
    <2>2. CASE call'[e] = [call[e] EXCEPT !.crossed = TRUE]
      BY <1>1, <1>2, <2>2, Marking
    <2>. QED
      BY <1>1, <1>2, <2>1, <2>2
  <1>3. ASSUME NEW c \in Clients \ M, NEW e \in Clients \ M, c # e,
               call'[c].op \in FolderOps, call'[e].op \in FolderOps
        PROVE  Apart(call'[c], call'[e])
    <2>1. Apart(call[c], call[e])
      BY <1>1, <1>3 DEF FolderInv
    <2>2. call'[c].crossed \/ call'[c] = call[c]
      BY <1>1, <1>3, Marking
    <2>3. call'[e].op = call[e].op /\ Near(call'[e]) = Near(call[e])
      BY <1>1, <1>3, Marking
    <2>. QED
      BY <2>1, <2>2, <2>3 DEF Apart
  <1>4. ASSUME NEW c \in Clients, NEW e \in Clients \ {c},
               call'[c].op \in FolderOps, call'[e].op \in FolderOps
        PROVE  Apart(call'[c], call'[e])
    <2>1. CASE c \in M
      BY <1>4, <2>1 DEF Mover
    <2>2. CASE e \in M
      BY <1>4, <2>2 DEF Mover
    <2>. QED
      BY <1>3, <1>4, <2>1, <2>2
  <1>5. ASSUME NEW c \in Clients, call'[c].op \in FolderOps
        PROVE  /\ Homes(call'[c]) /\ Kept(call'[c], object')
               /\ \A e \in Clients \ {c} : call'[e].op \in FolderOps => Apart(call'[c], call'[e])
    BY <1>2, <1>4, <1>5 DEF Mover
  <1>6. \A c \in Clients : OnFolder(c)' <=> call'[c].op \in FolderOps
    BY DEF OnFolder, FolderOps
  <1>. QED
    BY <1>5, <1>6 DEF FolderInv

\* A call goes on: it changes only its own folders, and none if it is a download.
LEMMA GoesOn ==
  ASSUME TypeOK, FolderInv, NEW c \in Clients, OnFolder(c), NEW q, NEW D,
         call' = [call EXCEPT ![c] = q],
         q.op = call[c].op, q.dir = call[c].dir, q.to = call[c].to, q.crossed = call[c].crossed,
         OnlyIn(D, object, object'), D = {} \/ (D \subseteq Near(q) /\ q.op # "downloaddir"),
         Homes(q), Kept(q, object')
  PROVE  FolderInv'
  <1>1. call'[c] = q /\ \A e \in Clients \ {c} : call'[e] = call[e]
    BY DEF TypeOK
  <1>2. Near(q) = Near(call[c])
    BY DEF Near
  <1>3. ASSUME NEW e \in Clients \ {c}, OnFolder(e)
        PROVE  Apart(call[c], call[e]) /\ Apart(call[e], call[c])
    BY <1>3 DEF FolderInv
  <1>4. ASSUME NEW e \in Clients \ {c}, OnFolder(e)
        PROVE  Apart(q, call[e]) /\ Apart(call[e], q)
    BY <1>2, <1>3, <1>4 DEF Apart
  <1>5. ASSUME NEW e \in Clients \ {c} PROVE Bystander(e, D)
    <2>1. ASSUME OnFolder(e) PROVE Clear(call[e], D)
      BY <1>4, <2>1 DEF Apart, Clear
    <2>. QED
      BY <1>1, <2>1 DEF Bystander
  <1>6. \A e \in Clients : OnFolder(e) <=> call[e].op \in FolderOps
    BY DEF OnFolder, FolderOps
  <1>7. Mover(c)
    BY <1>1, <1>4, <1>6 DEF Mover
  <1>8. PICK M \in SUBSET Clients : M = {c}
    OBVIOUS
  <1>9. /\ \A a, b \in M : a = b
        /\ \A e \in Clients \ M : Bystander(e, D)
        /\ \A a \in M : Mover(a)
    BY <1>5, <1>7, <1>8
  <1>. QED
    BY <1>9, FolderStep

\* A call is not on a folder any more, or never was.
LEMMA NotOnFolder ==
  ASSUME TypeOK, FolderInv, NEW c \in Clients, NEW q,
         call' = [call EXCEPT ![c] = q], q.op \notin FolderOps, object' = object
  PROVE  FolderInv'
  <1>1. call'[c] = q /\ \A e \in Clients \ {c} : call'[e] = call[e]
    BY DEF TypeOK
  <1>2. PICK M \in SUBSET Clients, D \in {{}} : M = {c}
    OBVIOUS
  <1>3. \A a, b \in M : a = b
    BY <1>2
  <1>4. \A e \in Clients \ M : Bystander(e, D)
    BY <1>1, <1>2 DEF Bystander, Clear
  <1>5. \A a \in M : Mover(a)
    BY <1>1, <1>2 DEF Mover
  <1>6. OnlyIn(D, object, object')
    BY DEF OnlyIn
  <1>. QED
    BY <1>3, <1>4, <1>5, <1>6, FolderStep

\* Crossed marks the calls that are not clear of D.
LEMMA CrossedFacts ==
  ASSUME TypeOK, NEW e \in Clients, NEW D, call'[e] = Crossed(D)[e]
  PROVE  /\ Bystander(e, D \ {None})
         /\ OnFolder(e) => call'[e].op = call[e].op /\ Near(call'[e]) = Near(call[e])
  <1>1. call'[e] = IF Touches(e, D) THEN [call[e] EXCEPT !.crossed = TRUE] ELSE call[e]
    BY DEF Crossed
  <1>2. Touches(e, D) <=> OnFolder(e) /\ Near(call[e]) \cap (D \ {None}) # {}
    BY DEF Touches, Near
  <1>3. ASSUME OnFolder(e)
        PROVE  Clear(call'[e], D \ {None}) /\ call'[e].op = call[e].op /\ Near(call'[e]) = Near(call[e])
    <2>0. call[e] \in FolderCall
      BY <1>3, CallTypes
    <2>1. CASE Touches(e, D)
      BY <1>1, <2>0, <2>1, Marking DEF Clear
    <2>2. CASE ~Touches(e, D)
      BY <1>1, <1>2, <1>3, <2>2 DEF Clear
    <2>. QED
      BY <2>1, <2>2
  <1>. QED
    BY <1>1, <1>2, <1>3 DEF Bystander

\* A call on a folder begins, and so does its first change to objects.
LEMMA Begun ==
  ASSUME TypeOK, FolderInv, NEW c \in Clients, NEW q, NEW D,
         call' = [Crossed(D) EXCEPT ![c] = q],
         OnlyIn(D \ {None}, object, object'),
         q.op = "downloaddir" \/ Near(q) \subseteq D,
         \A e \in Clients : OnFolder(e) => Apart(q, call[e]),
         Homes(q), Kept(q, object')
  PROVE  FolderInv'
  <1>1. call'[c] = q /\ \A e \in Clients \ {c} : call'[e] = Crossed(D)[e]
    BY DEF Crossed
  <1>2. ASSUME NEW e \in Clients \ {c} PROVE Bystander(e, D \ {None})
    BY <1>1, CrossedFacts
  <1>3. ASSUME NEW e \in Clients \ {c}, call'[e].op \in FolderOps
        PROVE  Apart(q, call'[e]) /\ Apart(call'[e], q)
    <2>1. OnFolder(e) /\ Clear(call'[e], D \ {None})
      BY <1>2, <1>3 DEF Bystander, OnFolder, FolderOps
    <2>2. call'[e].op = call[e].op /\ Near(call'[e]) = Near(call[e])
      BY <1>1, <2>1, CrossedFacts
    <2>3. Apart(q, call[e])
      BY <2>1
    <2>4. Apart(q, call'[e])
      BY <2>2, <2>3 DEF Apart
    <2>5. Apart(call'[e], q)
      <3>1. None \notin Near(q)
        BY DEF Near
      <3>. QED
        BY <2>1, <3>1 DEF Apart, Clear
    <2>. QED
      BY <2>4, <2>5
  <1>4. Mover(c)
    BY <1>1, <1>3 DEF Mover
  <1>5. PICK M \in SUBSET Clients, E \in {D \ {None}} : M = {c}
    OBVIOUS
  <1>6. /\ \A a, b \in M : a = b
        /\ \A e \in Clients \ M : Bystander(e, E)
        /\ \A a \in M : Mover(a)
        /\ OnlyIn(E, object, object')
    BY <1>2, <1>4, <1>5
  <1>. QED
    BY <1>6, FolderStep

\* An object is written from outside: by put_object or by the end of an upload.
LEMMA Written ==
  ASSUME TypeOK, FolderInv, NEW d \in Dir, OnlyIn({d}, object, object'),
         \/ call' = Crossed({d})
         \/ \E c \in Clients : call' = [Crossed({d}) EXCEPT ![c] = Idle]
  PROVE  FolderInv'
  <1>1. PICK D : D = {d} \ {None}
    OBVIOUS
  <1>2. D = {d}
    BY <1>1, S3Assumption
  <1>3. ASSUME NEW M \in SUBSET Clients, \A a, b \in M : a = b, \A e \in M : call'[e] = Idle,
               \A e \in Clients \ M : call'[e] = Crossed({d})[e]
        PROVE  FolderInv'
    <2>1. \A e \in Clients \ M : Bystander(e, D)
      BY <1>1, <1>3, CrossedFacts
    <2>2. \A a \in M : Mover(a)
      BY <1>3 DEF Mover, Idle, FolderOps
    <2>. QED
      BY <1>2, <1>3, <2>1, <2>2, FolderStep
  <1>4. CASE call' = Crossed({d})
    <2>1. PICK M \in SUBSET Clients : M = {}
      OBVIOUS
    <2>. QED
      BY <1>3, <1>4, <2>1
  <1>5. ASSUME NEW c \in Clients, call' = [Crossed({d}) EXCEPT ![c] = Idle] PROVE FolderInv'
    <2>1. call'[c] = Idle /\ \A e \in Clients \ {c} : call'[e] = Crossed({d})[e]
      BY <1>5 DEF Crossed
    <2>2. PICK M \in SUBSET Clients : M = {c}
      OBVIOUS
    <2>. QED
      BY <1>3, <2>1, <2>2
  <1>. QED
    BY <1>4, <1>5

-----------------------------------------------------------------------------
(* Types                                                                   *)

\* A client's call is changed, and with it perhaps those it crosses.
CallType == {Idle} \cup UploadCall \cup FolderCall

LEMMA CallUpdates ==
  ASSUME TypeOK
  PROVE  /\ \A D : Crossed(D) \in [Clients -> CallType]
         /\ \A c \in Clients, q \in CallType :
              /\ [call EXCEPT ![c] = q] \in [Clients -> CallType]
              /\ \A D : [Crossed(D) EXCEPT ![c] = q] \in [Clients -> CallType]
  <1>1. call \in [Clients -> CallType]
    BY DEF TypeOK, CallType
  <1>2. ASSUME NEW D PROVE Crossed(D) \in [Clients -> CallType]
    <2>1. ASSUME NEW e \in Clients, Touches(e, D) PROVE [call[e] EXCEPT !.crossed = TRUE] \in CallType
      BY <2>1, CallTypes, Marking DEF Touches, CallType
    <2>. QED
      BY <1>1, <2>1 DEF Crossed
  <1>. QED
    BY <1>1, <1>2

LEMMA CountersBounded ==
  ASSUME TypeOK
  PROVE  /\ MoreCalls => calls' \in 0..MaxCalls
         /\ Fault => faults' \in 0..MaxFaults
  <1>1. MaxCalls \in Nat /\ MaxFaults \in Nat
    BY S3Assumption
  <1>. QED
    BY <1>1 DEF TypeOK, MoreCalls, Fault

\* Steps that leave uploads in parts alone, and steps that only copy or delete objects.
LEMMA UploadsKept ==
  ASSUME UploadInv, upload' = upload, excused \subseteq excused',
         \A e \in Clients : call'[e].op = "upload" <=> call[e].op = "upload"
  PROVE  UploadInv'
  BY DEF UploadInv

LEMMA ObjectsKept ==
  ASSUME ObjectsWhole,
         \A k \in Key : object'[k] = None \/ \E j \in Key : object'[k] = object[j]
  PROVE  ObjectsWhole'
  BY DEF ObjectsWhole, Exists

-----------------------------------------------------------------------------
(* Uploads in parts                                                        *)

\* A client's upload goes on or ends, and no object changes.
LEMMA OwnUpload ==
  ASSUME IInv, NEW c \in Clients, NEW q \in {Idle} \cup UploadCall, NEW u \in Seq(Nat) \cup {None},
         call' = [call EXCEPT ![c] = q], upload' = [upload EXCEPT ![c] = u],
         q # Idle => u \in Seq(Nat),
         u # None => q # Idle \/ c \in excused',
         excused \subseteq excused', excused' \subseteq Clients,
         calls' \in 0..MaxCalls, faults' \in 0..MaxFaults,
         UNCHANGED <<object, ops, archive, lost, left>>
  PROVE  IInv'
  <1>1. TypeOK /\ UploadInv /\ FolderInv
    BY DEF IInv
  <1>2. q \in CallType /\ q.op \notin FolderOps /\ (q = Idle \/ q.op = "upload") /\ (q = Idle => q.op # "upload")
    BY DEF CallType, FolderOps, Idle, UploadCall
  <1>3. call'[c] = q /\ upload'[c] = u
        /\ \A e \in Clients \ {c} : call'[e] = call[e] /\ upload'[e] = upload[e]
    BY <1>1 DEF TypeOK
  <1>4. TypeOK'
    <2>1. call' \in [Clients -> CallType]
      BY <1>1, <1>2, CallUpdates
    <2>2. upload' \in [Clients -> Seq(Nat) \cup {None}]
      BY <1>1 DEF TypeOK
    <2>. QED
      BY <1>1, <2>1, <2>2 DEF TypeOK, CallType
  <1>5. FolderInv'
    BY <1>1, <1>2, NotOnFolder
  <1>6. UploadInv'
    <2>1. ASSUME NEW e \in Clients
          PROVE  /\ call'[e].op = "upload" => upload'[e] \in Seq(Nat)
                 /\ upload'[e] # None => call'[e].op = "upload" \/ e \in excused'
      <3>1. CASE e = c
        BY <1>2, <1>3, <3>1
      <3>2. CASE e # c
        BY <1>1, <1>3, <3>2 DEF UploadInv
      <3>. QED
        BY <3>1, <3>2
    <2>. QED
      BY <2>1 DEF UploadInv
  <1>7. ObjectsWhole' /\ FoldersWhole' /\ ArchiveComplete'
    BY DEF IInv, ObjectsWhole, Exists, FoldersWhole, ArchiveComplete
  <1>. QED
    BY <1>4, <1>5, <1>6, <1>7 DEF IInv

LEMMA PutObjectIInv ==
  ASSUME IInv, NEW k \in Key, NEW size \in Sizes, PutObject(k, size)
  PROVE  IInv'
  <1>1. TypeOK /\ UploadInv /\ FolderInv /\ ObjectsWhole
    BY DEF IInv
  <1>2. size \in Nat /\ k.dir \in Dir
    BY S3Assumption DEF Key
  <1>3. PICK o \in Object : o = [of |-> None, size |-> size, parts |-> <<1>>]
    <2>1. <<1>> \in Seq(Nat)
      OBVIOUS
    <2>2. [of |-> None, size |-> size, parts |-> <<1>>] \in Object
      BY <1>2, <2>1 DEF Object
    <2>. QED
      BY <2>2, Zenon
  <1>4. object' = [object EXCEPT ![k] = o] /\ call' = Crossed({k.dir})
    BY <1>3 DEF PutObject
  <1>5. TypeOK'
    <2>1. call' \in [Clients -> CallType]
      BY <1>1, <1>4, CallUpdates
    <2>2. object' \in [Key -> Object \cup {None}]
      BY <1>1, <1>4 DEF TypeOK
    <2>3. calls' \in 0..MaxCalls
      BY <1>1, CountersBounded DEF PutObject
    <2>. QED
      BY <1>1, <2>1, <2>2, <2>3 DEF TypeOK, PutObject, CallType
  <1>6. FolderInv'
    <2>1. PICK d \in Dir : d = k.dir
      BY <1>2
    <2>2. OnlyIn({d}, object, object')
      BY <1>1, <1>4, <2>1 DEF OnlyIn, TypeOK
    <2>. QED
      BY <1>1, <1>4, <2>1, <2>2, Written
  <1>7. UploadInv'
    <2>1. \A e \in Clients : call'[e].op = "upload" <=> call[e].op = "upload"
      BY <1>1, <1>4, CrossedFacts DEF Crossed, Touches, OnFolder
    <2>. QED
      BY <1>1, <2>1, UploadsKept DEF PutObject
  <1>8. ObjectsWhole'
    <2>1. Parts(size) = 1
      BY <1>2, PartsFacts DEF PutObject
    <2>2. <<1>> = [n \in 1..1 |-> n]
      OBVIOUS
    <2>3. Whole(o)
      BY <1>3, <2>1, <2>2 DEF Whole
    <2>. QED
      BY <1>1, <1>4, <2>3 DEF ObjectsWhole, Exists, TypeOK
  <1>. QED
    BY <1>5, <1>6, <1>7, <1>8 DEF IInv, PutObject, FoldersWhole, ArchiveComplete

LEMMA UploadCreateIInv ==
  ASSUME IInv, NEW c \in Clients, NEW k \in Key, NEW size \in Sizes, UploadCreate(c, k, size)
  PROVE  IInv'
  <1>1. TypeOK /\ calls' \in 0..MaxCalls
    BY CountersBounded DEF IInv, UploadCreate
  <1>2. PICK q \in UploadCall :
           q = [op |-> "upload", at |-> "parts", key |-> k, size |-> size, sending |-> {}]
    BY DEF UploadCall
  <1>3. PICK u \in Seq(Nat) : u = <<>>
    <2>1. <<>> \in Seq(Nat)
      OBVIOUS
    <2>. QED
      BY <2>1, Zenon
  <1>4. call' = [call EXCEPT ![c] = q] /\ upload' = [upload EXCEPT ![c] = u]
    BY <1>2, <1>3 DEF UploadCreate, Set
  <1>5. q # Idle
    BY DEF UploadCall, Idle
  <1>. QED
    BY <1>1, <1>4, <1>5, OwnUpload DEF UploadCreate, TypeOK

\* The record of an upload, for the steps that follow.
LEMMA UploadingFacts ==
  ASSUME IInv, NEW c \in Clients, call[c].op = "upload"
  PROVE  /\ TypeOK /\ call[c] \in UploadCall /\ upload[c] \in Seq(Nat)
         /\ upload = [upload EXCEPT ![c] = upload[c]]
         /\ excused \subseteq Clients /\ calls \in 0..MaxCalls /\ faults \in 0..MaxFaults
  <1>1. TypeOK /\ upload[c] \in Seq(Nat)
    BY DEF IInv, UploadInv
  <1>. QED
    BY <1>1, CallTypes DEF TypeOK

LEMMA PartSendIInv ==
  ASSUME IInv, NEW c \in Clients, NEW n \in 1..(MaxParts + 1), PartSend(c, n)
  PROVE  IInv'
  <1>1. /\ TypeOK /\ call[c] \in UploadCall /\ upload[c] \in Seq(Nat)
        /\ upload = [upload EXCEPT ![c] = upload[c]]
        /\ excused \subseteq Clients /\ calls \in 0..MaxCalls /\ faults \in 0..MaxFaults
    BY UploadingFacts DEF PartSend, At
  <1>2. n \in Nat
    BY S3Assumption
  <1>3. PICK q \in UploadCall : q = [call[c] EXCEPT !.sending = @ \cup {n}]
    BY <1>1, <1>2 DEF UploadCall
  <1>4. PICK u \in Seq(Nat) : u = upload[c]
    BY <1>1
  <1>5. q # Idle
    BY DEF UploadCall, Idle
  <1>6. call' = [call EXCEPT ![c] = q] /\ upload' = [upload EXCEPT ![c] = u]
    BY <1>1, <1>3, <1>4 DEF PartSend, Set
  <1>. QED
    BY <1>1, <1>5, <1>6, OwnUpload DEF PartSend

LEMMA PartDoneIInv ==
  ASSUME IInv, NEW c \in Clients, NEW n \in 1..(MaxParts + 1), PartDone(c, n)
  PROVE  IInv'
  <1>1. /\ TypeOK /\ call[c] \in UploadCall /\ upload[c] \in Seq(Nat)
        /\ excused \subseteq Clients /\ calls \in 0..MaxCalls /\ faults \in 0..MaxFaults
    BY UploadingFacts DEF PartDone, At
  <1>2. n \in Nat
    BY S3Assumption
  <1>3. PICK q \in UploadCall : q = [call[c] EXCEPT !.sending = @ \ {n}]
    BY <1>1 DEF UploadCall
  <1>4. PICK u \in Seq(Nat) : u = Append(upload[c], n)
    <2>1. Append(upload[c], n) \in Seq(Nat)
      BY <1>1, <1>2
    <2>. QED
      BY <2>1, Zenon
  <1>5. q # Idle
    BY DEF UploadCall, Idle
  <1>6. call' = [call EXCEPT ![c] = q] /\ upload' = [upload EXCEPT ![c] = u]
    BY <1>1, <1>3, <1>4 DEF PartDone, Set, TypeOK
  <1>. QED
    BY <1>1, <1>5, <1>6, OwnUpload DEF PartDone

LEMMA PartFailsIInv ==
  ASSUME IInv, NEW c \in Clients, NEW n \in 1..(MaxParts + 1), PartFails(c, n)
  PROVE  IInv'
  <1>1. /\ TypeOK /\ call[c] \in UploadCall /\ upload[c] \in Seq(Nat)
        /\ upload = [upload EXCEPT ![c] = upload[c]]
        /\ excused \subseteq Clients /\ calls \in 0..MaxCalls /\ faults \in 0..MaxFaults
    BY UploadingFacts DEF PartFails, At
  <1>2. faults' \in 0..MaxFaults
    BY <1>1, CountersBounded DEF PartFails
  <1>3. PICK q \in UploadCall : q = [call[c] EXCEPT !.at = "abort", !.sending = {}]
    BY <1>1 DEF UploadCall
  <1>4. PICK u \in Seq(Nat) : u = upload[c]
    BY <1>1
  <1>5. q # Idle
    BY DEF UploadCall, Idle
  <1>6. call' = [call EXCEPT ![c] = q] /\ upload' = [upload EXCEPT ![c] = u]
    BY <1>1, <1>3, <1>4 DEF PartFails, Set
  <1>. QED
    BY <1>1, <1>2, <1>5, <1>6, OwnUpload DEF PartFails

LEMMA AbortIInv ==
  ASSUME IInv, NEW c \in Clients, Abort(c)
  PROVE  IInv'
  <1>1. excused \subseteq Clients /\ calls \in 0..MaxCalls /\ faults \in 0..MaxFaults
    BY DEF IInv, TypeOK
  <1>2. PICK q \in {Idle}, u \in {None} : TRUE
    OBVIOUS
  <1>3. call' = [call EXCEPT ![c] = q] /\ upload' = [upload EXCEPT ![c] = u]
    BY <1>2 DEF Abort, Set
  <1>. QED
    BY <1>1, <1>2, <1>3, OwnUpload DEF Abort

LEMMA EndFailsIInv ==
  ASSUME IInv, NEW c \in Clients, EndFails(c)
  PROVE  IInv'
  <1>1. call[c].op = "upload"
    BY DEF EndFails, AllDone, At
  <1>2. /\ TypeOK /\ upload[c] \in Seq(Nat) /\ upload = [upload EXCEPT ![c] = upload[c]]
        /\ excused \subseteq Clients /\ calls \in 0..MaxCalls
    BY <1>1, UploadingFacts
  <1>3. faults' \in 0..MaxFaults /\ c \in excused' /\ excused' \subseteq Clients /\ excused \subseteq excused'
    BY <1>2, CountersBounded DEF EndFails
  <1>4. PICK q \in {Idle}, u \in Seq(Nat) : u = upload[c]
    BY <1>2
  <1>5. call' = [call EXCEPT ![c] = q] /\ upload' = [upload EXCEPT ![c] = u]
    BY <1>2, <1>4 DEF EndFails, Set
  <1>. QED
    BY <1>2, <1>3, <1>4, <1>5, OwnUpload DEF EndFails

\* complete makes an object of the parts: it is whole because all of them are done
\* and are sent in order.
LEMMA CompleteIInv ==
  ASSUME IInv, NEW c \in Clients, Complete(c)
  PROVE  IInv'
  <1>1. call[c].op = "upload" /\ UploadInv /\ FolderInv /\ ObjectsWhole
    BY DEF Complete, AllDone, At, IInv
  <1>2. TypeOK /\ call[c] \in UploadCall
    BY <1>1, UploadingFacts
  <1>3. PICK k \in Key, size \in Nat : k = call[c].key /\ size = call[c].size
    BY <1>2, S3Assumption DEF UploadCall
  <1>4. PICK parts : parts = [n \in 1..Parts(size) |-> n]
    OBVIOUS
  <1>5. Listed(upload[c]) = parts
    BY <1>3, <1>4, PartsFacts, ListedFacts DEF Complete, AllDone
  <1>6. parts \in Seq(Nat)
    <2>1. PICK P \in Nat : P = Parts(size)
      BY PartsFacts
    <2>2. parts \in [1..P -> Nat]
      BY <1>4, <2>1
    <2>. QED
      BY <2>2
  <1>7. PICK o \in Object : o = [of |-> None, size |-> size, parts |-> parts]
    <2>1. [of |-> None, size |-> size, parts |-> parts] \in Object
      BY <1>6 DEF Object
    <2>. QED
      BY <2>1, Zenon
  <1>8. /\ object' = [object EXCEPT ![k] = o]
        /\ upload' = [upload EXCEPT ![c] = None]
        /\ call' = [Crossed({k.dir}) EXCEPT ![c] = Idle]
    BY <1>3, <1>5, <1>7 DEF Complete
  <1>9. TypeOK'
    <2>1. call' \in [Clients -> CallType]
      BY <1>2, <1>8, CallUpdates DEF CallType
    <2>2. object' \in [Key -> Object \cup {None}] /\ upload' \in [Clients -> Seq(Nat) \cup {None}]
      BY <1>2, <1>8 DEF TypeOK
    <2>. QED
      BY <1>2, <2>1, <2>2 DEF TypeOK, Complete, CallType
  <1>10. FolderInv'
    <2>1. PICK d \in Dir : d = k.dir
      BY DEF Key
    <2>2. OnlyIn({d}, object, object')
      BY <1>2, <1>8, <2>1 DEF OnlyIn, TypeOK
    <2>. QED
      BY <1>1, <1>2, <1>8, <2>1, <2>2, Written
  <1>11. UploadInv'
    <2>1. call'[c] = Idle /\ upload'[c] = None /\ Idle.op # "upload"
      BY <1>2, <1>8 DEF TypeOK, Crossed, Idle
    <2>2. ASSUME NEW e \in Clients \ {c}
          PROVE  (call'[e].op = "upload" <=> call[e].op = "upload") /\ upload'[e] = upload[e]
      <3>1. call'[e] = Crossed({k.dir})[e]
        BY <1>8 DEF Crossed
      <3>. QED
        BY <1>2, <1>8, <3>1, CrossedFacts DEF Crossed, Touches, OnFolder, TypeOK
    <2>. QED
      BY <1>1, <2>1, <2>2 DEF UploadInv, Complete
  <1>12. ObjectsWhole'
    <2>1. Whole(o)
      BY <1>4, <1>7 DEF Whole
    <2>. QED
      BY <1>1, <1>2, <1>8, <2>1 DEF ObjectsWhole, Exists, TypeOK
  <1>. QED
    BY <1>9, <1>10, <1>11, <1>12 DEF IInv, Complete, FoldersWhole, ArchiveComplete

LEMMA KilledIInv ==
  ASSUME IInv, NEW c \in Clients, Killed(c)
  PROVE  IInv'
  <1>1. /\ TypeOK /\ upload[c] \in Seq(Nat) \cup {None} /\ upload = [upload EXCEPT ![c] = upload[c]]
        /\ excused \subseteq Clients /\ calls \in 0..MaxCalls
    BY DEF IInv, TypeOK
  <1>2. /\ faults' \in 0..MaxFaults /\ (upload[c] # None => c \in excused')
        /\ excused' \subseteq Clients /\ excused \subseteq excused'
    BY <1>1, CountersBounded DEF Killed
  <1>3. PICK q \in {Idle}, u \in Seq(Nat) \cup {None} : u = upload[c]
    BY <1>1
  <1>4. call' = [call EXCEPT ![c] = q] /\ upload' = [upload EXCEPT ![c] = u]
    BY <1>1, <1>3 DEF Killed, Set
  <1>. QED
    BY <1>1, <1>2, <1>3, <1>4, OwnUpload DEF Killed

-----------------------------------------------------------------------------
(* Folders                                                                 *)

\* A step of a call on a folder, once its effect on folders and objects is known.
LEMMA OwnFolder ==
  ASSUME IInv, NEW c \in Clients, call[c].op # "upload", NEW q \in {Idle} \cup FolderCall,
         call' = [call EXCEPT ![c] = q] \/ \E D : call' = [Crossed(D) EXCEPT ![c] = q],
         FolderInv', object' \in [Key -> Object \cup {None}],
         \A k \in Key : object'[k] = None \/ \E j \in Key : object'[k] = object[j],
         calls' \in 0..MaxCalls, faults' \in 0..MaxFaults,
         UNCHANGED <<upload, ops, archive, lost, left, excused>>
  PROVE  IInv'
  <1>1. TypeOK /\ UploadInv /\ ObjectsWhole
    BY DEF IInv
  <1>2. q \in CallType /\ q.op # "upload"
    BY DEF CallType, FolderCall, Idle
  <1>3. call' \in [Clients -> CallType]
    BY <1>1, <1>2, CallUpdates
  <1>4. TypeOK'
    BY <1>1, <1>3 DEF TypeOK, CallType
  <1>5. \A e \in Clients : call'[e].op = "upload" <=> call[e].op = "upload"
    <2>1. CASE call' = [call EXCEPT ![c] = q]
      BY <1>1, <1>2, <2>1 DEF TypeOK
    <2>2. ASSUME NEW D, call' = [Crossed(D) EXCEPT ![c] = q], NEW e \in Clients
          PROVE  call'[e].op = "upload" <=> call[e].op = "upload"
      <3>1. CASE e = c
        BY <1>2, <2>2, <3>1 DEF Crossed
      <3>2. CASE e # c
        <4>1. call'[e] = Crossed(D)[e]
          BY <2>2, <3>2 DEF Crossed
        <4>. QED
          BY <1>1, <4>1, CrossedFacts DEF Crossed, Touches, OnFolder
      <3>. QED
        BY <3>1, <3>2
    <2>. QED
      BY <2>1, <2>2
  <1>6. UploadInv'
    BY <1>1, <1>5, UploadsKept
  <1>7. ObjectsWhole'
    BY <1>1, ObjectsKept
  <1>. QED
    BY <1>4, <1>6, <1>7 DEF IInv, FoldersWhole, ArchiveComplete

\* What is known of a call on a folder.
LEMMA FolderFacts ==
  ASSUME IInv, NEW c \in Clients, OnFolder(c)
  PROVE  /\ TypeOK /\ FolderInv /\ call[c] \in FolderCall /\ call[c].op # "upload"
         /\ Homes(call[c]) /\ Kept(call[c], object)
         /\ calls \in 0..MaxCalls /\ faults \in 0..MaxFaults
         /\ object \in [Key -> Object \cup {None}]
  <1>1. TypeOK /\ FolderInv
    BY DEF IInv
  <1>. QED
    BY <1>1, CallTypes DEF TypeOK, FolderInv, OnFolder

\* A call ends early and changes nothing: a copy that fails, an archive that breaks off.
LEMMA GivesUp ==
  ASSUME IInv, NEW c \in Clients, call[c].op # "upload", call' = [call EXCEPT ![c] = Idle],
         faults' \in 0..MaxFaults,
         UNCHANGED <<object, upload, calls, ops, archive, lost, left, excused>>
  PROVE  IInv'
  <1>1. TypeOK /\ FolderInv
    BY DEF IInv
  <1>2. PICK q \in {Idle} : TRUE
    OBVIOUS
  <1>3. FolderInv'
    BY <1>1, <1>2, NotOnFolder DEF Idle, FolderOps
  <1>4. object' \in [Key -> Object \cup {None}] /\ calls' \in 0..MaxCalls
    BY <1>1 DEF TypeOK
  <1>. QED
    BY <1>2, <1>3, <1>4, OwnFolder

LEMMA MoveDirCopyFailsIInv ==
  ASSUME IInv, NEW c \in Clients, NEW k \in Key, MoveDirCopyFails(c, k)
  PROVE  IInv'
  <1>1. faults' \in 0..MaxFaults /\ call[c].op # "upload"
    BY CountersBounded DEF IInv, TypeOK, MoveDirCopyFails, At
  <1>. QED
    BY <1>1, GivesUp DEF MoveDirCopyFails, Set

LEMMA DownloadDirBreaksIInv ==
  ASSUME IInv, NEW c \in Clients, DownloadDirBreaks(c)
  PROVE  IInv'
  <1>1. faults' \in 0..MaxFaults /\ call[c].op # "upload"
    BY DEF IInv, TypeOK, DownloadDirBreaks, At
  <1>. QED
    BY <1>1, GivesUp DEF DownloadDirBreaks, Set

\* The record of a call that begins; it is apart from the calls that do not cross it.
LEMMA StartedFacts ==
  ASSUME NEW op \in FolderOps, NEW at \in {"list", "delete"}, NEW d \in Dir, NEW to \in Dir \cup {None},
         NEW q, q = Started(op, at, d, to, <<>>)
  PROVE  /\ q \in FolderCall
         /\ q.op = op /\ q.at = at /\ q.dir = d /\ q.to = to /\ q.listing /\ q.last = None
         /\ q.files = <<>> /\ q.copies = {} /\ q.chunks = {} /\ q.done = {} /\ q.due = Within(d)
         /\ \A e \in Clients : OnFolder(e) => Apart(q, call[e])
  <1>1. PICK crossed \in BOOLEAN :
           crossed = \E c \in Clients : call[c].op # "downloaddir" /\ Touches(c, {d, to})
    OBVIOUS
  <1>2. Within(d) \in SUBSET Key
    BY DEF Within
  <1>3. q = [op |-> op, at |-> at, dir |-> d, to |-> to, listing |-> TRUE, last |-> None,
             files |-> <<>>, copies |-> {}, chunks |-> {}, done |-> {}, due |-> Within(d),
             crossed |-> crossed]
    BY <1>1 DEF Started
  <1>4. /\ q.op = op /\ q.at = at /\ q.dir = d /\ q.to = to /\ q.listing /\ q.last = None
        /\ q.files = <<>> /\ q.copies = {} /\ q.chunks = {} /\ q.done = {} /\ q.due = Within(d)
        /\ q.crossed = crossed
    BY <1>3
  <1>5. <<>> \in Seq(Key)
    OBVIOUS
  <1>6. q \in FolderCall
    <2>1. op \in {"movedir", "deletedir", "downloaddir"} /\ {} \in SUBSET Key /\ {} \in SUBSET SUBSET Key
      BY DEF FolderOps
    <2>2. TRUE \in BOOLEAN /\ None \in Key \cup {None}
      OBVIOUS
    <2>3. PICK due \in SUBSET Key : due = Within(d)
      BY <1>2
    <2>4. [op |-> op, at |-> at, dir |-> d, to |-> to, listing |-> TRUE, last |-> None,
           files |-> <<>>, copies |-> {}, chunks |-> {}, done |-> {}, due |-> due,
           crossed |-> crossed] \in FolderCall
      BY <1>5, <2>1, <2>2 DEF FolderCall
    <2>. QED
      BY <1>3, <2>3, <2>4
  <1>7. ASSUME NEW e \in Clients, OnFolder(e), call[e].op # "downloaddir", ~crossed
        PROVE  Near(q) \cap Near(call[e]) = {}
    <2>1. ~Touches(e, {d, to})
      BY <1>1, <1>7
    <2>. QED
      BY <1>4, <1>7, <2>1 DEF Touches, Near
  <1>. QED
    BY <1>4, <1>6, <1>7 DEF Apart

LEMMA BeginIInv ==
  ASSUME IInv, NEW c \in Clients, NEW op \in FolderOps, NEW d \in Dir, NEW to \in Dir \cup {None},
         op = "movedir" => to \in Dir, Begin(c, op, d, to)
  PROVE  IInv'
  <1>1. TypeOK /\ FolderInv /\ object \in [Key -> Object \cup {None}] /\ faults \in 0..MaxFaults
    BY DEF IInv, TypeOK
  <1>2. PICK q : q = Started(op, "list", d, to, <<>>)
    OBVIOUS
  <1>3. /\ q \in FolderCall
        /\ q.op = op /\ q.at = "list" /\ q.dir = d /\ q.to = to /\ q.listing /\ q.last = None
        /\ q.files = <<>> /\ q.copies = {} /\ q.chunks = {} /\ q.done = {} /\ q.due = Within(d)
        /\ \A e \in Clients : OnFolder(e) => Apart(q, call[e])
    BY <1>2, StartedFacts
  <1>4. PICK D : D = IF op = "downloaddir" THEN {} ELSE {d, to}
    OBVIOUS
  <1>5. call' = [Crossed(D) EXCEPT ![c] = q] /\ object' = object
    BY <1>2, <1>4 DEF Begin
  <1>6. ToSet(q.files) = {} /\ UNION q.chunks = {}
    BY <1>3 DEF ToSet
  <1>7. Homes(q)
    BY <1>3, <1>6 DEF Homes, Within, Begin
  <1>8. Kept(q, object)
    <2>1. \A k \in q.due : Exists(k) /\ InView(q, k)
      BY <1>3 DEF InView, Within
    <2>. QED
      BY <1>6, <2>1 DEF Kept, Exists
  <1>9. FolderInv'
    <2>1. OnlyIn(D \ {None}, object, object')
      BY <1>5 DEF OnlyIn
    <2>2. q.op = "downloaddir" \/ Near(q) \subseteq D
      BY <1>3, <1>4 DEF Near
    <2>. QED
      BY <1>1, <1>3, <1>5, <1>7, <1>8, <2>1, <2>2, Begun
  <1>10. calls' \in 0..MaxCalls /\ call[c].op # "upload"
    BY <1>1, CountersBounded, CallTypes DEF Begin
  <1>11. /\ object' \in [Key -> Object \cup {None}] /\ faults' \in 0..MaxFaults
         /\ \A k \in Key : object'[k] = None \/ \E j \in Key : object'[k] = object[j]
         /\ UNCHANGED <<upload, ops, archive, lost, left, excused>>
    BY <1>1 DEF Begin
  <1>. QED
    BY <1>3, <1>5, <1>9, <1>10, <1>11, OwnFolder

\* The copy of an object to another folder changes the copy only.
CopyOf(k, j, d) ==
  /\ j \in Key /\ j.dir = d /\ j # k
  /\ object' \in [Key -> Object \cup {None}]
  /\ object'[j] = object[k] /\ \A i \in Key : i # j => object'[i] = object[i]
  /\ OnlyIn({d}, object, object')
  /\ \A i \in Key : object'[i] = None \/ \E l \in Key : object'[i] = object[l]

LEMMA CopyFacts ==
  ASSUME TypeOK, NEW k \in Key, NEW d \in Dir, d # k.dir, NEW j, j = [k EXCEPT !.dir = d],
         object' = [object EXCEPT ![j] = object[k]]
  PROVE  CopyOf(k, j, d)
  <1>1. j \in Key /\ j.dir = d /\ j # k
    BY DEF Key
  <1>2. object \in [Key -> Object \cup {None}]
    BY DEF TypeOK
  <1>3. object' \in [Key -> Object \cup {None}]
    BY <1>1, <1>2
  <1>4. object'[j] = object[k] /\ \A i \in Key : i # j => object'[i] = object[i]
    BY <1>1, <1>2
  <1>5. OnlyIn({d}, object, object')
    BY <1>1, <1>4 DEF OnlyIn
  <1>6. \A i \in Key : object'[i] = None \/ \E l \in Key : object'[i] = object[l]
    BY <1>4
  <1>. QED
    BY <1>1, <1>3, <1>4, <1>5, <1>6 DEF CopyOf

LEMMA MoveCopyIInv ==
  ASSUME IInv, NEW c \in Clients, NEW k \in Key, NEW d \in Dir, MoveCopy(c, k, d)
  PROVE  IInv'
  <1>1. TypeOK /\ FolderInv /\ faults \in 0..MaxFaults /\ k.dir \in Dir /\ d # k.dir
    BY DEF IInv, TypeOK, Key, MoveCopy
  <1>2. PICK r : r = Started("movedir", "delete", k.dir, d, <<>>)
    OBVIOUS
  <1>3. /\ r \in FolderCall
        /\ r.op = "movedir" /\ r.at = "delete" /\ r.dir = k.dir /\ r.to = d
        /\ r.files = <<>> /\ r.copies = {} /\ r.done = {}
        /\ \A e \in Clients : OnFolder(e) => Apart(r, call[e])
    BY <1>1, <1>2, StartedFacts DEF FolderOps
  <1>4. PICK q : q = [r EXCEPT !.listing = FALSE, !.chunks = {{k}}, !.due = {k}]
    OBVIOUS
  <1>5. /\ q \in FolderCall
        /\ q.op = "movedir" /\ q.at = "delete" /\ q.dir = k.dir /\ q.to = d /\ ~q.listing
        /\ q.files = <<>> /\ q.copies = {} /\ q.done = {} /\ q.chunks = {{k}} /\ q.due = {k}
        /\ q.crossed = r.crossed
    <2>1. /\ q.op = "movedir" /\ q.at = "delete" /\ q.dir = k.dir /\ q.to = d /\ ~q.listing
          /\ q.files = <<>> /\ q.copies = {} /\ q.done = {} /\ q.chunks = {{k}} /\ q.due = {k}
          /\ q.crossed = r.crossed
      BY <1>3, <1>4 DEF FolderCall
    <2>2. FALSE \in BOOLEAN /\ {{k}} \in SUBSET SUBSET Key /\ {k} \in SUBSET Key
      OBVIOUS
    <2>3. q \in FolderCall
      BY <1>3, <1>4, <2>2 DEF FolderCall
    <2>. QED
      BY <2>1, <2>3
  <1>6. \A e \in Clients : OnFolder(e) => Apart(q, call[e])
    BY <1>3, <1>5 DEF Apart, Near
  <1>7. PICK D : D = {k.dir, d}
    OBVIOUS
  <1>8. call' = [Crossed(D) EXCEPT ![c] = q]
    BY <1>2, <1>4, <1>7 DEF MoveCopy
  <1>9. PICK j : j = [k EXCEPT !.dir = d]
    OBVIOUS
  <1>10. object' = [object EXCEPT ![j] = object[k]]
    BY <1>9 DEF MoveCopy
  <1>11. /\ j \in Key /\ j.dir = d /\ j # k
         /\ object' \in [Key -> Object \cup {None}]
         /\ object'[j] = object[k] /\ \A i \in Key : i # j => object'[i] = object[i]
         /\ OnlyIn({d}, object, object')
         /\ \A i \in Key : object'[i] = None \/ \E l \in Key : object'[i] = object[l]
    <2>1. TypeOK /\ d # k.dir
      BY <1>1
    <2>2. CopyOf(k, j, d)
      BY <1>9, <1>10, <2>1, CopyFacts
    <2>. QED
      BY <2>2 DEF CopyOf
  <1>12. ToSet(q.files) = {} /\ UNION q.chunks = {k}
    BY <1>5 DEF ToSet
  <1>13. Homes(q)
    BY <1>1, <1>5, <1>12 DEF Homes
  <1>14. Kept(q, object')
    BY <1>5, <1>9, <1>11, <1>12 DEF Kept, InView
  <1>15. FolderInv'
    <2>1. OnlyIn(D \ {None}, object, object')
      BY <1>7, <1>11, S3Assumption DEF OnlyIn
    <2>2. Near(q) \subseteq D
      BY <1>5, <1>7 DEF Near
    <2>. QED
      BY <1>1, <1>6, <1>8, <1>13, <1>14, <2>1, <2>2, Begun
  <1>16. calls' \in 0..MaxCalls /\ call[c].op # "upload"
    BY <1>1, CountersBounded, CallTypes DEF MoveCopy
  <1>17. faults' \in 0..MaxFaults /\ UNCHANGED <<upload, ops, archive, lost, left, excused>>
    BY <1>1 DEF MoveCopy
  <1>. QED
    BY <1>5, <1>8, <1>11, <1>15, <1>16, <1>17, OwnFolder

\* A call goes on and changes its record only.
LEMMA Proceeds ==
  ASSUME IInv, NEW c \in Clients, OnFolder(c), NEW q \in FolderCall, call' = [call EXCEPT ![c] = q],
         q.op = call[c].op, q.dir = call[c].dir, q.to = call[c].to, q.crossed = call[c].crossed,
         Homes(q), Kept(q, object),
         UNCHANGED <<object, upload, calls, faults, ops, archive, lost, left, excused>>
  PROVE  IInv'
  <1>1. /\ TypeOK /\ FolderInv /\ call[c].op # "upload"
        /\ calls \in 0..MaxCalls /\ faults \in 0..MaxFaults
        /\ object \in [Key -> Object \cup {None}]
    BY FolderFacts
  <1>2. PICK D : D = {}
    OBVIOUS
  <1>3. OnlyIn(D, object, object')
    BY DEF OnlyIn
  <1>4. FolderInv'
    BY <1>1, <1>2, <1>3, GoesOn
  <1>5. \A k \in Key : object'[k] = None \/ \E j \in Key : object'[k] = object[j]
    OBVIOUS
  <1>. QED
    BY <1>1, <1>4, <1>5, OwnFolder

\* A page of a listing that has all keys of the folder keeps what is due in view.
LEMMA PagedKeeps ==
  ASSUME IInv, NEW c \in Clients, OnFolder(c), NEW S \in SUBSET Key, Within(call[c].dir) \subseteq S,
         NEW r, r = call[c], NEW p, p = Paged(c, S)
  PROVE  /\ r \in FolderCall /\ Homes(r) /\ Kept(r, object)
         /\ p \in FolderCall
         /\ p.op = r.op /\ p.at = r.at /\ p.dir = r.dir /\ p.to = r.to /\ p.crossed = r.crossed
         /\ p.copies = r.copies /\ p.chunks = r.chunks /\ p.done = r.done /\ p.due = r.due
         /\ ToSet(r.files) \subseteq ToSet(p.files) /\ ToSet(p.files) \subseteq ToSet(r.files) \cup S
         /\ ~r.crossed => \A k \in r.due : object[k] # None => InView(p, k)
  <1>1. r \in FolderCall /\ Homes(r) /\ Kept(r, object)
    BY FolderFacts
  <1>2. /\ p \in FolderCall
        /\ p.op = r.op /\ p.at = r.at /\ p.dir = r.dir /\ p.to = r.to /\ p.crossed = r.crossed
        /\ p.copies = r.copies /\ p.chunks = r.chunks /\ p.done = r.done /\ p.due = r.due
        /\ ToSet(r.files) \subseteq ToSet(p.files) /\ ToSet(p.files) \subseteq ToSet(r.files) \cup S
        /\ \A k \in S : InView(r, k) => InView(p, k)
    BY <1>1, PagedFacts
  <1>3. ASSUME ~r.crossed, NEW k \in r.due, object[k] # None PROVE InView(p, k)
    <2>1. k \in Key /\ k.dir = r.dir
      BY <1>1 DEF Homes, FolderCall
    <2>2. k \in S
      BY <1>3, <2>1 DEF Within, Exists
    <2>3. InView(r, k)
      BY <1>1, <1>3 DEF Kept
    <2>. QED
      BY <1>2, <2>2, <2>3
  <1>. QED
    BY <1>1, <1>2, <1>3

LEMMA MoveDirListIInv ==
  ASSUME IInv, NEW c \in Clients, MoveDirList(c)
  PROVE  IInv'
  <1>1. OnFolder(c) /\ At(c, "movedir", "list") /\ call[c].listing
    BY DEF MoveDirList, At, OnFolder
  <1>2. PICK S \in SUBSET Key, r \in {call[c]} : S = Within(call[c].dir)
    BY DEF Within
  <1>3. PICK p : p = Paged(c, S)
    OBVIOUS
  <1>4. /\ r \in FolderCall /\ Homes(r) /\ Kept(r, object)
        /\ p \in FolderCall
        /\ p.op = r.op /\ p.at = r.at /\ p.dir = r.dir /\ p.to = r.to /\ p.crossed = r.crossed
        /\ p.copies = r.copies /\ p.chunks = r.chunks /\ p.done = r.done /\ p.due = r.due
        /\ ToSet(r.files) \subseteq ToSet(p.files) /\ ToSet(p.files) \subseteq ToSet(r.files) \cup S
        /\ ~r.crossed => \A k \in r.due : object[k] # None => InView(p, k)
    BY <1>1, <1>2, <1>3, PagedKeeps
  <1>5. PICK more \in SUBSET Key : more = ToSet(p.files) \ ToSet(r.files)
    BY <1>4 DEF FolderCall, ToSet
  <1>6. PICK q : q = [p EXCEPT !.copies = @ \cup more]
    OBVIOUS
  <1>7. /\ q \in FolderCall /\ q.op = r.op /\ q.at = r.at /\ q.dir = r.dir /\ q.to = r.to
        /\ q.crossed = r.crossed /\ q.copies = r.copies \cup more /\ q.chunks = r.chunks
        /\ q.done = r.done /\ q.due = r.due /\ q.files = p.files /\ q.listing = p.listing /\ q.last = p.last
    BY <1>4, <1>6 DEF FolderCall
  <1>8. r.op = "movedir" /\ r.at = "list"
    BY <1>1, <1>2 DEF At
  <1>9. Homes(q)
    <2>1. \A k \in S : k.dir = r.dir
      BY <1>2 DEF Within
    <2>. QED
      BY <1>4, <1>5, <1>7, <1>8, <2>1 DEF Homes
  <1>10. Kept(q, object)
    <2>1. ASSUME NEW k, InView(p, k) PROVE InView(q, k)
      BY <1>4, <1>7, <2>1 DEF InView
    <2>2. (ToSet(q.files) \ q.copies) \cup UNION q.chunks
             \subseteq (ToSet(r.files) \ r.copies) \cup UNION r.chunks
      BY <1>5, <1>7
    <2>. QED
      BY <1>4, <1>7, <1>8, <2>1, <2>2 DEF Kept
  <1>11. call' = [call EXCEPT ![c] = q]
    BY <1>2, <1>3, <1>5, <1>6 DEF MoveDirList, Set
  <1>. QED
    BY <1>1, <1>2, <1>7, <1>9, <1>10, <1>11, Proceeds DEF MoveDirList

LEMMA MoveDirCopyIInv ==
  ASSUME IInv, NEW c \in Clients, NEW k \in Key, MoveDirCopy(c, k)
  PROVE  IInv'
  <1>1. OnFolder(c) /\ At(c, "movedir", "list") /\ k \in call[c].copies /\ Exists(k)
    BY DEF MoveDirCopy, At, OnFolder
  <1>2. PICK r : r = call[c]
    OBVIOUS
  <1>3. /\ TypeOK /\ FolderInv /\ r \in FolderCall /\ r.op = "movedir" /\ r.at = "list"
        /\ Homes(r) /\ Kept(r, object)
        /\ calls \in 0..MaxCalls /\ faults \in 0..MaxFaults
    BY <1>1, <1>2, FolderFacts DEF At
  <1>4. PICK d \in Dir : d = r.to /\ d # r.dir /\ k.dir = r.dir /\ d # k.dir
    BY <1>1, <1>2, <1>3 DEF Homes
  <1>5. PICK j : j = [k EXCEPT !.dir = d]
    OBVIOUS
  <1>6. object' = [object EXCEPT ![j] = object[k]]
    BY <1>2, <1>4, <1>5 DEF MoveDirCopy, Moved
  <1>7. /\ j \in Key /\ j.dir = d /\ j # k
        /\ object' \in [Key -> Object \cup {None}]
        /\ object'[j] = object[k] /\ \A i \in Key : i # j => object'[i] = object[i]
        /\ OnlyIn({d}, object, object')
        /\ \A i \in Key : object'[i] = None \/ \E l \in Key : object'[i] = object[l]
    <2>1. TypeOK /\ d # k.dir
      BY <1>3, <1>4
    <2>2. CopyOf(k, j, d)
      BY <1>5, <1>6, <2>1, CopyFacts
    <2>. QED
      BY <2>2 DEF CopyOf
  <1>8. PICK q : q = [r EXCEPT !.copies = @ \ {k}]
    OBVIOUS
  <1>9. /\ q \in FolderCall /\ q.op = r.op /\ q.at = r.at /\ q.dir = r.dir /\ q.to = r.to
        /\ q.crossed = r.crossed /\ q.copies = r.copies \ {k} /\ q.chunks = r.chunks
        /\ q.done = r.done /\ q.due = r.due /\ q.files = r.files /\ q.listing = r.listing /\ q.last = r.last
    BY <1>3, <1>8 DEF FolderCall
  <1>10. Homes(q)
    BY <1>3, <1>9 DEF Homes
  <1>11. Kept(q, object')
    <2>. SUFFICES ASSUME ~r.crossed PROVE Kept(q, object')
      BY <1>9 DEF Kept
    <2>1. ASSUME NEW i \in Key, i.dir = r.dir
          PROVE  object'[i] = object[i]
      BY <1>4, <1>7, <2>1
    <2>2. ASSUME NEW i \in q.due, object'[i] # None PROVE InView(q, i)
      <3>1. i \in Key /\ i.dir = r.dir
        BY <1>3, <1>9 DEF Homes, FolderCall
      <3>2. InView(r, i)
        BY <1>3, <1>9, <2>1, <2>2, <3>1 DEF Kept
      <3>. QED
        BY <1>9, <3>2 DEF InView
    <2>3. ASSUME NEW i \in (ToSet(q.files) \ q.copies) \cup UNION q.chunks, object'[i] # None
          PROVE  object'[[i EXCEPT !.dir = q.to]] = object'[i]
      <3>1. i \in Key /\ i.dir = r.dir
        BY <1>3, <1>9 DEF Homes, FolderCall, ToSet
      <3>2. object'[i] = object[i]
        BY <2>1, <3>1
      <3>3. CASE i = k
        BY <1>4, <1>5, <1>7, <1>9, <3>2, <3>3
      <3>4. CASE i # k
        <4>1. i \in (ToSet(r.files) \ r.copies) \cup UNION r.chunks
          BY <1>9, <3>4
        <4>2. object[[i EXCEPT !.dir = r.to]] = object[i]
          BY <1>3, <2>3, <3>2, <4>1 DEF Kept
        <4>3. [i EXCEPT !.dir = d] \in Key /\ [i EXCEPT !.dir = d] # j
          BY <1>4, <1>5, <3>1, <3>4 DEF Key
        <4>. QED
          BY <1>4, <1>7, <1>9, <3>2, <4>2, <4>3
      <3>. QED
        BY <3>3, <3>4
    <2>. QED
      BY <1>3, <1>9, <2>2, <2>3 DEF Kept
  <1>12. call' = [call EXCEPT ![c] = q]
    BY <1>2, <1>8 DEF MoveDirCopy, Set
  <1>13. FolderInv'
    <2>1. PICK D : D = {d}
      OBVIOUS
    <2>2. D \subseteq Near(q) /\ q.op # "downloaddir" /\ OnlyIn(D, object, object')
      BY <1>3, <1>4, <1>7, <1>9, <2>1, S3Assumption DEF Near
    <2>. QED
      BY <1>1, <1>2, <1>3, <1>9, <1>10, <1>11, <1>12, <2>2, GoesOn
  <1>14. calls' \in 0..MaxCalls /\ faults' \in 0..MaxFaults /\ call[c].op # "upload"
         /\ UNCHANGED <<upload, ops, archive, lost, left, excused>>
    BY <1>2, <1>3 DEF MoveDirCopy
  <1>. QED
    BY <1>7, <1>9, <1>12, <1>13, <1>14, OwnFolder

LEMMA MoveDirCopiedIInv ==
  ASSUME IInv, NEW c \in Clients, MoveDirCopied(c)
  PROVE  IInv'
  <1>1. OnFolder(c) /\ At(c, "movedir", "list") /\ ~call[c].listing /\ call[c].copies = {}
    BY DEF MoveDirCopied, At, OnFolder
  <1>2. PICK r : r = call[c]
    OBVIOUS
  <1>3. /\ r \in FolderCall /\ r.op = "movedir" /\ r.at = "list" /\ r.files \in Seq(Key) /\ r.copies = {} /\ ~r.listing
        /\ Homes(r) /\ Kept(r, object)
    BY <1>1, <1>2, FolderFacts DEF At, FolderCall
  <1>4. PICK chunks : chunks = Chunks(r.files)
    OBVIOUS
  <1>5. UNION chunks = ToSet(r.files) /\ ToSet(r.files) \subseteq Key
    BY <1>3, <1>4, ChunksFacts DEF ToSet
  <1>6. chunks \in SUBSET SUBSET Key
    BY <1>5
  <1>7. PICK q : q = [r EXCEPT !.at = "delete", !.files = <<>>, !.chunks = chunks]
    OBVIOUS
  <1>8. /\ q.op = r.op /\ q.at = "delete" /\ q.dir = r.dir /\ q.to = r.to
        /\ q.crossed = r.crossed /\ q.copies = r.copies /\ q.chunks = chunks
        /\ q.done = r.done /\ q.due = r.due /\ q.files = <<>> /\ q.listing = r.listing /\ q.last = r.last
    BY <1>3, <1>7 DEF FolderCall
  <1>9. q \in FolderCall
    <2>1. <<>> \in Seq(Key)
      OBVIOUS
    <2>. QED
      BY <1>3, <1>6, <1>7, <2>1 DEF FolderCall
  <1>10. ToSet(q.files) = {}
    BY <1>8 DEF ToSet
  <1>11. Homes(q)
    BY <1>3, <1>5, <1>8, <1>10 DEF Homes
  <1>12. Kept(q, object)
    <2>. SUFFICES ASSUME ~r.crossed PROVE Kept(q, object)
      BY <1>8 DEF Kept
    <2>1. \A k : InView(r, k) => k \in r.done \cup ToSet(r.files) \cup UNION r.chunks
      BY <1>3 DEF InView
    <2>2. r.chunks = {} /\ r.done = {}
      BY <1>3 DEF Homes
    <2>. QED
      BY <1>3, <1>5, <1>8, <1>10, <2>1, <2>2 DEF Kept, InView
  <1>. QED
    BY <1>1, <1>2, <1>4, <1>7, <1>8, <1>9, <1>11, <1>12, Proceeds DEF MoveDirCopied, Set

\* Cut makes chunks of keys it takes from the page: no key goes out of view.
LEMMA CutFacts ==
  ASSUME NEW r \in FolderCall, NEW q, q = Cut(r)
  PROVE  /\ q \in FolderCall
         /\ q.op = r.op /\ q.at = r.at /\ q.dir = r.dir /\ q.to = r.to /\ q.crossed = r.crossed
         /\ q.copies = r.copies /\ q.done = r.done /\ q.due = r.due
         /\ q.listing = r.listing /\ q.last = r.last
         /\ ToSet(q.files) \cup UNION q.chunks = ToSet(r.files) \cup UNION r.chunks
         /\ q.listing \/ q.files = <<>>
  <1>1. /\ r.files \in Seq(Key) /\ Len(r.files) \in Nat /\ ToSet(r.files) \subseteq Key
        /\ r.chunks \in SUBSET SUBSET Key /\ Chunk \in Nat
    BY S3Assumption DEF FolderCall, ToSet
  <1>2. ASSUME NEW files \in Seq(Key), NEW chunks \in SUBSET SUBSET Key,
               q = [r EXCEPT !.chunks = @ \cup chunks, !.files = files],
               ToSet(files) \cup UNION chunks = ToSet(r.files), r.listing \/ files = <<>>
        PROVE  /\ q \in FolderCall
               /\ q.op = r.op /\ q.at = r.at /\ q.dir = r.dir /\ q.to = r.to /\ q.crossed = r.crossed
               /\ q.copies = r.copies /\ q.done = r.done /\ q.due = r.due
               /\ q.listing = r.listing /\ q.last = r.last
               /\ ToSet(q.files) \cup UNION q.chunks = ToSet(r.files) \cup UNION r.chunks
               /\ q.listing \/ q.files = <<>>
    <2>1. /\ q.op = r.op /\ q.at = r.at /\ q.dir = r.dir /\ q.to = r.to /\ q.crossed = r.crossed
          /\ q.copies = r.copies /\ q.done = r.done /\ q.due = r.due
          /\ q.listing = r.listing /\ q.last = r.last
          /\ q.chunks = r.chunks \cup chunks /\ q.files = files
      BY <1>2 DEF FolderCall
    <2>2. q \in FolderCall
      <3>1. PICK all \in SUBSET SUBSET Key : all = r.chunks \cup chunks
        BY <1>1
      <3>2. q = [r EXCEPT !.chunks = all, !.files = files]
        BY <1>2, <3>1
      <3>. QED
        BY <3>2 DEF FolderCall
    <2>3. ToSet(q.files) \cup UNION q.chunks = ToSet(r.files) \cup UNION r.chunks
      BY <1>2, <2>1
    <2>. QED
      BY <1>2, <2>1, <2>2, <2>3
  <1>3. CASE ~r.listing
    <2>1. PICK chunks : chunks = Chunks(r.files)
      OBVIOUS
    <2>2. UNION chunks = ToSet(r.files)
      BY <1>1, <2>1, ChunksFacts
    <2>3. chunks \in SUBSET SUBSET Key
      BY <1>1, <2>2
    <2>4. PICK files \in Seq(Key) : files = <<>>
      <3>1. <<>> \in Seq(Key)
        OBVIOUS
      <3>. QED
        BY <3>1, Zenon
    <2>5. ToSet(files) = {}
      BY <2>4 DEF ToSet
    <2>6. q = [r EXCEPT !.chunks = @ \cup chunks, !.files = files]
      BY <1>3, <2>1, <2>4 DEF Cut
    <2>7. ToSet(files) \cup UNION chunks = ToSet(r.files)
      BY <2>2, <2>5
    <2>. QED
      BY <1>2, <2>3, <2>4, <2>6, <2>7
  <1>4. CASE r.listing /\ Len(r.files) < Chunk
    BY <1>4 DEF Cut
  <1>5. CASE r.listing /\ ~(Len(r.files) < Chunk)
    <2>1. ToSet(SubSeq(r.files, 1, Chunk)) = {r.files[i] : i \in 1..Chunk}
      <3>1. PICK z \in Nat : z = 0
        OBVIOUS
      <3>2. z <= Chunk /\ Chunk <= Len(r.files)
        BY <1>1, <1>5, <3>1
      <3>3. ToSet(SubSeq(r.files, z + 1, Chunk)) = {r.files[i] : i \in (z + 1)..Chunk}
        BY <1>1, <3>2, SubSeqFacts
      <3>4. z + 1 = 1
        BY <3>1
      <3>. QED
        BY <3>3, <3>4
    <2>2. /\ SubSeq(r.files, Chunk + 1, Len(r.files)) \in Seq(Key)
          /\ ToSet(SubSeq(r.files, Chunk + 1, Len(r.files))) = {r.files[i] : i \in (Chunk + 1)..Len(r.files)}
      <3>1. Chunk <= Len(r.files) /\ Len(r.files) <= Len(r.files)
        BY <1>1, <1>5
      <3>. QED
        BY <1>1, <3>1, SubSeqFacts
    <2>3. PICK files \in Seq(Key), chunk \in {ToSet(SubSeq(r.files, 1, Chunk))} :
             files = SubSeq(r.files, Chunk + 1, Len(r.files))
      BY <2>2
    <2>4. chunk = {r.files[i] : i \in 1..Chunk}
      BY <2>1, <2>3
    <2>5. PICK chunks \in SUBSET SUBSET Key : chunks = {chunk}
      <3>1. \A i \in 1..Chunk : r.files[i] \in Key
        BY <1>1, <1>5
      <3>2. {chunk} \in SUBSET SUBSET Key
        BY <2>4, <3>1
      <3>. QED
        BY <3>2, Zenon
    <2>6. q = [r EXCEPT !.chunks = @ \cup chunks, !.files = files]
      BY <1>5, <2>3, <2>5 DEF Cut
    <2>7. ToSet(files) \cup chunk = ToSet(r.files)
      <3>1. ToSet(r.files) = {r.files[i] : i \in 1..Len(r.files)}
        BY <1>1 DEF ToSet
      <3>2. 1..Len(r.files) = (1..Chunk) \cup ((Chunk + 1)..Len(r.files))
        BY <1>1, <1>5
      <3>. QED
        BY <2>2, <2>3, <2>4, <3>1, <3>2
    <2>8. ToSet(files) \cup UNION chunks = ToSet(r.files)
      BY <2>5, <2>7
    <2>. QED
      BY <1>2, <1>5, <2>6, <2>8
  <1>. QED
    BY <1>3, <1>4, <1>5

LEMMA DeleteDirListIInv ==
  ASSUME IInv, NEW c \in Clients, DeleteDirList(c)
  PROVE  IInv'
  <1>1. OnFolder(c) /\ At(c, "deletedir", "list")
    BY DEF DeleteDirList, At, OnFolder
  <1>2. PICK S \in SUBSET Key, r \in {call[c]} : S = Within(call[c].dir)
    BY DEF Within
  <1>3. PICK p : p = Paged(c, S)
    OBVIOUS
  <1>4. /\ r \in FolderCall /\ Homes(r) /\ Kept(r, object)
        /\ p \in FolderCall
        /\ p.op = r.op /\ p.at = r.at /\ p.dir = r.dir /\ p.to = r.to /\ p.crossed = r.crossed
        /\ p.copies = r.copies /\ p.chunks = r.chunks /\ p.done = r.done /\ p.due = r.due
        /\ ToSet(r.files) \subseteq ToSet(p.files) /\ ToSet(p.files) \subseteq ToSet(r.files) \cup S
        /\ ~r.crossed => \A k \in r.due : object[k] # None => InView(p, k)
    BY <1>1, <1>2, <1>3, PagedKeeps
  <1>5. PICK q : q = Cut(p)
    OBVIOUS
  <1>6. /\ q \in FolderCall
        /\ q.op = p.op /\ q.at = p.at /\ q.dir = p.dir /\ q.to = p.to /\ q.crossed = p.crossed
        /\ q.copies = p.copies /\ q.done = p.done /\ q.due = p.due
        /\ q.listing = p.listing /\ q.last = p.last
        /\ ToSet(q.files) \cup UNION q.chunks = ToSet(p.files) \cup UNION p.chunks
        /\ q.listing \/ q.files = <<>>
    BY <1>4, <1>5, CutFacts
  <1>7. r.op = "deletedir" /\ r.at = "list"
    BY <1>1 DEF At
  <1>8. Homes(q)
    <2>1. \A k \in S : k.dir = r.dir
      BY <1>2 DEF Within
    <2>2. \A k \in ToSet(r.files) \cup r.copies \cup UNION r.chunks : k.dir = r.dir
      BY <1>4, <1>7 DEF Homes
    <2>3. q.copies = r.copies /\ q.dir = r.dir /\ ToSet(p.files) \subseteq ToSet(r.files) \cup S
      BY <1>4, <1>6
    <2>4. ASSUME NEW k \in ToSet(q.files) \cup q.copies \cup UNION q.chunks PROVE k.dir = q.dir
      <3>1. CASE k \in q.copies
        BY <2>2, <2>3, <3>1
      <3>2. CASE k \in ToSet(q.files) \cup UNION q.chunks
        <4>1. k \in ToSet(p.files) \cup UNION r.chunks
          BY <1>4, <1>6, <3>2
        <4>. QED
          BY <2>1, <2>2, <2>3, <4>1
      <3>. QED
        BY <3>1, <3>2
    <2>. QED
      BY <1>4, <1>6, <1>7, <2>4 DEF Homes
  <1>9. Kept(q, object)
    <2>1. ASSUME NEW k, InView(p, k) PROVE InView(q, k)
      BY <1>6, <2>1 DEF InView
    <2>. QED
      BY <1>4, <1>6, <1>7, <2>1 DEF Kept
  <1>10. call' = [call EXCEPT ![c] = q]
    BY <1>2, <1>3, <1>5 DEF DeleteDirList, Set
  <1>11. q.op = call[c].op /\ q.dir = call[c].dir /\ q.to = call[c].to /\ q.crossed = call[c].crossed
    BY <1>4, <1>6
  <1>. QED
    BY <1>1, <1>6, <1>8, <1>9, <1>10, <1>11, Proceeds DEF DeleteDirList

LEMMA DownloadDirListIInv ==
  ASSUME IInv, NEW c \in Clients, DownloadDirList(c)
  PROVE  IInv'
  <1>1. OnFolder(c) /\ At(c, "downloaddir", "list") /\ call[c] \in FolderCall
    BY FolderFacts DEF DownloadDirList, At, OnFolder
  <1>2. PICK S \in SUBSET Key, r \in {call[c]} : S = Beginning(call[c].dir)
    BY DEF Beginning
  <1>3. PICK p : p = Paged(c, S)
    OBVIOUS
  <1>4. Within(call[c].dir) \subseteq S
    BY <1>1, <1>2, S3Assumption DEF Within, Beginning, FolderCall
  <1>5. /\ r \in FolderCall /\ Homes(r) /\ Kept(r, object)
        /\ p \in FolderCall
        /\ p.op = r.op /\ p.at = r.at /\ p.dir = r.dir /\ p.to = r.to /\ p.crossed = r.crossed
        /\ p.copies = r.copies /\ p.chunks = r.chunks /\ p.done = r.done /\ p.due = r.due
        /\ ~r.crossed => \A k \in r.due : object[k] # None => InView(p, k)
    BY <1>1, <1>2, <1>3, <1>4, PagedKeeps
  <1>6. r.op = "downloaddir" /\ r.at = "list"
    BY <1>1 DEF At
  <1>7. Homes(p)
    BY <1>5, <1>6 DEF Homes
  <1>8. Kept(p, object)
    BY <1>5, <1>6 DEF Kept
  <1>9. call' = [call EXCEPT ![c] = p]
    BY <1>2, <1>3 DEF DownloadDirList, Set
  <1>10. p.op = call[c].op /\ p.dir = call[c].dir /\ p.to = call[c].to /\ p.crossed = call[c].crossed
    BY <1>5
  <1>. QED
    BY <1>1, <1>5, <1>7, <1>8, <1>9, <1>10, Proceeds DEF DownloadDirList

LEMMA DownloadDirReadIInv ==
  ASSUME IInv, NEW c \in Clients, DownloadDirRead(c)
  PROVE  IInv'
  <1>1. OnFolder(c) /\ At(c, "downloaddir", "list") /\ call[c].files # <<>>
    BY DEF DownloadDirRead, At, OnFolder
  <1>2. PICK r : r = call[c]
    OBVIOUS
  <1>3. /\ r \in FolderCall /\ r.op = "downloaddir" /\ r.at = "list" /\ r.files \in Seq(Key)
        /\ r.files # <<>> /\ Homes(r) /\ Kept(r, object)
    BY <1>1, <1>2, FolderFacts DEF At, FolderCall
  <1>4. PICK files \in Seq(Key), k \in Key : files = Tail(r.files) /\ k = Head(r.files)
    <2>1. Tail(r.files) \in Seq(Key) /\ Head(r.files) \in Key
      BY <1>3
    <2>. QED
      BY <2>1, Zenon
  <1>5. ToSet(r.files) \subseteq ToSet(files) \cup {k}
    <2>1. /\ Len(r.files) \in Nat /\ DOMAIN r.files = 1..Len(r.files)
          /\ DOMAIN files = 1..(Len(r.files) - 1) /\ k = r.files[1]
          /\ \A i \in 1..(Len(r.files) - 1) : files[i] = r.files[i + 1]
      BY <1>3, <1>4
    <2>2. ASSUME NEW i \in 1..Len(r.files) PROVE r.files[i] \in ToSet(files) \cup {k}
      <3>1. CASE i = 1
        BY <2>1, <3>1
      <3>2. CASE i # 1
        <4>1. i - 1 \in 1..(Len(r.files) - 1) /\ (i - 1) + 1 = i
          BY <2>1, <3>2
        <4>2. files[i - 1] = r.files[i] /\ i - 1 \in DOMAIN files
          BY <2>1, <4>1
        <4>. QED
          BY <4>2 DEF ToSet
      <3>. QED
        BY <3>1, <3>2
    <2>. QED
      BY <2>1, <2>2 DEF ToSet
  <1>6. PICK q : q = [r EXCEPT !.files = files, !.done = @ \cup {k}]
    OBVIOUS
  <1>7. /\ q.op = r.op /\ q.at = r.at /\ q.dir = r.dir /\ q.to = r.to
        /\ q.crossed = r.crossed /\ q.copies = r.copies /\ q.chunks = r.chunks
        /\ q.done = r.done \cup {k} /\ q.due = r.due /\ q.files = files
        /\ q.listing = r.listing /\ q.last = r.last
    BY <1>3, <1>6 DEF FolderCall
  <1>8. q \in FolderCall
    BY <1>3, <1>6 DEF FolderCall
  <1>9. Homes(q)
    BY <1>3, <1>7 DEF Homes
  <1>10. Kept(q, object)
    <2>1. ASSUME NEW i, InView(r, i) PROVE InView(q, i)
      BY <1>5, <1>7, <2>1 DEF InView
    <2>. QED
      BY <1>3, <1>7, <2>1 DEF Kept
  <1>11. call' = [call EXCEPT ![c] = q]
    BY <1>2, <1>4, <1>6 DEF DownloadDirRead, Set
  <1>12. q.op = call[c].op /\ q.dir = call[c].dir /\ q.to = call[c].to /\ q.crossed = call[c].crossed
    BY <1>2, <1>7
  <1>. QED
    BY <1>1, <1>8, <1>9, <1>10, <1>11, <1>12, Proceeds DEF DownloadDirRead

\* A chunk is deleted: a move loses nothing, because it has copied what is in chunks.
LEMMA DeleteChunkIInv ==
  ASSUME IInv, NEW c \in Clients, NEW chunk, NEW refused, DeleteChunk(c, chunk, refused)
  PROVE  IInv'
  <1>1. OnFolder(c) /\ chunk \in call[c].chunks
    BY DEF DeleteChunk
  <1>2. PICK r : r = call[c]
    OBVIOUS
  <1>3. /\ TypeOK /\ FolderInv /\ r \in FolderCall /\ Homes(r) /\ Kept(r, object)
        /\ call[c].op # "upload" /\ calls \in 0..MaxCalls /\ faults \in 0..MaxFaults
        /\ object \in [Key -> Object \cup {None}]
    BY <1>1, <1>2, FolderFacts
  <1>4. /\ r.op # "downloaddir" /\ chunk \in r.chunks /\ chunk \subseteq Key
        /\ \A k \in chunk : k.dir = r.dir
    BY <1>1, <1>2, <1>3 DEF Homes, FolderCall
  <1>5. object' = [k \in Key |-> IF k \in chunk \ refused THEN None ELSE object[k]]
    BY DEF DeleteChunk
  <1>6. /\ object' \in [Key -> Object \cup {None}]
        /\ \A k \in Key : object'[k] = None \/ object'[k] = object[k]
        /\ \A k \in Key : k \in chunk \ refused => object'[k] = None
        /\ \A k \in Key : k.dir # r.dir => object'[k] = object[k]
    BY <1>3, <1>4, <1>5
  <1>7. PICK q : q = [r EXCEPT !.chunks = @ \ {chunk}, !.due = @ \ refused]
    OBVIOUS
  <1>8. /\ q.op = r.op /\ q.at = r.at /\ q.dir = r.dir /\ q.to = r.to /\ q.crossed = r.crossed
        /\ q.copies = r.copies /\ q.chunks = r.chunks \ {chunk} /\ q.done = r.done
        /\ q.due = r.due \ refused /\ q.files = r.files /\ q.listing = r.listing /\ q.last = r.last
    BY <1>3, <1>7 DEF FolderCall
  <1>9. q \in FolderCall
    BY <1>3, <1>7 DEF FolderCall
  <1>10. UNION q.chunks \subseteq UNION r.chunks
         /\ \A k \in UNION r.chunks : k \in UNION q.chunks \/ k \in chunk
    BY <1>8
  <1>11. Homes(q)
    BY <1>3, <1>8, <1>10 DEF Homes
  <1>12. Kept(q, object')
    <2>. SUFFICES ASSUME ~r.crossed PROVE Kept(q, object')
      BY <1>8 DEF Kept
    <2>1. ASSUME NEW k \in q.due, object'[k] # None PROVE InView(q, k)
      <3>1. k \in Key /\ k \in r.due /\ k \notin refused
        BY <1>3, <1>8 DEF FolderCall
      <3>2. object[k] # None /\ k \notin chunk
        BY <1>6, <2>1, <3>1
      <3>3. InView(r, k)
        BY <1>3, <3>1, <3>2 DEF Kept
      <3>. QED
        BY <1>8, <1>10, <3>2, <3>3 DEF InView
    <2>2. ASSUME r.op = "movedir", NEW k \in (ToSet(q.files) \ q.copies) \cup UNION q.chunks,
                 object'[k] # None
          PROVE  object'[[k EXCEPT !.dir = q.to]] = object'[k]
      <3>1. k \in (ToSet(r.files) \ r.copies) \cup UNION r.chunks
        BY <1>8, <1>10
      <3>2. k \in Key /\ r.to \in Dir /\ r.to # r.dir
        BY <1>3, <2>2, <3>1 DEF Homes, FolderCall, ToSet
      <3>3. object'[k] = object[k]
        BY <1>6, <2>2, <3>2
      <3>4. object[[k EXCEPT !.dir = r.to]] = object[k]
        BY <1>3, <2>2, <3>1, <3>3 DEF Kept
      <3>5. [k EXCEPT !.dir = r.to] \in Key /\ [k EXCEPT !.dir = r.to].dir = r.to
        BY <3>2 DEF Key
      <3>6. object'[[k EXCEPT !.dir = r.to]] = object[[k EXCEPT !.dir = r.to]]
        BY <1>6, <3>2, <3>5
      <3>. QED
        BY <1>8, <3>3, <3>4, <3>6
    <2>. QED
      BY <1>4, <1>8, <2>1, <2>2 DEF Kept
  <1>13. call' = [call EXCEPT ![c] = q]
    BY <1>2, <1>7 DEF DeleteChunk, Set
  <1>14. FolderInv'
    <2>1. PICK D : D = {r.dir}
      OBVIOUS
    <2>2. OnlyIn(D, object, object')
      BY <1>6, <2>1 DEF OnlyIn
    <2>3. r.dir # None
      BY <1>3, S3Assumption DEF FolderCall
    <2>4. D \subseteq Near(q) /\ q.op # "downloaddir"
      BY <1>4, <1>8, <2>1, <2>3 DEF Near
    <2>5. q.op = call[c].op /\ q.dir = call[c].dir /\ q.to = call[c].to /\ q.crossed = call[c].crossed
      BY <1>2, <1>8
    <2>. QED
      BY <1>1, <1>3, <1>11, <1>12, <1>13, <2>2, <2>4, <2>5, GoesOn
  <1>15. lost' = lost
    <2>1. ASSUME NEW k \in chunk \ refused, call[c].op = "movedir", ~call[c].crossed, Exists(k)
          PROVE  object[Moved(c, k)] = object[k]
      <3>1. k \in UNION r.chunks
        BY <1>4
      <3>. QED
        BY <1>2, <1>3, <2>1, <3>1 DEF Kept, Exists, Moved
    <2>2. {k \in chunk \ refused : /\ call[c].op = "movedir" /\ ~call[c].crossed
                                   /\ Exists(k) /\ object[Moved(c, k)] # object[k]} = {}
      BY <2>1
    <2>. QED
      BY <2>2 DEF DeleteChunk
  <1>16. calls' \in 0..MaxCalls /\ UNCHANGED <<upload, ops, archive, left, excused>>
    BY <1>3 DEF DeleteChunk
  <1>17. faults' \in 0..MaxFaults
    BY <1>3, CountersBounded DEF DeleteChunk
  <1>18. \A k \in Key : object'[k] = None \/ \E j \in Key : object'[k] = object[j]
    BY <1>6
  <1>. QED
    BY <1>3, <1>6, <1>9, <1>13, <1>14, <1>15, <1>16, <1>17, <1>18, OwnFolder

\* The call returns: what was due and is not deleted would be in view, and nothing is.
LEMMA DeleteEndsIInv ==
  ASSUME IInv, NEW c \in Clients, DeleteEnds(c)
  PROVE  IInv'
  <1>1. OnFolder(c) /\ call[c].chunks = {}
    BY DEF DeleteEnds, At, OnFolder
  <1>2. PICK r : r = call[c]
    OBVIOUS
  <1>3. r \in FolderCall /\ Homes(r) /\ Kept(r, object) /\ call[c].op # "upload" /\ faults \in 0..MaxFaults
    BY <1>1, <1>2, FolderFacts
  <1>4. r.done = {} /\ r.files = <<>> /\ ~r.listing /\ r.chunks = {}
    BY <1>1, <1>2, <1>3 DEF DeleteEnds, At, Homes
  <1>5. ToSet(r.files) = {}
    BY <1>4 DEF ToSet
  <1>6. \A k : ~InView(r, k)
    BY <1>4, <1>5 DEF InView
  <1>7. {k \in call[c].due : Exists(k) /\ ~call[c].crossed} = {}
    BY <1>2, <1>3, <1>6 DEF Kept, Exists
  <1>8. left' = left
    BY <1>7 DEF DeleteEnds
  <1>. QED
    BY <1>3, <1>8, GivesUp DEF DeleteEnds, Set

\* The archive ends: all that is due exists and is in view, so it was read.
LEMMA DownloadDirEndsIInv ==
  ASSUME IInv, NEW c \in Clients, DownloadDirEnds(c)
  PROVE  IInv'
  <1>1. OnFolder(c) /\ UploadInv /\ ObjectsWhole
    BY DEF DownloadDirEnds, At, OnFolder, IInv
  <1>2. PICK r : r = call[c]
    OBVIOUS
  <1>3. TypeOK /\ FolderInv /\ r \in FolderCall /\ Homes(r) /\ Kept(r, object) /\ call[c].op # "upload"
    BY <1>1, <1>2, FolderFacts
  <1>4. r.op = "downloaddir" /\ ~r.listing /\ r.files = <<>> /\ r.chunks = {}
    BY <1>2, <1>3 DEF DownloadDirEnds, At, Homes
  <1>5. ToSet(r.files) = {}
    BY <1>4 DEF ToSet
  <1>6. ~r.crossed => r.due \subseteq r.done
    BY <1>3, <1>4, <1>5 DEF Kept, InView
  <1>7. PICK due \in SUBSET Key : due = {k \in r.due : ~r.crossed}
    BY <1>3 DEF FolderCall
  <1>8. archive' = [of |-> r.dir, keys |-> r.done, due |-> due]
    BY <1>2, <1>7 DEF DownloadDirEnds
  <1>9. ArchiveComplete'
    BY <1>6, <1>7, <1>8 DEF ArchiveComplete
  <1>10. archive' \in [of : Dir, keys : SUBSET Key, due : SUBSET Key]
    BY <1>3, <1>8 DEF FolderCall
  <1>11. call' = [call EXCEPT ![c] = Idle] /\ UNCHANGED <<object, upload, calls, faults, ops, lost, left, excused>>
    BY DEF DownloadDirEnds, Set
  <1>12. FolderInv'
    <2>1. PICK q \in {Idle} : q.op \notin FolderOps
      BY DEF Idle, FolderOps
    <2>. QED
      BY <1>3, <1>11, <2>1, NotOnFolder
  <1>13. TypeOK'
    <2>1. call' \in [Clients -> CallType]
      BY <1>3, <1>11, CallUpdates DEF CallType
    <2>. QED
      BY <1>3, <1>10, <1>11, <2>1 DEF TypeOK, CallType
  <1>14. UploadInv'
    <2>1. \A e \in Clients : call'[e].op = "upload" <=> call[e].op = "upload"
      BY <1>3, <1>11 DEF TypeOK, Idle
    <2>. QED
      BY <1>1, <1>11, <2>1, UploadsKept
  <1>15. ObjectsWhole' /\ FoldersWhole'
    BY <1>1, <1>11 DEF IInv, ObjectsWhole, Exists, FoldersWhole
  <1>. QED
    BY <1>9, <1>12, <1>13, <1>14, <1>15 DEF IInv

-----------------------------------------------------------------------------
(* The theorems                                                            *)

LEMMA InitIInv ==
  ASSUME Init
  PROVE  IInv
  <1>1. object \in [Key -> Object \cup {None}] /\ ObjectsWhole
    <2>1. ASSUME NEW k \in Key PROVE [of |-> k, size |-> 1, parts |-> <<1>>] \in Object
      <3>1. <<1>> \in Seq(Nat)
        OBVIOUS
      <3>. QED
        BY <3>1 DEF Object
    <2>2. ASSUME NEW k \in Key PROVE Whole([of |-> k, size |-> 1, parts |-> <<1>>])
      <3>1. 1 < MinPart /\ 1 \in Nat
        BY S3Assumption
      <3>2. Parts(1) = 1
        BY <3>1, PartsFacts
      <3>3. <<1>> = [n \in 1..1 |-> n]
        OBVIOUS
      <3>. QED
        BY <3>2, <3>3 DEF Whole
    <2>. QED
      BY <2>1, <2>2 DEF Init, ObjectsWhole, Exists
  <1>2. TypeOK
    <2>1. 0 \in 0..MaxCalls /\ 0 \in 0..MaxFaults
      BY S3Assumption
    <2>. QED
      BY <1>1, <2>1 DEF Init, TypeOK
  <1>3. UploadInv /\ FolderInv
    BY DEF Init, UploadInv, FolderInv, OnFolder, Idle
  <1>4. FoldersWhole /\ ArchiveComplete
    BY DEF Init, FoldersWhole, ArchiveComplete
  <1>. QED
    BY <1>1, <1>2, <1>3, <1>4 DEF IInv

LEMMA UploadIInv ==
  ASSUME IInv, NEW c \in Clients, Upload(c)
  PROVE  IInv'
  BY UploadCreateIInv, PartSendIInv, PartDoneIInv, PartFailsIInv, AbortIInv, CompleteIInv, EndFailsIInv
  DEF Upload

LEMMA FolderIInv ==
  ASSUME IInv, NEW c \in Clients, Folder(c)
  PROVE  IInv'
  <1>1. ASSUME NEW d \in Dir, NEW e \in Dir, Begin(c, "movedir", d, e) PROVE IInv'
    BY <1>1, BeginIInv DEF FolderOps
  <1>2. ASSUME NEW d \in Dir, Begin(c, "deletedir", d, None) \/ Begin(c, "downloaddir", d, None)
        PROVE  IInv'
    BY <1>2, BeginIInv DEF FolderOps
  <1>3. ASSUME MoveDirList(c) \/ MoveDirCopied(c) PROVE IInv'
    BY <1>3, MoveDirListIInv, MoveDirCopiedIInv
  <1>4. ASSUME NEW k \in Key, MoveDirCopy(c, k) \/ MoveDirCopyFails(c, k) PROVE IInv'
    BY <1>4, MoveDirCopyIInv, MoveDirCopyFailsIInv
  <1>5. ASSUME NEW k \in Key, NEW d \in Dir, MoveCopy(c, k, d) PROVE IInv'
    BY <1>5, MoveCopyIInv
  <1>6. ASSUME DeleteDirList(c) \/ DeleteEnds(c) PROVE IInv'
    BY <1>6, DeleteDirListIInv, DeleteEndsIInv
  <1>7. ASSUME NEW chunk, NEW refused, DeleteChunk(c, chunk, refused) PROVE IInv'
    BY <1>7, DeleteChunkIInv
  <1>8. ASSUME DownloadDirList(c) \/ DownloadDirRead(c) \/ DownloadDirBreaks(c) \/ DownloadDirEnds(c)
        PROVE  IInv'
    BY <1>8, DownloadDirListIInv, DownloadDirReadIInv, DownloadDirBreaksIInv, DownloadDirEndsIInv
  <1>. QED
    BY <1>1, <1>2, <1>3, <1>4, <1>5, <1>6, <1>7, <1>8 DEF Folder

LEMMA NextIInv ==
  ASSUME IInv, [Next]_vars
  PROVE  IInv'
  <1>1. CASE UNCHANGED vars
    BY <1>1 DEF vars, IInv, TypeOK, UploadInv, FolderInv, OnFolder, ObjectsWhole, Exists,
                FoldersWhole, ArchiveComplete
  <1>2. CASE Next
    <2>1. ASSUME NEW k \in Key, NEW size \in Sizes, PutObject(k, size) PROVE IInv'
      BY <2>1, PutObjectIInv
    <2>2. ASSUME NEW c \in Clients, Upload(c) \/ Folder(c) \/ Killed(c) PROVE IInv'
      BY <2>2, UploadIInv, FolderIInv, KilledIInv
    <2>. QED
      BY <1>2, <2>1, <2>2 DEF Next
  <1>. QED
    BY <1>1, <1>2

LEMMA Invariance == Spec => []IInv
  <1>1. Init => IInv
    BY InitIInv
  <1>2. IInv /\ [Next]_vars => IInv'
    BY NextIInv
  <1>. QED
    BY <1>1, <1>2, PTL DEF Spec

\* The type invariant of the bucket, the uploads in parts and the calls on folders.
THEOREM TypeCorrect == Spec => []TypeOK
  <1>1. IInv => TypeOK
    BY DEF IInv
  <1>. QED
    BY <1>1, Invariance, PTL

\* However many parts are sent at once, in whatever order they are answered and
\* whichever fails, complete never makes an object with a part missing or out of
\* order: MultipartUpload of any size, with any limit on the parts.
THEOREM ObjectsAreWhole == Spec => []ObjectsWhole
  <1>1. IInv => ObjectsWhole
    BY DEF IInv
  <1>. QED
    BY <1>1, Invariance, PTL

\* A multipart upload nobody works on is left only by a killed process or an abort
\* or complete that failed itself (MultipartUpload.__aexit__), for any number of
\* clients and faults.
THEOREM DanglingIsKnown == Spec => []DanglingKnown
  <1>1. IInv => DanglingKnown
    BY DEF IInv, UploadInv, DanglingKnown, Idle
  <1>. QED
    BY <1>1, Invariance, PTL

\* Of a folder that nobody else touches, move and movedir delete no object they have
\* not copied, and they and deletedir leave no key behind but those S3 refused: for
\* any number of keys, pages and chunks, in whatever order the tasks run.
THEOREM FoldersStayWhole == Spec => []FoldersWhole
  <1>1. IInv => FoldersWhole
    BY DEF IInv
  <1>. QED
    BY <1>1, Invariance, PTL

\* An archive that downloaddir sends to its end has every object that was in the
\* folder all the time, however many pages the listing has and whoever writes to
\* other folders meanwhile.
THEOREM ArchivesComplete == Spec => []ArchiveComplete
  <1>1. IInv => ArchiveComplete
    BY DEF IInv
  <1>. QED
    BY <1>1, Invariance, PTL
=============================================================================
