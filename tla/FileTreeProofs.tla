--------------------------- MODULE FileTreeProofs ---------------------------
(***************************************************************************)
(* Proofs about FileTree for any rows, names, casings, clients and quota,  *)
(* and about AvailablePath for any number of uploads, folders and stems.   *)
(***************************************************************************)
EXTENDS FileTree, AvailablePath, FiniteSetTheorems, SequenceTheorems,
        WellFoundedInduction, TLAPS

\* Requests that run alone, and those that may overlap.
Solo ==
    /\ alone => \A c, d \in Clients : req[c] # None /\ req[d] # None => c = d
    /\ \A c \in Clients : req[c] # None =>
         /\ req[c].op \in {"delete", "move", "empty_trash"} => alone
         /\ asked.overlapping = {} => alone
         /\ req[c].op = "move" => Tidy(asked)

\* All the paths above a row are those of folders.
Rooted == \A i \in Live : \A a \in Parents(row[i].path) : FolderAt(a)

\* The folders a request is about to create: what is above each of them is there or
\* is one of them, and what has come to be there since is a folder.
FoldersFit(paths) ==
    /\ \A q \in paths : \A a \in Parents(q) : FolderAt(a) \/ \E b \in paths : Same(b, a)
    /\ \A q, b \in paths : Same(q, b) => q = b
    /\ \A q \in paths : \A i \in IdsAt(q) : ~alone /\ row[i].kind = "folder"
    /\ ~alone => paths \subseteq FolderPaths(asked)

\* What a request knows is still so.
Fits(r) ==
    /\ r.op = "create_folder" =>
         /\ FoldersFit(r.paths)
         /\ r.then # None =>
              /\ r.then.op = "name_file"
              /\ \E b \in r.paths : Same(b, Parent(r.then.path))
              /\ ~alone => r.then.path \in FilePaths(asked)
    /\ r.op \in {"name_file", "create_file"} =>
         /\ FolderAt(Parent(r.path))
         /\ ~alone => r.path \in FilePaths(asked)
         /\ r.op = "create_file" /\ alone => ~ExistsAt(r.path)
    /\ r.op \in {"delete", "move"} => r.id \in Live /\ r.row = row[r.id]
    /\ r.op = "move" =>
         FolderAt(Parent(r.to)) /\ ~RelativeTo(r.to, r.row.path) /\ ~ExistsAt(r.to)
    /\ r.op = "empty_trash" => r.row = row[TrashId]

RequestsFit == \A c \in Clients : req[c] # None => Fits(req[c])

\* With one casing the paths of rows and requests are made of the names in use.
UsedPath == Seq(UsedNames(asked))
Used(r) ==
    /\ r.op = "create_folder" =>
         /\ r.paths \subseteq UsedPath
         /\ r.then # None => r.then.path \in UsedPath
    /\ r.op \in {"name_file", "create_file"} => r.path \in UsedPath
    /\ r.op = "move" => r.to \in UsedPath
PathsUsed ==
    Tidy(asked) =>
      /\ \A i \in Live : row[i].path \in UsedPath
      /\ \A c \in Clients : req[c] # None => Used(req[c])

\* The inductive invariant of the tree, for the askings the properties are about.
Known == Tidy(asked) \/ Calm(asked)
TreeInv == TypeOK /\ Solo /\ Rooted /\ OneRowPerPath /\ RequestsFit /\ PathsUsed

\* The sizes, once the tree is known to be one.
SizesFit ==
    /\ \A i \in Live \ {HomeId, TrashId} : row[i].kind = "file" => row[i].size = 1
    /\ \A i \in Live \ (IF emptied THEN {HomeId, TrashId} ELSE {}) : SizeExact(i)

\* The uploads under way.
IsUpload(r) == /\ r # None
               /\ \/ r.op \in {"name_file", "create_file"}
                  \/ r.op = "create_folder" /\ r.then # None
Uploading == {c \in Clients : IsUpload(req[c])}
QuotaFits ==
    emptied \/ Cardinality({i \in Live : row[i].kind = "file"}) + Cardinality(Uploading)
                 < Quota + Cardinality(Clients)

-----------------------------------------------------------------------------
(* Paths                                                                   *)

\* Equal paths have equal names position by position, but for casing.
LEMMA SameIs ==
  ASSUME NEW p \in Path, NEW q \in Path
  PROVE  Same(p, q) <=> Len(p) = Len(q) /\ \A i \in 1..Len(p) : Fold[p[i]] = Fold[q[i]]
  BY DEF Same, Path

\* The beginning of a path.
LEMMA PrefixFacts ==
  ASSUME NEW S, NEW p \in Seq(S), NEW k \in 0..Len(p)
  PROVE  /\ SubSeq(p, 1, k) \in Seq(S) /\ Len(SubSeq(p, 1, k)) = k
         /\ \A i \in 1..k : SubSeq(p, 1, k)[i] = p[i]
  <1>1. \A i \in 1..k : p[i] \in S
    OBVIOUS
  <1>2. Len(p) \in Nat /\ k \in Int /\ 1 \in Int /\ k >= 0
    OBVIOUS
  <1>3. /\ SubSeq(p, 1, k) \in Seq(S)
        /\ Len(SubSeq(p, 1, k)) = IF 1 <= k THEN k - 1 + 1 ELSE 0
        /\ \A i \in 1..(k - 1 + 1) : SubSeq(p, 1, k)[i] = p[1 + i - 1]
    BY <1>1, <1>2, SubSeqProperties
  <1>4. k - 1 + 1 = k /\ \A i \in 1..k : 1 + i - 1 = i
    BY <1>2
  <1>. QED
    BY <1>2, <1>3, <1>4

\* A path below another has more names and begins with it, but for casing.
LEMMA BelowIs ==
  ASSUME NEW p \in Path, NEW q \in Path
  PROVE  Below(q, p) <=> Len(q) > Len(p) /\ \A i \in 1..Len(p) : Fold[q[i]] = Fold[p[i]]
  <1>1. CASE Len(q) > Len(p)
    <2>1. Len(p) \in 0..Len(q)
      BY <1>1 DEF Path
    <2>2. PICK s \in Path : /\ s = SubSeq(q, 1, Len(p)) /\ Len(s) = Len(p)
                            /\ \A i \in 1..Len(p) : s[i] = q[i]
      BY <2>1, PrefixFacts, ZenonT(60) DEF Path
    <2>3. Same(s, p) <=> \A i \in 1..Len(p) : Fold[s[i]] = Fold[p[i]]
      BY <2>2, SameIs, ZenonT(60)
    <2>4. \A i \in 1..Len(p) : Fold[s[i]] = Fold[q[i]]
      BY <2>2
    <2>5. (\A i \in 1..Len(p) : Fold[s[i]] = Fold[p[i]])
             <=> \A i \in 1..Len(p) : Fold[q[i]] = Fold[p[i]]
      BY <2>4
    <2>. QED
      BY <1>1, <2>2, <2>3, <2>5 DEF Below
  <1>2. CASE ~(Len(q) > Len(p))
    BY <1>2 DEF Below
  <1>. QED
    BY <1>1, <1>2

\* Same is an equivalence, Below an order on its classes in which the paths above
\* a path are a chain.
LEMMA SameFacts ==
  /\ \A p \in Path : Same(p, p)
  /\ \A p, q \in Path : Same(p, q) => Same(q, p)
  /\ \A p, q, r \in Path : Same(p, q) /\ Same(q, r) => Same(p, r)
  <1>1. \A p \in Path : Same(p, p)
    BY SameIs
  <1>2. \A p, q \in Path : Same(p, q) => Same(q, p)
    BY SameIs
  <1>3. \A p, q, r \in Path : Same(p, q) /\ Same(q, r) => Same(p, r)
    BY SameIs
  <1>. QED
    BY <1>1, <1>2, <1>3

\* The casing of two paths does not matter to whether one is below the other.
LEMMA BelowSame ==
  ASSUME NEW p \in Path, NEW q \in Path, NEW a \in Path, NEW b \in Path,
         Same(p, a), Same(q, b), Below(q, p)
  PROVE  Below(b, a)
  <1>1. /\ Len(p) = Len(a) /\ Len(q) = Len(b) /\ Len(q) > Len(p) /\ Len(p) \in Nat /\ Len(q) \in Nat
        /\ \A i \in 1..Len(p) : Fold[p[i]] = Fold[a[i]]
        /\ \A i \in 1..Len(q) : Fold[q[i]] = Fold[b[i]]
        /\ \A i \in 1..Len(p) : Fold[q[i]] = Fold[p[i]]
    BY SameIs, BelowIs DEF Path
  <1>2. \A i \in 1..Len(a) : i \in 1..Len(p) /\ i \in 1..Len(q)
    BY <1>1
  <1>3. \A i \in 1..Len(a) : Fold[b[i]] = Fold[a[i]]
    BY <1>1, <1>2
  <1>. QED
    BY <1>1, <1>3, BelowIs

\* Being below is a strict order, in which the paths above one path form a chain.
LEMMA BelowFacts ==
  /\ \A p, q \in Path : Same(p, q) => ~Below(p, q)
  /\ \A p, q \in Path : Below(p, q) => ~Below(q, p)
  /\ \A p, q, r \in Path : Below(p, q) /\ Below(q, r) => Below(p, r)
  /\ \A p, q, r \in Path : Below(p, q) /\ Below(p, r) =>
       Same(q, r) \/ Below(q, r) \/ Below(r, q)
  <1>0. \A p \in Path : Len(p) \in Nat
    BY DEF Path
  <1>1. \A p, q \in Path : Same(p, q) => ~Below(p, q)
    BY <1>0, SameIs, BelowIs
  <1>2. \A p, q \in Path : Below(p, q) => ~Below(q, p)
    BY <1>0, BelowIs
  <1>3. ASSUME NEW p \in Path, NEW q \in Path, NEW r \in Path, Below(p, q), Below(q, r)
        PROVE  Below(p, r)
    <2>1. /\ Len(p) > Len(q) /\ Len(q) > Len(r)
          /\ \A i \in 1..Len(q) : Fold[p[i]] = Fold[q[i]]
          /\ \A i \in 1..Len(r) : Fold[q[i]] = Fold[r[i]]
      BY <1>3, BelowIs
    <2>2. \A i \in 1..Len(r) : i \in 1..Len(q)
      BY <1>0, <2>1
    <2>3. Len(p) > Len(r) /\ \A i \in 1..Len(r) : Fold[p[i]] = Fold[r[i]]
      BY <1>0, <2>1, <2>2
    <2>. QED
      BY <2>3, BelowIs
  <1>4. ASSUME NEW p \in Path, NEW q \in Path, NEW r \in Path, Below(p, q), Below(p, r)
        PROVE  Same(q, r) \/ Below(q, r) \/ Below(r, q)
    <2>1. /\ \A i \in 1..Len(q) : Fold[p[i]] = Fold[q[i]]
          /\ \A i \in 1..Len(r) : Fold[p[i]] = Fold[r[i]]
      BY <1>4, BelowIs
    <2>2. CASE Len(q) = Len(r)
      BY <2>1, <2>2, SameIs
    <2>3. CASE Len(q) > Len(r)
      <3>1. \A i \in 1..Len(r) : i \in 1..Len(q)
        BY <1>0, <2>3
      <3>. QED
        BY <2>1, <2>3, <3>1, BelowIs
    <2>4. CASE Len(r) > Len(q)
      <3>1. \A i \in 1..Len(q) : i \in 1..Len(r)
        BY <1>0, <2>4
      <3>. QED
        BY <2>1, <2>4, <3>1, BelowIs
    <2>. QED
      BY <1>0, <2>2, <2>3, <2>4
  <1>. QED
    BY <1>1, <1>2, <1>3, <1>4

\* The parents of a path are above it, and whatever is above it is one of them but
\* for its casing.
LEMMA ParentsFacts ==
  ASSUME NEW q \in Path
  PROVE  /\ \A a \in Parents(q) : a \in Path /\ Below(q, a)
         /\ \A p \in Path : Below(q, p) => \E a \in Parents(q) : Same(a, p)
         /\ q # <<>> => Parent(q) \in Parents(q) /\ Parent(q) \in Path
         /\ q # <<>> => \A p \in Path : Below(q, p) => Same(Parent(q), p) \/ Below(Parent(q), p)
         /\ q # <<>> => <<>> \in Parents(q)
  <1>0. Len(q) \in Nat /\ <<>> \in Path /\ Len(<<>>) = 0
    BY DEF Path
  <1>1. ASSUME NEW k \in 0..(Len(q) - 1)
        PROVE  /\ SubSeq(q, 1, k) \in Path /\ Len(SubSeq(q, 1, k)) = k
               /\ \A i \in 1..k : SubSeq(q, 1, k)[i] = q[i]
               /\ SubSeq(q, 1, k) \in Parents(q)
    <2>1. k \in 0..Len(q)
      BY <1>0
    <2>. QED
      BY <2>1, PrefixFacts DEF Path, Parents
  <1>2. ASSUME NEW a \in Parents(q) PROVE a \in Path /\ Below(q, a)
    <2>1. PICK k \in 0..(Len(q) - 1) : a = SubSeq(q, 1, k)
      BY DEF Parents
    <2>2. Len(q) > k /\ k \in Nat
      BY <1>0
    <2>. QED
      BY <1>1, <2>1, <2>2, BelowIs
  <1>3. ASSUME NEW p \in Path, Below(q, p) PROVE \E a \in Parents(q) : Same(a, p)
    <2>1. Len(p) \in 0..(Len(q) - 1) /\ \A i \in 1..Len(p) : Fold[q[i]] = Fold[p[i]]
      BY <1>0, <1>3, BelowIs DEF Path
    <2>2. PICK s \in Parents(q) : /\ s \in Path /\ Len(s) = Len(p)
                                  /\ \A i \in 1..Len(p) : s[i] = q[i]
      BY <1>1, <2>1
    <2>3. Same(s, p)
      BY <2>1, <2>2, SameIs
    <2>. QED
      BY <2>3
  <1>4. ASSUME q # <<>> PROVE Len(q) - 1 \in 0..(Len(q) - 1) /\ 0 \in 0..(Len(q) - 1)
    <2>1. Len(q) # 0
      BY <1>4, EmptySeq DEF Path
    <2>. QED
      BY <1>0, <2>1
  <1>5. ASSUME q # <<>> PROVE Parent(q) \in Parents(q) /\ Parent(q) \in Path
    BY <1>1, <1>4, <1>5 DEF Parent, Front
  <1>6. ASSUME q # <<>>, NEW p \in Path, Below(q, p)
        PROVE  Same(Parent(q), p) \/ Below(Parent(q), p)
    <2>1. /\ Len(Parent(q)) = Len(q) - 1 /\ Parent(q) \in Path
          /\ \A i \in 1..(Len(q) - 1) : Parent(q)[i] = q[i]
      BY <1>1, <1>4, <1>6 DEF Parent, Front
    <2>2. Len(q) > Len(p) /\ Len(p) \in Nat /\ \A i \in 1..Len(p) : Fold[q[i]] = Fold[p[i]]
      BY <1>6, BelowIs DEF Path
    <2>3. \A i \in 1..Len(p) : i \in 1..(Len(q) - 1)
      BY <1>0, <2>2
    <2>4. \A i \in 1..Len(p) : Fold[Parent(q)[i]] = Fold[p[i]]
      BY <2>1, <2>2, <2>3
    <2>5. CASE Len(Parent(q)) = Len(p)
      BY <2>1, <2>4, <2>5, SameIs
    <2>6. CASE Len(Parent(q)) > Len(p)
      BY <2>1, <2>4, <2>6, BelowIs
    <2>. QED
      BY <1>0, <2>1, <2>2, <2>5, <2>6
  <1>7. ASSUME q # <<>> PROVE <<>> \in Parents(q)
    <2>1. SubSeq(q, 1, 0) = <<>>
      BY SubSeqEmpty
    <2>. QED
      BY <1>1, <1>4, <1>7, <2>1
  <1>. QED
    BY <1>2, <1>3, <1>5, <1>6, <1>7

\* The longest of some paths that are shorter than p.
LEMMA Longest ==
  ASSUME NEW S, NEW f \in [S -> Path], NEW n \in Nat, S # {}, \A i \in S : Len(f[i]) <= n
  PROVE  \E i \in S : \A j \in S : Len(f[j]) <= Len(f[i])
  <1>. DEFINE T == {n - Len(f[i]) : i \in S}
  <1>0. \A i \in S : Len(f[i]) \in Nat
    BY DEF Path
  <1>1. T \subseteq Nat /\ T # {}
    BY <1>0
  <1>2. PICK m \in T : \A k \in T : ~(<<k, m>> \in OpToRel(<, Nat))
    BY <1>1, NatLessThanWellFounded, WFMin
  <1>3. \A k \in T : ~(k < m)
    BY <1>1, <1>2 DEF OpToRel
  <1>4. PICK i \in S : m = n - Len(f[i])
    OBVIOUS
  <1>5. \A j \in S : ~(n - Len(f[j]) < n - Len(f[i]))
    BY <1>3, <1>4
  <1>. QED
    BY <1>0, <1>5

-----------------------------------------------------------------------------
(* Rows                                                                    *)

Table == [Ids -> Row \cup {None}]

\* incr_size_batch changes nothing but the sizes of the rows at the paths.
LEMMA IncrFacts ==
  ASSUME NEW rows \in Table, NEW paths, NEW v \in Int
  PROVE  LET new == IncrSize(rows, paths, v)
         IN  /\ new \in Table
             /\ \A i \in Ids : new[i] = None <=> rows[i] = None
             /\ \A i \in Ids : rows[i] # None =>
                  /\ new[i].path = rows[i].path /\ new[i].kind = rows[i].kind
                  /\ new[i].size = IF rows[i].path \in paths THEN rows[i].size + v
                                                              ELSE rows[i].size
  <1>. DEFINE new == IncrSize(rows, paths, v)
  <1>0. None \notin Row
    BY TreeAssumption
  <1>1. ASSUME NEW i \in Ids
        PROVE  /\ new[i] \in Row \cup {None}
               /\ new[i] = None <=> rows[i] = None
               /\ rows[i] # None =>
                    /\ new[i].path = rows[i].path /\ new[i].kind = rows[i].kind
                    /\ new[i].size = IF rows[i].path \in paths THEN rows[i].size + v
                                                                ELSE rows[i].size
    <2>1. CASE rows[i] # None /\ rows[i].path \in paths
      <3>1. rows[i] \in Row
        BY <2>1 DEF Table
      <3>2. new[i] = [rows[i] EXCEPT !.size = @ + v]
        BY <2>1 DEF IncrSize
      <3>3. /\ [rows[i] EXCEPT !.size = @ + v].path = rows[i].path
            /\ [rows[i] EXCEPT !.size = @ + v].kind = rows[i].kind
            /\ [rows[i] EXCEPT !.size = @ + v].size = rows[i].size + v
        BY <3>1 DEF Row
      <3>4. [rows[i] EXCEPT !.size = @ + v] \in Row
        BY <3>1 DEF Row
      <3>. QED
        BY <1>0, <2>1, <3>2, <3>3, <3>4
    <2>2. CASE ~(rows[i] # None /\ rows[i].path \in paths)
      <3>1. new[i] = rows[i]
        BY <2>2 DEF IncrSize
      <3>. QED
        BY <2>2, <3>1 DEF Table
    <2>. QED
      BY <2>1, <2>2
  <1>2. new \in Table
    BY <1>1 DEF Table, IncrSize
  <1>. QED
    BY <1>1, <1>2

\* The rows with v more in the size of those at the paths.
Increased(new, rows, paths, v) ==
  /\ new \in Table
  /\ \A i \in Ids : new[i] = None <=> rows[i] = None
  /\ \A i \in Ids : rows[i] # None =>
       /\ new[i].path = rows[i].path /\ new[i].kind = rows[i].kind
       /\ new[i].size = IF rows[i].path \in paths THEN rows[i].size + v ELSE rows[i].size

LEMMA IncreasedBy ==
  ASSUME NEW rows \in Table, NEW paths, NEW v \in Int, NEW new, new = IncrSize(rows, paths, v)
  PROVE  Increased(new, rows, paths, v)
  BY IncrFacts DEF Increased

\* The rows are those there were and one for each of the paths.
Extended(rows, paths, kind, size) ==
  /\ rows \in Table
  /\ \A i \in Live : rows[i] = row[i]
  /\ \A i \in Ids \ Live : rows[i] # None =>
       rows[i].path \in paths /\ rows[i].kind = kind /\ rows[i].size = size
  /\ \A p \in paths : \E i \in Ids \ Live : rows[i] # None /\ rows[i].path = p
  /\ \A i, j \in Ids \ Live : rows[i] # None /\ rows[j] # None
       /\ rows[i].path = rows[j].path => i = j

\* save_batch leaves the rows there are and adds one for each of the paths.
LEMMA InsertedFacts ==
  ASSUME row \in Table, NEW paths, paths \subseteq Path, NEW kind, kind \in {"file", "folder"},
         NEW size, size \in Int, NEW rows, rows \in Inserted(paths, kind, size)
  PROVE  Extended(rows, paths, kind, size)
  <1>0. None \notin Row
    BY TreeAssumption
  <1>1. PICK id \in [paths -> Ids \ Live] :
          /\ \A p, q \in paths : id[p] = id[q] => p = q
          /\ rows = [i \in Ids |-> IF \E p \in paths : id[p] = i
                                   THEN [path |-> CHOOSE p \in paths : id[p] = i,
                                         kind |-> kind, size |-> size]
                                   ELSE row[i]]
    BY Zenon DEF Inserted
  <1>2. ASSUME NEW p \in paths
        PROVE  /\ id[p] \in Ids \ Live
               /\ rows[id[p]] = [path |-> p, kind |-> kind, size |-> size]
    <2>1. id[p] \in Ids \ Live
      OBVIOUS
    <2>2. (CHOOSE q \in paths : id[q] = id[p]) = p
      BY <1>1
    <2>. QED
      BY <1>1, <2>1, <2>2
  <1>3. ASSUME NEW p \in paths
        PROVE  /\ rows[id[p]] \in Row /\ rows[id[p]] # None
               /\ rows[id[p]].path = p /\ rows[id[p]].kind = kind /\ rows[id[p]].size = size
    <2>1. [path |-> p, kind |-> kind, size |-> size] \in Row
      BY DEF Row
    <2>. QED
      BY <1>0, <1>2, <2>1
  <1>4. ASSUME NEW i \in Ids, ~\E p \in paths : id[p] = i
        PROVE  rows[i] = row[i]
    BY <1>1, <1>4
  <1>5. rows \in Table
    <2>1. ASSUME NEW i \in Ids PROVE rows[i] \in Row \cup {None}
      BY <1>3, <1>4 DEF Table
    <2>2. rows = [i \in Ids |-> rows[i]]
      BY <1>1
    <2>. QED
      BY <2>1, <2>2 DEF Table
  <1>6. \A i \in Live : rows[i] = row[i]
    BY <1>1, <1>4 DEF Live
  <1>7. ASSUME NEW i \in Ids \ Live, rows[i] # None
        PROVE  \E p \in paths : id[p] = i
    BY <1>4, <1>7 DEF Live
  <1>8. \A p \in paths : \E i \in Ids \ Live : rows[i] # None /\ rows[i].path = p
    BY <1>2, <1>3
  <1>9. \A i \in Ids \ Live : rows[i] # None =>
          rows[i].path \in paths /\ rows[i].kind = kind /\ rows[i].size = size
    BY <1>3, <1>7
  <1>10. \A i, j \in Ids \ Live : rows[i] # None /\ rows[j] # None
           /\ rows[i].path = rows[j].path => i = j
    BY <1>3, <1>7
  <1>. QED
    BY <1>5, <1>6, <1>8, <1>9, <1>10 DEF Extended

\* The folders that create_folder saves for p, by the deepest folder there is.
LEMMA MissingFacts ==
  ASSUME TypeOK, NEW p \in Path, p # <<>>
  PROVE  \E d \in Live :
           LET at == row[d].path IN
           /\ at \in Path /\ \E q \in Parents(p) : Same(at, q)
           /\ \A i \in Live : \A q \in Parents(p) :
                Same(row[i].path, q) => Len(row[i].path) <= Len(at)
           /\ MissingFolders(p) =
                {q \in Parents(p) : Len(q) > Len(at)} \cup {RestoredCasing(p, at)}
  <1>. DEFINE found == {i \in Live : \E q \in Parents(p) : Same(row[i].path, q)}
              f == [i \in found |-> row[i].path]
              deepest == CHOOSE i \in found : \A j \in found :
                           Len(row[j].path) <= Len(row[i].path)
  <1>1. \A i \in Live : row[i].path \in Path
    BY DEF TypeOK, Live, Row
  <1>2. HomeId \in found
    <2>1. HomeId \in Live /\ row[HomeId].path = <<>> /\ <<>> \in Path
      BY DEF TypeOK, Path
    <2>2. <<>> \in Parents(p)
      BY ParentsFacts
    <2>. QED
      BY <2>1, <2>2, SameFacts
  <1>3. \A i \in found : f[i] \in Path /\ Len(f[i]) <= Len(p)
    <2>1. ASSUME NEW i \in found PROVE Len(row[i].path) <= Len(p)
      <3>1. PICK q \in Parents(p) : Same(row[i].path, q)
        OBVIOUS
      <3>2. q \in Path /\ Below(p, q)
        BY ParentsFacts
      <3>3. Len(row[i].path) = Len(q) /\ Len(p) > Len(q) /\ Len(p) \in Nat /\ Len(q) \in Nat
        BY <1>1, <3>1, <3>2, SameIs, BelowIs DEF Path
      <3>. QED
        BY <3>3
    <2>. QED
      BY <1>1, <2>1
  <1>4. f \in [found -> Path] /\ found # {} /\ Len(p) \in Nat
    <2>1. f \in [found -> Path]
      BY <1>3
    <2>2. Len(p) \in Nat
      BY DEF Path
    <2>. QED
      BY <1>2, <2>1, <2>2
  <1>. HIDE DEF found
  <1>5. \E i \in found : \A j \in found : Len(f[j]) <= Len(f[i])
    <2>. HIDE DEF f
    <2>. QED
      BY <1>3, <1>4, Longest
  <1>6. deepest \in found /\ \A j \in found : Len(row[j].path) <= Len(row[deepest].path)
    BY <1>5
  <1>7. MissingFolders(p) = {q \in Parents(p) : Len(q) > Len(row[deepest].path)}
                              \cup {RestoredCasing(p, row[deepest].path)}
    BY DEF MissingFolders, found
  <1>8. PICK d \in found : d = deepest
    BY <1>6
  <1>9. d \in Live /\ \E q \in Parents(p) : Same(row[d].path, q)
    BY DEF found
  <1>10. \A i \in Live : \A q \in Parents(p) :
           Same(row[i].path, q) => Len(row[i].path) <= Len(row[d].path)
    BY <1>6, <1>8 DEF found
  <1>. HIDE DEF deepest
  <1>. QED
    BY <1>1, <1>7, <1>8, <1>9, <1>10

\* The end of p after as many names as at has, put after at.
LEMMA JoinFacts ==
  ASSUME NEW S, NEW p \in Seq(S), NEW at \in Seq(S), NEW k \in 0..Len(p)
  PROVE  LET r == at \o SubSeq(p, k + 1, Len(p))
         IN  /\ r \in Seq(S) /\ Len(r) = Len(at) + Len(p) - k
             /\ \A i \in 1..Len(at) : r[i] = at[i]
             /\ \A i \in 1..(Len(p) - k) : r[Len(at) + i] = p[k + i]
  <1>. DEFINE t == SubSeq(p, k + 1, Len(p))
              r == at \o t
  <1>1. Len(p) \in Nat /\ Len(at) \in Nat /\ k \in Nat /\ k + 1 \in Int /\ k <= Len(p)
    OBVIOUS
  <1>2. \A i \in (k + 1)..Len(p) : p[i] \in S
    BY <1>1
  <1>3. /\ t \in Seq(S) /\ Len(t) = IF k + 1 <= Len(p) THEN Len(p) - (k + 1) + 1 ELSE 0
        /\ \A i \in 1..(Len(p) - (k + 1) + 1) : t[i] = p[k + 1 + i - 1]
    BY <1>1, <1>2, SubSeqProperties
  <1>4. /\ Len(t) = Len(p) - k /\ \A i \in 1..(Len(p) - k) : t[i] = p[k + i]
    BY <1>1, <1>3
  <1>. HIDE DEF t
  <1>5. /\ r \in Seq(S) /\ Len(r) = Len(at) + Len(t)
        /\ \A i \in 1..(Len(at) + Len(t)) :
             r[i] = IF i <= Len(at) THEN at[i] ELSE t[i - Len(at)]
    BY <1>3, ConcatProperties
  <1>. HIDE DEF r
  <1>6. \A i \in 1..Len(at) : r[i] = at[i]
    BY <1>1, <1>4, <1>5, SMTT(30)
  <1>7. ASSUME NEW i \in 1..(Len(p) - k) PROVE r[Len(at) + i] = p[k + i]
    <2>1. /\ Len(at) + i \in 1..(Len(at) + Len(t)) /\ ~(Len(at) + i <= Len(at))
          /\ Len(at) + i - Len(at) = i
      BY <1>1, <1>4
    <2>2. r[Len(at) + i] = t[Len(at) + i - Len(at)]
      BY <1>5, <2>1
    <2>. QED
      BY <1>4, <2>1, <2>2
  <1>8. Len(r) = Len(at) + Len(p) - k
    BY <1>1, <1>4, <1>5
  <1>. QED
    BY <1>5, <1>6, <1>7, <1>8 DEF r, t

\* A path in the casing of a folder above it is the same path.
LEMMA RestoredFacts ==
  ASSUME NEW p \in Path, NEW at \in Path, NEW q \in Parents(p), Same(at, q)
  PROVE  LET r == RestoredCasing(p, at)
         IN  /\ r \in Path /\ r # <<>> /\ Same(r, p) /\ Len(at) < Len(p)
             /\ \A S : p \in Seq(S) /\ at \in Seq(S) => r \in Seq(S)
  <1>. DEFINE r == RestoredCasing(p, at)
  <1>1. q \in Path /\ Below(p, q)
    BY ParentsFacts
  <1>2. /\ Len(at) = Len(q) /\ Len(p) > Len(q) /\ Len(at) \in Nat /\ Len(p) \in Nat
        /\ \A i \in 1..Len(at) : Fold[at[i]] = Fold[q[i]]
        /\ \A i \in 1..Len(q) : Fold[p[i]] = Fold[q[i]]
    BY <1>1, SameIs, BelowIs DEF Path
  <1>3. Len(at) \in 0..Len(p)
    BY <1>2
  <1>4. /\ r \in Path /\ Len(r) = Len(at) + Len(p) - Len(at)
        /\ \A i \in 1..Len(at) : r[i] = at[i]
        /\ \A i \in 1..(Len(p) - Len(at)) : r[Len(at) + i] = p[Len(at) + i]
    BY <1>3, JoinFacts, SMTT(30) DEF RestoredCasing, Path
  <1>5. ASSUME NEW S, p \in Seq(S), at \in Seq(S) PROVE r \in Seq(S)
    BY <1>3, <1>5, JoinFacts DEF RestoredCasing
  <1>. HIDE DEF r
  <1>6. Len(r) = Len(p)
    BY <1>2, <1>4
  <1>7. ASSUME NEW i \in 1..Len(r) PROVE Fold[r[i]] = Fold[p[i]]
    <2>1. CASE i <= Len(at)
      <3>1. i \in 1..Len(at) /\ i \in 1..Len(q)
        BY <1>2, <2>1
      <3>. QED
        BY <1>2, <1>4, <3>1
    <2>2. CASE i > Len(at)
      <3>1. i - Len(at) \in 1..(Len(p) - Len(at)) /\ Len(at) + (i - Len(at)) = i
        BY <1>2, <1>6, <2>2
      <3>. QED
        BY <1>4, <3>1
    <2>. QED
      BY <1>2, <1>6, <2>1, <2>2
  <1>8. Same(r, p)
    BY <1>4, <1>6, <1>7, SameIs
  <1>9. r # <<>>
    BY <1>2, <1>6
  <1>. QED
    BY <1>2, <1>4, <1>5, <1>8, <1>9 DEF r

-----------------------------------------------------------------------------
(* Types                                                                   *)

\* The requests that the first steps of the operations leave.
LEMMA RequestsMade ==
  /\ \A paths \in SUBSET (Path \ {<<>>}), then \in Naming \cup {None} :
       [op |-> "create_folder", paths |-> paths, then |-> then] \in Request
  /\ \A op \in {"name_file", "create_file"}, p \in Path \ {<<>>} :
       [op |-> op, path |-> p] \in Naming /\ [op |-> op, path |-> p] \in Request
  /\ \A i \in Ids \ {HomeId, TrashId}, r \in Item :
       [op |-> "delete", id |-> i, row |-> r] \in Request
  /\ \A i \in Ids \ {HomeId, TrashId}, r \in Item, p \in Path \ {<<>>} :
       [op |-> "move", id |-> i, row |-> r, to |-> p] \in Request
  /\ \A r \in Row : [op |-> "empty_trash", row |-> r] \in Request
  BY DEF Request, Naming

\* What a request of each kind has.
LEMMA RequestFields ==
  ASSUME NEW r \in Request
  PROVE  /\ r.op \in {"create_folder", "name_file", "create_file", "delete", "move",
                      "empty_trash"}
         /\ r.op = "create_folder" =>
              r.paths \in SUBSET (Path \ {<<>>}) /\ r.then \in Naming \cup {None}
         /\ r.op \in {"name_file", "create_file"} => r \in Naming /\ r.path \in Path \ {<<>>}
         /\ r.op \in {"delete", "move"} => r.id \in Ids \ {HomeId, TrashId} /\ r.row \in Item
         /\ r.op = "move" => r.to \in Path \ {<<>>}
         /\ r.op = "empty_trash" => r.row \in Row
  BY DEF Request, Naming

\* What an upload has that waits for its folders.
LEMMA NamingFields ==
  ASSUME NEW r \in Naming
  PROVE  /\ r \in Request /\ r # None
         /\ r.op \in {"name_file", "create_file"} /\ r.path \in Path \ {<<>>}
  BY TreeAssumption DEF Request, Naming

\* An asking has paths that are not Home.
LEMMA AskedPaths ==
  ASSUME TypeOK
  PROVE  asked.files \cup asked.folders \subseteq Path \ {<<>>}
  BY TreeAssumption DEF TypeOK, Path

\* The rows with their types; every row but that of Home is an item.
LEMMA TypedRows ==
  ASSUME TypeOK
  PROVE  /\ row \in Table /\ \A i \in Live : i \in Ids /\ row[i] \in Row /\ row[i].path \in Path
         /\ \A i \in Live \ {HomeId} : row[i] \in Item
         /\ TrashPath \in Path /\ TrashPath # <<>> /\ Len(TrashPath) = 1
  <1>1. row \in Table /\ \A i \in Live : i \in Ids /\ row[i] \in Row
    BY DEF TypeOK, Table, Live
  <1>2. \A i \in Live : row[i].path \in Path
    BY <1>1 DEF Row
  <1>3. ASSUME NEW i \in Live \ {HomeId} PROVE row[i] \in Item
    <2>1. row[i] \in Row /\ row[i].path # <<>>
      BY <1>1 DEF TypeOK
    <2>. QED
      BY <2>1 DEF Row, Item
  <1>4. TrashPath \in Path /\ TrashPath # <<>> /\ Len(TrashPath) = 1
    BY TreeAssumption DEF TrashPath, Path
  <1>. QED
    BY <1>1, <1>2, <1>3, <1>4

\* A step that only changes a request.
LEMMA OneRequest ==
  ASSUME TypeOK, NEW c \in Clients, NEW r \in Request \cup {None},
         req' = [req EXCEPT ![c] = r], row' = row, alone' \in BOOLEAN,
         emptied' = emptied, asked' = asked
  PROVE  TypeOK'
  <1>1. req' \in [Clients -> Request \cup {None}]
    BY DEF TypeOK
  <1>. QED
    BY <1>1 DEF TypeOK, Live

\* A step that changes rows and leaves Home and Trash where they are.
LEMMA NewRows ==
  ASSUME TypeOK, NEW c \in Clients, NEW r \in Request \cup {None},
         req' = [req EXCEPT ![c] = r], row' \in Table, alone' = alone,
         emptied' \in BOOLEAN, asked' = asked,
         \A i \in {HomeId, TrashId} : row'[i] # None /\ row'[i].path = row[i].path,
         \A i \in Ids \ {HomeId} : row'[i] # None => row'[i].path # <<>>
  PROVE  TypeOK'
  <1>1. req' \in [Clients -> Request \cup {None}]
    BY DEF TypeOK
  <1>2. alone' \in BOOLEAN /\ {HomeId, TrashId} \subseteq Ids
    BY TreeAssumption DEF TypeOK
  <1>. QED
    BY <1>1, <1>2 DEF TypeOK, Live, Table

\* The folders found missing have paths, and Home is not one of them.
LEMMA MissingTyped ==
  ASSUME TypeOK, NEW p \in Path, p # <<>>
  PROVE  MissingFolders(p) \in SUBSET (Path \ {<<>>})
  <1>1. PICK d \in Live :
          /\ row[d].path \in Path /\ \E q \in Parents(p) : Same(row[d].path, q)
          /\ MissingFolders(p) = {q \in Parents(p) : Len(q) > Len(row[d].path)}
                                   \cup {RestoredCasing(p, row[d].path)}
    BY MissingFacts
  <1>2. RestoredCasing(p, row[d].path) \in Path \ {<<>>}
    BY <1>1, RestoredFacts
  <1>3. ASSUME NEW q \in Parents(p), Len(q) > Len(row[d].path) PROVE q \in Path \ {<<>>}
    <2>1. q \in Path /\ Len(q) > 0
      BY <1>1, <1>3, ParentsFacts, SMTT(30) DEF Path
    <2>. QED
      BY <2>1
  <1>. QED
    BY <1>1, <1>2, <1>3

\* The reading half of create_folder, also at the beginning of an upload.
LEMMA ReadCreateFolderTyped ==
  ASSUME TypeOK, NEW c \in Clients, NEW p \in Path, p # <<>>, NEW then \in Naming \cup {None},
         ReadCreateFolder(c, p, then), alone' \in BOOLEAN
  PROVE  TypeOK'
  <1>. DEFINE r == [op |-> "create_folder", paths |-> MissingFolders(p), then |-> then]
  <1>1. r \in Request
    BY MissingTyped, RequestsMade
  <1>2. req' = [req EXCEPT ![c] = r] /\ row' = row /\ emptied' = emptied /\ asked' = asked
    BY DEF ReadCreateFolder, Start
  <1>. HIDE DEF r
  <1>. QED
    BY <1>1, <1>2, OneRequest

\* get_available_path gives a path in the folder of the path asked for.
LEMMA AvailableFacts ==
  ASSUME NEW p \in Path, p # <<>>, NEW q \in Available(p)
  PROVE  /\ q \in Path /\ q # <<>> /\ ~ExistsAt(q) /\ Parent(q) = Parent(p)
         /\ q = p \/ \E n \in OtherNames : q = Append(Parent(p), n)
  <1>1. CASE q = p /\ ~ExistsAt(p)
    BY <1>1
  <1>2. CASE ExistsAt(p)
    <2>1. PICK n \in OtherNames : q = Append(Parent(p), n) /\ ~ExistsAt(q)
      BY <1>2 DEF Available
    <2>2. Parent(p) \in Seq(Names) /\ n \in Names
      BY ParentsFacts, TreeAssumption DEF Path
    <2>3. /\ q \in Path /\ q # <<>> /\ Len(q) = Len(Parent(p)) + 1
          /\ \A i \in 1..Len(Parent(p)) : q[i] = Parent(p)[i]
      BY <2>1, <2>2, AppendProperties DEF Path
    <2>4. Parent(q) = Parent(p)
      <3>1. Len(q) - 1 = Len(Parent(p)) /\ Len(q) - 1 \in 0..Len(q)
        BY <2>2, <2>3
      <3>2. /\ Parent(q) \in Seq(Names) /\ Len(Parent(q)) = Len(Parent(p))
            /\ \A i \in 1..Len(Parent(p)) : Parent(q)[i] = q[i]
        BY <2>3, <3>1, PrefixFacts DEF Parent, Front, Path
      <3>. QED
        BY <2>2, <2>3, <3>2, SeqEqual
    <2>. QED
      BY <2>1, <2>3, <2>4
  <1>. QED
    BY <1>1, <1>2 DEF Available

\* What the transactions write. The file of an upload is new, and is counted in
\* what is above it.
LEMMA UploadSaveRows ==
  ASSUME TypeOK, NEW c \in Clients, UploadSave(c), NEW p, p = req[c].path
  PROVE  /\ p \in Path \ {<<>>} /\ req' = [req EXCEPT ![c] = None]
         /\ UNCHANGED <<alone, asked, emptied>> /\ row' \in Table
         /\ \/ row' = row
            \/ \E new \in Ids \ Live :
                 /\ Live' = Live \cup {new}
                 /\ row'[new].path = p /\ row'[new].kind = "file" /\ row'[new].size = 1
                 /\ \A i \in Live :
                      /\ row[i].path # p
                      /\ row'[i].path = row[i].path /\ row'[i].kind = row[i].kind
                      /\ row'[i].size = IF row[i].path \in Parents(p) THEN row[i].size + 1
                                                                      ELSE row[i].size
  <1>1. req[c] \in Request /\ req[c].op = "create_file"
    BY DEF UploadSave, TypeOK
  <1>2. p \in Path \ {<<>>}
    BY <1>1, RequestFields
  <1>3. req' = [req EXCEPT ![c] = None] /\ UNCHANGED <<alone, asked, emptied>>
    BY DEF UploadSave, Finish
  <1>4. row \in Table /\ \A i \in Live : i \in Ids
    BY TypedRows
  <1>5. PICK rows \in Inserted({p}, "file", 1) :
          row' = IF Unique(rows) THEN IncrSize(rows, Parents(p), 1) ELSE row
    BY Zenon DEF UploadSave
  <1>6. CASE ~Unique(rows)
    BY <1>2, <1>3, <1>4, <1>5, <1>6
  <1>7. CASE Unique(rows)
    <2>1. Extended(rows, {p}, "file", 1)
      <3>1. "file" \in {"file", "folder"} /\ 1 \in Int /\ {p} \subseteq Path
        BY <1>2
      <3>. QED
        BY <1>4, <1>5, <3>1, InsertedFacts, Zenon
    <2>2. PICK new \in Ids \ Live : rows[new] # None /\ rows[new].path = p
      BY <2>1 DEF Extended
    <2>3. /\ row' \in Table
          /\ \A i \in Ids : row'[i] = None <=> rows[i] = None
          /\ \A i \in Ids : rows[i] # None =>
               /\ row'[i].path = rows[i].path /\ row'[i].kind = rows[i].kind
               /\ row'[i].size = IF rows[i].path \in Parents(p) THEN rows[i].size + 1
                                                                ELSE rows[i].size
      BY <1>5, <1>7, <2>1, IncrFacts DEF Extended
    <2>4. \A i \in Ids : rows[i] # None <=> i \in Live \cup {new}
      BY <1>4, <2>1, <2>2 DEF Live, Extended
    <2>5. Live' = Live \cup {new}
      BY <1>4, <2>3, <2>4 DEF Live
    <2>6. p \notin Parents(p)
      BY <1>2, ParentsFacts, BelowFacts
    <2>7. row'[new].path = p /\ row'[new].kind = "file" /\ row'[new].size = 1
      BY <2>1, <2>2, <2>3, <2>6 DEF Extended
    <2>8. ASSUME NEW i \in Live
          PROVE  /\ row[i].path # p
                 /\ row'[i].path = row[i].path /\ row'[i].kind = row[i].kind
                 /\ row'[i].size = IF row[i].path \in Parents(p) THEN row[i].size + 1
                                                                 ELSE row[i].size
      <3>1. rows[i] = row[i] /\ rows[i] # None /\ i # new /\ i \in Ids
        BY <1>4, <2>1, <2>4 DEF Extended
      <3>2. row[i].path # p
        BY <1>7, <2>2, <3>1 DEF Unique
      <3>. QED
        BY <2>3, <3>1, <3>2
    <2>. QED
      BY <1>2, <1>3, <2>3, <2>5, <2>7, <2>8
  <1>. QED
    BY <1>6, <1>7

\* A deletion takes the row and what is below it, and its size off what is above.
Gone(id, r) == {id} \cup (IF r.kind = "folder" THEN IdsBelow(r.path) ELSE {})

\* What the transaction of delete does to the rows.
LEMMA DeleteSaveRows ==
  ASSUME TypeOK, NEW c \in Clients, DeleteSave(c), NEW r, r = req[c].row,
         NEW gone, gone = Gone(req[c].id, r)
  PROVE  /\ r \in Item /\ req[c].id \in Ids \ {HomeId, TrashId}
         /\ req' = [req EXCEPT ![c] = None]
         /\ UNCHANGED <<alone, asked, emptied>> /\ row' \in Table
         /\ Live' = Live \ gone
         /\ \A i \in Live \ gone :
              /\ row'[i].path = row[i].path /\ row'[i].kind = row[i].kind
              /\ row'[i].size = IF row[i].path \in Parents(r.path) THEN row[i].size - r.size
                                                                   ELSE row[i].size
  <1>. DEFINE rows == [i \in Ids |-> IF i \in gone THEN None ELSE row[i]]
  <1>1. req[c] \in Request /\ req[c].op = "delete"
    BY DEF DeleteSave, TypeOK
  <1>2. r \in Item /\ req[c].id \in Ids \ {HomeId, TrashId} /\ -r.size \in Int /\ r.size \in Int
    <2>1. r \in Item /\ req[c].id \in Ids \ {HomeId, TrashId}
      BY <1>1, RequestFields
    <2>. QED
      BY <2>1 DEF Item
  <1>3. req' = [req EXCEPT ![c] = None] /\ UNCHANGED <<alone, asked, emptied>>
    BY DEF DeleteSave, Finish
  <1>4. row \in Table /\ \A i \in Live : i \in Ids /\ row[i] \in Row
    BY TypedRows
  <1>5. rows \in Table
    BY <1>4 DEF Table
  <1>6. row' = IncrSize(rows, Parents(r.path), -r.size)
    BY DEF DeleteSave, Gone
  <1>7. \A i \in Ids : /\ i \in gone => rows[i] = None
                       /\ i \notin gone => rows[i] = row[i]
    OBVIOUS
  <1>. HIDE DEF rows
  <1>8. /\ row' \in Table
        /\ \A i \in Ids : row'[i] = None <=> rows[i] = None
        /\ \A i \in Ids : rows[i] # None =>
             /\ row'[i].path = rows[i].path /\ row'[i].kind = rows[i].kind
             /\ row'[i].size = IF rows[i].path \in Parents(r.path) THEN rows[i].size + (-r.size)
                                                                   ELSE rows[i].size
    BY <1>2, <1>5, <1>6, IncrFacts
  <1>9. Live' = Live \ gone
    BY <1>7, <1>8 DEF Live
  <1>10. ASSUME NEW i \in Live \ gone
         PROVE  /\ row'[i].path = row[i].path /\ row'[i].kind = row[i].kind
                /\ row'[i].size = IF row[i].path \in Parents(r.path) THEN row[i].size - r.size
                                                                     ELSE row[i].size
    <2>1. i \in Ids /\ rows[i] = row[i] /\ rows[i] # None /\ row[i].size \in Int
      BY <1>4, <1>7 DEF Live, Row
    <2>. QED
      BY <1>2, <1>8, <2>1
  <1>. QED
    BY <1>2, <1>3, <1>8, <1>9, <1>10

\* What the transaction of empty_folder does to the rows.
LEMMA EmptyTrashSaveRows ==
  ASSUME TypeOK, NEW c \in Clients, EmptyTrashSave(c), NEW n, n = req[c].row.size
  PROVE  /\ n \in Int /\ req' = [req EXCEPT ![c] = None] /\ emptied' = TRUE
         /\ UNCHANGED <<alone, asked>> /\ row' \in Table
         /\ Live' = Live \ IdsBelow(TrashPath)
         /\ \A i \in Live \ IdsBelow(TrashPath) :
              /\ row'[i].path = row[i].path /\ row'[i].kind = row[i].kind
              /\ row[i].path \notin {<<>>, <<Fold[TrashName]>>} => row'[i].size = row[i].size
  <1>. DEFINE gone == IdsBelow(TrashPath)
              rows == [i \in Ids |-> IF i \in gone THEN None ELSE row[i]]
              tops == {<<>>, <<Fold[TrashName]>>}
  <1>1. req[c] \in Request /\ req[c].op = "empty_trash"
    BY DEF EmptyTrashSave, TypeOK
  <1>2. n \in Int /\ -n \in Int
    <2>1. req[c].row \in Row
      BY <1>1, RequestFields
    <2>. QED
      BY <2>1 DEF Row
  <1>3. req' = [req EXCEPT ![c] = None] /\ emptied' = TRUE /\ UNCHANGED <<alone, asked>>
    BY DEF EmptyTrashSave, Finish
  <1>4. row \in Table /\ \A i \in Live : i \in Ids
    BY TypedRows
  <1>5. rows \in Table
    BY <1>4 DEF Table
  <1>6. row' = IncrSize(rows, tops, -n)
    BY DEF EmptyTrashSave
  <1>7. \A i \in Ids : /\ i \in gone => rows[i] = None
                       /\ i \notin gone => rows[i] = row[i]
    OBVIOUS
  <1>. HIDE DEF rows, gone, tops
  <1>8. /\ row' \in Table
        /\ \A i \in Ids : row'[i] = None <=> rows[i] = None
        /\ \A i \in Ids : rows[i] # None =>
             /\ row'[i].path = rows[i].path /\ row'[i].kind = rows[i].kind
             /\ row'[i].size = IF rows[i].path \in tops THEN rows[i].size + (-n)
                                                        ELSE rows[i].size
    BY <1>2, <1>5, <1>6, IncrFacts
  <1>9. Live' = Live \ gone
    BY <1>7, <1>8 DEF Live
  <1>10. ASSUME NEW i \in Live \ gone
         PROVE  /\ row'[i].path = row[i].path /\ row'[i].kind = row[i].kind
                /\ row[i].path \notin tops => row'[i].size = row[i].size
    <2>1. i \in Ids /\ rows[i] = row[i] /\ rows[i] # None
      BY <1>4, <1>7 DEF Live
    <2>. QED
      BY <1>8, <2>1
  <1>. QED
    BY <1>2, <1>3, <1>8, <1>9, <1>10 DEF gone, tops

\* A path with its prefix replaced is a path.
LEMMA ReplacedTyped ==
  ASSUME NEW p \in Path, NEW at \in Path, NEW to \in Path, Below(p, at)
  PROVE  ReplacedPrefix(p, at, to) \in Path \ {<<>>}
  <1>1. Len(p) > Len(at) /\ Len(p) \in Nat /\ Len(at) \in Nat /\ Len(to) \in Nat
    BY BelowIs DEF Path
  <1>2. Len(at) \in 0..Len(p)
    BY <1>1
  <1>. DEFINE r == to \o SubSeq(p, Len(at) + 1, Len(p))
  <1>3. r \in Path /\ Len(r) = Len(to) + Len(p) - Len(at)
    BY <1>2, JoinFacts DEF Path
  <1>. HIDE DEF r
  <1>4. r # <<>> /\ p # <<>>
    BY <1>1, <1>3
  <1>. QED
    BY <1>3, <1>4 DEF ReplacedPrefix, r

\* A move takes the row, and what is below a folder, to another path; its size is
\* taken off what was above, and added to what is above now.
MovedPath(r, i) ==
  LET p == IF i = r.id THEN r.to ELSE row[i].path
  IN  IF r.row.kind = "folder" /\ Below(p, r.row.path)
      THEN ReplacedPrefix(p, r.row.path, r.to) ELSE p

\* What the transaction of _move does to the rows: nothing when the row is gone or a
\* path would have two rows; otherwise it renames the subtree and moves its size.
LEMMA MoveSaveRows ==
  ASSUME TypeOK, NEW c \in Clients, MoveSave(c), NEW r, r = req[c],
         NEW left, left = Without(Parents(r.row.path), Parents(r.to)),
         NEW entered, entered = Without(Parents(r.to), Parents(r.row.path))
  PROVE  /\ r \in Request /\ r.op = "move"
         /\ req' = [req EXCEPT ![c] = None]
         /\ UNCHANGED <<alone, asked, emptied>> /\ row' \in Table
         /\ \/ row' = row
            \/ /\ Live' = Live
               /\ \A i \in Live : /\ MovedPath(r, i) \in Path
                                  /\ i # HomeId => MovedPath(r, i) # <<>>
                                  /\ i \in {HomeId, TrashId} => MovedPath(r, i) = row[i].path
               /\ \A i, j \in Live : MovedPath(r, i) = MovedPath(r, j) => i = j
               /\ \A i \in Live :
                    /\ row'[i].path = MovedPath(r, i) /\ row'[i].kind = row[i].kind
                    /\ row'[i].size =
                         LET less == IF MovedPath(r, i) \in left THEN row[i].size - r.row.size
                                                                 ELSE row[i].size
                         IN  IF MovedPath(r, i) \in entered THEN less + r.row.size ELSE less
  <1>. DEFINE at   == r.row.path
              to   == r.to
              size == r.row.size
              self == [row EXCEPT ![r.id].path = to]
              rows == [i \in Ids |->
                        IF r.row.kind = "folder" /\ self[i] # None /\ Below(self[i].path, at)
                        THEN [self[i] EXCEPT !.path = ReplacedPrefix(@, at, to)]
                        ELSE self[i]]
  <1>1. r \in Request /\ r.op = "move"
    BY DEF MoveSave, TypeOK
  <1>2. /\ r.id \in Ids \ {HomeId, TrashId} /\ to \in Path \ {<<>>} /\ r.row \in Item
        /\ at \in Path \ {<<>>} /\ size \in Int /\ -size \in Int
    <2>1. r.id \in Ids \ {HomeId, TrashId} /\ to \in Path \ {<<>>} /\ r.row \in Item
      BY <1>1, RequestFields
    <2>2. at \in Path \ {<<>>} /\ size \in Int
      BY <2>1 DEF Item
    <2>. QED
      BY <2>1, <2>2
  <1>3. req' = [req EXCEPT ![c] = None] /\ UNCHANGED <<alone, asked, emptied>>
    BY DEF MoveSave, Finish
  <1>4. /\ row \in Table /\ \A i \in Live : i \in Ids /\ row[i] \in Row /\ row[i].path \in Path
        /\ \A i \in Live \ {HomeId} : row[i] \in Item
        /\ TrashPath \in Path /\ TrashPath # <<>> /\ Len(TrashPath) = 1
    BY TypedRows
  <1>5. row' = IF row[r.id] # None /\ Unique(rows)
               THEN IncrSize(IncrSize(rows, left, -size), entered, size) ELSE row
    BY DEF MoveSave
  <1>6. CASE ~(row[r.id] # None /\ Unique(rows))
    BY <1>1, <1>3, <1>4, <1>5, <1>6
  <1>7. CASE row[r.id] # None /\ Unique(rows)
    <2>1. ASSUME NEW i \in Live
          PROVE  /\ self[i] \in Row /\ self[i] # None
                 /\ self[i].path = IF i = r.id THEN to ELSE row[i].path
                 /\ self[i].path \in Path
                 /\ self[i].kind = row[i].kind /\ self[i].size = row[i].size
      <3>1. row[i] \in Row /\ row[i] # None /\ None \notin Row /\ i \in Ids
        BY <1>4, TreeAssumption DEF Live
      <3>2. CASE i = r.id
        <4>1. self[i] = [row[i] EXCEPT !.path = to]
          BY <1>4, <3>1, <3>2 DEF Table
        <4>2. /\ [row[i] EXCEPT !.path = to].path = to
              /\ [row[i] EXCEPT !.path = to].kind = row[i].kind
              /\ [row[i] EXCEPT !.path = to].size = row[i].size
          BY <3>1 DEF Row
        <4>3. [row[i] EXCEPT !.path = to] \in Row
          BY <1>2, <3>1 DEF Row
        <4>. QED
          BY <1>2, <3>1, <3>2, <4>1, <4>2, <4>3
      <3>3. CASE i # r.id
        BY <1>4, <3>1, <3>3 DEF Table
      <3>. QED
        BY <3>2, <3>3
    <2>2. ASSUME NEW i \in Ids \ Live PROVE self[i] = None
      BY <1>4, <1>7 DEF Live, Table
    <2>. HIDE DEF self
    <2>3. ASSUME NEW i \in Live
          PROVE  /\ rows[i] \in Row /\ rows[i] # None
                 /\ rows[i].path = MovedPath(r, i)
                 /\ rows[i].kind = row[i].kind /\ rows[i].size = row[i].size
      <3>1. i \in Ids /\ self[i] \in Row /\ self[i] # None /\ None \notin Row
        BY <1>4, <2>1, TreeAssumption
      <3>2. CASE r.row.kind = "folder" /\ Below(self[i].path, at)
        <4>1. rows[i] = [self[i] EXCEPT !.path = ReplacedPrefix(@, at, to)]
          BY <3>1, <3>2
        <4>2. PICK q \in Path : q = ReplacedPrefix(self[i].path, at, to)
          BY <1>2, <2>1, <3>2, ReplacedTyped
        <4>3. rows[i] = [self[i] EXCEPT !.path = q]
          BY <3>1, <4>1, <4>2 DEF Row
        <4>4. /\ [self[i] EXCEPT !.path = q].path = q
              /\ [self[i] EXCEPT !.path = q].kind = self[i].kind
              /\ [self[i] EXCEPT !.path = q].size = self[i].size
          BY <3>1 DEF Row
        <4>5. [self[i] EXCEPT !.path = q] \in Row
          BY <3>1 DEF Row
        <4>6. q = MovedPath(r, i)
          BY <2>1, <3>2, <4>2 DEF MovedPath
        <4>. QED
          BY <2>1, <3>1, <4>3, <4>4, <4>5, <4>6
      <3>3. CASE ~(r.row.kind = "folder" /\ Below(self[i].path, at))
        <4>1. rows[i] = self[i]
          BY <3>1, <3>3
        <4>2. self[i].path = MovedPath(r, i)
          BY <2>1, <3>3 DEF MovedPath
        <4>. QED
          BY <2>1, <4>1, <4>2
      <3>. QED
        BY <3>2, <3>3
    <2>4. \A i \in Ids \ Live : rows[i] = None
      BY <2>2
    <2>5. rows \in Table
      <3>1. \A i \in Ids : rows[i] \in Row \cup {None}
        BY <2>3, <2>4
      <3>2. rows = [i \in Ids |-> rows[i]]
        OBVIOUS
      <3>. HIDE DEF rows
      <3>. QED
        BY <3>1, <3>2 DEF Table
    <2>. HIDE DEF rows
    <2>6. PICK some : some = IncrSize(rows, left, -size)
      OBVIOUS
    <2>7. Increased(some, rows, left, -size) /\ Increased(row', some, entered, size)
      <3>1. Increased(some, rows, left, -size)
        BY <1>2, <2>5, <2>6, IncreasedBy
      <3>2. some \in Table
        BY <3>1 DEF Increased
      <3>3. row' = IncrSize(some, entered, size)
        BY <1>5, <1>7, <2>6
      <3>. QED
        BY <1>2, <3>1, <3>2, <3>3, IncreasedBy
    <2>8. Live' = Live
      <3>1. \A i \in Ids : row'[i] = None <=> rows[i] = None
        BY <2>7 DEF Increased
      <3>2. \A i \in Ids : rows[i] = None <=> i \notin Live
        BY <2>3, <2>4
      <3>. QED
        BY <3>1, <3>2 DEF Live
    <2>9. ASSUME NEW i \in Live
          PROVE  /\ row'[i].path = MovedPath(r, i) /\ row'[i].kind = row[i].kind
                 /\ row'[i].size =
                      LET less == IF MovedPath(r, i) \in left THEN row[i].size - size
                                                              ELSE row[i].size
                      IN  IF MovedPath(r, i) \in entered THEN less + size ELSE less
      <3>1. i \in Ids /\ rows[i] # None /\ some[i] # None
        BY <1>4, <2>3, <2>7 DEF Increased
      <3>2. row[i].size \in Int
        BY <1>4 DEF Row
      <3>3. row[i].size + (-size) = row[i].size - size
        BY <1>2, <3>2
      <3>4. /\ rows[i].path = MovedPath(r, i) /\ rows[i].kind = row[i].kind
            /\ rows[i].size = row[i].size
        BY <2>3
      <3>5. /\ some[i].path = MovedPath(r, i) /\ some[i].kind = row[i].kind
            /\ some[i].size = IF MovedPath(r, i) \in left THEN row[i].size - size
                                                           ELSE row[i].size
        BY <2>7, <3>1, <3>3, <3>4 DEF Increased
      <3>6. /\ row'[i].path = some[i].path /\ row'[i].kind = some[i].kind
            /\ row'[i].size = IF some[i].path \in entered THEN some[i].size + size
                                                          ELSE some[i].size
        BY <2>7, <3>1 DEF Increased
      <3>. QED
        BY <3>5, <3>6
    <2>10. \A i, j \in Live : MovedPath(r, i) = MovedPath(r, j) => i = j
      BY <1>4, <1>7, <2>3 DEF Unique
    <2>11. ASSUME NEW i \in Live, i # HomeId PROVE MovedPath(r, i) # <<>>
      <3>1. row[i] \in Item
        BY <1>4, <2>11
      <3>2. row[i].path \in Path \ {<<>>}
        BY <3>1 DEF Item
      <3>. QED
        BY <1>2, <3>2, ReplacedTyped DEF MovedPath
    <2>12. ASSUME NEW i \in {HomeId, TrashId} PROVE MovedPath(r, i) = row[i].path
      <3>1. i # r.id /\ row[i].path \in Path /\ Len(row[i].path) <= 1
        <4>1. i \in Live /\ i # r.id
          BY <1>2 DEF TypeOK
        <4>2. Len(row[i].path) <= 1
          <5>1. CASE row[i].path = <<>>
            BY <5>1
          <5>2. CASE row[i].path = TrashPath
            <6>1. Len(row[i].path) = 1
              BY <1>4, <5>2, Zenon
            <6>. QED
              BY <6>1
          <5>. QED
            BY <5>1, <5>2 DEF TypeOK
        <4>. QED
          BY <1>4, <4>1, <4>2
      <3>2. Len(at) \in Nat /\ Len(at) # 0 /\ Len(row[i].path) \in Nat
        BY <1>2, <3>1, EmptySeq DEF Path
      <3>3. ~Below(row[i].path, at)
        BY <1>2, <3>1, <3>2, BelowIs
      <3>. QED
        BY <3>1, <3>3 DEF MovedPath
    <2>13. \A i \in Live : MovedPath(r, i) \in Path
      <3>1. ASSUME NEW i \in Live PROVE MovedPath(r, i) \in Path
        <4>1. rows[i] \in Row /\ rows[i].path = MovedPath(r, i)
          BY <2>3
        <4>. QED
          BY <4>1 DEF Row
      <3>. QED
        BY <3>1
    <2>14. row' \in Table
      BY <2>7 DEF Increased
    <2>. QED
      BY <1>1, <1>3, <2>8, <2>9, <2>10, <2>11, <2>12, <2>13, <2>14
  <1>. QED
    BY <1>6, <1>7

\* The reading half of move.
LEMMA ReadMoveTyped ==
  ASSUME TypeOK, NEW c \in Clients, NEW i \in Live \ {HomeId, TrashId}, NEW p \in Path \ {<<>>},
         ReadMove(c, i, p), alone' \in BOOLEAN
  PROVE  TypeOK'
  <1>1. PICK j \in IdsAt(Parent(p)) :
          Start(c, [op |-> "move", id |-> i, row |-> row[i],
                    to |-> Append(row[j].path, Last(p))])
    BY Zenon DEF ReadMove
  <1>. DEFINE r == [op |-> "move", id |-> i, row |-> row[i],
                    to |-> Append(row[j].path, Last(p))]
  <1>2. i \in Ids \ {HomeId, TrashId} /\ row[i] \in Item /\ row[j].path \in Path
    BY TypedRows DEF IdsAt
  <1>3. Append(row[j].path, Last(p)) \in Path \ {<<>>}
    <2>1. Last(p) \in Names
      <3>1. Len(p) \in 1..Len(p)
        BY EmptySeq DEF Path
      <3>. QED
        BY <3>1, ElementOfSeq DEF Last, Path
    <2>. QED
      BY <1>2, <2>1, AppendProperties DEF Path
  <1>4. r \in Request
    BY <1>2, <1>3, RequestsMade
  <1>5. req' = [req EXCEPT ![c] = r] /\ row' = row /\ emptied' = emptied /\ asked' = asked
    BY <1>1 DEF Start
  <1>. HIDE DEF r
  <1>. QED
    BY <1>4, <1>5, OneRequest

\* What MoveItemToTrash gives to ReadMove.
LEMMA TrashedPath ==
  ASSUME TypeOK, NEW c \in Clients, NEW i, MoveItemToTrash(c, i)
  PROVE  /\ i \in Live \ {HomeId, TrashId} /\ ~RelativeTo(row[i].path, TrashPath)
         /\ \E n \in OtherNames \cup {Last(row[i].path)} :
              /\ n \in Names /\ Append(TrashPath, n) \in Path \ {<<>>}
              /\ ReadMove(c, i, Append(TrashPath, n))
  <1>1. i \in Live \ {HomeId} /\ ~RelativeTo(row[i].path, TrashPath)
    BY DEF MoveItemToTrash
  <1>2. i # TrashId
    <2>1. Same(TrashPath, TrashPath) /\ row[TrashId].path = TrashPath
      BY TypedRows, SameFacts DEF TypeOK
    <2>. QED
      BY <1>1, <2>1 DEF RelativeTo
  <1>3. TrashPath \in Path
    BY TypedRows
  <1>4. Last(row[i].path) \in Names
    <2>1. row[i] \in Item
      BY <1>1, TypedRows
    <2>2. row[i].path \in Seq(Names) /\ row[i].path # <<>>
      BY <2>1 DEF Item, Path
    <2>3. Len(row[i].path) \in 1..Len(row[i].path)
      BY <2>2, EmptySeq
    <2>. QED
      BY <2>2, <2>3, ElementOfSeq DEF Last
  <1>5. Last(Append(TrashPath, Last(row[i].path))) = Last(row[i].path)
    BY <1>3, <1>4, AppendProperties DEF Last, Path
  <1>6. PICK n \in OtherNames \cup {Last(row[i].path)} : ReadMove(c, i, Append(TrashPath, n))
    BY <1>5 DEF MoveItemToTrash
  <1>7. n \in Names
    BY <1>4, TreeAssumption
  <1>8. Append(TrashPath, n) \in Path \ {<<>>}
    BY <1>3, <1>7, AppendProperties DEF Path
  <1>. QED
    BY <1>1, <1>2, <1>6, <1>7, <1>8

LEMMA ReadTyped ==
  ASSUME TypeOK, NEW c \in Clients, Read(c)
  PROVE  TypeOK'
  <1>1. ASSUME NEW p \in asked.folders, CreateFolder(c, p) PROVE TypeOK'
    <2>1. ReadCreateFolder(c, p, None) /\ alone' \in BOOLEAN
      BY <1>1 DEF CreateFolder, Admitted
    <2>. QED
      BY <2>1, AskedPaths, ReadCreateFolderTyped
  <1>2. ASSUME NEW p \in asked.files, Upload(c, p) PROVE TypeOK'
    <2>1. alone' \in BOOLEAN /\ p \in Path /\ p # <<>>
      BY <1>2, AskedPaths DEF Upload, Admitted
    <2>2. PICK q \in Available(p) :
            \/ Start(c, [op |-> "name_file", path |-> q])
            \/ /\ ~ExistsAt(Parent(q))
               /\ ReadCreateFolder(c, Parent(q), [op |-> "name_file", path |-> q])
      BY <1>2 DEF Upload
    <2>. DEFINE r == [op |-> "name_file", path |-> q]
    <2>3. q \in Path /\ q # <<>> /\ r \in Naming /\ r \in Request
      BY <2>1, AvailableFacts, RequestsMade
    <2>4. ASSUME Start(c, r) PROVE TypeOK'
      <3>1. req' = [req EXCEPT ![c] = r] /\ row' = row /\ emptied' = emptied /\ asked' = asked
        BY <2>4 DEF Start
      <3>. HIDE DEF r
      <3>. QED
        BY <2>1, <2>3, <3>1, OneRequest
    <2>5. ASSUME ~ExistsAt(Parent(q)), ReadCreateFolder(c, Parent(q), r) PROVE TypeOK'
      <3>1. Parent(q) \in Path
        BY <2>3, ParentsFacts
      <3>2. Parent(q) # <<>>
        <4>1. row[HomeId].path = <<>> /\ HomeId \in Live
          BY DEF TypeOK
        <4>2. <<>> \in Path
          BY DEF Path
        <4>3. Same(<<>>, <<>>)
          BY <4>2, SameFacts
        <4>. QED
          BY <2>5, <4>1, <4>3 DEF ExistsAt, IdsAt
      <3>. HIDE DEF r
      <3>. QED
        BY <2>1, <2>3, <2>5, <3>1, <3>2, ReadCreateFolderTyped
    <2>. QED
      BY <2>2, <2>4, <2>5
  <1>3. ASSUME NEW i \in Ids, Delete(c, i) PROVE TypeOK'
    <2>. DEFINE r == [op |-> "delete", id |-> i, row |-> row[i]]
    <2>1. alone' \in BOOLEAN /\ i \in Live \ {HomeId, TrashId}
      BY <1>3 DEF Delete, Admitted
    <2>2. r \in Request
      BY <2>1, TypedRows, RequestsMade
    <2>3. req' = [req EXCEPT ![c] = r] /\ row' = row /\ emptied' = emptied /\ asked' = asked
      BY <1>3 DEF Delete, Start
    <2>. HIDE DEF r
    <2>. QED
      BY <2>1, <2>2, <2>3, OneRequest
  <1>4. ASSUME NEW i \in Ids, NEW p \in asked.files \cup asked.folders, MoveItem(c, i, p)
        PROVE  TypeOK'
    <2>1. alone' \in BOOLEAN /\ i \in Live \ {HomeId, TrashId} /\ ReadMove(c, i, p)
      BY <1>4 DEF MoveItem, Admitted
    <2>2. p \in Path \ {<<>>}
      BY AskedPaths
    <2>. QED
      BY <2>1, <2>2, ReadMoveTyped
  <1>5. ASSUME NEW i \in Ids, MoveItemToTrash(c, i) PROVE TypeOK'
    <2>1. alone' \in BOOLEAN
      BY <1>5 DEF MoveItemToTrash, Admitted
    <2>2. i \in Live \ {HomeId, TrashId}
      BY <1>5, TrashedPath
    <2>3. PICK q \in Path \ {<<>>} : ReadMove(c, i, q)
      BY <1>5, TrashedPath
    <2>. QED
      BY <2>1, <2>2, <2>3, ReadMoveTyped
  <1>6. ASSUME EmptyTrash(c) PROVE TypeOK'
    <2>. DEFINE r == [op |-> "empty_trash", row |-> row[TrashId]]
    <2>1. alone' \in BOOLEAN /\ row[TrashId] \in Row
      BY <1>6, TypedRows DEF EmptyTrash, Admitted, TypeOK
    <2>2. r \in Request
      BY <2>1, RequestsMade
    <2>3. req' = [req EXCEPT ![c] = r] /\ row' = row /\ emptied' = emptied /\ asked' = asked
      BY <1>6 DEF EmptyTrash, Start
    <2>. HIDE DEF r
    <2>. QED
      BY <2>1, <2>2, <2>3, OneRequest
  <1>. QED
    BY <1>1, <1>2, <1>3, <1>4, <1>5, <1>6 DEF Read

\* CreateFolderSave: one row for each folder that is not there.
LEMMA CreateFolderSaveRows ==
  ASSUME TypeOK, NEW c \in Clients, CreateFolderSave(c), NEW paths,
         paths = req[c].paths \ {row[i].path : i \in Live}
  PROVE  /\ req[c] \in Request /\ req[c].op = "create_folder"
         /\ paths \subseteq Path \ {<<>>}
         /\ req' = [req EXCEPT ![c] = req[c].then] /\ req[c].then \in Naming \cup {None}
         /\ UNCHANGED <<alone, emptied, asked>>
         /\ Extended(row', paths, "folder", 0)
  <1>1. req[c] \in Request /\ req[c].op = "create_folder"
    BY DEF CreateFolderSave, TypeOK
  <1>2. paths \subseteq Path \ {<<>>} /\ req[c].then \in Naming \cup {None}
    BY <1>1, RequestFields
  <1>3. req' = [req EXCEPT ![c] = req[c].then] /\ UNCHANGED <<alone, emptied, asked>>
    BY DEF CreateFolderSave
  <1>4. Extended(row', paths, "folder", 0)
    <2>1. PICK rows \in Inserted(paths, "folder", 0) : rows = row'
      BY DEF CreateFolderSave
    <2>2. row \in Table /\ "folder" \in {"file", "folder"} /\ 0 \in Int /\ paths \subseteq Path
      BY <1>2, TypedRows
    <2>3. Extended(rows, paths, "folder", 0)
      BY <2>2, InsertedFacts, Zenon
    <2>. QED
      BY <2>1, <2>3
  <1>. QED
    BY <1>1, <1>2, <1>3, <1>4

LEMMA SaveTyped ==
  ASSUME TypeOK, NEW c \in Clients, Save(c)
  PROVE  TypeOK'
  <1>0. {HomeId, TrashId} \subseteq Live /\ {HomeId, TrashId} \subseteq Ids
        /\ \A i \in Live : i \in Ids /\ row[i].path \in Path
    BY TypedRows DEF TypeOK
  <1>1. ASSUME CreateFolderSave(c) PROVE TypeOK'
    <2>. DEFINE paths == req[c].paths \ {row[i].path : i \in Live}
    <2>1. /\ paths \subseteq Path \ {<<>>}
          /\ req' = [req EXCEPT ![c] = req[c].then] /\ req[c].then \in Naming \cup {None}
          /\ UNCHANGED <<alone, emptied, asked>>
          /\ Extended(row', paths, "folder", 0)
      BY <1>1, CreateFolderSaveRows
    <2>. HIDE DEF paths
    <2>2. req[c].then \in Request \cup {None}
      BY <2>1, NamingFields
    <2>3. \A i \in {HomeId, TrashId} : row'[i] # None /\ row'[i].path = row[i].path
      BY <1>0, <2>1 DEF Extended, Live
    <2>4. \A i \in Ids \ {HomeId} : row'[i] # None => row'[i].path # <<>>
      BY <2>1 DEF Extended, Live, TypeOK
    <2>5. emptied' \in BOOLEAN /\ row' \in Table
      BY <2>1 DEF TypeOK, Extended
    <2>. QED
      BY <2>1, <2>2, <2>3, <2>4, <2>5, NewRows
  <1>2. ASSUME UploadName(c) PROVE TypeOK'
    <2>1. PICK q \in Available(req[c].path) : Start(c, [op |-> "create_file", path |-> q])
      BY <1>2 DEF UploadName
    <2>. DEFINE r == [op |-> "create_file", path |-> q]
    <2>2. req[c].path \in Path \ {<<>>}
      <3>1. req[c] \in Request /\ req[c].op = "name_file"
        BY <1>2 DEF UploadName, TypeOK
      <3>. QED
        BY <3>1, RequestFields
    <2>3. r \in Request
      BY <2>2, AvailableFacts, RequestsMade
    <2>4. req' = [req EXCEPT ![c] = r] /\ row' = row /\ emptied' = emptied /\ asked' = asked
      BY <2>1 DEF Start
    <2>5. alone' \in BOOLEAN
      BY <1>2 DEF UploadName, TypeOK
    <2>. HIDE DEF r
    <2>. QED
      BY <2>3, <2>4, <2>5, OneRequest
  <1>3. ASSUME UploadSave(c) PROVE TypeOK'
    <2>. DEFINE p == req[c].path
    <2>1. /\ p \in Path \ {<<>>} /\ req' = [req EXCEPT ![c] = None]
          /\ UNCHANGED <<alone, asked, emptied>> /\ row' \in Table
          /\ \/ row' = row
             \/ \E new \in Ids \ Live :
                  /\ Live' = Live \cup {new} /\ row'[new].path = p
                  /\ \A i \in Live : row'[i].path = row[i].path
      BY <1>3, UploadSaveRows
    <2>2. \A i \in {HomeId, TrashId} : row'[i] # None /\ row'[i].path = row[i].path
      BY <1>0, <2>1 DEF Live
    <2>3. \A i \in Ids \ {HomeId} : row'[i] # None => row'[i].path # <<>>
      BY <2>1 DEF Live, TypeOK
    <2>4. emptied' \in BOOLEAN /\ None \in Request \cup {None}
      BY <2>1 DEF TypeOK
    <2>. QED
      BY <2>1, <2>2, <2>3, <2>4, NewRows
  <1>4. ASSUME DeleteSave(c) PROVE TypeOK'
    <2>. DEFINE r == req[c].row
                gone == Gone(req[c].id, r)
    <2>1. /\ r \in Item /\ req[c].id \in Ids \ {HomeId, TrashId}
          /\ req' = [req EXCEPT ![c] = None]
          /\ UNCHANGED <<alone, asked, emptied>> /\ row' \in Table
          /\ Live' = Live \ gone
          /\ \A i \in Live \ gone : row'[i].path = row[i].path
      BY <1>4, DeleteSaveRows
    <2>2. ASSUME NEW i \in {HomeId, TrashId} PROVE i \notin gone
      <3>1. r.path \in Path /\ r.path # <<>>
        BY <2>1 DEF Item
      <3>2. ~Below(<<>>, r.path) /\ ~Below(TrashPath, r.path)
        <4>1. Len(r.path) \in Nat /\ Len(r.path) # 0 /\ Len(<<>>) = 0 /\ Len(TrashPath) = 1
          BY <3>1, TypedRows, EmptySeq DEF Path
        <4>. QED
          BY <4>1 DEF Below
      <3>. QED
        BY <2>1, <3>2 DEF Gone, IdsBelow, TypeOK
    <2>. HIDE DEF gone
    <2>3. \A i \in {HomeId, TrashId} : row'[i] # None /\ row'[i].path = row[i].path
      BY <1>0, <2>1, <2>2 DEF Live
    <2>4. \A i \in Ids \ {HomeId} : row'[i] # None => row'[i].path # <<>>
      BY <2>1 DEF Live, TypeOK
    <2>5. emptied' \in BOOLEAN /\ None \in Request \cup {None}
      BY <2>1 DEF TypeOK
    <2>. QED
      BY <2>1, <2>3, <2>4, <2>5, NewRows
  <1>5. ASSUME MoveSave(c) PROVE TypeOK'
    <2>1. /\ req' = [req EXCEPT ![c] = None]
          /\ UNCHANGED <<alone, asked, emptied>> /\ row' \in Table
          /\ \/ row' = row
             \/ /\ Live' = Live
                /\ \A i \in Live :
                     /\ i # HomeId => MovedPath(req[c], i) # <<>>
                     /\ i \in {HomeId, TrashId} => MovedPath(req[c], i) = row[i].path
                     /\ row'[i].path = MovedPath(req[c], i)
      BY <1>5, MoveSaveRows
    <2>3. \A i \in {HomeId, TrashId} : row'[i] # None /\ row'[i].path = row[i].path
      BY <1>0, <2>1 DEF Live
    <2>4. \A i \in Ids \ {HomeId} : row'[i] # None => row'[i].path # <<>>
      BY <2>1 DEF Live, TypeOK
    <2>5. emptied' \in BOOLEAN /\ None \in Request \cup {None}
      BY <2>1 DEF TypeOK
    <2>. QED
      BY <2>1, <2>3, <2>4, <2>5, NewRows
  <1>6. ASSUME EmptyTrashSave(c) PROVE TypeOK'
    <2>1. /\ req' = [req EXCEPT ![c] = None] /\ emptied' = TRUE
          /\ UNCHANGED <<alone, asked>> /\ row' \in Table
          /\ Live' = Live \ IdsBelow(TrashPath)
          /\ \A i \in Live \ IdsBelow(TrashPath) : row'[i].path = row[i].path
      BY <1>6, EmptyTrashSaveRows
    <2>2. HomeId \notin IdsBelow(TrashPath) /\ TrashId \notin IdsBelow(TrashPath)
      <3>1. Len(<<>>) = 0 /\ Len(TrashPath) = 1
        BY TypedRows
      <3>2. ~Below(<<>>, TrashPath) /\ ~Below(TrashPath, TrashPath)
        BY <3>1 DEF Below
      <3>. QED
        BY <3>2 DEF IdsBelow, TypeOK
    <2>3. \A i \in {HomeId, TrashId} : row'[i] # None /\ row'[i].path = row[i].path
      BY <1>0, <2>1, <2>2 DEF Live
    <2>4. \A i \in Ids \ {HomeId} : row'[i] # None => row'[i].path # <<>>
      BY <2>1 DEF Live, TypeOK
    <2>5. emptied' \in BOOLEAN /\ None \in Request \cup {None}
      BY <2>1
    <2>. QED
      BY <2>1, <2>3, <2>4, <2>5, NewRows
  <1>. QED
    BY <1>1, <1>2, <1>3, <1>4, <1>5, <1>6 DEF Save

LEMMA InitTyped == Init => TypeOK
  <1>. SUFFICES ASSUME Init PROVE TypeOK
    OBVIOUS
  <1>1. [path |-> <<>>, kind |-> "folder", size |-> 0] \in Row
    BY DEF Row, Path
  <1>2. [path |-> TrashPath, kind |-> "folder", size |-> 0] \in Row /\ TrashPath # <<>>
    BY TreeAssumption DEF Row, Path, TrashPath
  <1>3. /\ row[HomeId] = [path |-> <<>>, kind |-> "folder", size |-> 0]
        /\ row[TrashId] = [path |-> TrashPath, kind |-> "folder", size |-> 0]
        /\ \A i \in Ids \ {HomeId, TrashId} : row[i] = None
    BY TreeAssumption DEF Init
  <1>4. row \in [Ids -> Row \cup {None}]
    <2>1. \A i \in Ids : row[i] \in Row \cup {None}
      BY <1>1, <1>2, <1>3
    <2>2. row = [i \in Ids |-> row[i]]
      BY DEF Init
    <2>. QED
      BY <2>1, <2>2
  <1>5. row[HomeId].path = <<>> /\ row[TrashId].path = TrashPath
    BY <1>3
  <1>6. row[HomeId] # None /\ row[TrashId] # None /\ {HomeId, TrashId} \subseteq Ids
    BY <1>1, <1>2, <1>3, TreeAssumption
  <1>7. {HomeId, TrashId} \subseteq Live
    BY <1>6 DEF Live
  <1>8. \A i \in Live \ {HomeId} : row[i].path # <<>>
    BY <1>2, <1>3, <1>5 DEF Live
  <1>. QED
    BY <1>4, <1>5, <1>7, <1>8 DEF Init, TypeOK

LEMMA NextTyped == TypeOK /\ [Next]_vars => TypeOK'
  <1>1. ASSUME TypeOK, UNCHANGED vars PROVE TypeOK'
    BY <1>1 DEF TypeOK, vars, Live
  <1>. QED
    BY <1>1, ReadTyped, SaveTyped DEF Next

\* The state stays within its types whatever users ask for and whichever requests
\* overlap: Home and Trash keep their rows and paths through every deletion and
\* move of FileCoreService.
THEOREM TypeCorrect == Spec => []TypeOK
  BY InitTyped, NextTyped, PTL DEF Spec

-----------------------------------------------------------------------------
(* The tree                                                                *)

\* Rows are looked up without regard to casing.
LEMMA AtSame ==
  ASSUME TypeOK, NEW p \in Path, NEW q \in Path, Same(p, q)
  PROVE  IdsAt(p) = IdsAt(q) /\ (FolderAt(p) <=> FolderAt(q)) /\ (ExistsAt(p) <=> ExistsAt(q))
  <1>1. \A i \in Live : row[i].path \in Path
    BY TypedRows
  <1>2. \A i \in Live : Same(row[i].path, p) <=> Same(row[i].path, q)
    BY <1>1, SameFacts
  <1>3. IdsAt(p) = IdsAt(q)
    BY <1>2 DEF IdsAt
  <1>. QED
    BY <1>3 DEF FolderAt, ExistsAt

\* With the tree rooted, what is above a row is a folder.
LEMMA AboveRow ==
  ASSUME TypeOK, Rooted, NEW i \in Live, NEW p \in Path, Below(row[i].path, p)
  PROVE  FolderAt(p)
  <1>1. row[i].path \in Path
    BY TypedRows
  <1>2. PICK a \in Parents(row[i].path) : a \in Path /\ Same(a, p)
    BY <1>1, ParentsFacts
  <1>. QED
    BY <1>2, AtSame DEF Rooted

\* With the tree rooted, what is above a folder is a folder, or is that folder.
LEMMA AboveFolder ==
  ASSUME TypeOK, Rooted, NEW q \in Path, FolderAt(q), NEW p \in Path, RelativeTo(q, p)
  PROVE  FolderAt(p)
  <1>1. PICK i \in Live : Same(row[i].path, q)
    BY DEF FolderAt, IdsAt
  <1>2. row[i].path \in Path
    BY TypedRows
  <1>3. CASE Same(q, p)
    BY <1>3, AtSame
  <1>4. CASE Below(q, p)
    <2>1. Same(q, row[i].path) /\ Same(p, p)
      BY <1>1, <1>2, SameFacts
    <2>2. Below(row[i].path, p)
      BY <1>2, <1>4, <2>1, BelowSame
    <2>. QED
      BY <2>2, AboveRow
  <1>. QED
    BY <1>3, <1>4 DEF RelativeTo

LEMMA RootedCloses == TypeOK /\ Rooted => TreeClosed
  <1>. SUFFICES ASSUME TypeOK, Rooted, NEW i \in Live \ {HomeId}
                PROVE  FolderAt(Parent(row[i].path))
    BY DEF TreeClosed
  <1>1. row[i].path \in Path /\ row[i].path # <<>>
    BY TypedRows DEF TypeOK
  <1>. QED
    BY <1>1, ParentsFacts DEF Rooted

\* Two rows at one path are one row.
LEMMA SamePathOneRow ==
  ASSUME TypeOK, OneRowPerPath, NEW i \in Live, NEW j \in Live, Same(row[i].path, row[j].path)
  PROVE  i = j
  BY DEF OneRowPerPath, IdsAt

LEMMA OneRowNext ==
  ASSUME TypeOK', \A i, j \in Live' : Same(row'[i].path, row'[j].path) => i = j
  PROVE  OneRowPerPath'
  <1>1. ASSUME NEW i \in Live' PROVE row'[i].path \in Path
    <2>1. row'[i] \in Row
      BY DEF TypeOK, Live
    <2>. QED
      BY <2>1 DEF Row
  <1>2. \A i \in Live' : Same(row'[i].path, row'[i].path)
    BY <1>1, SameFacts
  <1>. QED
    BY <1>2 DEF OneRowPerPath, IdsAt

\* Home is a folder.
LEMMA HomeFolder ==
  ASSUME TypeOK, Rooted, OneRowPerPath
  PROVE  row[HomeId].kind = "folder"
  <1>1. TrashId \in Live /\ HomeId \in Live /\ row[TrashId].path = TrashPath /\ row[HomeId].path = <<>>
    BY DEF TypeOK
  <1>2. <<>> \in Parents(TrashPath)
    BY TypedRows, ParentsFacts
  <1>3. FolderAt(<<>>)
    BY <1>1, <1>2 DEF Rooted
  <1>4. IdsAt(<<>>) = {HomeId}
    BY <1>1 DEF OneRowPerPath
  <1>. QED
    BY <1>3, <1>4 DEF FolderAt

\* With one casing, the paths in use are the same when they are equal.
LEMMA UsedNamed ==
  ASSUME TypeOK
  PROVE  /\ UsedNames(asked) \subseteq Names /\ UsedPath \subseteq Path
         /\ OtherNames \subseteq UsedNames(asked) /\ TrashPath \in UsedPath
         /\ asked.files \cup asked.folders \subseteq UsedPath
  <1>1. ASSUME NEW p \in asked.files \cup asked.folders
        PROVE  ToSet(p) \subseteq Names /\ ToSet(p) \subseteq UsedNames(asked) /\ p \in Seq(ToSet(p))
    <2>1. p \in Seq(Names)
      BY AskedPaths DEF Path
    <2>2. ToSet(p) \subseteq Names
      BY <2>1 DEF ToSet
    <2>3. ToSet(p) \subseteq UsedNames(asked)
      BY DEF UsedNames
    <2>4. p \in Seq(ToSet(p))
      BY <2>1 DEF ToSet
    <2>. QED
      BY <2>2, <2>3, <2>4
  <1>2. UsedNames(asked) \subseteq Names
    <2>1. ASSUME NEW n \in UNION {ToSet(p) : p \in asked.files \cup asked.folders}
          PROVE  n \in Names
      <3>1. PICK p \in asked.files \cup asked.folders : n \in ToSet(p)
        BY Zenon
      <3>. QED
        BY <1>1, <3>1
    <2>2. OtherNames \subseteq Names /\ TrashName \in Names
      BY TreeAssumption
    <2>. QED
      BY <2>1, <2>2, Zenon DEF UsedNames
  <1>3. UsedPath \subseteq Path
    BY <1>2 DEF UsedPath, Path
  <1>4. OtherNames \subseteq UsedNames(asked) /\ TrashName \in UsedNames(asked)
    BY Zenon DEF UsedNames
  <1>5. TrashPath \in UsedPath
    BY <1>4 DEF UsedPath, TrashPath
  <1>6. asked.files \cup asked.folders \subseteq UsedPath
    <2>1. ASSUME NEW p \in asked.files \cup asked.folders PROVE p \in Seq(UsedNames(asked))
      BY <1>1
    <2>. QED
      BY <2>1 DEF UsedPath
  <1>. QED
    BY <1>2, <1>3, <1>4, <1>5, <1>6

\* Paths of names in one casing are equal if they are the same, and so are prefixes:
\* the comparisons with casing and those without agree.
LEMMA OneCased ==
  ASSUME TypeOK, Tidy(asked), NEW p \in UsedPath, NEW q \in UsedPath
  PROVE  /\ p \in Path /\ q \in Path
         /\ Same(p, q) => p = q
         /\ Below(q, p) => SubSeq(q, 1, Len(p)) = p
         /\ Below(q, p) <=> p \in Parents(q)
  <1>1. p \in Path /\ q \in Path /\ p \in Seq(UsedNames(asked)) /\ q \in Seq(UsedNames(asked))
    BY UsedNamed DEF UsedPath
  <1>2. ASSUME NEW a \in Seq(UsedNames(asked)), NEW b \in Seq(UsedNames(asked)),
               a \in Path, b \in Path, Same(a, b)
        PROVE  a = b
    <2>1. Len(a) = Len(b) /\ \A i \in 1..Len(a) : Fold[a[i]] = Fold[b[i]]
      BY <1>2, SameIs
    <2>2. \A i \in 1..Len(a) : a[i] \in UsedNames(asked) /\ b[i] \in UsedNames(asked)
      BY <2>1
    <2>3. \A i \in 1..Len(a) : a[i] = b[i]
      BY <2>1, <2>2 DEF Tidy, OneCasing
    <2>. QED
      BY <2>1, <2>3, SeqEqual
  <1>3. ASSUME Below(q, p) PROVE SubSeq(q, 1, Len(p)) = p /\ p \in Parents(q)
    <2>1. Len(q) > Len(p) /\ Same(SubSeq(q, 1, Len(p)), p) /\ Len(p) \in Nat /\ Len(q) \in Nat
      BY <1>1, <1>3 DEF Below, Path
    <2>2. Len(p) \in 0..Len(q) /\ Len(p) \in 0..(Len(q) - 1)
      BY <2>1
    <2>3. PICK s : s = SubSeq(q, 1, Len(p))
      OBVIOUS
    <2>4. s \in Seq(UsedNames(asked)) /\ s \in Path
      BY <1>1, <2>2, <2>3, PrefixFacts DEF Path
    <2>5. s = p
      BY <1>1, <1>2, <2>1, <2>3, <2>4
    <2>. QED
      BY <2>2, <2>3, <2>5 DEF Parents
  <1>4. p \in Parents(q) => Below(q, p)
    BY <1>1, ParentsFacts
  <1>. QED
    BY <1>1, <1>2, <1>3, <1>4

\* What is done to a path in use gives one.
LEMMA UsedMade ==
  ASSUME TypeOK, NEW p \in UsedPath
  PROVE  /\ \A a \in Parents(p) : a \in UsedPath
         /\ p # <<>> => Parent(p) \in UsedPath /\ Last(p) \in UsedNames(asked)
         /\ \A n \in UsedNames(asked) : Append(p, n) \in UsedPath
  <1>1. p \in Seq(UsedNames(asked)) /\ Len(p) \in Nat
    BY DEF UsedPath
  <1>2. ASSUME NEW a \in Parents(p) PROVE a \in UsedPath
    <2>1. PICK k \in 0..(Len(p) - 1) : a = SubSeq(p, 1, k)
      BY DEF Parents
    <2>2. k \in 0..Len(p)
      BY <1>1
    <2>. QED
      BY <1>1, <2>1, <2>2, PrefixFacts DEF UsedPath
  <1>3. ASSUME p # <<>> PROVE Parent(p) \in UsedPath /\ Last(p) \in UsedNames(asked)
    <2>1. Len(p) \in 1..Len(p)
      BY <1>1, <1>3, EmptySeq
    <2>2. Last(p) \in UsedNames(asked)
      BY <1>1, <2>1, ElementOfSeq DEF Last
    <2>3. Parent(p) \in Parents(p)
      BY <1>3, UsedNamed, ParentsFacts
    <2>. QED
      BY <1>2, <2>2, <2>3
  <1>4. \A n \in UsedNames(asked) : Append(p, n) \in UsedPath
    BY <1>1 DEF UsedPath
  <1>. QED
    BY <1>2, <1>3, <1>4

\* The parent of a path with a name after it.
LEMMA ParentAppend ==
  ASSUME NEW p \in Path, NEW n \in Names
  PROVE  Parent(Append(p, n)) = p /\ Append(p, n) \in Path /\ Append(p, n) # <<>>
  <1>. DEFINE q == Append(p, n)
  <1>1. q \in Path /\ q # <<>> /\ Len(q) = Len(p) + 1 /\ \A i \in 1..Len(p) : q[i] = p[i]
    BY AppendProperties DEF Path
  <1>. HIDE DEF q
  <1>2. Len(q) - 1 = Len(p) /\ Len(q) - 1 \in 0..Len(q)
    BY <1>1 DEF Path
  <1>3. /\ Parent(q) \in Seq(Names) /\ Len(Parent(q)) = Len(p)
        /\ \A i \in 1..Len(p) : Parent(q)[i] = q[i]
    BY <1>1, <1>2, PrefixFacts DEF Parent, Front, Path
  <1>4. Parent(q) = p
    BY <1>1, <1>3, SeqEqual DEF Path
  <1>. QED
    BY <1>1, <1>4 DEF q

\* What is above the parent is above the path.
LEMMA ParentsParent ==
  ASSUME NEW p \in Path, p # <<>>
  PROVE  Parents(Parent(p)) \subseteq Parents(p)
  <1>1. Len(p) \in Nat /\ Len(p) # 0
    BY EmptySeq DEF Path
  <1>2. Len(p) - 1 \in 0..Len(p)
    BY <1>1
  <1>3. PICK q : q = Parent(p)
    OBVIOUS
  <1>4. /\ q = SubSeq(p, 1, Len(p) - 1) /\ q \in Seq(Names) /\ Len(q) = Len(p) - 1
        /\ \A i \in 1..(Len(p) - 1) : q[i] = p[i]
    BY <1>2, <1>3, PrefixFacts DEF Parent, Front, Path
  <1>5. ASSUME NEW k \in 0..(Len(q) - 1) PROVE SubSeq(q, 1, k) = SubSeq(p, 1, k) /\ k \in 0..(Len(p) - 1)
    <2>1. k \in 0..Len(q) /\ k \in 0..Len(p) /\ k \in 0..(Len(p) - 1)
      BY <1>1, <1>4
    <2>2. PICK s \in Seq(Names) : /\ s = SubSeq(q, 1, k) /\ Len(s) = k
                                  /\ \A i \in 1..k : s[i] = q[i]
      BY <1>4, <2>1, PrefixFacts, ZenonT(60)
    <2>3. PICK t \in Seq(Names) : /\ t = SubSeq(p, 1, k) /\ Len(t) = k
                                  /\ \A i \in 1..k : t[i] = p[i]
      BY <2>1, PrefixFacts, ZenonT(60) DEF Path
    <2>4. \A i \in 1..k : i \in 1..(Len(p) - 1)
      BY <1>1, <2>1
    <2>5. s = t
      BY <1>4, <2>2, <2>3, <2>4, SeqEqual
    <2>. QED
      BY <2>1, <2>2, <2>3, <2>5
  <1>. QED
    BY <1>3, <1>5 DEF Parents

\* A request fits the rows as long as they stay.
LEMMA FitsKept ==
  ASSUME NEW r, row' = row, alone' = alone, asked' = asked
  PROVE  (Fits(r)' <=> Fits(r)) /\ (Used(r)' <=> Used(r))
  <1>1. Live' = Live
    BY DEF Live
  <1>2. ASSUME NEW p PROVE IdsAt(p)' = IdsAt(p)
    BY <1>1 DEF IdsAt
  <1>3. ASSUME NEW p
        PROVE  (FolderAt(p)' <=> FolderAt(p)) /\ (ExistsAt(p)' <=> ExistsAt(p))
    BY <1>2 DEF FolderAt, ExistsAt
  <1>4. ASSUME NEW paths PROVE FoldersFit(paths)' <=> FoldersFit(paths)
    BY <1>2, <1>3 DEF FoldersFit
  <1>5. Fits(r)' <=> Fits(r)
    BY <1>1, <1>3, <1>4 DEF Fits
  <1>6. Used(r)' <=> Used(r)
    BY DEF Used, UsedPath
  <1>. QED
    BY <1>5, <1>6

\* A request that begins.
LEMMA ReadKeeps ==
  ASSUME TreeInv, TypeOK', NEW c \in Clients, NEW r \in Request,
         req[c] = None, req' = [req EXCEPT ![c] = r], row' = row, asked' = asked,
         Quiet \/ (~alone /\ ~alone'), alone' \in BOOLEAN,
         r.op \in {"delete", "move", "empty_trash"} => alone',
         asked.overlapping = {} => alone',
         r.op = "move" => Tidy(asked),
         Fits(r)', Tidy(asked) => Used(r)
  PROVE  TreeInv'
  <1>1. r # None
    BY TreeAssumption
  <1>2. /\ \A d \in Clients \ {c} : req'[d] = req[d]
        /\ req'[c] = r
    BY DEF TreeInv, TypeOK
  <1>3. ASSUME NEW d \in Clients, d # c, req[d] # None PROVE ~alone /\ ~alone'
    BY <1>3 DEF Quiet
  <1>4. Live' = Live
    BY DEF Live
  <1>5. Solo'
    <2>1. \A d, e \in Clients : alone' /\ req'[d] # None /\ req'[e] # None => d = e
      BY <1>2, <1>3
    <2>2. ASSUME NEW d \in Clients, req'[d] # None
          PROVE  /\ req'[d].op \in {"delete", "move", "empty_trash"} => alone'
                 /\ asked'.overlapping = {} => alone'
                 /\ req'[d].op = "move" => Tidy(asked')
      <3>1. CASE d = c
        BY <1>2, <3>1
      <3>2. CASE d # c
        BY <1>2, <1>3, <2>2, <3>2 DEF TreeInv, Solo
      <3>. QED
        BY <3>1, <3>2
    <2>. QED
      BY <2>1, <2>2 DEF Solo
  <1>6. Rooted' /\ OneRowPerPath'
    BY <1>4 DEF TreeInv, Rooted, OneRowPerPath, FolderAt, IdsAt
  <1>7. ASSUME NEW d \in Clients, req'[d] # None
        PROVE  Fits(req[d])' /\ (Tidy(asked) => Used(req[d])')
    <2>1. CASE d = c
      <3>1. Used(r)' <=> Used(r)
        BY DEF Used, UsedPath
      <3>. QED
        BY <1>2, <2>1, <3>1
    <2>2. CASE d # c
      <3>1. PICK s : s = req[d] /\ s = req'[d]
        BY <1>2, <2>2
      <3>2. alone' = alone
        BY <1>2, <1>3, <1>7, <2>2 DEF TreeInv, TypeOK
      <3>3. (Fits(s)' <=> Fits(s)) /\ (Used(s)' <=> Used(s))
        BY <3>2, FitsKept
      <3>4. Fits(s) /\ (Tidy(asked) => Used(s))
        BY <1>7, <3>1 DEF TreeInv, RequestsFit, PathsUsed
      <3>. QED
        BY <3>1, <3>3, <3>4
    <2>. QED
      BY <2>1, <2>2
  <1>8. RequestsFit'
    BY <1>7 DEF RequestsFit
  <1>9. PathsUsed'
    BY <1>4, <1>7 DEF PathsUsed, TreeInv, UsedPath
  <1>. QED
    BY <1>5, <1>6, <1>8, <1>9 DEF TreeInv

\* A request that writes its rows. Others are under way only when it does not run
\* alone, and then it adds rows, folders or a file where files go.
Grows ==
  /\ \A i \in Live : /\ i \in Live'
                     /\ row'[i].path = row[i].path /\ row'[i].kind = row[i].kind
  /\ \A i \in Live' \ Live :
       row'[i].kind = "folder" \/ (~alone => row'[i].path \in FilePaths(asked))

\* A folder stays one when rows are only added.
LEMMA GrownFolder ==
  ASSUME Grows, NEW p, FolderAt(p)
  PROVE  FolderAt(p)'
  BY DEF Grows, FolderAt, IdsAt

\* A request that does not run alone is an upload or a new folder of a tidy asking.
LEMMA Overlapping ==
  ASSUME TreeInv, Known, ~alone, NEW c \in Clients, req[c] # None
  PROVE  Tidy(asked) /\ FilePaths(asked) \cap FolderPaths(asked) = {}
  <1>1. asked.overlapping # {}
    BY DEF TreeInv, Solo
  <1>. QED
    BY <1>1 DEF Known, Calm, Tidy

\* A transaction that keeps the rows in order keeps what the other requests rely on:
\* either there is no other, or rows were only added and files and folders are apart.
LEMMA SaveKeeps ==
  ASSUME TreeInv, Known, TypeOK', NEW c \in Clients, NEW r \in Request \cup {None},
         req[c] # None, req' = [req EXCEPT ![c] = r], alone' = alone, asked' = asked,
         Rooted', OneRowPerPath', Tidy(asked) => \A i \in Live' : row'[i].path \in UsedPath,
         r # None => /\ r.op \in {"name_file", "create_file"}
                     /\ Fits(r)' /\ (Tidy(asked) => Used(r)),
         ~alone => Grows
  PROVE  TreeInv'
  <1>2. /\ \A d \in Clients \ {c} : req'[d] = req[d]
        /\ req'[c] = r
    BY DEF TreeInv, TypeOK
  <1>3. ASSUME NEW d \in Clients, d # c, req[d] # None PROVE ~alone
    BY <1>3 DEF TreeInv, Solo
  <1>5. Solo'
    <2>1. \A d, e \in Clients : alone' /\ req'[d] # None /\ req'[e] # None => d = e
      BY <1>2, <1>3
    <2>2. ASSUME NEW d \in Clients, req'[d] # None
          PROVE  /\ req'[d].op \in {"delete", "move", "empty_trash"} => alone'
                 /\ asked'.overlapping = {} => alone'
                 /\ req'[d].op = "move" => Tidy(asked')
      <3>1. CASE d = c
        <4>1. asked.overlapping = {} => alone
          BY DEF TreeInv, Solo
        <4>. QED
          BY <1>2, <2>2, <3>1, <4>1
      <3>2. CASE d # c
        BY <1>2, <2>2, <3>2 DEF TreeInv, Solo
      <3>. QED
        BY <3>1, <3>2
    <2>. QED
      BY <2>1, <2>2 DEF Solo
  <1>6. ASSUME NEW s PROVE Used(s)' <=> Used(s)
    BY DEF Used, UsedPath
  <1>7. ASSUME NEW d \in Clients, d # c, NEW s, s = req[d], s # None
        PROVE  Fits(s)'
    <2>1. ~alone /\ Grows /\ s \in Request /\ Fits(s) /\ Tidy(asked) /\ Used(s)
      <3>1. ~alone
        BY <1>3, <1>7
      <3>2. Tidy(asked)
        BY <3>1, Overlapping
      <3>. QED
        BY <1>7, <3>1, <3>2 DEF TreeInv, TypeOK, RequestsFit, PathsUsed
    <2>2. s.op \in {"create_folder", "name_file", "create_file"}
      BY <1>7, <2>1, RequestFields DEF TreeInv, Solo
    <2>3. ASSUME s.op = "create_folder" PROVE FoldersFit(s.paths)'
      <3>1. /\ FoldersFit(s.paths) /\ s.paths \subseteq UsedPath
            /\ s.paths \subseteq FolderPaths(asked)
        BY <2>1, <2>3 DEF Fits, Used, FoldersFit
      <3>2. \A q \in s.paths : \A a \in Parents(q) :
              FolderAt(a)' \/ \E b \in s.paths : Same(b, a)
        BY <2>1, <3>1, GrownFolder DEF FoldersFit
      <3>3. ASSUME NEW q \in s.paths, NEW i \in IdsAt(q)' PROVE row'[i].kind = "folder"
        <4>1. CASE i \in Live
          BY <2>1, <3>1, <3>3, <4>1 DEF Grows, FoldersFit, IdsAt
        <4>2. CASE i \notin Live
          <5>1. i \in Live' \ Live /\ Same(row'[i].path, q)
            BY <3>3, <4>2 DEF IdsAt
          <5>2. row'[i].path \in UsedPath /\ q \in UsedPath
            BY <2>1, <3>1, <5>1
          <5>3. row'[i].path = q
            BY <2>1, <5>1, <5>2, OneCased DEF TreeInv
          <5>4. FilePaths(asked) \cap FolderPaths(asked) = {}
            BY <2>1, Overlapping
          <5>5. q \notin FilePaths(asked)
            BY <3>1, <5>4
          <5>. QED
            BY <2>1, <5>1, <5>3, <5>5 DEF Grows
        <4>. QED
          BY <4>1, <4>2
      <3>. QED
        BY <2>1, <3>1, <3>2, <3>3 DEF FoldersFit
    <2>4. ASSUME s.op \in {"name_file", "create_file"}
          PROVE  FolderAt(Parent(s.path))' /\ s.path \in FilePaths(asked)
      BY <2>1, <2>4, GrownFolder DEF Fits
    <2>5. s.op = "create_folder" /\ s.then # None =>
            /\ s.then.op = "name_file"
            /\ \E b \in s.paths : Same(b, Parent(s.then.path))
            /\ s.then.path \in FilePaths(asked)
      BY <2>1 DEF Fits
    <2>. QED
      BY <2>1, <2>2, <2>3, <2>4, <2>5 DEF Fits
  <1>8. ASSUME NEW d \in Clients, req'[d] # None
        PROVE  Fits(req[d])' /\ (Tidy(asked) => Used(req[d])')
    <2>1. CASE d = c
      BY <1>2, <1>6, <1>8, <2>1
    <2>2. CASE d # c
      <3>1. PICK s : s = req[d] /\ s = req'[d]
        BY <1>2, <2>2
      <3>2. Fits(s)' /\ (Tidy(asked) => Used(s))
        BY <1>7, <1>8, <2>2, <3>1 DEF TreeInv, PathsUsed
      <3>. QED
        BY <1>6, <3>1, <3>2
    <2>. QED
      BY <2>1, <2>2
  <1>9. RequestsFit'
    BY <1>8 DEF RequestsFit
  <1>10. PathsUsed'
    BY <1>8 DEF PathsUsed, UsedPath
  <1>. QED
    BY <1>5, <1>9, <1>10 DEF TreeInv

\* The folders that create_folder is about to save.
LEMMA MissingFit ==
  ASSUME TreeInv, NEW p \in Path, p # <<>>, ~ExistsAt(p),
         \A q \in Parents(p) : ExistsAt(q) => FolderAt(q),
         NEW paths, paths = MissingFolders(p)
  PROVE  /\ \A q \in paths : \A a \in Parents(q) : FolderAt(a) \/ \E b \in paths : Same(b, a)
         /\ \A q, b \in paths : Same(q, b) => q = b
         /\ \A q \in paths : IdsAt(q) = {}
         /\ \E b \in paths : Same(b, p)
         /\ Tidy(asked) /\ p \in UsedPath =>
              paths \subseteq UsedPath /\ paths \subseteq Parents(p) \cup {p}
  <1>0. TypeOK /\ Rooted /\ \A i \in Live : row[i].path \in Path
    BY TypedRows DEF TreeInv
  <1>1. PICK d \in Live :
          /\ row[d].path \in Path /\ \E q \in Parents(p) : Same(row[d].path, q)
          /\ \A i \in Live : \A q \in Parents(p) :
               Same(row[i].path, q) => Len(row[i].path) <= Len(row[d].path)
          /\ MissingFolders(p) = {q \in Parents(p) : Len(q) > Len(row[d].path)}
                                   \cup {RestoredCasing(p, row[d].path)}
    BY <1>0, MissingFacts
  <1>2. PICK at \in Path : at = row[d].path
    BY <1>1
  <1>3. PICK top \in Parents(p) : Same(at, top)
    BY <1>1, <1>2
  <1>4. PICK r : r = RestoredCasing(p, at)
    OBVIOUS
  <1>5. /\ r \in Path /\ Same(r, p) /\ Len(at) < Len(p)
        /\ \A S : p \in Seq(S) /\ at \in Seq(S) => r \in Seq(S)
    BY <1>3, <1>4, RestoredFacts
  <1>6. \A q : q \in paths <=> (q \in Parents(p) /\ Len(q) > Len(at)) \/ q = r
    BY <1>1, <1>2, <1>4
  <1>7. /\ top \in Path /\ Below(p, top) /\ Len(top) = Len(at) /\ FolderAt(top)
        /\ Same(top, at)
    <2>1. top \in Path /\ Below(p, top) /\ Len(top) = Len(at)
      BY <1>3, ParentsFacts, SameIs
    <2>2. d \in IdsAt(top)
      BY <1>2, <1>3 DEF IdsAt
    <2>3. FolderAt(top)
      BY <2>2 DEF ExistsAt
    <2>. QED
      BY <1>3, <2>1, <2>3, SameFacts
  <1>8. ASSUME NEW q \in paths
        PROVE  q \in Path /\ RelativeTo(p, q) /\ (q # r => q \in Parents(p) /\ Below(p, q))
    BY <1>5, <1>6, ParentsFacts, SameFacts DEF RelativeTo
  <1>9. ASSUME NEW q \in paths, NEW a \in Parents(q)
        PROVE  FolderAt(a) \/ \E b \in paths : Same(b, a)
    <2>1. q \in Path /\ a \in Path /\ Below(q, a)
      BY <1>8, ParentsFacts
    <2>2. Below(p, a)
      <3>1. CASE Same(p, q)
        BY <2>1, <3>1, BelowSame, SameFacts
      <3>2. CASE Below(p, q)
        BY <2>1, <3>2, BelowFacts
      <3>. QED
        BY <1>8, <3>1, <3>2 DEF RelativeTo
    <2>3. PICK b \in Parents(p) : b \in Path /\ Same(b, a)
      BY <2>1, <2>2, ParentsFacts
    <2>4. CASE Len(b) > Len(at)
      BY <1>6, <2>3, <2>4
    <2>5. CASE ~(Len(b) > Len(at))
      <3>1. Below(p, b)
        BY <2>3, ParentsFacts
      <3>2. ~Below(b, top)
        BY <1>7, <2>3, <2>5, BelowIs
      <3>3. RelativeTo(top, b)
        BY <1>7, <2>3, <3>1, <3>2, BelowFacts DEF RelativeTo
      <3>4. FolderAt(b)
        BY <1>0, <1>7, <2>3, <3>3, AboveFolder
      <3>. QED
        BY <1>0, <2>1, <2>3, <3>4, AtSame
    <2>. QED
      BY <2>4, <2>5
  <1>10. ASSUME NEW q \in paths, NEW b \in paths, Same(q, b) PROVE q = b
    <2>1. q \in Path /\ b \in Path /\ Len(q) = Len(b)
      BY <1>8, <1>10, SameIs
    <2>2. Len(r) = Len(p)
      BY <1>5, SameIs
    <2>3. \A x \in Parents(p) : Len(x) # Len(p) /\ x = SubSeq(p, 1, Len(x))
      <3>1. ASSUME NEW x \in Parents(p) PROVE Len(x) # Len(p) /\ x = SubSeq(p, 1, Len(x))
        <4>1. PICK k \in 0..(Len(p) - 1) : x = SubSeq(p, 1, k)
          BY DEF Parents
        <4>2. Len(p) \in Nat /\ k \in 0..Len(p) /\ k # Len(p)
          BY DEF Path
        <4>3. Len(x) = k
          BY <4>1, <4>2, PrefixFacts DEF Path
        <4>. QED
          BY <4>1, <4>2, <4>3
      <3>. QED
        BY <3>1
    <2>4. CASE q = r /\ b = r
      BY <2>4
    <2>5. CASE q # r /\ b # r
      <3>1. q \in Parents(p) /\ b \in Parents(p)
        BY <1>6, <2>5
      <3>2. q = SubSeq(p, 1, Len(q)) /\ b = SubSeq(p, 1, Len(b))
        BY <2>3, <3>1
      <3>. QED
        BY <2>1, <3>2
    <2>. QED
      BY <1>6, <2>1, <2>2, <2>3, <2>4, <2>5
  <1>11. ASSUME NEW q \in paths PROVE IdsAt(q) = {}
    <2>1. CASE q = r
      <3>1. IdsAt(r) = IdsAt(p)
        BY <1>0, <1>5, AtSame
      <3>. QED
        BY <2>1, <3>1 DEF ExistsAt
    <2>2. CASE q \in Parents(p) /\ Len(q) > Len(at)
      <3>1. ASSUME NEW i \in IdsAt(q) PROVE FALSE
        <4>1. i \in Live /\ Same(row[i].path, q) /\ row[i].path \in Path /\ q \in Path
          BY <1>0, <1>8 DEF IdsAt
        <4>2. Len(row[i].path) = Len(q) /\ Len(row[i].path) <= Len(at)
          BY <1>1, <1>2, <2>2, <4>1, SameIs
        <4>3. Len(q) \in Nat /\ Len(at) \in Nat
          BY <4>1 DEF Path
        <4>. QED
          BY <2>2, <4>2, <4>3
      <3>. QED
        BY <3>1
    <2>. QED
      BY <1>6, <2>1, <2>2
  <1>12. \E b \in paths : Same(b, p)
    BY <1>5, <1>6
  <1>13. ASSUME Tidy(asked), p \in UsedPath
         PROVE  paths \subseteq UsedPath /\ paths \subseteq Parents(p) \cup {p}
    <2>1. at \in UsedPath
      BY <1>2, <1>13 DEF TreeInv, PathsUsed
    <2>2. r \in UsedPath
      BY <1>5, <1>13, <2>1 DEF UsedPath
    <2>3. r = p
      BY <1>0, <1>5, <1>13, <2>2, OneCased
    <2>4. \A a \in Parents(p) : a \in UsedPath
      BY <1>0, <1>13, UsedMade
    <2>. QED
      BY <1>6, <1>13, <2>3, <2>4
  <1>. QED
    BY <1>9, <1>10, <1>11, <1>12, <1>13

\* The name an upload gets is one of those that uploads may take.
LEMMA AvailableFit ==
  ASSUME TypeOK, NEW p \in Path, p # <<>>, NEW q \in Available(p)
  PROVE  /\ p \in FilePaths(asked) => q \in FilePaths(asked)
         /\ p \in UsedPath => q \in UsedPath
  <1>1. q = p \/ \E n \in OtherNames : q = Append(Parent(p), n)
    BY AvailableFacts
  <1>2. CASE q = p
    BY <1>2
  <1>3. ASSUME NEW n \in OtherNames, q = Append(Parent(p), n)
        PROVE  /\ p \in FilePaths(asked) => q \in FilePaths(asked)
               /\ p \in UsedPath => q \in UsedPath
    <2>1. ASSUME p \in FilePaths(asked) PROVE q \in FilePaths(asked)
      <3>1. CASE p \in asked.files
        BY <1>3, <3>1 DEF FilePaths
      <3>2. CASE p \notin asked.files
        <4>1. PICK f \in asked.files, m \in OtherNames : p = Append(Parent(f), m)
          BY <2>1, <3>2 DEF FilePaths
        <4>2. f \in Path /\ f # <<>> /\ m \in Names
          BY AskedPaths, TreeAssumption
        <4>3. Parent(p) = Parent(f)
          BY <4>1, <4>2, ParentsFacts, ParentAppend
        <4>. QED
          BY <1>3, <4>3 DEF FilePaths
      <3>. QED
        BY <3>1, <3>2
    <2>2. ASSUME p \in UsedPath PROVE q \in UsedPath
      <3>1. Parent(p) \in UsedPath /\ n \in UsedNames(asked)
        BY <2>2, UsedMade, UsedNamed
      <3>. QED
        BY <1>3, <3>1, UsedMade
    <2>. QED
      BY <2>1, <2>2
  <1>. QED
    BY <1>1, <1>2, <1>3

\* When a request may start: nothing else is under way, or all that is may overlap.
LEMMA AdmittedFacts ==
  ASSUME Known, NEW c, NEW op, Admitted(c, op)
  PROVE  /\ req[c] = None /\ (Quiet \/ (~alone /\ ~alone')) /\ alone' \in BOOLEAN
         /\ asked.overlapping = {} => alone'
         /\ ~alone' => Tidy(asked)
         /\ op \in {"delete", "move", "move_to_trash", "empty_trash"} => alone'
         /\ op \in {"move", "move_to_trash"} => Tidy(asked)
  <1>1. /\ op \in asked.ops /\ req[c] = None /\ alone' = (op \notin asked.overlapping)
        /\ Quiet \/ (op \in asked.overlapping /\ ~alone)
    BY DEF Admitted
  <1>2. op \in asked.overlapping => Tidy(asked) /\ op \in {"create_folder", "upload"}
    BY DEF Known, Calm, Tidy
  <1>3. op \in {"move", "move_to_trash"} => Tidy(asked)
    BY <1>1 DEF Known, Calm
  <1>. QED
    BY <1>1, <1>2, <1>3

\* create_folder has read which folders are missing.
LEMMA ReadCreateFolderKeeps ==
  ASSUME TreeInv, TypeOK', NEW c \in Clients, NEW p \in Path, p # <<>>,
         NEW then \in Naming \cup {None}, ReadCreateFolder(c, p, then),
         req[c] = None, Quiet \/ (~alone /\ ~alone'), alone' \in BOOLEAN,
         asked.overlapping = {} => alone',
         ~alone' => Tidy(asked) /\ Parents(p) \cup {p} \subseteq FolderPaths(asked),
         Tidy(asked) => p \in UsedPath,
         then # None => /\ then.op = "name_file" /\ Parent(then.path) = p
                        /\ ~alone' => then.path \in FilePaths(asked)
                        /\ Tidy(asked) => then.path \in UsedPath
  PROVE  TreeInv'
  <1>1. PICK paths : paths = MissingFolders(p)
    OBVIOUS
  <1>2. /\ ~ExistsAt(p) /\ \A q \in Parents(p) : ExistsAt(q) => FolderAt(q)
    BY DEF ReadCreateFolder
  <1>3. PICK r : r = [op |-> "create_folder", paths |-> paths, then |-> then]
    OBVIOUS
  <1>4. req' = [req EXCEPT ![c] = r] /\ row' = row /\ asked' = asked
    BY <1>1, <1>3 DEF ReadCreateFolder, Start
  <1>5. /\ r \in Request /\ r.op = "create_folder" /\ r.paths = paths /\ r.then = then
        /\ TypeOK
    BY <1>1, <1>3, MissingTyped, RequestsMade DEF TreeInv
  <1>6. /\ \A q \in paths : \A a \in Parents(q) : FolderAt(a) \/ \E b \in paths : Same(b, a)
        /\ \A q, b \in paths : Same(q, b) => q = b
        /\ \A q \in paths : IdsAt(q) = {}
        /\ \E b \in paths : Same(b, p)
        /\ Tidy(asked) /\ p \in UsedPath =>
             paths \subseteq UsedPath /\ paths \subseteq Parents(p) \cup {p}
    BY <1>1, <1>2, MissingFit
  <1>7. Live' = Live
    BY <1>4 DEF Live
  <1>8. ASSUME NEW a PROVE IdsAt(a)' = IdsAt(a) /\ (FolderAt(a)' <=> FolderAt(a))
    BY <1>4, <1>7 DEF IdsAt, FolderAt
  <1>9. FoldersFit(paths)'
    BY <1>4, <1>6, <1>8 DEF FoldersFit
  <1>10. Fits(r)'
    BY <1>4, <1>5, <1>6, <1>9 DEF Fits
  <1>11. Tidy(asked) => Used(r)
    BY <1>5, <1>6 DEF Used
  <1>. QED
    BY <1>4, <1>5, <1>10, <1>11, ReadKeeps

\* move has read the row and checked its new path.
LEMMA ReadMoveKeeps ==
  ASSUME TreeInv, TypeOK', NEW c \in Clients, NEW i \in Live \ {HomeId, TrashId},
         NEW p \in UsedPath, p # <<>>, ReadMove(c, i, p),
         req[c] = None, Quiet, alone', Tidy(asked)
  PROVE  TreeInv'
  <1>0. TypeOK /\ p \in Path /\ alone' \in BOOLEAN
    BY UsedNamed DEF TreeInv, TypeOK
  <1>1. /\ ~RelativeTo(p, row[i].path) \/ (Same(p, row[i].path) /\ p # row[i].path)
        /\ FolderAt(Parent(p))
        /\ Same(p, row[i].path) \/ ~ExistsAt(p)
    BY DEF ReadMove
  <1>2. PICK j \in IdsAt(Parent(p)) :
          Start(c, [op |-> "move", id |-> i, row |-> row[i],
                    to |-> Append(row[j].path, Last(p))])
    BY Zenon DEF ReadMove
  <1>3. row[i].path \in UsedPath /\ row[j].path \in UsedPath /\ Same(row[j].path, Parent(p))
    BY DEF TreeInv, PathsUsed, IdsAt
  <1>4. row[j].path = Parent(p)
    BY <1>0, <1>3, UsedMade, OneCased
  <1>5. ~Same(p, row[i].path) \/ p = row[i].path
    BY <1>0, <1>3, OneCased
  <1>6. Append(row[j].path, Last(p)) = p
    <2>1. Len(p) \in Nat /\ Len(p) # 0 /\ Last(p) \in Names /\ Parent(p) \in Seq(Names)
      <3>1. Len(p) \in 1..Len(p) /\ Len(p) \in Nat /\ Len(p) # 0
        BY <1>0, EmptySeq DEF Path
      <3>. QED
        BY <1>0, <3>1, ParentsFacts, ElementOfSeq DEF Path, Last
    <2>2. Len(p) - 1 \in 0..Len(p)
      BY <2>1
    <2>3. /\ Len(Parent(p)) = Len(p) - 1
          /\ \A k \in 1..(Len(p) - 1) : Parent(p)[k] = p[k]
      BY <1>0, <2>2, PrefixFacts DEF Parent, Front, Path
    <2>4. PICK q : q = Append(Parent(p), Last(p))
      OBVIOUS
    <2>5. /\ q \in Seq(Names) /\ Len(q) = Len(p) /\ q[Len(p)] = p[Len(p)]
          /\ \A k \in 1..(Len(p) - 1) : q[k] = p[k]
      <3>1. /\ q \in Seq(Names) /\ Len(q) = Len(Parent(p)) + 1
            /\ \A k \in 1..Len(Parent(p)) : q[k] = Parent(p)[k]
            /\ q[Len(Parent(p)) + 1] = Last(p)
        BY <2>1, <2>4, AppendProperties
      <3>2. Len(Parent(p)) + 1 = Len(p)
        BY <2>1, <2>3
      <3>. QED
        BY <2>3, <3>1, <3>2 DEF Last
    <2>6. \A k \in 1..Len(p) : k = Len(p) \/ k \in 1..(Len(p) - 1)
      BY <2>1
    <2>7. p = q
      BY <1>0, <2>5, <2>6, SeqEqual DEF Path
    <2>. QED
      BY <1>4, <2>4, <2>7
  <1>7. PICK r : r = [op |-> "move", id |-> i, row |-> row[i], to |-> p]
    OBVIOUS
  <1>8. req' = [req EXCEPT ![c] = r] /\ row' = row /\ asked' = asked
    BY <1>2, <1>6, <1>7 DEF Start
  <1>9. /\ r \in Request /\ r.op = "move" /\ r.id = i /\ r.row = row[i] /\ r.to = p
    <2>1. i \in Ids \ {HomeId, TrashId} /\ row[i] \in Item /\ p \in Path \ {<<>>}
      BY <1>0, TypedRows
    <2>. QED
      BY <1>7, <2>1, RequestsMade
  <1>10. ~RelativeTo(p, row[i].path) /\ ~ExistsAt(p)
    BY <1>1, <1>5 DEF RelativeTo
  <1>12. Fits(r)'
    <2>1. Live' = Live
      BY <1>8 DEF Live
    <2>2. (FolderAt(Parent(p))' <=> FolderAt(Parent(p))) /\ (ExistsAt(p)' <=> ExistsAt(p))
      BY <1>8, <2>1 DEF FolderAt, ExistsAt, IdsAt
    <2>. QED
      BY <1>1, <1>8, <1>9, <1>10, <2>1, <2>2 DEF Fits
  <1>13. Used(r)
    BY <1>9 DEF Used
  <1>. QED
    BY <1>0, <1>8, <1>9, <1>12, <1>13, ReadKeeps

\* The reading half of every request keeps the invariant.
LEMMA ReadTree ==
  ASSUME TreeInv, Known, TypeOK', NEW c \in Clients, Read(c)
  PROVE  TreeInv'
  <1>0. TypeOK
    BY DEF TreeInv
  <1>1. ASSUME NEW p \in asked.folders, CreateFolder(c, p) PROVE TreeInv'
    <2>1. ReadCreateFolder(c, p, None) /\ Admitted(c, "create_folder")
      BY <1>1 DEF CreateFolder
    <2>2. p \in Path /\ p # <<>> /\ p \in UsedPath
      BY <1>0, AskedPaths, UsedNamed
    <2>3. Parents(p) \cup {p} \subseteq FolderPaths(asked)
      BY DEF FolderPaths
    <2>. QED
      BY <2>1, <2>2, <2>3, AdmittedFacts, ReadCreateFolderKeeps
  <1>2. ASSUME NEW f \in asked.files, Upload(c, f) PROVE TreeInv'
    <2>1. Admitted(c, "upload")
      BY <1>2 DEF Upload
    <2>2. f \in Path /\ f # <<>> /\ f \in UsedPath /\ f \in FilePaths(asked)
      BY <1>0, AskedPaths, UsedNamed DEF FilePaths
    <2>3. PICK q \in Available(f) :
            \/ /\ \E i \in Live : FoundAt(Parent(q), i) /\ row[i].kind = "folder"
               /\ Start(c, [op |-> "name_file", path |-> q])
            \/ /\ ~ExistsAt(Parent(q))
               /\ ReadCreateFolder(c, Parent(q), [op |-> "name_file", path |-> q])
      BY <1>2 DEF Upload
    <2>4. PICK r : r = [op |-> "name_file", path |-> q]
      OBVIOUS
    <2>5. q \in Path /\ q # <<>> /\ Parent(q) = Parent(f)
      BY <2>2, AvailableFacts
    <2>6. q \in FilePaths(asked) /\ q \in UsedPath
      BY <1>0, <2>2, AvailableFit
    <2>7. /\ r \in Naming /\ r \in Request /\ r # None
          /\ r.op = "name_file" /\ r.path = q
      <3>1. r \in Naming
        BY <2>4, <2>5, RequestsMade
      <3>. QED
        BY <2>4, <3>1, NamingFields
    <2>8. ASSUME NEW i \in Live, FoundAt(Parent(q), i), row[i].kind = "folder", Start(c, r)
          PROVE  TreeInv'
      <3>1. req' = [req EXCEPT ![c] = r] /\ row' = row /\ asked' = asked
        BY <2>8 DEF Start
      <3>2. FolderAt(Parent(q))'
        BY <2>8, <3>1 DEF FoundAt, FolderAt, IdsAt, Live
      <3>3. Fits(r)'
        BY <2>6, <2>7, <3>1, <3>2 DEF Fits
      <3>4. Used(r)
        BY <2>6, <2>7 DEF Used
      <3>. QED
        BY <2>1, <2>7, <3>1, <3>3, <3>4, AdmittedFacts, ReadKeeps
    <2>9. ASSUME ~ExistsAt(Parent(q)), ReadCreateFolder(c, Parent(q), r) PROVE TreeInv'
      <3>1. PICK p : p = Parent(q)
        OBVIOUS
      <3>2. p \in Path /\ p \in Parents(f)
        BY <2>2, <2>5, <3>1, ParentsFacts
      <3>3. p # <<>>
        <4>1. row[HomeId].path = <<>> /\ HomeId \in Live /\ <<>> \in Path
          BY <1>0 DEF TypeOK, Path
        <4>2. Same(<<>>, <<>>)
          BY <4>1, SameFacts
        <4>. QED
          BY <2>9, <3>1, <4>1, <4>2 DEF ExistsAt, IdsAt
      <3>4. Parents(p) \cup {p} \subseteq FolderPaths(asked)
        <4>1. Parents(p) \subseteq Parents(f)
          BY <2>2, <2>5, <3>1, ParentsParent
        <4>2. Parents(f) \subseteq FolderPaths(asked)
          BY DEF FolderPaths
        <4>. QED
          BY <3>2, <4>1, <4>2
      <3>5. p \in UsedPath
        BY <1>0, <2>2, <3>2, UsedMade
      <3>6. ReadCreateFolder(c, p, r)
        BY <2>9, <3>1
      <3>. QED
        BY <2>1, <2>6, <2>7, <3>1, <3>2, <3>3, <3>4, <3>5, <3>6,
           AdmittedFacts, ReadCreateFolderKeeps
    <2>. QED
      BY <2>3, <2>4, <2>8, <2>9
  <1>3. ASSUME NEW i \in Ids, Delete(c, i) PROVE TreeInv'
    <2>1. Admitted(c, "delete") /\ i \in Live \ {HomeId, TrashId}
      BY <1>3 DEF Delete
    <2>2. PICK r : r = [op |-> "delete", id |-> i, row |-> row[i]]
      OBVIOUS
    <2>3. r \in Request /\ r.op = "delete" /\ r.id = i /\ r.row = row[i]
      BY <1>0, <2>1, <2>2, TypedRows, RequestsMade
    <2>4. req' = [req EXCEPT ![c] = r] /\ row' = row /\ asked' = asked
      BY <1>3, <2>2 DEF Delete, Start
    <2>5. Fits(r)' /\ Used(r)
      BY <2>1, <2>3, <2>4 DEF Fits, Used, Live
    <2>. QED
      BY <2>1, <2>3, <2>4, <2>5, AdmittedFacts, ReadKeeps
  <1>4. ASSUME NEW i \in Ids, NEW p \in asked.files \cup asked.folders, MoveItem(c, i, p)
        PROVE  TreeInv'
    <2>1. Admitted(c, "move") /\ i \in Live \ {HomeId, TrashId} /\ ReadMove(c, i, p)
      BY <1>4 DEF MoveItem
    <2>2. p \in UsedPath /\ p # <<>>
      BY <1>0, AskedPaths, UsedNamed
    <2>3. req[c] = None /\ Quiet /\ alone' /\ Tidy(asked)
      BY <2>1, AdmittedFacts
    <2>. QED
      BY <2>1, <2>2, <2>3, ReadMoveKeeps
  <1>5. ASSUME NEW i \in Ids, MoveItemToTrash(c, i) PROVE TreeInv'
    <2>1. Admitted(c, "move_to_trash")
      BY <1>5 DEF MoveItemToTrash
    <2>2. i \in Live \ {HomeId, TrashId}
      BY <1>0, <1>5, TrashedPath
    <2>3. PICK n \in OtherNames \cup {Last(row[i].path)} :
            Append(TrashPath, n) \in Path \ {<<>>} /\ ReadMove(c, i, Append(TrashPath, n))
      BY <1>0, <1>5, TrashedPath
    <2>4. req[c] = None /\ Quiet /\ alone' /\ Tidy(asked)
      BY <2>1, AdmittedFacts
    <2>5. row[i].path \in UsedPath /\ row[i].path # <<>>
      BY <1>0, <2>2, <2>4 DEF TreeInv, PathsUsed, TypeOK
    <2>6. n \in UsedNames(asked)
      BY <1>0, <2>5, UsedMade, UsedNamed
    <2>7. Append(TrashPath, n) \in UsedPath
      BY <1>0, <2>6, UsedNamed, UsedMade
    <2>. QED
      BY <2>2, <2>3, <2>4, <2>7, ReadMoveKeeps
  <1>6. ASSUME EmptyTrash(c) PROVE TreeInv'
    <2>1. Admitted(c, "empty_trash") /\ TrashId \in Live
      BY <1>0, <1>6 DEF EmptyTrash, TypeOK
    <2>2. PICK r : r = [op |-> "empty_trash", row |-> row[TrashId]]
      OBVIOUS
    <2>3. r \in Request /\ r.op = "empty_trash" /\ r.row = row[TrashId]
      BY <1>0, <2>1, <2>2, TypedRows, RequestsMade
    <2>4. req' = [req EXCEPT ![c] = r] /\ row' = row /\ asked' = asked
      BY <1>6, <2>2 DEF EmptyTrash, Start
    <2>5. Fits(r)' /\ Used(r)
      BY <2>3, <2>4 DEF Fits, Used
    <2>. QED
      BY <2>1, <2>3, <2>4, <2>5, AdmittedFacts, ReadKeeps
  <1>. QED
    BY <1>1, <1>2, <1>3, <1>4, <1>5, <1>6 DEF Read

\* Rows that are gone with all that was below them.
LEMMA RowsGone ==
  ASSUME TreeInv, TypeOK', NEW gone, Live' = Live \ gone,
         \A i \in Live \ gone : row'[i].path = row[i].path /\ row'[i].kind = row[i].kind,
         \A j \in Live \cap gone, i \in Live :
           row[j].kind = "folder" /\ Below(row[i].path, row[j].path) => i \in gone
  PROVE  /\ Rooted' /\ OneRowPerPath'
         /\ Tidy(asked) => \A i \in Live' : row'[i].path \in UsedPath
  <1>0. TypeOK /\ Rooted /\ OneRowPerPath /\ \A i \in Live : row[i].path \in Path
    BY TypedRows DEF TreeInv
  <1>1. ASSUME NEW i \in Live', NEW a \in Parents(row'[i].path) PROVE FolderAt(a)'
    <2>1. i \in Live /\ i \notin gone /\ a \in Parents(row[i].path)
      BY <1>1
    <2>2. a \in Path /\ Below(row[i].path, a) /\ row[i].path \in Path
      BY <1>0, <2>1, ParentsFacts
    <2>3. PICK j \in Live : Same(row[j].path, a) /\ row[j].kind = "folder"
      BY <1>0, <2>1 DEF Rooted, FolderAt, IdsAt
    <2>4. Below(row[i].path, row[j].path)
      BY <1>0, <2>2, <2>3, BelowSame, SameFacts
    <2>5. j \notin gone
      BY <2>1, <2>3, <2>4
    <2>6. j \in Live' /\ row'[j].path = row[j].path /\ row'[j].kind = row[j].kind
      BY <2>5
    <2>. QED
      BY <2>3, <2>6 DEF FolderAt, IdsAt
  <1>2. Rooted'
    BY <1>1 DEF Rooted
  <1>3. \A i, j \in Live' : Same(row'[i].path, row'[j].path) => i = j
    BY <1>0, SamePathOneRow
  <1>4. OneRowPerPath'
    BY <1>3, OneRowNext
  <1>5. Tidy(asked) => \A i \in Live' : row'[i].path \in UsedPath
    BY DEF TreeInv, PathsUsed
  <1>. QED
    BY <1>2, <1>4, <1>5

\* A deletion takes what is below a folder.
LEMMA GoneClosed ==
  ASSUME TreeInv, NEW r \in Item, NEW id \in Live, r = row[id], NEW j \in Live \cap Gone(id, r),
         NEW i \in Live, row[j].kind = "folder", Below(row[i].path, row[j].path)
  PROVE  i \in Gone(id, r)
  <1>0. TypeOK /\ \A k \in Live : row[k].path \in Path
    BY TypedRows DEF TreeInv
  <1>1. CASE j = id
    BY <1>1 DEF Gone, IdsBelow
  <1>2. CASE j # id
    <2>1. r.kind = "folder" /\ Below(row[j].path, r.path)
      BY <1>2 DEF Gone, IdsBelow
    <2>2. Below(row[i].path, r.path)
      BY <1>0, <2>1, BelowFacts
    <2>. QED
      BY <2>1, <2>2 DEF Gone, IdsBelow
  <1>. QED
    BY <1>1, <1>2

\* delete takes away a row with all that is below it.
LEMMA DeleteSaveTree ==
  ASSUME TreeInv, Known, TypeOK', NEW c \in Clients, DeleteSave(c)
  PROVE  TreeInv'
  <1>0. TypeOK /\ req[c] # None /\ req[c].op = "delete"
    BY DEF TreeInv, DeleteSave
  <1>1. PICK r : r = req[c].row
    OBVIOUS
  <1>2. PICK id : id = req[c].id
    OBVIOUS
  <1>3. PICK gone : gone = Gone(id, r)
    OBVIOUS
  <1>4. /\ r \in Item /\ req' = [req EXCEPT ![c] = None]
        /\ UNCHANGED <<alone, asked, emptied>>
        /\ Live' = Live \ gone
        /\ \A i \in Live \ gone : row'[i].path = row[i].path /\ row'[i].kind = row[i].kind
    BY <1>0, <1>1, <1>2, <1>3, DeleteSaveRows
  <1>5. id \in Live /\ r = row[id] /\ alone
    BY <1>0, <1>1, <1>2 DEF TreeInv, RequestsFit, Fits, Solo
  <1>6. \A j \in Live \cap gone, i \in Live :
          row[j].kind = "folder" /\ Below(row[i].path, row[j].path) => i \in gone
    BY <1>3, <1>4, <1>5, GoneClosed
  <1>7. /\ Rooted' /\ OneRowPerPath'
        /\ Tidy(asked) => \A i \in Live' : row'[i].path \in UsedPath
    BY <1>4, <1>6, RowsGone
  <1>8. None \in Request \cup {None} /\ alone' = alone /\ asked' = asked
    BY <1>4
  <1>. QED
    BY <1>0, <1>4, <1>5, <1>7, <1>8, SaveKeeps

\* empty_folder takes away all that is below Trash.
LEMMA EmptyTrashSaveTree ==
  ASSUME TreeInv, Known, TypeOK', NEW c \in Clients, EmptyTrashSave(c)
  PROVE  TreeInv'
  <1>0. TypeOK /\ req[c] # None /\ req[c].op = "empty_trash"
    BY DEF TreeInv, EmptyTrashSave
  <1>1. PICK gone : gone = IdsBelow(TrashPath)
    OBVIOUS
  <1>2. /\ req' = [req EXCEPT ![c] = None] /\ UNCHANGED <<alone, asked>>
        /\ Live' = Live \ gone
        /\ \A i \in Live \ gone : row'[i].path = row[i].path /\ row'[i].kind = row[i].kind
    BY <1>0, <1>1, EmptyTrashSaveRows
  <1>3. alone
    BY <1>0 DEF TreeInv, Solo
  <1>4. ASSUME NEW j \in Live \cap gone, NEW i \in Live, Below(row[i].path, row[j].path)
        PROVE  i \in gone
    <2>1. row[i].path \in Path /\ row[j].path \in Path /\ TrashPath \in Path
      BY <1>0, TypedRows
    <2>2. Below(row[j].path, TrashPath)
      BY <1>1 DEF IdsBelow
    <2>3. Below(row[i].path, TrashPath)
      BY <1>4, <2>1, <2>2, BelowFacts
    <2>. QED
      BY <1>1, <2>3 DEF IdsBelow
  <1>5. /\ Rooted' /\ OneRowPerPath'
        /\ Tidy(asked) => \A i \in Live' : row'[i].path \in UsedPath
    BY <1>2, <1>4, RowsGone
  <1>6. None \in Request \cup {None} /\ alone' = alone /\ asked' = asked
    BY <1>2
  <1>. QED
    BY <1>0, <1>2, <1>3, <1>5, <1>6, SaveKeeps

\* Rows that are added below folders that are there, or are added with them.
LEMMA RowsAdded ==
  ASSUME TreeInv, TypeOK', Live \subseteq Live',
         \A i \in Live : row'[i].path = row[i].path /\ row'[i].kind = row[i].kind,
         \A i \in Live' \ Live : \A a \in Parents(row'[i].path) : FolderAt(a)',
         \A i \in Live' \ Live, j \in Live' : Same(row'[i].path, row'[j].path) => i = j,
         Tidy(asked) => \A i \in Live' \ Live : row'[i].path \in UsedPath
  PROVE  /\ Rooted' /\ OneRowPerPath'
         /\ Tidy(asked) => \A i \in Live' : row'[i].path \in UsedPath
  <1>0. TypeOK /\ Rooted /\ OneRowPerPath
    BY DEF TreeInv
  <1>1. ASSUME NEW a, FolderAt(a) PROVE FolderAt(a)'
    BY <1>1 DEF FolderAt, IdsAt
  <1>2. Rooted'
    BY <1>0, <1>1 DEF Rooted
  <1>3. ASSUME NEW i \in Live' PROVE row'[i].path \in Path
    <2>1. row'[i] \in Row
      BY DEF TypeOK, Live
    <2>. QED
      BY <2>1 DEF Row
  <1>4. ASSUME NEW i \in Live', NEW j \in Live', Same(row'[i].path, row'[j].path) PROVE i = j
    <2>1. CASE i \in Live /\ j \in Live
      BY <1>0, <1>4, <2>1, SamePathOneRow
    <2>2. Same(row'[j].path, row'[i].path)
      BY <1>3, <1>4, SameFacts
    <2>. QED
      BY <1>4, <2>1, <2>2
  <1>5. OneRowPerPath'
    BY <1>4, OneRowNext
  <1>6. Tidy(asked) => \A i \in Live' : row'[i].path \in UsedPath
    BY DEF TreeInv, PathsUsed
  <1>. QED
    BY <1>2, <1>5, <1>6

\* create_folder saves the folders with those above them.
LEMMA CreateFolderSaveTree ==
  ASSUME TreeInv, Known, TypeOK', NEW c \in Clients, CreateFolderSave(c)
  PROVE  TreeInv'
  <1>0. TypeOK /\ req[c] # None /\ \A i \in Live : i \in Ids /\ row[i].path \in Path
    BY TypedRows DEF TreeInv, CreateFolderSave
  <1>1. PICK all : all = req[c].paths
    OBVIOUS
  <1>2. PICK paths : paths = all \ {row[i].path : i \in Live}
    OBVIOUS
  <1>3. PICK then : then = req[c].then
    OBVIOUS
  <1>4. /\ req[c] \in Request /\ req[c].op = "create_folder"
        /\ req' = [req EXCEPT ![c] = then] /\ then \in Naming \cup {None}
        /\ UNCHANGED <<alone, emptied, asked>>
        /\ Extended(row', paths, "folder", 0)
    BY <1>0, <1>1, <1>2, <1>3, CreateFolderSaveRows
  <1>5. all \subseteq Path \ {<<>>}
    BY <1>1, <1>4, RequestFields
  <1>6. /\ FoldersFit(all)
        /\ then # None => /\ then.op = "name_file"
                          /\ \E b \in all : Same(b, Parent(then.path))
                          /\ ~alone => then.path \in FilePaths(asked)
        /\ Tidy(asked) => all \subseteq UsedPath /\ (then # None => then.path \in UsedPath)
    BY <1>0, <1>1, <1>3, <1>4 DEF TreeInv, RequestsFit, Fits, PathsUsed, Used
  <1>7. /\ Live \subseteq Live'
        /\ \A i \in Live : row'[i].path = row[i].path /\ row'[i].kind = row[i].kind
        /\ \A i \in Live' \ Live : i \in Ids \ Live /\ row'[i] # None
    BY <1>0, <1>4 DEF Extended, Live
  <1>8. ASSUME NEW i \in Live' \ Live
        PROVE  row'[i].path \in paths /\ row'[i].kind = "folder" /\ row'[i].path \in Path
    BY <1>2, <1>4, <1>5, <1>7 DEF Extended
  <1>9. ASSUME NEW a, FolderAt(a) PROVE FolderAt(a)'
    BY <1>7, <1>9 DEF FolderAt, IdsAt
  <1>10. ASSUME NEW b \in all, NEW a, Same(b, a) PROVE FolderAt(a)'
    <2>1. CASE b \in paths
      <3>1. PICK i \in Ids \ Live : row'[i] # None /\ row'[i].path = b
        BY <1>4, <2>1 DEF Extended
      <3>2. i \in Live' \ Live
        BY <3>1 DEF Live
      <3>. QED
        BY <1>8, <1>10, <3>1, <3>2 DEF FolderAt, IdsAt
    <2>2. CASE b \notin paths
      <3>1. PICK i \in Live : row[i].path = b
        BY <1>2, <2>2
      <3>2. b \in Path
        BY <1>5
      <3>3. i \in IdsAt(b)
        BY <3>1, <3>2, SameFacts DEF IdsAt
      <3>4. row[i].kind = "folder"
        BY <1>6, <3>3 DEF FoldersFit
      <3>5. FolderAt(a)
        BY <1>10, <3>1, <3>4 DEF FolderAt, IdsAt
      <3>. QED
        BY <1>9, <3>5
    <2>. QED
      BY <2>1, <2>2
  <1>11. ASSUME NEW i \in Live' \ Live, NEW a \in Parents(row'[i].path) PROVE FolderAt(a)'
    <2>1. row'[i].path \in all
      BY <1>2, <1>8
    <2>2. FolderAt(a) \/ \E b \in all : Same(b, a)
      BY <1>6, <2>1 DEF FoldersFit
    <2>. QED
      BY <1>9, <1>10, <2>2
  <1>12. ASSUME NEW i \in Live' \ Live, NEW j \in Live', Same(row'[i].path, row'[j].path)
         PROVE  i = j
    <2>1. CASE j \in Live
      <3>1. row'[i].path \in paths /\ row'[j].path = row[j].path
        BY <1>7, <1>8, <2>1
      <3>2. j \in IdsAt(row'[i].path)
        BY <1>0, <1>8, <1>12, <2>1, <3>1, SameFacts DEF IdsAt
      <3>3. ~alone
        BY <1>2, <1>6, <3>1, <3>2 DEF FoldersFit
      <3>4. Tidy(asked)
        BY <1>0, <3>3, Overlapping
      <3>5. row'[i].path \in UsedPath /\ row[j].path \in UsedPath
        BY <1>2, <1>6, <2>1, <3>1, <3>4 DEF TreeInv, PathsUsed
      <3>6. row'[i].path = row[j].path
        BY <1>0, <1>12, <3>1, <3>4, <3>5, OneCased
      <3>. QED
        BY <1>2, <2>1, <3>1, <3>6
    <2>2. CASE j \notin Live
      <3>1. row'[i].path \in all /\ row'[j].path \in all
        BY <1>2, <1>8, <2>2
      <3>2. row'[i].path = row'[j].path
        BY <1>6, <1>12, <3>1 DEF FoldersFit
      <3>. QED
        BY <1>4, <1>7, <2>2, <3>2 DEF Extended
    <2>. QED
      BY <2>1, <2>2
  <1>13. Tidy(asked) => \A i \in Live' \ Live : row'[i].path \in UsedPath
    BY <1>2, <1>6, <1>8
  <1>14. /\ Rooted' /\ OneRowPerPath'
         /\ Tidy(asked) => \A i \in Live' : row'[i].path \in UsedPath
    BY <1>7, <1>11, <1>12, <1>13, RowsAdded
  <1>15. Grows
    BY <1>7, <1>8 DEF Grows
  <1>16. ASSUME then # None
         PROVE  /\ then \in Request /\ then.op \in {"name_file", "create_file"}
                /\ Fits(then)' /\ (Tidy(asked) => Used(then))
    <2>1. then \in Request /\ then.op = "name_file"
      BY <1>4, <1>6, <1>16, NamingFields
    <2>2. FolderAt(Parent(then.path))'
      BY <1>6, <1>10, <1>16
    <2>3. alone' = alone /\ asked' = asked
      BY <1>4
    <2>4. Fits(then)'
      BY <1>6, <1>16, <2>1, <2>2, <2>3 DEF Fits
    <2>5. Tidy(asked) => Used(then)
      BY <1>6, <1>16, <2>1 DEF Used
    <2>. QED
      BY <2>1, <2>4, <2>5
  <1>17. then \in Request \cup {None} /\ alone' = alone /\ asked' = asked
    BY <1>4, <1>16
  <1>. QED
    BY <1>0, <1>4, <1>14, <1>15, <1>16, <1>17, SaveKeeps

\* The second choice of a name keeps the file in its folder.
LEMMA UploadNameTree ==
  ASSUME TreeInv, Known, TypeOK', NEW c \in Clients, UploadName(c)
  PROVE  TreeInv'
  <1>0. TypeOK /\ Rooted /\ OneRowPerPath
    BY DEF TreeInv
  <1>1. req[c] # None /\ req[c] \in Request /\ req[c].op = "name_file"
    BY <1>0 DEF UploadName, TypeOK
  <1>2. PICK p : p = req[c].path
    OBVIOUS
  <1>3. PICK q \in Available(p) : Start(c, [op |-> "create_file", path |-> q])
    BY <1>2 DEF UploadName
  <1>4. PICK r : r = [op |-> "create_file", path |-> q]
    OBVIOUS
  <1>5. p \in Path /\ p # <<>>
    BY <1>1, <1>2, RequestFields
  <1>6. q \in Path /\ q # <<>> /\ ~ExistsAt(q) /\ Parent(q) = Parent(p)
    BY <1>5, AvailableFacts
  <1>7. r \in Request /\ r.op = "create_file" /\ r.path = q
    BY <1>4, <1>6, RequestsMade
  <1>8. req' = [req EXCEPT ![c] = r] /\ row' = row /\ alone' = alone /\ asked' = asked
    BY <1>3, <1>4 DEF UploadName, Start
  <1>9. /\ FolderAt(Parent(p)) /\ (~alone => p \in FilePaths(asked))
        /\ Tidy(asked) => p \in UsedPath
    BY <1>1, <1>2 DEF TreeInv, RequestsFit, Fits, PathsUsed, Used
  <1>10. /\ ~alone => q \in FilePaths(asked)
         /\ Tidy(asked) => q \in UsedPath
    BY <1>0, <1>5, <1>9, AvailableFit
  <1>11. Live' = Live
    BY <1>8 DEF Live
  <1>12. (FolderAt(Parent(q))' <=> FolderAt(Parent(q))) /\ (ExistsAt(q)' <=> ExistsAt(q))
    BY <1>8, <1>11 DEF FolderAt, ExistsAt, IdsAt
  <1>13. Fits(r)' /\ (Tidy(asked) => Used(r))
    BY <1>6, <1>7, <1>8, <1>9, <1>10, <1>12 DEF Fits, Used
  <1>14. /\ Rooted' /\ OneRowPerPath' /\ Grows
         /\ Tidy(asked) => \A i \in Live' : row'[i].path \in UsedPath
    BY <1>0, <1>8, <1>11 DEF TreeInv, PathsUsed, Rooted, OneRowPerPath, FolderAt, IdsAt, Grows
  <1>. QED
    BY <1>1, <1>7, <1>8, <1>13, <1>14, SaveKeeps

\* create_file saves the row in a folder that is there.
LEMMA UploadSaveTree ==
  ASSUME TreeInv, Known, TypeOK', NEW c \in Clients, UploadSave(c)
  PROVE  TreeInv'
  <1>0. TypeOK /\ Rooted /\ OneRowPerPath /\ req[c] # None /\ req[c].op = "create_file"
    BY DEF TreeInv, UploadSave
  <1>1. PICK p : p = req[c].path
    OBVIOUS
  <1>2. /\ p \in Path \ {<<>>} /\ req' = [req EXCEPT ![c] = None]
        /\ UNCHANGED <<alone, asked, emptied>>
        /\ \/ row' = row
           \/ \E new \in Ids \ Live :
                /\ Live' = Live \cup {new}
                /\ row'[new].path = p /\ row'[new].kind = "file"
                /\ \A i \in Live :
                     /\ row[i].path # p
                     /\ row'[i].path = row[i].path /\ row'[i].kind = row[i].kind
    BY <1>0, <1>1, UploadSaveRows
  <1>3. /\ FolderAt(Parent(p)) /\ (~alone => p \in FilePaths(asked))
        /\ alone => ~ExistsAt(p)
        /\ Tidy(asked) => p \in UsedPath
    BY <1>0, <1>1 DEF TreeInv, RequestsFit, Fits, PathsUsed, Used
  <1>4. ASSUME row' = row
        PROVE  /\ Rooted' /\ OneRowPerPath' /\ Grows
               /\ Tidy(asked) => \A i \in Live' : row'[i].path \in UsedPath
    <2>1. Live' = Live
      BY <1>4 DEF Live
    <2>. QED
      BY <1>0, <1>4, <2>1 DEF TreeInv, PathsUsed, Rooted, OneRowPerPath, FolderAt, IdsAt, Grows
  <1>5. ASSUME NEW new \in Ids \ Live, Live' = Live \cup {new},
               row'[new].path = p, row'[new].kind = "file",
               \A i \in Live : /\ row[i].path # p
                               /\ row'[i].path = row[i].path /\ row'[i].kind = row[i].kind
        PROVE  /\ Rooted' /\ OneRowPerPath' /\ Grows
               /\ Tidy(asked) => \A i \in Live' : row'[i].path \in UsedPath
    <2>1. ASSUME NEW a \in Parents(p) PROVE FolderAt(a)'
      <3>1. a \in Path /\ Parent(p) \in Path /\ RelativeTo(Parent(p), a)
        BY <1>2, ParentsFacts DEF RelativeTo
      <3>2. FolderAt(a)
        BY <1>0, <1>3, <3>1, AboveFolder
      <3>. QED
        BY <1>5, <3>2 DEF FolderAt, IdsAt
    <2>2. ASSUME NEW j \in Live, Same(p, row[j].path) PROVE FALSE
      <3>1. row[j].path \in Path /\ p \in Path
        BY <1>0, <1>2, TypedRows
      <3>2. ExistsAt(p)
        BY <2>2, <3>1, SameFacts DEF ExistsAt, IdsAt
      <3>3. Tidy(asked)
        BY <1>0, <1>3, <3>2, Overlapping
      <3>4. p \in UsedPath /\ row[j].path \in UsedPath
        BY <1>3, <3>3 DEF TreeInv, PathsUsed
      <3>. QED
        BY <1>0, <1>5, <2>2, <3>3, <3>4, OneCased
    <2>3. \A i \in Live' \ Live : i = new
      BY <1>5
    <2>4. /\ Rooted' /\ OneRowPerPath'
          /\ Tidy(asked) => \A i \in Live' : row'[i].path \in UsedPath
      BY <1>3, <1>5, <2>1, <2>2, <2>3, RowsAdded
    <2>5. Grows
      BY <1>3, <1>5 DEF Grows
    <2>. QED
      BY <2>4, <2>5
  <1>6. None \in Request \cup {None} /\ alone' = alone /\ asked' = asked
    BY <1>2
  <1>7. /\ Rooted' /\ OneRowPerPath' /\ Grows
        /\ Tidy(asked) => \A i \in Live' : row'[i].path \in UsedPath
    BY <1>2, <1>4, <1>5
  <1>. QED
    BY <1>0, <1>2, <1>6, <1>7, SaveKeeps

\* The path p, which begins with at, when at has become to.
Rebased(p, at, to) == to \o SubSeq(p, Len(at) + 1, Len(p))

IsRebased(r, p, at, to) ==
  /\ Len(p) \in Nat /\ Len(at) \in Nat /\ Len(to) \in Nat /\ Len(at) < Len(p)
  /\ r \in Path /\ Len(r) = Len(to) + (Len(p) - Len(at))
  /\ \A i \in 1..Len(to) : r[i] = to[i]
  /\ \A i \in 1..(Len(p) - Len(at)) : r[Len(to) + i] = p[Len(at) + i]

IsJoined(r, at, p, k, S) ==
  /\ r \in Seq(S) /\ Len(r) = Len(at) + Len(p) - k
  /\ \A i \in 1..Len(at) : r[i] = at[i]
  /\ \A i \in 1..(Len(p) - k) : r[Len(at) + i] = p[k + i]

\* A sequence followed by the rest of another one.
LEMMA JoinedIs ==
  ASSUME NEW S, NEW p \in Seq(S), NEW at \in Seq(S), NEW k \in 0..Len(p),
         NEW r, r = at \o SubSeq(p, k + 1, Len(p))
  PROVE  IsJoined(r, at, p, k, S)
  BY JoinFacts DEF IsJoined

\* A path that has been moved has the names of the new prefix and then its own.
LEMMA RebasedIs ==
  ASSUME NEW p \in Path, NEW at \in Path, NEW to \in Path, Below(p, at),
         NEW r, r = Rebased(p, at, to)
  PROVE  IsRebased(r, p, at, to)
  <1>1. Len(p) \in Nat /\ Len(at) \in Nat /\ Len(to) \in Nat /\ Len(at) < Len(p)
    BY BelowIs DEF Path
  <1>2. Len(at) \in 0..Len(p) /\ Len(to) + Len(p) - Len(at) = Len(to) + (Len(p) - Len(at))
    BY <1>1
  <1>3. p \in Seq(Names) /\ to \in Seq(Names)
    BY DEF Path
  <1>4. PICK k \in 0..Len(p) : k = Len(at)
    BY <1>2
  <1>5. r = to \o SubSeq(p, k + 1, Len(p))
    BY <1>4 DEF Rebased
  <1>6. /\ r \in Seq(Names) /\ Len(r) = Len(to) + Len(p) - k
        /\ \A i \in 1..Len(to) : r[i] = to[i]
        /\ \A i \in 1..(Len(p) - k) : r[Len(to) + i] = p[k + i]
    <2>1. IsJoined(r, to, p, k, Names)
      BY <1>3, <1>4, <1>5, JoinedIs
    <2>. QED
      BY <2>1 DEF IsJoined
  <1>. QED
    BY <1>1, <1>2, <1>4, <1>6 DEF IsRebased, Path

\* Two paths have the same first n names, but for their casing.
Agree(p, q, n) == \A i \in 1..n : Fold[p[i]] = Fold[q[i]]

\* Two moved paths agree as far as they did before.
LEMMA RebasedPart ==
  ASSUME NEW p \in Path, NEW q \in Path, NEW at \in Path, NEW to \in Path,
         Below(p, at), Below(q, at), NEW k \in Nat, k <= Len(p) - Len(at), k <= Len(q) - Len(at),
         NEW r, NEW s, r = Rebased(p, at, to), s = Rebased(q, at, to)
  PROVE  Agree(r, s, Len(to) + k) <=> Agree(p, q, Len(at) + k)
  <1>0. IsRebased(r, p, at, to) /\ IsRebased(s, q, at, to)
    BY RebasedIs, Zenon
  <1>1. /\ Len(p) \in Nat /\ Len(at) \in Nat /\ Len(to) \in Nat /\ Len(q) \in Nat
        /\ \A i \in 1..Len(to) : r[i] = to[i]
        /\ \A i \in 1..(Len(p) - Len(at)) : r[Len(to) + i] = p[Len(at) + i]
        /\ \A i \in 1..Len(to) : s[i] = to[i]
        /\ \A i \in 1..(Len(q) - Len(at)) : s[Len(to) + i] = q[Len(at) + i]
    BY <1>0 DEF IsRebased
  <1>2. \A i \in 1..k : i \in 1..(Len(p) - Len(at)) /\ i \in 1..(Len(q) - Len(at))
    BY <1>1
  <1>3. \A i \in 1..k : r[Len(to) + i] = p[Len(at) + i] /\ s[Len(to) + i] = q[Len(at) + i]
    BY <1>1, <1>2
  <1>4. \A i \in 1..Len(at) : Fold[p[i]] = Fold[at[i]] /\ Fold[q[i]] = Fold[at[i]]
    BY BelowIs
  <1>5. \A i \in 1..k : /\ Len(to) + i \in 1..(Len(to) + k)
                        /\ Len(at) + i \in 1..(Len(at) + k)
    BY <1>1
  <1>6. ASSUME NEW n \in Nat, NEW i \in 1..(n + k)
        PROVE  i \in 1..n \/ (i - n \in 1..k /\ n + (i - n) = i)
    OBVIOUS
  <1>7. ASSUME \A i \in 1..(Len(to) + k) : Fold[r[i]] = Fold[s[i]],
               NEW i \in 1..(Len(at) + k)
        PROVE  Fold[p[i]] = Fold[q[i]]
    <2>1. CASE i \in 1..Len(at)
      BY <1>4, <2>1
    <2>2. CASE i - Len(at) \in 1..k /\ Len(at) + (i - Len(at)) = i
      <3>1. PICK j \in 1..k : Len(at) + j = i
        BY <2>2
      <3>. QED
        BY <1>3, <1>5, <1>7, <3>1
    <2>. QED
      BY <1>1, <1>6, <2>1, <2>2
  <1>8. ASSUME \A i \in 1..(Len(at) + k) : Fold[p[i]] = Fold[q[i]],
               NEW i \in 1..(Len(to) + k)
        PROVE  Fold[r[i]] = Fold[s[i]]
    <2>1. CASE i \in 1..Len(to)
      BY <1>1, <2>1
    <2>2. CASE i - Len(to) \in 1..k /\ Len(to) + (i - Len(to)) = i
      <3>1. PICK j \in 1..k : Len(to) + j = i
        BY <2>2
      <3>. QED
        BY <1>3, <1>5, <1>8, <3>1
    <2>. QED
      BY <1>1, <1>6, <2>1, <2>2
  <1>. QED
    BY <1>7, <1>8 DEF Agree

\* Paths below at keep their order.
LEMMA RebasedOrder ==
  ASSUME NEW p \in Path, NEW q \in Path, NEW at \in Path, NEW to \in Path,
         Below(p, at), Below(q, at),
         NEW r, NEW s, r = Rebased(p, at, to), s = Rebased(q, at, to)
  PROVE  /\ r \in Path /\ Below(r, to)
         /\ Below(r, s) <=> Below(p, q)
  <1>0. IsRebased(r, p, at, to) /\ IsRebased(s, q, at, to)
    BY RebasedIs, Zenon
  <1>1. /\ Len(p) \in Nat /\ Len(at) \in Nat /\ Len(to) \in Nat /\ Len(q) \in Nat
        /\ Len(at) < Len(p) /\ Len(at) < Len(q) /\ r \in Path /\ s \in Path
        /\ Len(r) = Len(to) + (Len(p) - Len(at)) /\ Len(s) = Len(to) + (Len(q) - Len(at))
        /\ \A i \in 1..Len(to) : r[i] = to[i]
    BY <1>0 DEF IsRebased
  <1>2. Below(r, to)
    <2>1. Len(r) > Len(to)
      BY <1>1
    <2>. QED
      BY <1>1, <2>1, BelowIs
  <1>3. Len(r) > Len(s) <=> Len(p) > Len(q)
    BY <1>1
  <1>4. ASSUME Len(p) > Len(q) PROVE Below(r, s) <=> Below(p, q)
    <2>0. Len(q) - Len(at) \in Nat
      BY <1>1
    <2>1. PICK k \in Nat : k = Len(q) - Len(at)
      BY <2>0
    <2>2. k <= Len(p) - Len(at) /\ k <= Len(q) - Len(at) /\ Len(to) + k = Len(s) /\ Len(at) + k = Len(q)
      BY <1>1, <1>4, <2>1
    <2>3. Agree(r, s, Len(to) + k) <=> Agree(p, q, Len(at) + k)
      BY <2>2, RebasedPart
    <2>4. /\ Below(r, s) <=> Len(r) > Len(s) /\ Agree(r, s, Len(s))
          /\ Below(p, q) <=> Len(p) > Len(q) /\ Agree(p, q, Len(q))
      BY <1>1, BelowIs DEF Agree
    <2>. QED
      BY <1>3, <1>4, <2>2, <2>3, <2>4
  <1>5. ASSUME ~(Len(p) > Len(q)) PROVE ~Below(r, s) /\ ~Below(p, q)
    BY <1>1, <1>3, <1>5, BelowIs
  <1>. QED
    BY <1>1, <1>2, <1>4, <1>5

\* What is above a path that was moved: to, what is above it, or a path that was
\* moved as well.
LEMMA RebasedAbove ==
  ASSUME NEW p \in Path, NEW at \in Path, NEW to \in Path, Below(p, at),
         NEW a \in Path, Below(Rebased(p, at, to), a)
  PROVE  \/ RelativeTo(to, a)
         \/ \E b \in Parents(p) : b \in Path /\ Below(b, at) /\ Same(Rebased(b, at, to), a)
  <1>1. PICK r : r = Rebased(p, at, to)
    OBVIOUS
  <1>2. /\ Len(p) \in Nat /\ Len(at) \in Nat /\ Len(to) \in Nat /\ Len(at) < Len(p)
        /\ r \in Path /\ Len(r) = Len(to) + (Len(p) - Len(at))
        /\ \A i \in 1..Len(to) : r[i] = to[i]
        /\ \A i \in 1..(Len(p) - Len(at)) : r[Len(to) + i] = p[Len(at) + i]
    <2>1. IsRebased(r, p, at, to)
      BY <1>1, RebasedIs, Zenon
    <2>. QED
      BY <2>1 DEF IsRebased
  <1>3. Below(r, to) /\ Below(r, a)
    BY <1>1, RebasedOrder
  <1>4. Same(to, a) \/ Below(to, a) \/ Below(a, to)
    BY <1>2, <1>3, BelowFacts
  <1>5. ASSUME Below(a, to)
        PROVE  \E b \in Parents(p) : b \in Path /\ Below(b, at) /\ Same(Rebased(b, at, to), a)
    <2>1. /\ Len(a) > Len(to) /\ Len(r) > Len(a) /\ Len(a) \in Nat
          /\ \A i \in 1..Len(a) : Fold[r[i]] = Fold[a[i]]
      BY <1>2, <1>3, <1>5, BelowIs DEF Path
    <2>0. Len(at) + (Len(a) - Len(to)) \in Nat
      BY <1>2, <2>1
    <2>2. PICK k \in Nat : k = Len(at) + (Len(a) - Len(to))
      BY <2>0
    <2>3. k \in 0..(Len(p) - 1) /\ k \in 0..Len(p) /\ k > Len(at) /\ k - Len(at) = Len(a) - Len(to)
      BY <1>2, <2>1, <2>2
    <2>4. PICK b : b = SubSeq(p, 1, k)
      OBVIOUS
    <2>5. b \in Path /\ Len(b) = k /\ \A i \in 1..k : b[i] = p[i]
      BY <2>3, <2>4, PrefixFacts DEF Path
    <2>6. b \in Parents(p)
      BY <2>3, <2>4 DEF Parents
    <2>7. Below(b, at)
      <3>1. \A i \in 1..Len(at) : Fold[p[i]] = Fold[at[i]]
        BY BelowIs
      <3>2. \A i \in 1..Len(at) : i \in 1..k
        BY <1>2, <2>3
      <3>. QED
        BY <2>3, <2>5, <3>1, <3>2, BelowIs
    <2>8. PICK s : s = Rebased(b, at, to)
      OBVIOUS
    <2>9. /\ s \in Path /\ Len(s) = Len(to) + (k - Len(at))
          /\ \A i \in 1..Len(to) : s[i] = to[i]
          /\ \A i \in 1..(k - Len(at)) : s[Len(to) + i] = b[Len(at) + i]
      <3>1. IsRebased(s, b, at, to)
        BY <2>5, <2>7, <2>8, RebasedIs, Zenon
      <3>. QED
        BY <2>5, <3>1 DEF IsRebased
    <2>10. Len(s) = Len(a)
      BY <1>2, <2>1, <2>3, <2>9
    <2>11. ASSUME NEW i \in 1..Len(a) PROVE Fold[s[i]] = Fold[a[i]]
      <3>1. CASE i <= Len(to)
        <4>1. i \in 1..Len(to)
          BY <1>2, <3>1
        <4>. QED
          BY <1>2, <2>1, <2>9, <4>1
      <3>2. CASE ~(i <= Len(to))
        <4>1. PICK j \in 1..(k - Len(at)) : Len(to) + j = i
          <5>1. i - Len(to) \in 1..(k - Len(at)) /\ Len(to) + (i - Len(to)) = i
            BY <1>2, <2>1, <2>3, <3>2
          <5>. QED
            BY <5>1
        <4>2. Len(at) + j \in 1..k /\ j \in 1..(Len(p) - Len(at))
          BY <1>2, <2>3
        <4>3. s[i] = b[Len(at) + j] /\ b[Len(at) + j] = p[Len(at) + j] /\ r[i] = p[Len(at) + j]
          BY <1>2, <2>5, <2>9, <4>1, <4>2
        <4>. QED
          BY <2>1, <4>3
      <3>. QED
        BY <3>1, <3>2
    <2>12. Same(s, a)
      BY <2>9, <2>10, <2>11, SameIs
    <2>. QED
      BY <2>5, <2>6, <2>7, <2>8, <2>12
  <1>. QED
    BY <1>4, <1>5 DEF RelativeTo

\* What a move does to the paths of rows: those of the row and of what is below it
\* change, and there was nothing where they go to.
LEMMA MovedFacts ==
  ASSUME TreeInv, Tidy(asked), NEW r \in Request, r.op = "move", Fits(r), Used(r),
         NEW at, at = r.row.path, NEW to, to = r.to
  PROVE  /\ r.id \in Live /\ row[r.id].path = at /\ r.row = row[r.id]
         /\ at \in UsedPath /\ at \in Path /\ to \in UsedPath /\ to \in Path
         /\ \A i \in Live : ~RelativeTo(row[i].path, to)
         /\ ~RelativeTo(to, at)
         /\ MovedPath(r, r.id) = to
         /\ r.id \notin IdsBelow(at)
         /\ \A i \in IdsBelow(at) : /\ r.row.kind = "folder" /\ i \in Live
                                    /\ MovedPath(r, i) = Rebased(row[i].path, at, to)
         /\ \A i \in Live : i # r.id /\ i \notin IdsBelow(at) => MovedPath(r, i) = row[i].path
         /\ \A i \in Live : MovedPath(r, i) \in UsedPath
  <1>0. /\ TypeOK /\ Rooted /\ OneRowPerPath
        /\ \A i \in Live : row[i].path \in Path /\ row[i].path \in UsedPath
    BY TypedRows DEF TreeInv, PathsUsed
  <1>1. /\ r.id \in Live /\ r.row = row[r.id]
        /\ FolderAt(Parent(to)) /\ ~RelativeTo(to, at) /\ ~ExistsAt(to) /\ to \in UsedPath
    BY DEF Fits, Used
  <1>2. at = row[r.id].path /\ at \in Path /\ at \in UsedPath /\ to \in Path
    BY <1>0, <1>1, UsedNamed
  <1>3. ASSUME NEW i \in Live, RelativeTo(row[i].path, to) PROVE FALSE
    <2>1. CASE Same(row[i].path, to)
      BY <1>1, <2>1 DEF ExistsAt, IdsAt
    <2>2. CASE Below(row[i].path, to)
      <3>1. FolderAt(to)
        BY <1>0, <1>2, <2>2, AboveRow
      <3>. QED
        BY <1>1, <3>1 DEF FolderAt, ExistsAt
    <2>. QED
      BY <1>3, <2>1, <2>2 DEF RelativeTo
  <1>4. MovedPath(r, r.id) = to
    BY <1>1 DEF MovedPath, RelativeTo
  <1>5. r.id \notin IdsBelow(at)
    BY <1>2, BelowFacts, SameFacts DEF IdsBelow
  <1>6. ASSUME NEW i \in IdsBelow(at)
        PROVE  /\ r.row.kind = "folder" /\ i \in Live
               /\ MovedPath(r, i) = Rebased(row[i].path, at, to)
    <2>1. i \in Live /\ Below(row[i].path, at) /\ i # r.id
      BY <1>5, <1>6 DEF IdsBelow
    <2>2. FolderAt(at)
      BY <1>0, <1>2, <2>1, AboveRow
    <2>3. IdsAt(at) = {r.id}
      BY <1>0, <1>1, <1>2 DEF OneRowPerPath
    <2>4. r.row.kind = "folder"
      BY <1>1, <2>2, <2>3 DEF FolderAt
    <2>5. SubSeq(row[i].path, 1, Len(at)) = at
      BY <1>0, <1>2, <2>1, OneCased
    <2>. QED
      BY <2>1, <2>4, <2>5 DEF MovedPath, ReplacedPrefix, Rebased
  <1>7. \A i \in Live : i # r.id /\ i \notin IdsBelow(at) => MovedPath(r, i) = row[i].path
    BY DEF MovedPath, IdsBelow
  <1>8. ASSUME NEW i \in Live PROVE MovedPath(r, i) \in UsedPath
    <2>1. CASE i \in IdsBelow(at)
      <3>1. Below(row[i].path, at)
        BY <2>1 DEF IdsBelow
      <3>2. PICK p : p = row[i].path
        OBVIOUS
      <3>3. /\ p \in Seq(UsedNames(asked)) /\ to \in Seq(UsedNames(asked)) /\ Len(at) \in 0..Len(p)
        <4>1. Len(p) > Len(at) /\ Len(p) \in Nat /\ Len(at) \in Nat
          BY <1>0, <1>2, <3>1, <3>2, BelowIs DEF Path
        <4>2. p \in Seq(UsedNames(asked)) /\ to \in Seq(UsedNames(asked))
          BY <1>0, <1>1, <3>2 DEF UsedPath
        <4>. QED
          BY <4>1, <4>2
      <3>4. Rebased(p, at, to) \in Seq(UsedNames(asked))
        BY <3>3, JoinFacts DEF Rebased
      <3>. QED
        BY <1>6, <2>1, <3>2, <3>4 DEF UsedPath
    <2>2. CASE i = r.id
      BY <1>1, <1>4, <2>2
    <2>3. CASE i # r.id /\ i \notin IdsBelow(at)
      BY <1>0, <1>7, <2>3
    <2>. QED
      BY <2>1, <2>2, <2>3
  <1>. QED
    BY <1>1, <1>2, <1>3, <1>4, <1>5, <1>6, <1>7, <1>8

\* What does not touch rows keeps what is about rows only.
LEMMA RowsStay ==
  ASSUME TreeInv, row' = row
  PROVE  /\ Rooted' /\ OneRowPerPath' /\ Grows
         /\ Tidy(asked) => \A i \in Live' : row'[i].path \in UsedPath
  <1>1. Live' = Live
    BY DEF Live
  <1>. QED
    BY <1>1 DEF TreeInv, PathsUsed, Rooted, OneRowPerPath, FolderAt, IdsAt, Grows

\* RelativeTo and Below go together.
LEMMA RelativeFacts ==
  ASSUME NEW x \in Path, NEW y \in Path, NEW z \in Path
  PROVE  /\ Below(x, y) /\ RelativeTo(y, z) => Below(x, z)
         /\ RelativeTo(x, y) /\ Below(y, z) => Below(x, z)
         /\ Same(x, y) /\ RelativeTo(x, z) => RelativeTo(y, z)
  BY SameFacts, BelowFacts, BelowSame DEF RelativeTo

\* _move renames a row with all that is below it, to where nothing is.
LEMMA MoveSaveTree ==
  ASSUME TreeInv, Known, TypeOK', NEW c \in Clients, MoveSave(c)
  PROVE  TreeInv'
  <1>0. /\ TypeOK /\ Rooted /\ OneRowPerPath /\ req[c] # None
        /\ \A i \in Live : row[i].path \in Path
    BY TypedRows DEF TreeInv, MoveSave
  <1>1. PICK r : r = req[c]
    OBVIOUS
  <1>2. /\ r \in Request /\ r.op = "move"
        /\ req' = [req EXCEPT ![c] = None] /\ UNCHANGED <<alone, asked, emptied>>
        /\ \/ row' = row
           \/ /\ Live' = Live
              /\ \A i, j \in Live : MovedPath(r, i) = MovedPath(r, j) => i = j
              /\ \A i \in Live : row'[i].path = MovedPath(r, i) /\ row'[i].kind = row[i].kind
    BY <1>0, <1>1, MoveSaveRows
  <1>3. Tidy(asked) /\ alone /\ Fits(r) /\ Used(r)
    BY <1>0, <1>1, <1>2 DEF TreeInv, Solo, RequestsFit, PathsUsed
  <1>4. PICK at : at = r.row.path
    OBVIOUS
  <1>5. PICK to : to = r.to
    OBVIOUS
  <1>6. /\ r.id \in Live /\ row[r.id].path = at /\ r.row = row[r.id]
        /\ at \in Path /\ to \in Path
        /\ ~RelativeTo(to, at)
        /\ MovedPath(r, r.id) = to
        /\ \A i \in IdsBelow(at) : /\ r.row.kind = "folder" /\ i \in Live
                                   /\ MovedPath(r, i) = Rebased(row[i].path, at, to)
        /\ \A i \in Live : i # r.id /\ i \notin IdsBelow(at) => MovedPath(r, i) = row[i].path
        /\ \A i \in Live : MovedPath(r, i) \in UsedPath
    BY <1>2, <1>3, <1>4, <1>5, MovedFacts
  <1>7. ASSUME Live' = Live,
               \A i, j \in Live : MovedPath(r, i) = MovedPath(r, j) => i = j,
               \A i \in Live : row'[i].path = MovedPath(r, i) /\ row'[i].kind = row[i].kind
        PROVE  /\ Rooted' /\ OneRowPerPath'
               /\ \A i \in Live' : row'[i].path \in UsedPath
    <2>1. ASSUME NEW a \in Path, FolderAt(a), ~RelativeTo(a, at) PROVE FolderAt(a)'
      <3>1. PICK j \in Live : Same(row[j].path, a) /\ row[j].kind = "folder"
        BY <2>1 DEF FolderAt, IdsAt
      <3>2. ~RelativeTo(row[j].path, at) /\ Same(at, at)
        BY <1>0, <1>6, <2>1, <3>1, RelativeFacts, SameFacts
      <3>3. j # r.id /\ j \notin IdsBelow(at)
        BY <1>6, <3>2 DEF RelativeTo, IdsBelow
      <3>4. row'[j].path = row[j].path
        BY <1>6, <1>7, <3>3
      <3>. QED
        BY <1>7, <3>1, <3>4 DEF FolderAt, IdsAt
    <2>2. ASSUME NEW a \in Path, Below(to, a) PROVE FolderAt(a)'
      <3>1. to # <<>>
        BY <1>2, <1>5, RequestFields
      <3>2. Parent(to) \in Path /\ RelativeTo(Parent(to), a)
        BY <1>6, <2>2, <3>1, ParentsFacts DEF RelativeTo
      <3>3. FolderAt(Parent(to))
        BY <1>2, <1>3, <1>5 DEF Fits
      <3>4. FolderAt(a)
        BY <1>0, <2>2, <3>2, <3>3, AboveFolder
      <3>5. ~RelativeTo(a, at)
        BY <1>6, <2>2, RelativeFacts DEF RelativeTo
      <3>. QED
        BY <2>1, <3>4, <3>5
    <2>3. ASSUME NEW i \in Live', NEW a \in Parents(row'[i].path) PROVE FolderAt(a)'
      <3>0. i \in Live /\ row'[i].path = MovedPath(r, i) /\ row'[i].path \in Path
        BY <1>0, <1>6, <1>7, UsedNamed
      <3>1. a \in Path /\ Below(row'[i].path, a)
        BY <3>0, ParentsFacts
      <3>2. CASE i = r.id
        BY <1>6, <2>2, <3>0, <3>1, <3>2
      <3>3. CASE i \in IdsBelow(at)
        <4>1. PICK p \in Path : p = row[i].path /\ p \in UsedPath
          BY <1>0, <1>3, <3>0 DEF TreeInv, PathsUsed
        <4>2. Below(p, at) /\ Below(Rebased(p, at, to), a)
          BY <1>6, <3>0, <3>1, <3>3, <4>1 DEF IdsBelow
        <4>3. \/ RelativeTo(to, a)
              \/ \E b \in Parents(p) : b \in Path /\ Below(b, at) /\ Same(Rebased(b, at, to), a)
          BY <1>6, <3>1, <4>2, RebasedAbove
        <4>4. CASE Same(to, a)
          <5>1. r.row.kind = "folder"
            BY <1>6, <3>3
          <5>2. r.id \in Live' /\ row'[r.id].path = to /\ row'[r.id].kind = "folder"
            BY <1>6, <1>7, <5>1
          <5>. QED
            BY <4>4, <5>2 DEF FolderAt, IdsAt
        <4>5. CASE Below(to, a)
          BY <2>2, <3>1, <4>5
        <4>6. ASSUME NEW b \in Parents(p), b \in Path, Below(b, at), Same(Rebased(b, at, to), a)
              PROVE  FolderAt(a)'
          <5>1. PICK j \in Live : Same(row[j].path, b) /\ row[j].kind = "folder"
            BY <1>0, <3>0, <4>1 DEF Rooted, FolderAt, IdsAt
          <5>2. b \in UsedPath /\ row[j].path \in UsedPath
            BY <1>0, <1>3, <4>1, UsedMade DEF TreeInv, PathsUsed
          <5>3. row[j].path = b
            BY <1>0, <1>3, <5>1, <5>2, OneCased
          <5>4. j \in IdsBelow(at)
            BY <4>6, <5>3 DEF IdsBelow
          <5>5. j \in Live' /\ row'[j].path = Rebased(b, at, to) /\ row'[j].kind = "folder"
            BY <1>6, <1>7, <5>1, <5>3, <5>4
          <5>. QED
            BY <4>6, <5>5 DEF FolderAt, IdsAt
        <4>. QED
          BY <4>3, <4>4, <4>5, <4>6 DEF RelativeTo
      <3>4. CASE i # r.id /\ i \notin IdsBelow(at)
        <4>1. row'[i].path = row[i].path
          BY <1>6, <3>0, <3>4
        <4>2. FolderAt(a)
          BY <1>0, <2>3, <3>0, <4>1 DEF Rooted
        <4>3. ~Below(row[i].path, at)
          BY <3>0, <3>4 DEF IdsBelow
        <4>4. ~RelativeTo(a, at)
          BY <1>6, <3>0, <3>1, <4>1, <4>3, RelativeFacts
        <4>. QED
          BY <2>1, <3>1, <4>2, <4>4
      <3>. QED
        BY <3>2, <3>3, <3>4
    <2>4. Rooted'
      BY <2>3 DEF Rooted
    <2>5. \A i \in Live' : row'[i].path \in UsedPath
      BY <1>6, <1>7
    <2>6. ASSUME NEW i \in Live', NEW j \in Live', Same(row'[i].path, row'[j].path) PROVE i = j
      <3>1. row'[i].path = row'[j].path
        BY <1>0, <1>3, <2>5, <2>6, OneCased
      <3>. QED
        BY <1>7, <3>1
    <2>7. OneRowPerPath'
      BY <2>6, OneRowNext
    <2>. QED
      BY <2>4, <2>5, <2>7
  <1>8. /\ Rooted' /\ OneRowPerPath'
        /\ Tidy(asked) => \A i \in Live' : row'[i].path \in UsedPath
    BY <1>2, <1>7, RowsStay
  <1>9. None \in Request \cup {None} /\ alone' = alone /\ asked' = asked
    BY <1>2
  <1>. QED
    BY <1>0, <1>2, <1>3, <1>8, <1>9, SaveKeeps

LEMMA InitTree == Init => TreeInv
  <1>. SUFFICES ASSUME Init PROVE TreeInv
    OBVIOUS
  <1>1. TypeOK
    BY InitTyped
  <1>2. \A c \in Clients : req[c] = None
    BY DEF Init
  <1>3. Live = {HomeId, TrashId}
    BY <1>1, TreeAssumption DEF Init, Live, TypeOK
  <1>4. /\ row[HomeId].path = <<>> /\ row[TrashId].path = TrashPath
        /\ row[HomeId].kind = "folder" /\ TrashPath \in Path /\ Len(TrashPath) = 1
        /\ <<>> \in Path /\ Len(<<>>) = 0
    BY <1>1, TypedRows, TreeAssumption DEF Init, TypeOK, Path
  <1>5. Parents(<<>>) = {}
    BY <1>4 DEF Parents
  <1>6. ASSUME NEW a \in Parents(TrashPath) PROVE FolderAt(a)
    <2>1. a \in Path /\ Below(TrashPath, a)
      BY <1>4, ParentsFacts
    <2>2. Len(a) = 0
      BY <1>4, <2>1, BelowIs DEF Path
    <2>3. Same(<<>>, a)
      BY <1>4, <2>1, <2>2, SameIs
    <2>. QED
      BY <1>3, <1>4, <2>3 DEF FolderAt, IdsAt
  <1>7. Rooted
    BY <1>3, <1>4, <1>5, <1>6 DEF Rooted
  <1>8. ~Same(<<>>, TrashPath) /\ ~Same(TrashPath, <<>>) /\ Same(<<>>, <<>>) /\ Same(TrashPath, TrashPath)
    BY <1>4, SameIs, SMTT(30)
  <1>9. OneRowPerPath
    BY <1>3, <1>4, <1>8 DEF OneRowPerPath, IdsAt
  <1>10. PathsUsed
    <2>1. <<>> \in UsedPath /\ TrashPath \in UsedPath
      BY <1>1, UsedNamed DEF UsedPath
    <2>. QED
      BY <1>2, <1>3, <1>4, <2>1 DEF PathsUsed
  <1>11. Solo /\ RequestsFit
    BY <1>2 DEF Solo, RequestsFit
  <1>. QED
    BY <1>1, <1>7, <1>9, <1>10, <1>11 DEF TreeInv

\* What users ask for stays as it is.
LEMMA AskedStays == [Next]_vars => asked' = asked
  <1>1. ASSUME NEW c \in Clients, Read(c) \/ Save(c) PROVE asked' = asked
    BY <1>1, Zenon DEF Read, Save, CreateFolder, Upload, Delete, MoveItem, MoveItemToTrash,
       EmptyTrash, ReadCreateFolder, ReadMove, Start, CreateFolderSave, UploadName,
       UploadSave, DeleteSave, MoveSave, EmptyTrashSave, Finish
  <1>. QED
    BY <1>1 DEF Next, vars

LEMMA NextTree == Known /\ TreeInv /\ [Next]_vars => TreeInv'
  <1>. SUFFICES ASSUME TreeInv, Known, [Next]_vars PROVE TreeInv'
    OBVIOUS
  <1>1. TypeOK'
    BY NextTyped DEF TreeInv
  <1>2. CASE UNCHANGED vars
    <2>1. /\ row' = row /\ req' = req /\ alone' = alone /\ asked' = asked
          /\ Live' = Live
      BY <1>2 DEF vars, Live
    <2>2. ASSUME NEW r PROVE (Fits(r)' <=> Fits(r)) /\ (Used(r)' <=> Used(r))
      BY <2>1, FitsKept
    <2>3. Rooted' /\ OneRowPerPath' /\ Solo'
      BY <2>1 DEF TreeInv, Rooted, OneRowPerPath, Solo, FolderAt, IdsAt
    <2>4. ASSUME NEW c \in Clients, req'[c] # None
          PROVE  Fits(req[c])' /\ (Tidy(asked) => Used(req[c])')
      <3>1. PICK r : r = req[c] /\ r = req'[c]
        BY <2>1
      <3>2. Fits(r) /\ (Tidy(asked) => Used(r))
        BY <2>4, <3>1 DEF TreeInv, RequestsFit, PathsUsed
      <3>. QED
        BY <2>2, <3>1, <3>2
    <2>5. RequestsFit' /\ PathsUsed'
      BY <2>1, <2>4 DEF TreeInv, RequestsFit, PathsUsed, UsedPath
    <2>. QED
      BY <1>1, <2>3, <2>5 DEF TreeInv
  <1>3. ASSUME NEW c \in Clients, Read(c) PROVE TreeInv'
    BY <1>1, <1>3, ReadTree
  <1>4. ASSUME NEW c \in Clients, Save(c) PROVE TreeInv'
    BY <1>1, <1>4, CreateFolderSaveTree, UploadNameTree, UploadSaveTree, DeleteSaveTree,
       MoveSaveTree, EmptyTrashSaveTree DEF Save
  <1>. QED
    BY <1>2, <1>3, <1>4 DEF Next

\* The invariant of the tree for the askings it is about.
KnownTree == Known => TreeInv

\* The invariant of the tree holds for the askings that are known to keep it.
LEMMA TreeInvariant == Spec => []KnownTree
  <1>1. Init => KnownTree
    BY InitTree DEF KnownTree
  <1>2. KnownTree /\ [Next]_vars => KnownTree'
    BY NextTree, AskedStays DEF KnownTree, Known
  <1>. QED
    BY <1>1, <1>2, PTL DEF Spec

\* A path has one row, whatever its casing, so that get_by_path finds it: when users
\* keep to one casing and only uploads and new folders overlap, which do not compete
\* for a path, whatever else is deleted or moved; or when requests come one by one
\* and nothing is moved, in any casing (save_batch and the unique index compare paths
\* as they are written, the checks before them do not).
THEOREM PathsHaveOneRow == Spec => [](Tidy(asked) \/ Calm(asked) => OneRowPerPath)
  <1>1. KnownTree => (Tidy(asked) \/ Calm(asked) => OneRowPerPath)
    BY DEF KnownTree, Known, TreeInv
  <1>. QED
    BY <1>1, TreeInvariant, PTL

\* With the same askings every row is in a folder that has a row: the folders that
\* create_folder found missing are saved with those above them, and delete, move and
\* empty_trash leave no row behind below what they take away.
THEOREM TreeStaysClosed == Spec => [](Tidy(asked) \/ Calm(asked) => TreeClosed)
  <1>1. KnownTree => (Tidy(asked) \/ Calm(asked) => TreeClosed)
    BY RootedCloses DEF KnownTree, Known, TreeInv
  <1>. QED
    BY <1>1, TreeInvariant, PTL

-----------------------------------------------------------------------------
(* Sizes                                                                   *)

\* The files below a path are finitely many.
LEMMA FilesFinite ==
  /\ IsFiniteSet(Live) /\ \A p : FilesBelow(p) \subseteq Live /\ IsFiniteSet(FilesBelow(p))
  /\ \A p : FilesBelow(p) = {k \in Live : Below(row[k].path, p) /\ row[k].kind = "file"}
  /\ \A p : Cardinality(FilesBelow(p)) \in Nat
  <1>1. IsFiniteSet(Ids) /\ Live \subseteq Ids
    BY TreeAssumption DEF Live
  <1>2. IsFiniteSet(Live)
    BY <1>1, FS_Subset
  <1>3. \A p : FilesBelow(p) \subseteq Live
    BY DEF FilesBelow, IdsBelow
  <1>4. \A p : FilesBelow(p) = {k \in Live : Below(row[k].path, p) /\ row[k].kind = "file"}
    BY DEF FilesBelow, IdsBelow
  <1>5. \A p : IsFiniteSet(FilesBelow(p))
    BY <1>2, <1>3, FS_Subset
  <1>. QED
    BY <1>2, <1>3, <1>4, <1>5, FS_CardinalityType

\* The files below row i after a step.
FilesNext(i) == {k \in Live' : Below(row'[k].path, row'[i].path) /\ row'[k].kind = "file"}

\* The sizes after a step, with the files that are below each row then.
LEMMA SizesNext ==
  ASSUME \A i \in Live' \ {HomeId, TrashId} : row'[i].kind = "file" => row'[i].size = 1,
         \A i \in Live' \ (IF emptied' THEN {HomeId, TrashId} ELSE {}) :
           row'[i].kind = "folder" => row'[i].size = Cardinality(FilesNext(i))
  PROVE  SizesFit'
  <1>1. ASSUME NEW i PROVE FilesBelow(row[i].path)' = FilesNext(i)
    BY DEF FilesBelow, IdsBelow, FilesNext
  <1>. QED
    BY <1>1 DEF SizesFit, SizeExact

LEMMA SizesStay ==
  ASSUME SizesFit, row' = row, emptied' = emptied
  PROVE  SizesFit'
  BY DEF SizesFit, SizeExact, FilesBelow, IdsBelow, Live

\* New folders are empty, and no file is in another folder than before.
LEMMA CreateFolderSaveSizes ==
  ASSUME TreeInv, Tidy(asked), SizesFit, NEW c \in Clients, CreateFolderSave(c)
  PROVE  SizesFit'
  <1>0. TypeOK /\ Rooted /\ req[c] # None /\ \A i \in Live : i \in Ids /\ row[i].path \in Path
    BY TypedRows DEF TreeInv, CreateFolderSave
  <1>1. PICK paths : paths = req[c].paths \ {row[i].path : i \in Live}
    OBVIOUS
  <1>2. /\ emptied' = emptied /\ Extended(row', paths, "folder", 0)
        /\ req[c].op = "create_folder" /\ paths \subseteq Path
    BY <1>0, <1>1, CreateFolderSaveRows
  <1>3. paths \subseteq UsedPath
    BY <1>0, <1>1, <1>2 DEF TreeInv, PathsUsed, Used
  <1>4. /\ Live \subseteq Live' /\ \A i \in Live : row'[i] = row[i]
        /\ \A i \in Live' \ Live :
             row'[i].path \in paths /\ row'[i].kind = "folder" /\ row'[i].size = 0
    BY <1>0, <1>2 DEF Extended, Live
  <1>5. ASSUME NEW i \in Live' PROVE FilesNext(i) = FilesBelow(row'[i].path)
    BY <1>4, FilesFinite DEF FilesNext
  <1>6. ASSUME NEW i \in Live' \ Live PROVE FilesBelow(row'[i].path) = {}
    <2>1. PICK q \in paths : q = row'[i].path
      BY <1>4
    <2>2. ASSUME NEW k \in FilesBelow(q) PROVE FALSE
      <3>1. k \in Live /\ Below(row[k].path, q) /\ q \in Path
        BY <1>2 DEF FilesBelow, IdsBelow
      <3>2. FolderAt(q)
        BY <1>0, <3>1, AboveRow
      <3>3. PICK j \in Live : Same(row[j].path, q)
        BY <3>2 DEF FolderAt, IdsAt
      <3>4. row[j].path \in UsedPath /\ q \in UsedPath
        BY <1>3 DEF TreeInv, PathsUsed
      <3>5. row[j].path = q
        BY <1>0, <3>3, <3>4, OneCased
      <3>. QED
        BY <1>1, <3>5
    <2>. QED
      BY <2>1, <2>2
  <1>7. \A i \in Live' \ {HomeId, TrashId} : row'[i].kind = "file" => row'[i].size = 1
    BY <1>4 DEF SizesFit
  <1>8. ASSUME NEW i \in Live' \ (IF emptied' THEN {HomeId, TrashId} ELSE {}), row'[i].kind = "folder"
        PROVE  row'[i].size = Cardinality(FilesNext(i))
    <2>1. CASE i \in Live
      BY <1>2, <1>4, <1>5, <1>8, <2>1 DEF SizesFit, SizeExact
    <2>2. CASE i \notin Live
      BY <1>4, <1>5, <1>6, <2>2, FS_EmptySet
    <2>. QED
      BY <2>1, <2>2
  <1>. QED
    BY <1>7, <1>8, SizesNext

\* create_file adds 1 to the folders that the file is below, and to no other.
LEMMA UploadSaveSizes ==
  ASSUME TreeInv, Tidy(asked), SizesFit, NEW c \in Clients, UploadSave(c)
  PROVE  SizesFit'
  <1>0. /\ TypeOK /\ req[c] # None /\ req[c].op = "create_file"
        /\ \A i \in Live : row[i].path \in Path
    BY TypedRows DEF TreeInv, UploadSave
  <1>1. PICK p : p = req[c].path
    OBVIOUS
  <1>2. /\ p \in Path \ {<<>>} /\ UNCHANGED <<alone, asked, emptied>>
        /\ \/ row' = row
           \/ \E new \in Ids \ Live :
                /\ Live' = Live \cup {new}
                /\ row'[new].path = p /\ row'[new].kind = "file" /\ row'[new].size = 1
                /\ \A i \in Live :
                     /\ row[i].path # p
                     /\ row'[i].path = row[i].path /\ row'[i].kind = row[i].kind
                     /\ row'[i].size = IF row[i].path \in Parents(p) THEN row[i].size + 1
                                                                     ELSE row[i].size
    BY <1>0, <1>1, UploadSaveRows
  <1>3. emptied' = emptied
    BY <1>2
  <1>4. CASE row' = row
    BY <1>3, <1>4, SizesStay
  <1>5. ASSUME NEW new \in Ids \ Live, Live' = Live \cup {new},
               row'[new].path = p, row'[new].kind = "file", row'[new].size = 1,
               \A i \in Live :
                 /\ row'[i].path = row[i].path /\ row'[i].kind = row[i].kind
                 /\ row'[i].size = IF row[i].path \in Parents(p) THEN row[i].size + 1
                                                                 ELSE row[i].size
        PROVE  SizesFit'
    <2>1. p \in UsedPath /\ \A i \in Live : row[i].path \in UsedPath
      BY <1>0, <1>1 DEF TreeInv, PathsUsed, Used
    <2>2. ASSUME NEW i \in Live PROVE Below(p, row[i].path) <=> row[i].path \in Parents(p)
      BY <1>0, <2>1, OneCased
    <2>3. ASSUME NEW i \in Live' \ {HomeId, TrashId}, row'[i].kind = "file" PROVE row'[i].size = 1
      <3>1. CASE i = new
        BY <1>5, <3>1
      <3>2. CASE i \in Live
        <4>1. row[i].kind = "file" /\ row[i].size = 1
          BY <1>5, <2>3, <3>2 DEF SizesFit
        <4>2. row[i].path \notin Parents(p)
          <5>1. ASSUME row[i].path \in Parents(p) PROVE FALSE
            <6>1. Below(p, row[i].path)
              BY <2>2, <3>2, <5>1
            <6>2. RelativeTo(Parent(p), row[i].path) /\ Parent(p) \in Path
              BY <1>0, <1>2, <3>2, <6>1, ParentsFacts DEF RelativeTo
            <6>3. FolderAt(Parent(p))
              BY <1>0, <1>1 DEF TreeInv, RequestsFit, Fits
            <6>4. FolderAt(row[i].path)
              BY <1>0, <3>2, <6>2, <6>3, AboveFolder DEF TreeInv
            <6>5. IdsAt(row[i].path) = {i}
              BY <3>2 DEF TreeInv, OneRowPerPath
            <6>. QED
              BY <4>1, <6>4, <6>5 DEF FolderAt
          <5>. QED
            BY <5>1
        <4>. QED
          BY <1>5, <3>2, <4>1, <4>2
      <3>. QED
        BY <1>5, <3>1, <3>2
    <2>4. ASSUME NEW i \in Live' \ (IF emptied' THEN {HomeId, TrashId} ELSE {}),
                 row'[i].kind = "folder"
          PROVE  row'[i].size = Cardinality(FilesNext(i))
      <3>1. i \in Live /\ row[i].kind = "folder" /\ row'[i].path = row[i].path
        BY <1>5, <2>4
      <3>2. PICK F : F = FilesBelow(row[i].path)
        OBVIOUS
      <3>3. row[i].size = Cardinality(F) /\ IsFiniteSet(F) /\ new \notin F /\ Cardinality(F) \in Nat
        BY <1>3, <2>4, <3>1, <3>2, FilesFinite DEF SizesFit, SizeExact
      <3>4. F = {k \in Live : Below(row[k].path, row[i].path) /\ row[k].kind = "file"}
        BY <3>2, FilesFinite
      <3>5. CASE Below(p, row[i].path)
        <4>1. FilesNext(i) = F \cup {new}
          BY <1>5, <3>1, <3>4, <3>5 DEF FilesNext
        <4>2. Cardinality(F \cup {new}) = Cardinality(F) + 1
          BY <3>3, FS_AddElement
        <4>. QED
          BY <1>5, <2>2, <3>1, <3>3, <3>5, <4>1, <4>2
      <3>6. CASE ~Below(p, row[i].path)
        <4>1. FilesNext(i) = F
          BY <1>5, <3>1, <3>4, <3>6 DEF FilesNext
        <4>. QED
          BY <1>5, <2>2, <3>1, <3>3, <3>6, <4>1
      <3>. QED
        BY <3>5, <3>6
    <2>. QED
      BY <2>3, <2>4, SizesNext
  <1>. QED
    BY <1>2, <1>4, <1>5

\* The files that go with a row: there are as many as its size says, they are below
\* what the row is below, and, seen from a row that stays, below nothing else.
LEMMA LostFiles ==
  ASSUME TreeInv, SizesFit, NEW id \in Live \ {HomeId, TrashId}, NEW at, at = row[id].path,
         NEW gone, gone = Gone(id, row[id]),
         NEW lost, lost = {k \in gone : row[k].kind = "file"}
  PROVE  /\ gone \subseteq Live /\ IsFiniteSet(lost) /\ Cardinality(lost) = row[id].size
         /\ \A k \in gone : RelativeTo(row[k].path, at)
         /\ \A i \in Live \ gone : \A k \in lost :
              Below(row[k].path, row[i].path) <=> Below(at, row[i].path)
  <1>0. /\ TypeOK /\ Rooted /\ OneRowPerPath
        /\ \A i \in Live : row[i] \in Row /\ row[i].path \in Path
    BY TypedRows DEF TreeInv
  <1>1. gone \subseteq Live /\ at \in Path
    BY <1>0 DEF Gone, IdsBelow
  <1>2. IsFiniteSet(lost) /\ Cardinality(lost) = row[id].size
    <2>1. row[id].kind \in {"file", "folder"}
      BY <1>0 DEF Row
    <2>2. CASE row[id].kind = "file"
      <3>1. lost = {id}
        BY <2>2 DEF Gone
      <3>2. row[id].size = 1
        BY <2>2 DEF SizesFit
      <3>3. IsFiniteSet({id}) /\ Cardinality({id}) = 1
        BY FS_Singleton
      <3>. QED
        BY <3>1, <3>2, <3>3
    <2>3. CASE row[id].kind = "folder"
      <3>1. lost = FilesBelow(at)
        BY <2>3 DEF Gone, FilesBelow
      <3>2. row[id].size = Cardinality(FilesBelow(at))
        BY <2>3 DEF SizesFit, SizeExact
      <3>. QED
        BY <3>1, <3>2, FilesFinite
    <2>. QED
      BY <2>1, <2>2, <2>3
  <1>3. \A k \in gone : RelativeTo(row[k].path, at)
    BY <1>1, SameFacts DEF Gone, IdsBelow, RelativeTo
  <1>4. ASSUME NEW i \in Live \ gone, NEW k \in lost
        PROVE  Below(row[k].path, row[i].path) <=> Below(at, row[i].path)
    <2>0. k \in gone /\ k \in Live /\ row[k].path \in Path /\ row[i].path \in Path
      BY <1>0, <1>1
    <2>1. ASSUME Below(at, row[i].path) PROVE Below(row[k].path, row[i].path)
      BY <1>1, <1>3, <2>0, <2>1, RelativeFacts
    <2>2. ASSUME Below(row[k].path, row[i].path) PROVE Below(at, row[i].path)
      <3>1. CASE k = id
        BY <2>2, <3>1
      <3>2. CASE k # id
        <4>1. row[id].kind = "folder" /\ Below(row[k].path, at)
          BY <2>0, <3>2 DEF Gone, IdsBelow
        <4>2. ~Below(row[i].path, at)
          BY <4>1 DEF Gone, IdsBelow
        <4>3. ~Same(row[i].path, at)
          BY <1>0, SamePathOneRow DEF Gone
        <4>. QED
          BY <1>1, <2>0, <2>2, <4>1, <4>2, <4>3, BelowFacts
      <3>. QED
        BY <3>1, <3>2
    <2>. QED
      BY <2>1, <2>2
  <1>. QED
    BY <1>1, <1>2, <1>3, <1>4

\* delete takes the size of the row off the folders that it was below.
LEMMA DeleteSaveSizes ==
  ASSUME TreeInv, Tidy(asked), SizesFit, NEW c \in Clients, DeleteSave(c)
  PROVE  SizesFit'
  <1>0. /\ TypeOK /\ req[c] # None /\ req[c].op = "delete"
        /\ \A i \in Live : row[i] \in Row /\ row[i].path \in Path
    BY TypedRows DEF TreeInv, DeleteSave
  <1>1. PICK id : id = req[c].id
    OBVIOUS
  <1>2. id \in Live /\ req[c].row = row[id]
    BY <1>0, <1>1 DEF TreeInv, RequestsFit, Fits
  <1>3. PICK r : r = row[id]
    OBVIOUS
  <1>4. PICK gone : gone = Gone(id, r)
    OBVIOUS
  <1>5. /\ id \in Ids \ {HomeId, TrashId} /\ UNCHANGED <<alone, asked, emptied>>
        /\ Live' = Live \ gone
        /\ \A i \in Live \ gone :
             /\ row'[i].path = row[i].path /\ row'[i].kind = row[i].kind
             /\ row'[i].size = IF row[i].path \in Parents(r.path) THEN row[i].size - r.size
                                                                  ELSE row[i].size
    BY <1>0, <1>1, <1>2, <1>3, <1>4, DeleteSaveRows
  <1>6. PICK at : at = r.path
    OBVIOUS
  <1>7. PICK lost : lost = {k \in gone : row[k].kind = "file"}
    OBVIOUS
  <1>8. /\ gone \subseteq Live /\ IsFiniteSet(lost) /\ Cardinality(lost) = r.size
        /\ \A i \in Live \ gone : \A k \in lost :
             Below(row[k].path, row[i].path) <=> Below(at, row[i].path)
    BY <1>2, <1>3, <1>4, <1>5, <1>6, <1>7, LostFiles
  <1>9. ASSUME NEW i \in Live PROVE Below(at, row[i].path) <=> row[i].path \in Parents(at)
    <2>1. at \in UsedPath /\ row[i].path \in UsedPath
      BY <1>2, <1>3, <1>6 DEF TreeInv, PathsUsed
    <2>. QED
      BY <1>0, <2>1, OneCased
  <1>10. ASSUME NEW i \in Live' \ {HomeId, TrashId}, row'[i].kind = "file" PROVE row'[i].size = 1
    <2>1. i \in Live \ gone /\ row[i].kind = "file" /\ row[i].size = 1
      BY <1>5, <1>10 DEF SizesFit
    <2>2. row[i].path \notin Parents(at)
      <3>1. ASSUME Below(at, row[i].path) PROVE FALSE
        <4>1. FolderAt(row[i].path)
          BY <1>0, <1>2, <1>3, <1>6, <2>1, <3>1, AboveRow DEF TreeInv
        <4>2. IdsAt(row[i].path) = {i}
          BY <2>1 DEF TreeInv, OneRowPerPath
        <4>. QED
          BY <2>1, <4>1, <4>2 DEF FolderAt
      <3>. QED
        BY <1>9, <2>1, <3>1
    <2>. QED
      BY <1>5, <1>6, <2>1, <2>2
  <1>11. ASSUME NEW i \in Live' \ (IF emptied' THEN {HomeId, TrashId} ELSE {}),
                row'[i].kind = "folder"
         PROVE  row'[i].size = Cardinality(FilesNext(i))
    <2>1. i \in Live \ gone /\ row[i].kind = "folder" /\ row'[i].path = row[i].path /\ emptied' = emptied
      BY <1>5, <1>11
    <2>2. PICK F : F = FilesBelow(row[i].path)
      OBVIOUS
    <2>3. row[i].size = Cardinality(F) /\ IsFiniteSet(F) /\ Cardinality(F) \in Nat
      BY <1>11, <2>1, <2>2, FilesFinite DEF SizesFit, SizeExact
    <2>4. F = {k \in Live : Below(row[k].path, row[i].path) /\ row[k].kind = "file"}
      BY <2>2, FilesFinite
    <2>5. FilesNext(i) = F \ lost
      BY <1>5, <1>7, <2>1, <2>4 DEF FilesNext
    <2>6. Cardinality(F \ lost) = Cardinality(F) - Cardinality(F \cap lost)
      BY <2>3, FS_Difference
    <2>7. CASE Below(at, row[i].path)
      <3>1. F \cap lost = lost
        BY <1>7, <1>8, <2>1, <2>4, <2>7
      <3>2. row[i].path \in Parents(r.path)
        BY <1>6, <1>9, <2>1, <2>7
      <3>. QED
        BY <1>5, <1>8, <2>1, <2>3, <2>5, <2>6, <3>1, <3>2
    <2>8. CASE ~Below(at, row[i].path)
      <3>1. F \cap lost = {}
        BY <1>7, <1>8, <2>1, <2>4, <2>8
      <3>2. F \ lost = F
        BY <3>1
      <3>3. row[i].path \notin Parents(r.path)
        BY <1>6, <1>9, <2>1, <2>8
      <3>. QED
        BY <1>5, <2>1, <2>3, <2>5, <3>2, <3>3
    <2>. QED
      BY <2>7, <2>8
  <1>. QED
    BY <1>10, <1>11, SizesNext

\* empty_folder leaves the folders outside of Trash with what they have.
LEMMA EmptyTrashSaveSizes ==
  ASSUME TreeInv, SizesFit, NEW c \in Clients, EmptyTrashSave(c)
  PROVE  SizesFit'
  <1>0. /\ TypeOK /\ \A i \in Live : row[i] \in Row /\ row[i].path \in Path
        /\ TrashPath \in Path /\ Len(TrashPath) = 1
    BY TypedRows DEF TreeInv
  <1>1. PICK gone : gone = IdsBelow(TrashPath)
    OBVIOUS
  <1>2. /\ emptied' = TRUE /\ Live' = Live \ gone
        /\ \A i \in Live \ gone :
             /\ row'[i].path = row[i].path /\ row'[i].kind = row[i].kind
             /\ row[i].path \notin {<<>>, <<Fold[TrashName]>>} => row'[i].size = row[i].size
    BY <1>0, <1>1, EmptyTrashSaveRows
  <1>3. ASSUME NEW i \in Live, Same(row[i].path, TrashPath) PROVE i = TrashId
    <2>1. TrashId \in Live /\ row[TrashId].path = TrashPath
      BY <1>0 DEF TypeOK
    <2>. QED
      BY <1>0, <1>3, <2>1, SamePathOneRow DEF TreeInv
  <1>4. ASSUME NEW i \in Live \ {HomeId, TrashId} PROVE row[i].path \notin {<<>>, <<Fold[TrashName]>>}
    <2>1. row[i].path # <<>>
      BY <1>0 DEF TypeOK
    <2>2. ASSUME row[i].path = <<Fold[TrashName]>> PROVE FALSE
      <3>1. Fold[TrashName] \in Names /\ Fold[Fold[TrashName]] = Fold[TrashName]
        BY TreeAssumption
      <3>0. <<Fold[TrashName]>> \in Path
        BY <3>1 DEF Path
      <3>2. PICK q \in Path : q = <<Fold[TrashName]>>
        BY <3>0
      <3>3. Len(q) = 1 /\ q[1] = Fold[TrashName] /\ TrashPath[1] = TrashName
        BY <3>2 DEF TrashPath
      <3>4. \A k \in 1..1 : k = 1
        OBVIOUS
      <3>5. Same(q, TrashPath)
        BY <1>0, <3>1, <3>3, <3>4, SameIs
      <3>. QED
        BY <1>3, <2>2, <3>2, <3>5
    <2>. QED
      BY <2>1, <2>2
  <1>5. ASSUME NEW i \in Live' \ {HomeId, TrashId}, row'[i].kind = "file" PROVE row'[i].size = 1
    <2>1. i \in Live \ gone /\ row[i].kind = "file" /\ row[i].size = 1
      BY <1>2, <1>5 DEF SizesFit
    <2>. QED
      BY <1>2, <1>4, <1>5, <2>1
  <1>6. ASSUME NEW i \in Live' \ (IF emptied' THEN {HomeId, TrashId} ELSE {}),
               row'[i].kind = "folder"
        PROVE  row'[i].size = Cardinality(FilesNext(i))
    <2>1. /\ i \in Live \ gone /\ i \notin {HomeId, TrashId} /\ row[i].kind = "folder"
          /\ row'[i].path = row[i].path /\ row'[i].size = row[i].size
      BY <1>2, <1>4, <1>6
    <2>2. row[i].size = Cardinality(FilesBelow(row[i].path))
      BY <2>1 DEF SizesFit, SizeExact
    <2>3. ASSUME NEW k \in gone, Below(row[k].path, row[i].path) PROVE FALSE
      <3>1. k \in Live /\ Below(row[k].path, TrashPath) /\ row[k].path \in Path /\ row[i].path \in Path
        BY <1>0, <1>1, <2>1 DEF IdsBelow
      <3>2. ~Below(row[i].path, TrashPath)
        BY <1>1, <2>1 DEF IdsBelow
      <3>3. ~Same(row[i].path, TrashPath)
        BY <1>3, <2>1
      <3>4. Below(TrashPath, row[i].path)
        BY <1>0, <2>3, <3>1, <3>2, <3>3, BelowFacts
      <3>5. Len(row[i].path) = 0
        BY <1>0, <3>1, <3>4, BelowIs DEF Path
      <3>6. row[i].path # <<>>
        BY <1>0, <2>1 DEF TypeOK
      <3>. QED
        BY <3>1, <3>5, <3>6, EmptySeq DEF Path
    <2>4. FilesNext(i) = FilesBelow(row[i].path)
      BY <1>2, <2>1, <2>3, FilesFinite DEF FilesNext
    <2>. QED
      BY <2>1, <2>2, <2>4
  <1>. QED
    BY <1>5, <1>6, SizesNext

\* The parents that a move takes a size off, and those it adds it to.
LEMMA LeftFacts ==
  ASSUME TypeOK, Tidy(asked), NEW at \in UsedPath, NEW to \in UsedPath, NEW x \in UsedPath
  PROVE  x \in Without(Parents(at), Parents(to)) <=> Below(at, x) /\ ~Below(to, x)
  <1>1. x \in Path /\ at \in Path /\ to \in Path
    BY UsedNamed
  <1>2. Below(at, x) <=> x \in Parents(at)
    BY OneCased
  <1>3. Below(to, x) <=> \E q \in Parents(to) : Same(x, q)
    <2>1. ASSUME NEW q \in Parents(to), Same(x, q) PROVE Below(to, x)
      <3>1. q \in Path /\ Below(to, q)
        BY <1>1, ParentsFacts
      <3>. QED
        BY <1>1, <2>1, <3>1, BelowSame, SameFacts
    <2>2. ASSUME Below(to, x) PROVE \E q \in Parents(to) : Same(x, q)
      <3>1. x \in Parents(to)
        BY <2>2, OneCased
      <3>. QED
        BY <1>1, <3>1, SameFacts
    <2>. QED
      BY <2>1, <2>2
  <1>. QED
    BY <1>2, <1>3 DEF Without

\* _move takes the size off the folders that the row leaves and adds it to those that
\* it enters; for a folder above both places nothing changes.
LEMMA MoveSaveSizes ==
  ASSUME TreeInv, Tidy(asked), SizesFit, NEW c \in Clients, MoveSave(c)
  PROVE  SizesFit'
  <1>0. /\ TypeOK /\ Rooted /\ OneRowPerPath /\ req[c] # None
        /\ \A i \in Live : /\ row[i] \in Row /\ row[i].path \in Path /\ row[i].path \in UsedPath
                           /\ row[i].size \in Int
    <2>1. \A i \in Live : row[i] \in Row /\ row[i].path \in Path
      BY TypedRows DEF TreeInv
    <2>2. \A i \in Live : row[i].size \in Int
      BY <2>1 DEF Row
    <2>. QED
      BY <2>1, <2>2 DEF TreeInv, PathsUsed, MoveSave
  <1>1. PICK r : r = req[c]
    OBVIOUS
  <1>2. PICK at : at = r.row.path
    OBVIOUS
  <1>3. PICK to : to = r.to
    OBVIOUS
  <1>4. PICK left : left = Without(Parents(at), Parents(to))
    OBVIOUS
  <1>5. PICK entered : entered = Without(Parents(to), Parents(at))
    OBVIOUS
  <1>6. /\ r \in Request /\ r.op = "move" /\ UNCHANGED <<alone, asked, emptied>>
        /\ \/ row' = row
           \/ /\ Live' = Live
              /\ \A i \in Live :
                   /\ row'[i].path = MovedPath(r, i) /\ row'[i].kind = row[i].kind
                   /\ row'[i].size =
                        LET less == IF MovedPath(r, i) \in left THEN row[i].size - r.row.size
                                                                ELSE row[i].size
                        IN  IF MovedPath(r, i) \in entered THEN less + r.row.size ELSE less
    BY <1>0, <1>1, <1>2, <1>3, <1>4, <1>5, MoveSaveRows
  <1>7. Fits(r) /\ Used(r) /\ emptied' = emptied
    BY <1>0, <1>1, <1>6 DEF TreeInv, RequestsFit, PathsUsed
  <1>8. /\ r.id \in Live /\ row[r.id].path = at /\ r.row = row[r.id]
        /\ at \in UsedPath /\ at \in Path /\ to \in UsedPath /\ to \in Path
        /\ \A i \in Live : ~RelativeTo(row[i].path, to)
        /\ MovedPath(r, r.id) = to
        /\ r.id \notin IdsBelow(at)
        /\ \A i \in IdsBelow(at) : /\ r.row.kind = "folder" /\ i \in Live
                                   /\ MovedPath(r, i) = Rebased(row[i].path, at, to)
        /\ \A i \in Live : i # r.id /\ i \notin IdsBelow(at) => MovedPath(r, i) = row[i].path
        /\ \A i \in Live : MovedPath(r, i) \in UsedPath
    BY <1>2, <1>3, <1>6, <1>7, MovedFacts
  <1>9. PICK id : id = r.id
    OBVIOUS
  <1>10. PICK size : size = row[id].size
    OBVIOUS
  <1>11. PICK gone : gone = Gone(id, row[id])
    OBVIOUS
  <1>12. PICK lost : lost = {k \in gone : row[k].kind = "file"}
    OBVIOUS
  <1>13. id \in Live \ {HomeId, TrashId}
    BY <1>6, <1>8, <1>9, RequestFields
  <1>14. /\ gone \subseteq Live /\ IsFiniteSet(lost) /\ Cardinality(lost) = size
         /\ \A k \in gone : RelativeTo(row[k].path, at)
         /\ \A i \in Live \ gone : \A k \in lost :
              Below(row[k].path, row[i].path) <=> Below(at, row[i].path)
    BY <1>8, <1>9, <1>10, <1>11, <1>12, <1>13, LostFiles
  <1>15. \A i : i \in gone <=> i = id \/ i \in IdsBelow(at)
    BY <1>8, <1>9, <1>11 DEF Gone
  <1>16. CASE row' = row
    BY <1>7, <1>16, SizesStay
  <1>17. ASSUME Live' = Live,
                \A i \in Live :
                  /\ row'[i].path = MovedPath(r, i) /\ row'[i].kind = row[i].kind
                  /\ row'[i].size =
                       LET less == IF MovedPath(r, i) \in left THEN row[i].size - r.row.size
                                                               ELSE row[i].size
                       IN  IF MovedPath(r, i) \in entered THEN less + r.row.size ELSE less
         PROVE  SizesFit'
    <2>1. ASSUME NEW i \in Live
          PROVE  /\ row'[i].path \in Path /\ row'[i].kind = row[i].kind
                 /\ row'[i].path \in left /\ row'[i].path \notin entered =>
                      row'[i].size = row[i].size - size
                 /\ row'[i].path \notin left /\ row'[i].path \in entered =>
                      row'[i].size = row[i].size + size
                 /\ row'[i].path \notin left /\ row'[i].path \notin entered =>
                      row'[i].size = row[i].size
      BY <1>0, <1>8, <1>9, <1>10, <1>17, UsedNamed
    <2>2. ASSUME NEW i \in gone PROVE RelativeTo(row'[i].path, to) /\ i \in Live
      <3>1. CASE i = id
        BY <1>8, <1>9, <1>17, <3>1, SameFacts DEF RelativeTo
      <3>2. CASE i \in IdsBelow(at)
        <4>1. i \in Live /\ Below(row[i].path, at)
          BY <3>2 DEF IdsBelow
        <4>2. row'[i].path = Rebased(row[i].path, at, to)
          BY <1>8, <1>17, <3>2, <4>1
        <4>3. Below(row'[i].path, to)
          BY <1>0, <1>8, <4>1, <4>2, RebasedOrder
        <4>. QED
          BY <4>1, <4>3 DEF RelativeTo
      <3>. QED
        BY <1>15, <3>1, <3>2
    <2>3. ASSUME NEW i \in gone PROVE row'[i].path \notin left /\ row'[i].path \notin entered
      <3>1. PICK x \in Path : x = row'[i].path
        BY <2>1, <2>2
      <3>2. RelativeTo(x, to)
        BY <2>2, <3>1
      <3>3. ~Below(at, x)
        BY <1>8, <3>2, RelativeFacts DEF RelativeTo
      <3>4. ~Below(to, x)
        BY <1>8, <3>2, RelativeFacts, BelowFacts, SameFacts
      <3>5. x \notin Parents(at) /\ x \notin Parents(to)
        BY <1>8, <3>3, <3>4, ParentsFacts
      <3>. QED
        BY <1>4, <1>5, <3>1, <3>5 DEF Without
    <2>4. ASSUME NEW i \in Live \ gone
          PROVE  /\ row'[i].path = row[i].path
                 /\ row[i].path \in left <=> Below(at, row[i].path) /\ ~Below(to, row[i].path)
                 /\ row[i].path \in entered <=> Below(to, row[i].path) /\ ~Below(at, row[i].path)
      <3>1. row'[i].path = row[i].path
        BY <1>8, <1>9, <1>15, <1>17
      <3>2. row[i].path \in UsedPath
        BY <1>0
      <3>. QED
        BY <1>0, <1>4, <1>5, <1>8, <3>1, <3>2, LeftFacts
    <2>5. ASSUME NEW i \in Live \ gone, NEW k \in lost
          PROVE  Below(row'[k].path, row[i].path) <=> Below(to, row[i].path)
      <3>1. k \in gone
        BY <1>12
      <3>2. PICK p \in Path : p = row'[k].path /\ RelativeTo(p, to)
        BY <2>1, <2>2, <3>1
      <3>3. PICK x \in Path : x = row[i].path
        BY <1>0
      <3>4. ~RelativeTo(x, to)
        BY <1>8, <3>3
      <3>5. Below(to, x) => Below(p, x)
        BY <1>8, <3>2, RelativeFacts
      <3>6. ASSUME Below(p, x) PROVE Below(to, x)
        <4>1. CASE Same(p, to)
          BY <1>8, <3>6, <4>1, BelowSame, SameFacts
        <4>2. CASE Below(p, to)
          <5>1. Same(x, to) \/ Below(x, to) \/ Below(to, x)
            BY <1>8, <3>6, <4>2, BelowFacts
          <5>. QED
            BY <3>4, <5>1 DEF RelativeTo
        <4>. QED
          BY <3>2, <4>1, <4>2 DEF RelativeTo
      <3>. QED
        BY <3>2, <3>3, <3>5, <3>6
    <2>6. ASSUME NEW i \in gone, row[i].kind = "folder", NEW k \in Live, row[k].kind = "file"
          PROVE  Below(row'[k].path, row'[i].path) <=> Below(row[k].path, row[i].path)
      <3>1. CASE k \notin gone
        <4>1. PICK p \in Path : p = row[k].path /\ p = row'[k].path
          BY <1>0, <2>4, <3>1
        <4>2. PICK x \in Path : x = row'[i].path
          BY <2>1, <2>2
        <4>3. PICK y \in Path : y = row[i].path
          BY <1>0, <2>2
        <4>4. RelativeTo(x, to) /\ RelativeTo(y, at) /\ ~RelativeTo(p, to)
          BY <1>8, <1>14, <2>2, <4>1, <4>2, <4>3
        <4>5. ~Below(p, at)
          BY <1>15, <3>1, <4>1 DEF IdsBelow
        <4>6. ~Below(p, x)
          BY <1>8, <4>4, RelativeFacts DEF RelativeTo
        <4>7. ~Below(p, y)
          BY <1>8, <4>4, <4>5, RelativeFacts
        <4>. QED
          BY <4>1, <4>2, <4>3, <4>6, <4>7
      <3>2. CASE k \in gone
        <4>1. k # id
          BY <1>8, <1>9, <1>15, <2>6
        <4>2. k \in IdsBelow(at) /\ Below(row[k].path, at)
          BY <1>15, <3>2, <4>1 DEF IdsBelow
        <4>3. row'[k].path = Rebased(row[k].path, at, to)
          BY <1>8, <1>17, <4>2
        <4>4. CASE i = id
          <5>1. row[i].path = at /\ row'[i].path = to
            BY <1>8, <1>9, <1>17, <4>4
          <5>2. Below(row'[k].path, to)
            BY <1>0, <1>8, <4>2, <4>3, RebasedOrder
          <5>. QED
            BY <4>2, <5>1, <5>2
        <4>5. CASE i \in IdsBelow(at)
          <5>1. i \in Live /\ Below(row[i].path, at)
            BY <4>5 DEF IdsBelow
          <5>2. row'[i].path = Rebased(row[i].path, at, to)
            BY <1>8, <1>17, <4>5, <5>1
          <5>. QED
            BY <1>0, <1>8, <4>2, <4>3, <5>1, <5>2, RebasedOrder
        <4>. QED
          BY <1>15, <4>4, <4>5
      <3>. QED
        BY <3>1, <3>2
    <2>7. ASSUME NEW i \in Live' \ {HomeId, TrashId}, row'[i].kind = "file" PROVE row'[i].size = 1
      <3>1. i \in Live /\ row[i].kind = "file" /\ row[i].size = 1
        BY <1>17, <2>1, <2>7 DEF SizesFit
      <3>2. CASE i \in gone
        BY <2>1, <2>3, <3>1, <3>2
      <3>3. CASE i \notin gone
        <4>1. ~FolderAt(row[i].path)
          <5>1. IdsAt(row[i].path) = {i}
            BY <1>0, <3>1 DEF OneRowPerPath
          <5>. QED
            BY <3>1, <5>1 DEF FolderAt
        <4>2. ~Below(at, row[i].path)
          BY <1>0, <1>8, <3>1, <4>1, AboveRow
        <4>3. ~Below(to, row[i].path)
          <5>1. to # <<>> /\ FolderAt(Parent(to))
            BY <1>3, <1>6, <1>7, RequestFields DEF Fits
          <5>2. Parent(to) \in Path
            BY <1>8, <5>1, ParentsFacts
          <5>3. ASSUME Below(to, row[i].path) PROVE FALSE
            <6>1. RelativeTo(Parent(to), row[i].path)
              BY <1>0, <1>8, <3>1, <5>1, <5>3, ParentsFacts DEF RelativeTo
            <6>. QED
              BY <1>0, <3>1, <4>1, <5>1, <5>2, <6>1, AboveFolder
          <5>. QED
            BY <5>3
        <4>. QED
          BY <2>1, <2>4, <3>1, <3>3, <4>2, <4>3
      <3>. QED
        BY <3>2, <3>3
    <2>8. ASSUME NEW i \in Live' \ (IF emptied' THEN {HomeId, TrashId} ELSE {}),
                 row'[i].kind = "folder"
          PROVE  row'[i].size = Cardinality(FilesNext(i))
      <3>1. i \in Live /\ row[i].kind = "folder"
        BY <1>17, <2>1, <2>8
      <3>2. PICK F : F = FilesBelow(row[i].path)
        OBVIOUS
      <3>3. row[i].size = Cardinality(F) /\ IsFiniteSet(F) /\ Cardinality(F) \in Nat
        BY <1>7, <2>8, <3>1, <3>2, FilesFinite DEF SizesFit, SizeExact
      <3>4. F = {k \in Live : Below(row[k].path, row[i].path) /\ row[k].kind = "file"}
        BY <3>2, FilesFinite
      <3>5. FilesNext(i) = {k \in Live : Below(row'[k].path, row'[i].path) /\ row[k].kind = "file"}
        BY <1>17 DEF FilesNext
      <3>6. CASE i \in gone
        <4>1. FilesNext(i) = F
          BY <2>6, <3>1, <3>4, <3>5, <3>6
        <4>. QED
          BY <2>1, <2>3, <3>1, <3>3, <3>6, <4>1
      <3>7. CASE i \notin gone
        <4>1. \A k \in Live \ gone : row'[k].path = row[k].path
          BY <2>4
        <4>2. row'[i].path = row[i].path
          BY <3>1, <3>7, <4>1
        <4>3. lost \subseteq Live /\ \A k \in Live : row[k].kind = "file" => (k \in lost <=> k \in gone)
          BY <1>12, <1>14
        <4>4. \A k \in lost : /\ row[k].kind = "file"
                              /\ Below(row'[k].path, row[i].path) <=> Below(to, row[i].path)
                              /\ Below(row[k].path, row[i].path) <=> Below(at, row[i].path)
          BY <1>12, <1>14, <2>5, <3>1, <3>7
        <4>5. CASE Below(at, row[i].path) /\ Below(to, row[i].path)
          <5>1. FilesNext(i) = F
            BY <3>4, <3>5, <4>1, <4>2, <4>3, <4>4, <4>5
          <5>. QED
            BY <2>1, <2>4, <3>1, <3>3, <3>7, <4>2, <4>5, <5>1
        <4>6. CASE Below(at, row[i].path) /\ ~Below(to, row[i].path)
          <5>1. FilesNext(i) = F \ lost /\ F \cap lost = lost
            BY <3>4, <3>5, <4>1, <4>2, <4>3, <4>4, <4>6
          <5>2. Cardinality(F \ lost) = Cardinality(F) - Cardinality(F \cap lost)
            BY <3>3, FS_Difference
          <5>3. row'[i].size = row[i].size - size
            BY <2>1, <2>4, <3>1, <3>7, <4>2, <4>6
          <5>. QED
            BY <1>14, <3>3, <5>1, <5>2, <5>3
        <4>7. CASE ~Below(at, row[i].path) /\ Below(to, row[i].path)
          <5>1. FilesNext(i) = F \cup lost /\ F \cap lost = {}
            BY <3>4, <3>5, <4>1, <4>2, <4>3, <4>4, <4>7
          <5>2. /\ Cardinality(F \cup lost) =
                     Cardinality(F) + Cardinality(lost) - Cardinality(F \cap lost)
                /\ Cardinality({}) = 0
            BY <1>14, <3>3, FS_Union, FS_EmptySet
          <5>3. row'[i].size = row[i].size + size /\ size \in Int
            BY <1>0, <1>10, <1>13, <2>1, <2>4, <3>1, <3>7, <4>2, <4>7
          <5>4. Cardinality(F \cap lost) = 0
            BY <5>1, <5>2
          <5>5. Cardinality(F \cup lost) = row[i].size + size
            BY <1>14, <3>3, <5>2, <5>3, <5>4
          <5>. QED
            BY <5>1, <5>3, <5>5
        <4>8. CASE ~Below(at, row[i].path) /\ ~Below(to, row[i].path)
          <5>1. FilesNext(i) = F
            BY <3>4, <3>5, <4>1, <4>2, <4>3, <4>4, <4>8
          <5>. QED
            BY <2>1, <2>4, <3>1, <3>3, <3>7, <4>2, <4>8, <5>1
        <4>. QED
          BY <4>5, <4>6, <4>7, <4>8
      <3>. QED
        BY <3>6, <3>7
    <2>. QED
      BY <2>7, <2>8, SizesNext
  <1>. QED
    BY <1>6, <1>16, <1>17

LEMMA NextSizes == Tidy(asked) /\ TreeInv /\ SizesFit /\ [Next]_vars => SizesFit'
  <1>. SUFFICES ASSUME Tidy(asked), TreeInv, SizesFit, [Next]_vars PROVE SizesFit'
    OBVIOUS
  <1>1. CASE UNCHANGED vars
    <2>1. row' = row /\ emptied' = emptied
      BY <1>1 DEF vars
    <2>. QED
      BY <2>1, SizesStay
  <1>2. ASSUME NEW c \in Clients, Read(c) PROVE SizesFit'
    <2>1. row' = row /\ emptied' = emptied
      BY <1>2, Zenon DEF Read, CreateFolder, Upload, Delete, MoveItem, MoveItemToTrash, EmptyTrash,
         ReadCreateFolder, ReadMove, Start
    <2>. QED
      BY <2>1, SizesStay
  <1>3. ASSUME NEW c \in Clients, UploadName(c) PROVE SizesFit'
    <2>1. row' = row /\ emptied' = emptied
      BY <1>3 DEF UploadName, Start
    <2>. QED
      BY <2>1, SizesStay
  <1>4. ASSUME NEW c \in Clients, Save(c) PROVE SizesFit'
    BY <1>3, <1>4, CreateFolderSaveSizes, UploadSaveSizes, DeleteSaveSizes, MoveSaveSizes,
       EmptyTrashSaveSizes DEF Save
  <1>. QED
    BY <1>1, <1>2, <1>4 DEF Next

LEMMA InitSizes == Init => SizesFit
  <1>. SUFFICES ASSUME Init PROVE SizesFit
    OBVIOUS
  <1>1. TypeOK
    BY InitTyped
  <1>2. Live = {HomeId, TrashId}
    BY <1>1, TreeAssumption DEF Init, Live, TypeOK
  <1>3. \A i \in Live : row[i].kind = "folder" /\ row[i].size = 0
    BY <1>2, TreeAssumption DEF Init
  <1>4. \A p : FilesBelow(p) = {}
    BY <1>3 DEF FilesBelow, IdsBelow
  <1>. QED
    BY <1>2, <1>3, <1>4, FS_EmptySet DEF SizesFit, SizeExact

-----------------------------------------------------------------------------
(* The quota                                                               *)

\* At most as many uploads are under way as there are clients.
LEMMA UploadingFinite ==
  /\ IsFiniteSet(Uploading) /\ Cardinality(Uploading) \in Nat
  /\ Cardinality(Uploading) <= Cardinality(Clients) /\ Cardinality(Clients) \in Nat \ {0}
  <1>1. IsFiniteSet(Clients) /\ Clients # {} /\ Uploading \in SUBSET Clients
    BY TreeAssumption DEF Uploading
  <1>2. IsFiniteSet(Uploading) /\ Cardinality(Uploading) <= Cardinality(Clients)
    BY <1>1, FS_Subset
  <1>3. Cardinality(Clients) \in Nat /\ Cardinality(Clients) # 0 /\ Cardinality(Uploading) \in Nat
    BY <1>1, <1>2, FS_CardinalityType, FS_EmptySet
  <1>. QED
    BY <1>2, <1>3

Files == {i \in Live : row[i].kind = "file"}

\* The files are finitely many.
LEMMA FileCount ==
  IsFiniteSet(Files) /\ Cardinality(Files) \in Nat
  <1>1. Files \in SUBSET Live
    BY DEF Files
  <1>2. IsFiniteSet(Files)
    BY <1>1, FilesFinite, FS_Subset
  <1>. QED
    BY <1>2, FS_CardinalityType

\* Until Trash is emptied, the size of Home is the number of files.
LEMMA HomeCounts ==
  ASSUME TreeInv, SizesFit, ~emptied
  PROVE  SpaceUsed = Cardinality(Files)
  <1>1. TypeOK /\ HomeId \in Live /\ row[HomeId].path = <<>> /\ row[HomeId].kind = "folder"
    BY HomeFolder DEF TreeInv, TypeOK
  <1>2. row[HomeId].size = Cardinality(FilesBelow(<<>>))
    BY <1>1 DEF SizesFit, SizeExact
  <1>3. ASSUME NEW i \in Files PROVE Below(row[i].path, <<>>)
    <2>1. i \in Live \ {HomeId}
      BY <1>1 DEF Files
    <2>2. row[i].path \in Path /\ row[i].path # <<>>
      BY <1>1, <2>1, TypedRows DEF TypeOK
    <2>. QED
      BY <2>2, ParentsFacts
  <1>4. FilesBelow(<<>>) = Files
    BY <1>3, FilesFinite DEF Files
  <1>. QED
    BY <1>2, <1>4 DEF SpaceUsed

\* A step that adds no file and begins no upload.
LEMMA QuotaStays ==
  ASSUME QuotaFits, NEW F, NEW U, F = Files', U = Uploading', F \subseteq Files, U \subseteq Uploading,
         emptied => emptied'
  PROVE  QuotaFits'
  <1>1. /\ IsFiniteSet(Files) /\ Cardinality(Files) \in Nat
        /\ IsFiniteSet(Uploading) /\ Cardinality(Uploading) \in Nat
        /\ Cardinality(Clients) \in Nat /\ Quota \in Nat
    BY FileCount, UploadingFinite, TreeAssumption
  <1>2. Cardinality(F) <= Cardinality(Files) /\ Cardinality(F) \in Nat
    BY <1>1, FS_Subset, FS_CardinalityType
  <1>3. Cardinality(U) <= Cardinality(Uploading) /\ Cardinality(U) \in Nat
    BY <1>1, FS_Subset, FS_CardinalityType
  <1>4. emptied \/ Cardinality(Files) + Cardinality(Uploading) < Quota + Cardinality(Clients)
    BY DEF QuotaFits, Files
  <1>5. emptied' \/ Cardinality(F) + Cardinality(U) < Quota + Cardinality(Clients)
    BY <1>1, <1>2, <1>3, <1>4
  <1>. QED
    BY <1>5 DEF QuotaFits, Files

\* Which uploads are under way after a step of one client.
LEMMA UploadingNext ==
  ASSUME TypeOK, NEW c \in Clients, NEW r, req' = [req EXCEPT ![c] = r]
  PROVE  Uploading' = IF IsUpload(r) THEN Uploading \cup {c} ELSE Uploading \ {c}
  <1>1. req'[c] = r /\ \A d \in Clients \ {c} : req'[d] = req[d]
    BY DEF TypeOK
  <1>2. \A d \in Clients : IsUpload(req'[d]) <=> IF d = c THEN IsUpload(r) ELSE IsUpload(req[d])
    BY <1>1
  <1>3. Uploading' = {d \in Clients : IsUpload(req'[d])}
    BY DEF Uploading, IsUpload
  <1>. QED
    BY <1>2, <1>3 DEF Uploading

\* An upload is admitted while there is room for a file: there are fewer files than
\* the quota allows, and not more uploads than clients.
LEMMA UploadQuota ==
  ASSUME TreeInv, SizesFit, NEW c \in Clients, NEW p, Upload(c, p), TypeOK'
  PROVE  QuotaFits'
  <1>1. SpaceUsed + 1 <= Quota
    BY DEF Upload, WithinQuota
  <1>2. row' = row /\ emptied' = emptied
    BY Zenon DEF Upload, ReadCreateFolder, Start
  <1>3. CASE emptied
    BY <1>2, <1>3 DEF QuotaFits
  <1>4. CASE ~emptied
    <2>1. Cardinality(Files) + 1 <= Quota /\ Cardinality(Files) \in Nat /\ Quota \in Nat
      BY <1>1, <1>4, HomeCounts, FileCount, TreeAssumption
    <2>2. PICK F : F = Files /\ F = Files'
      BY <1>2 DEF Files, Live
    <2>3. PICK U : U = Uploading'
      OBVIOUS
    <2>4. U \in SUBSET Clients /\ IsFiniteSet(Clients)
      BY <2>3, TreeAssumption DEF Uploading
    <2>5. Cardinality(U) <= Cardinality(Clients) /\ IsFiniteSet(U)
      BY <2>4, FS_Subset
    <2>6. Cardinality(U) \in Nat /\ Cardinality(Clients) \in Nat
      BY <2>4, <2>5, FS_CardinalityType
    <2>7. Cardinality(F) + Cardinality(U) < Quota + Cardinality(Clients)
      BY <2>1, <2>2, <2>5, <2>6
    <2>. QED
      BY <2>2, <2>3, <2>7 DEF QuotaFits, Files
  <1>. QED
    BY <1>3, <1>4

\* A request that starts: an upload found the size of Home below the quota.
LEMMA ReadQuota ==
  ASSUME TreeInv, SizesFit, QuotaFits, TypeOK', NEW c \in Clients, Read(c)
  PROVE  QuotaFits'
  <1>0. TypeOK
    BY DEF TreeInv
  <1>1. ASSUME NEW r, ~IsUpload(r), Start(c, r) PROVE QuotaFits'
    <2>1. req' = [req EXCEPT ![c] = r] /\ row' = row /\ emptied' = emptied
      BY <1>1 DEF Start
    <2>2. Files' = Files
      BY <2>1 DEF Files, Live
    <2>3. Uploading' \subseteq Uploading
      BY <1>0, <1>1, <2>1, UploadingNext
    <2>. QED
      BY <2>1, <2>2, <2>3, QuotaStays
  <1>2. ASSUME NEW p, CreateFolder(c, p) PROVE QuotaFits'
    <2>1. PICK r : r = [op |-> "create_folder", paths |-> MissingFolders(p), then |-> None]
      OBVIOUS
    <2>2. Start(c, r)
      BY <1>2, <2>1 DEF CreateFolder, ReadCreateFolder
    <2>3. ~IsUpload(r)
      BY <2>1 DEF IsUpload
    <2>. QED
      BY <1>1, <2>2, <2>3
  <1>3. ASSUME NEW i, Delete(c, i) PROVE QuotaFits'
    <2>1. PICK r : r = [op |-> "delete", id |-> i, row |-> row[i]]
      OBVIOUS
    <2>2. Start(c, r)
      BY <1>3, <2>1 DEF Delete
    <2>3. ~IsUpload(r)
      BY <2>1 DEF IsUpload
    <2>. QED
      BY <1>1, <2>2, <2>3
  <1>4. ASSUME NEW i, NEW p, ReadMove(c, i, p) PROVE QuotaFits'
    <2>1. PICK j \in IdsAt(Parent(p)) :
            Start(c, [op |-> "move", id |-> i, row |-> row[i],
                      to |-> Append(row[j].path, Last(p))])
      BY <1>4, Zenon DEF ReadMove
    <2>2. PICK r : r = [op |-> "move", id |-> i, row |-> row[i],
                        to |-> Append(row[j].path, Last(p))]
      OBVIOUS
    <2>3. ~IsUpload(r)
      BY <2>2 DEF IsUpload
    <2>. QED
      BY <1>1, <2>1, <2>2, <2>3
  <1>5. ASSUME EmptyTrash(c) PROVE QuotaFits'
    <2>1. PICK r : r = [op |-> "empty_trash", row |-> row[TrashId]]
      OBVIOUS
    <2>2. Start(c, r)
      BY <1>5, <2>1 DEF EmptyTrash
    <2>3. ~IsUpload(r)
      BY <2>1 DEF IsUpload
    <2>. QED
      BY <1>1, <2>2, <2>3
  <1>6. ASSUME NEW i, MoveItemToTrash(c, i) PROVE QuotaFits'
    <2>1. PICK q : ReadMove(c, i, q)
      BY <1>6, Zenon DEF MoveItemToTrash
    <2>. QED
      BY <1>4, <2>1
  <1>7. ASSUME NEW i, NEW p, MoveItem(c, i, p) PROVE QuotaFits'
    BY <1>4, <1>7 DEF MoveItem
  <1>8. ASSUME NEW p, Upload(c, p) PROVE QuotaFits'
    BY <1>8, UploadQuota
  <1>. QED
    BY <1>2, <1>3, <1>5, <1>6, <1>7, <1>8, Zenon DEF Read

\* A transaction: an upload that ends was counted already.
LEMMA SaveQuota ==
  ASSUME TreeInv, QuotaFits, TypeOK', NEW c \in Clients, Save(c)
  PROVE  QuotaFits'
  <1>0. TypeOK /\ ~IsUpload(None)
    BY DEF TreeInv, IsUpload
  <1>1. ASSUME CreateFolderSave(c) PROVE QuotaFits'
    <2>1. PICK paths : paths = req[c].paths \ {row[i].path : i \in Live}
      OBVIOUS
    <2>2. PICK then : then = req[c].then
      OBVIOUS
    <2>3. /\ req[c].op = "create_folder" /\ req' = [req EXCEPT ![c] = then]
          /\ UNCHANGED <<alone, emptied, asked>> /\ Extended(row', paths, "folder", 0)
      BY <1>0, <1>1, <2>1, <2>2, CreateFolderSaveRows
    <2>4. Files' \subseteq Files
      BY <2>3 DEF Files, Extended, Live
    <2>5. IsUpload(then) => c \in Uploading
      BY <1>1, <2>2, <2>3 DEF IsUpload, Uploading, CreateFolderSave
    <2>6. Uploading' \subseteq Uploading
      BY <1>0, <2>3, <2>5, UploadingNext
    <2>7. emptied' = emptied
      BY <2>3
    <2>. QED
      BY <2>4, <2>6, <2>7, QuotaStays
  <1>2. ASSUME UploadName(c) PROVE QuotaFits'
    <2>1. req[c] # None /\ req[c].op = "name_file"
      BY <1>2 DEF UploadName
    <2>2. PICK r : req' = [req EXCEPT ![c] = r] /\ row' = row /\ emptied' = emptied
      BY <1>2 DEF UploadName, Start
    <2>3. c \in Uploading
      BY <2>1 DEF Uploading, IsUpload
    <2>4. Uploading' \subseteq Uploading
      BY <1>0, <2>2, <2>3, UploadingNext
    <2>5. Files' = Files
      BY <2>2 DEF Files, Live
    <2>. QED
      BY <2>2, <2>4, <2>5, QuotaStays
  <1>3. ASSUME UploadSave(c) PROVE QuotaFits'
    <2>1. PICK p : p = req[c].path
      OBVIOUS
    <2>2. /\ req' = [req EXCEPT ![c] = None] /\ UNCHANGED <<alone, asked, emptied>>
          /\ \/ row' = row
             \/ \E new \in Ids \ Live :
                  /\ Live' = Live \cup {new}
                  /\ \A i \in Live : row'[i].kind = row[i].kind
      BY <1>0, <1>3, <2>1, UploadSaveRows
    <2>3. emptied' = emptied /\ Uploading' = Uploading \ {c}
      BY <1>0, <2>2, UploadingNext
    <2>4. c \in Uploading
      BY <1>3 DEF UploadSave, Uploading, IsUpload
    <2>5. CASE row' = row
      <3>1. Files' = Files
        BY <2>5 DEF Files, Live
      <3>. QED
        BY <2>3, <3>1, QuotaStays
    <2>6. ASSUME NEW new \in Ids \ Live, Live' = Live \cup {new},
                 \A i \in Live : row'[i].kind = row[i].kind
          PROVE  QuotaFits'
      <3>1. PICK F : F = Files'
        OBVIOUS
      <3>2. PICK U : U = Uploading'
        OBVIOUS
      <3>3. F \in SUBSET (Files \cup {new})
        BY <2>6, <3>1 DEF Files
      <3>4. /\ IsFiniteSet(Files) /\ Cardinality(Files) \in Nat
            /\ IsFiniteSet(Uploading) /\ Cardinality(Uploading) \in Nat
            /\ Cardinality(Clients) \in Nat /\ Quota \in Nat
        BY FileCount, UploadingFinite, TreeAssumption
      <3>5. new \notin Files
        BY DEF Files
      <3>6. IsFiniteSet(Files \cup {new}) /\ Cardinality(Files \cup {new}) = Cardinality(Files) + 1
        BY <3>4, <3>5, FS_AddElement
      <3>7. Cardinality(F) <= Cardinality(Files \cup {new}) /\ IsFiniteSet(F)
        BY <3>3, <3>6, FS_Subset
      <3>8. Cardinality(F) \in Nat
        BY <3>7, FS_CardinalityType
      <3>9. Cardinality(U) = Cardinality(Uploading) - 1
        BY <2>3, <2>4, <3>2, <3>4, FS_RemoveElement
      <3>10. emptied \/ Cardinality(Files) + Cardinality(Uploading) < Quota + Cardinality(Clients)
        BY DEF QuotaFits, Files
      <3>11. emptied \/ Cardinality(F) + Cardinality(U) < Quota + Cardinality(Clients)
        BY <3>4, <3>6, <3>7, <3>8, <3>9, <3>10
      <3>. QED
        BY <2>3, <3>1, <3>2, <3>11 DEF QuotaFits, Files
    <2>. QED
      BY <2>2, <2>5, <2>6
  <1>4. ASSUME req' = [req EXCEPT ![c] = None], emptied' = emptied, Files' \subseteq Files
        PROVE  QuotaFits'
    <2>1. Uploading' \subseteq Uploading
      BY <1>0, <1>4, UploadingNext
    <2>. QED
      BY <1>4, <2>1, QuotaStays
  <1>5. ASSUME DeleteSave(c) PROVE QuotaFits'
    <2>1. PICK gone : gone = Gone(req[c].id, req[c].row)
      OBVIOUS
    <2>2. /\ req' = [req EXCEPT ![c] = None] /\ UNCHANGED <<alone, asked, emptied>>
          /\ Live' = Live \ gone /\ \A i \in Live \ gone : row'[i].kind = row[i].kind
      BY <1>0, <1>5, <2>1, DeleteSaveRows
    <2>3. Files' \subseteq Files /\ emptied' = emptied
      BY <2>2 DEF Files
    <2>. QED
      BY <1>4, <2>2, <2>3
  <1>6. ASSUME MoveSave(c) PROVE QuotaFits'
    <2>1. /\ req' = [req EXCEPT ![c] = None] /\ UNCHANGED <<alone, asked, emptied>>
          /\ row' = row \/ (Live' = Live /\ \A i \in Live : row'[i].kind = row[i].kind)
      BY <1>0, <1>6, MoveSaveRows
    <2>2. Files' \subseteq Files /\ emptied' = emptied
      BY <2>1 DEF Files, Live
    <2>. QED
      BY <1>4, <2>1, <2>2
  <1>7. ASSUME EmptyTrashSave(c) PROVE QuotaFits'
    BY <1>7 DEF EmptyTrashSave, QuotaFits
  <1>. QED
    BY <1>1, <1>2, <1>3, <1>5, <1>6, <1>7 DEF Save

\* The invariant of sizes and quota, for users who keep to one casing.
TidySizes == Tidy(asked) => TreeInv /\ SizesFit /\ QuotaFits

\* The invariant of sizes and quota holds for users who keep to one casing.
LEMMA SizesInvariant == Spec => []TidySizes
  <1>1. Init => TidySizes
    <2>. SUFFICES ASSUME Init PROVE TreeInv /\ SizesFit /\ QuotaFits
      BY DEF TidySizes
    <2>1. TreeInv /\ SizesFit
      BY InitTree, InitSizes
    <2>2. TypeOK /\ Live = {HomeId, TrashId}
      BY InitTyped, TreeAssumption DEF Init, Live, TypeOK
    <2>3. Files = {}
      BY <2>2, TreeAssumption DEF Files, Init
    <2>4. Uploading = {}
      BY DEF Uploading, IsUpload, Init
    <2>5. Cardinality(Files) + Cardinality(Uploading) < Quota + Cardinality(Clients)
      <3>1. Cardinality(Files) = 0 /\ Cardinality(Uploading) = 0
        BY <2>3, <2>4, FS_EmptySet
      <3>2. Cardinality(Clients) \in Nat \ {0} /\ Quota \in Nat
        BY UploadingFinite, TreeAssumption
      <3>. QED
        BY <3>1, <3>2
    <2>. QED
      BY <2>1, <2>5 DEF QuotaFits, Files
  <1>2. TidySizes /\ [Next]_vars => TidySizes'
    <2>. SUFFICES ASSUME TidySizes, [Next]_vars, Tidy(asked)' PROVE TreeInv' /\ SizesFit' /\ QuotaFits'
      BY DEF TidySizes
    <2>1. Tidy(asked) /\ TreeInv /\ SizesFit /\ QuotaFits
      BY AskedStays DEF TidySizes
    <2>2. TreeInv'
      BY <2>1, NextTree DEF Known
    <2>3. SizesFit'
      BY <2>1, NextSizes
    <2>4. TypeOK'
      BY <2>2 DEF TreeInv
    <2>5. ASSUME UNCHANGED vars PROVE QuotaFits'
      <3>1. row' = row /\ req' = req /\ emptied' = emptied
        BY <2>5 DEF vars
      <3>2. Files' \subseteq Files
        BY <3>1 DEF Files, Live
      <3>3. Uploading' \subseteq Uploading
        BY <3>1 DEF Uploading, IsUpload
      <3>. QED
        BY <2>1, <3>1, <3>2, <3>3, QuotaStays
    <2>6. ASSUME Next PROVE QuotaFits'
      <3>1. PICK c \in Clients : Read(c) \/ Save(c)
        BY <2>6 DEF Next
      <3>2. CASE Read(c)
        BY <2>1, <2>4, <3>1, <3>2, ReadQuota
      <3>3. CASE Save(c)
        BY <2>1, <2>4, <3>1, <3>3, SaveQuota
      <3>. QED
        BY <3>1, <3>2, <3>3
    <2>. QED
      BY <2>2, <2>3, <2>5, <2>6
  <1>. QED
    BY <1>1, <1>2, PTL DEF Spec

\* When users keep to one casing and only uploads and new folders overlap, the size of
\* every folder is the number of files in it at every depth, until Trash is emptied,
\* and of every folder but Home and Trash afterwards: the parents whose sizes create_file,
\* delete and _move add to are those that the file or the subtree is, or was, below.
THEOREM SizesAreExact == Spec => [](Tidy(asked) => SizesUntilEmptied)
  <1>1. TidySizes => (Tidy(asked) => SizesUntilEmptied)
    BY DEF TidySizes, SizesFit, SizesUntilEmptied
  <1>. QED
    BY <1>1, SizesInvariant, PTL

\* Then, and until Trash is emptied, the files of a namespace are fewer than its quota
\* and as many as there are clients: every upload under way was admitted with room for
\* one more file by the check of add_file, which does not see the others.
THEOREM QuotaIsNearlyKept == Spec => [](Tidy(asked) => QuotaNearlyKept)
  <1>1. TidySizes => (Tidy(asked) => QuotaNearlyKept)
    <2>. SUFFICES ASSUME TidySizes, Tidy(asked) PROVE QuotaNearlyKept
      OBVIOUS
    <2>1. emptied \/ Cardinality(Files) + Cardinality(Uploading) < Quota + Cardinality(Clients)
      BY DEF TidySizes, QuotaFits, Files
    <2>2. /\ Cardinality(Files) \in Nat /\ Cardinality(Uploading) \in Nat
          /\ Cardinality(Clients) \in Nat /\ Quota \in Nat
      BY FileCount, UploadingFinite, TreeAssumption
    <2>3. emptied \/ Cardinality(Files) < Quota + Cardinality(Clients)
      BY <2>1, <2>2
    <2>. QED
      BY <2>3 DEF QuotaNearlyKept, Files
  <1>. QED
    BY <1>1, SizesInvariant, PTL

-----------------------------------------------------------------------------
(* The names that uploads get (AvailablePath)                              *)

\* The types of the variables.
NamesTypeOK ==
    /\ file \in [Uploads -> NamedPath \cup {NoFile}]
    /\ content \in [Uploads -> Uploads \cup {NoFile}]
    /\ plain \in BOOLEAN

\* The numbered copies of a stem are finitely many.
LEMMA CopiesFinite ==
  ASSUME NEW s \in Stems
  PROVE  /\ IsFiniteSet(Copies(s))
         /\ Cardinality(Copies(s)) \in Nat
  <1>1. Copies(s) \subseteq Uploads
    BY DEF Copies
  <1>2. QED
    BY <1>1, UploadsAssumption, FS_Subset, FS_CardinalityType

\* get_available_path returns the path itself when it is free, and otherwise
\* the path with one tag more.
LEMMA AvailablePathFacts ==
  ASSUME NEW p \in NamedPath
  PROVE  /\ ~Taken(p) => GetAvailablePath(p) = p
         /\ Taken(p) => GetAvailablePath(p) =
                          [p EXCEPT !.tags = Append(p.tags, Counted(p) + 1)]
         /\ GetAvailablePath(p) \in NamedPath
         /\ Taken(p) => Len(GetAvailablePath(p).tags) = Len(p.tags) + 1
  <1>1. Counted(p) \in Nat
    BY CopiesFinite DEF Counted, PlainName, NamedPath
  <1>2. CASE ~Taken(p)
    BY <1>2 DEF GetAvailablePath
  <1>3. CASE Taken(p)
    <2> DEFINE t == Append(p.tags, Counted(p) + 1)
    <2>1. t \in Seq(Nat) /\ Len(t) = Len(p.tags) + 1
      <3>1. p.tags \in Seq(Nat) /\ Counted(p) + 1 \in Nat
        BY <1>1 DEF NamedPath
      <3>2. QED
        BY <3>1
    <2>2. GetAvailablePath(p) = [p EXCEPT !.tags = t]
      BY <1>3 DEF GetAvailablePath
    <2> HIDE DEF t
    <2>3. [p EXCEPT !.tags = t] \in NamedPath /\ [p EXCEPT !.tags = t].tags = t
      BY <2>1 DEF NamedPath
    <2>4. QED
      BY <1>3, <2>1, <2>2, <2>3 DEF t
  <1>4. QED
    BY <1>2, <1>3

\* The path an upload is given is a path; when it is taken, both answers of
\* get_available_path added a tag.
LEMMA CreatedAtFacts ==
  ASSUME NEW p \in NamedPath
  PROVE  /\ CreatedAt(p) \in NamedPath
         /\ Taken(CreatedAt(p)) => Len(CreatedAt(p).tags) >= 2
  <1> DEFINE q == GetAvailablePath(p)
  <1>1. q \in NamedPath /\ CreatedAt(p) = GetAvailablePath(q)
    BY AvailablePathFacts DEF CreatedAt
  <1>2. CreatedAt(p) \in NamedPath
    BY <1>1, AvailablePathFacts
  <1>3. CASE ~Taken(q)
    <2>1. CreatedAt(p) = q
      BY <1>1, <1>3, AvailablePathFacts
    <2>2. QED
      BY <1>2, <1>3, <2>1
  <1>4. CASE Taken(q)
    <2>1. Taken(p)
      BY <1>4, AvailablePathFacts
    <2>2. Len(q.tags) = Len(p.tags) + 1 /\ Len(CreatedAt(p).tags) = Len(q.tags) + 1
      BY <1>1, <1>4, <2>1, AvailablePathFacts
    <2>3. Len(p.tags) \in Nat
      BY DEF NamedPath
    <2>4. QED
      BY <1>2, <2>2, <2>3
  <1>5. QED
    BY <1>3, <1>4

\* Names that users ask for are paths.
LEMMA AskedAreNamedPaths == AskedPath \subseteq NamedPath
  BY TagsAssumption DEF AskedPath, NamedPath

-----------------------------------------------------------------------------
(* Whatever users do                                                       *)

\* Files are under paths, and their contents are uploads.
LEMMA NamesTypeInvariance == NamesSpec => []NamesTypeOK
  <1>1. NamesInit => NamesTypeOK
    BY DEF NamesInit, NamesTypeOK
  <1>2. NamesTypeOK /\ [NamesNext]_nameVars => NamesTypeOK'
    <2> SUFFICES ASSUME NamesTypeOK, [NamesNext]_nameVars PROVE NamesTypeOK'
      OBVIOUS
    <2>1. ASSUME NEW u \in Uploads, NEW p \in AskedPath, CreateFile(u, p)
          PROVE  NamesTypeOK'
      BY <2>1, AskedAreNamedPaths, CreatedAtFacts DEF NamesTypeOK, CreateFile
    <2>2. ASSUME NEW u \in Uploads, DeleteFile(u)
          PROVE  NamesTypeOK'
      BY <2>2 DEF NamesTypeOK, DeleteFile
    <2>3. ASSUME NEW u \in Uploads, NEW p \in AskedPath, MoveFile(u, p)
          PROVE  NamesTypeOK'
      BY <2>3, AskedAreNamedPaths DEF NamesTypeOK, MoveFile
    <2>4. CASE UNCHANGED nameVars
      BY <2>4 DEF nameVars, NamesTypeOK
    <2>5. QED
      BY <2>1, <2>2, <2>3, <2>4 DEF NamesNext
  <1>3. QED
    BY <1>1, <1>2, PTL DEF NamesSpec

\* Whatever users upload, move and delete, get_available_path never lets an
\* upload replace the content of a file with less than two numbers in its name.
THEOREM CollisionsNeedTwoTags == NamesSpec => OnlySecondGuessesCollide
  <1>1. NamesTypeOK /\ [NamesNext]_nameVars =>
          [\A u \in Uploads : file'[u] # NoFile /\ content'[u] # content[u] =>
              content'[u] = u \/ Len(file[u].tags) >= 2]_nameVars
    <2> SUFFICES ASSUME NamesTypeOK, NamesNext,
                        NEW u \in Uploads, file'[u] # NoFile, content'[u] # content[u]
                 PROVE  content'[u] = u \/ Len(file[u].tags) >= 2
      BY DEF nameVars
    <2>1. ASSUME NEW v \in Uploads, NEW p \in AskedPath, CreateFile(v, p)
          PROVE  content'[u] = u \/ Len(file[u].tags) >= 2
      <3>1. CASE content' = [content EXCEPT ![v] = v]
        BY <3>1 DEF NamesTypeOK
      <3>2. CASE \E w \in Uploads : /\ file[w] = CreatedAt(p)
                                    /\ content' = [content EXCEPT ![w] = v]
        <4>1. file[u] = CreatedAt(p)
          BY <3>2 DEF NamesTypeOK
        <4>2. Taken(CreatedAt(p))
          BY <4>1 DEF Taken
        <4>3. QED
          BY <4>1, <4>2, AskedAreNamedPaths, CreatedAtFacts
      <3>3. QED
        BY <2>1, <3>1, <3>2 DEF CreateFile
    <2>2. ASSUME NEW v \in Uploads, DeleteFile(v)
          PROVE  FALSE
      BY <2>2 DEF NamesTypeOK, DeleteFile
    <2>3. ASSUME NEW v \in Uploads, NEW p \in AskedPath, MoveFile(v, p)
          PROVE  FALSE
      BY <2>3 DEF MoveFile
    <2>4. QED
      BY <2>1, <2>2, <2>3 DEF NamesNext
  <1>2. QED
    BY NamesTypeInvariance, <1>1, PTL DEF NamesSpec, OnlySecondGuessesCollide

-----------------------------------------------------------------------------
(* Uploads under plain names                                               *)

PlainInv == NamesTypeOK /\ PlainContentKept /\ PlainCopiesSequential

\* The number that a plain name's next copy gets has not been given.
LEMMA NextNumberIsFree ==
  ASSUME PlainInv, plain, NEW p \in AskedPath, PlainName(p), Taken(p)
  PROVE  /\ CreatedAt(p) = [p EXCEPT !.tags = <<Cardinality(Copies(p.stem)) + 1>>]
         /\ ~Taken(CreatedAt(p))
  <1> DEFINE c == Cardinality(Copies(p.stem))
             q == GetAvailablePath(p)
  <1>1. p \in NamedPath /\ p.tags = <<>> /\ p.stem \in Stems
    BY AskedAreNamedPaths DEF AskedPath, PlainName
  <1>2. c \in Nat
    BY <1>1, CopiesFinite
  <1>3. q \in NamedPath /\ q = [p EXCEPT !.tags = <<c + 1>>]
    <2>1. Counted(p) = c
      BY DEF Counted
    <2>2. q = [p EXCEPT !.tags = Append(p.tags, c + 1)] /\ q \in NamedPath
      BY <1>1, <2>1, AvailablePathFacts
    <2>3. QED
      BY <1>1, <1>2, <2>2
  <1>4. q.stem = p.stem /\ q.tags = <<c + 1>>
    BY <1>1, <1>3 DEF NamedPath
  <1>5. ~Taken(q)
    <2> SUFFICES ASSUME NEW v \in Uploads, file[v] = q PROVE FALSE
      BY DEF Taken
    <2>0. Len(file[v].tags) = 1 /\ file[v] # NoFile /\ file[v].stem = p.stem
      <3>1. file[v].tags = <<c + 1>>
        BY <1>4
      <3>2. Len(<<c + 1>>) = 1
        OBVIOUS
      <3>3. QED
        BY <1>3, <1>4, <3>1, <3>2, NoFileAssumption
    <2>1. v \in Copies(p.stem)
      BY <2>0 DEF Copies
    <2>2. file[v].tags[1] \in 1..c
      BY <1>1, <2>1 DEF PlainInv, PlainCopiesSequential
    <2>3. QED
      BY <1>2, <1>4, <2>2
  <1>6. CreatedAt(p) = q
    BY <1>3, <1>5, AvailablePathFacts DEF CreatedAt
  <1>7. QED
    BY <1>3, <1>5, <1>6

\* An upload keeps the numbers of every stem sequential.
LEMMA PlainCreate ==
  ASSUME PlainInv, plain, NEW u \in Uploads, NEW p \in AskedPath, PlainName(p),
         CreateFile(u, p), NamesTypeOK'
  PROVE  PlainInv'
  <1>1. p \in NamedPath /\ p.tags = <<>> /\ p.stem \in Stems
    BY AskedAreNamedPaths DEF AskedPath, PlainName
  <1> DEFINE c == Cardinality(Copies(p.stem))
  <1>2. c \in Nat /\ IsFiniteSet(Copies(p.stem))
    BY <1>1, CopiesFinite
  <1>3. /\ CreatedAt(p) = IF Taken(p) THEN [p EXCEPT !.tags = <<c + 1>>] ELSE p
        /\ ~Taken(CreatedAt(p))
    BY <1>1, NextNumberIsFree, AvailablePathFacts DEF CreatedAt
  <1>4. PICK n \in NamedPath : n = CreatedAt(p)
    BY <1>1, CreatedAtFacts
  <1>5. /\ n # NoFile /\ n.stem = p.stem
        /\ n.tags = IF Taken(p) THEN <<c + 1>> ELSE <<>>
    BY <1>1, <1>3, <1>4, NoFileAssumption DEF NamedPath
  <1>6. /\ file[u] = NoFile
        /\ file' = [file EXCEPT ![u] = n]
        /\ content' = [content EXCEPT ![u] = u]
    BY <1>3, <1>4 DEF CreateFile, Taken
  <1>l. Len(n.tags) = IF Taken(p) THEN 1 ELSE 0
    <2>1. Len(<<c + 1>>) = 1 /\ Len(<<>>) = 0
      OBVIOUS
    <2>2. QED
      BY <1>5, <2>1
  <1>7. ContentKept'
    BY <1>6 DEF PlainInv, NamesTypeOK, ContentKept, PlainContentKept
  <1>8. ASSUME NEW s \in Stems
        PROVE  /\ {file'[v].tags[1] : v \in Copies(s)'} = 1..Cardinality(Copies(s)')
               /\ \A v \in Uploads : file'[v] # NoFile /\ file'[v].stem = s =>
                    Len(file'[v].tags) <= 1
    <2>1. \A v \in Uploads : file'[v] # NoFile /\ file'[v].stem = s =>
             Len(file'[v].tags) <= 1
      <3> SUFFICES ASSUME NEW v \in Uploads, file'[v] # NoFile, file'[v].stem = s
                   PROVE  Len(file'[v].tags) <= 1
        OBVIOUS
      <3>1. CASE v = u
        BY <1>l, <1>6, <3>1 DEF PlainInv, NamesTypeOK
      <3>2. CASE v # u
        BY <1>6, <3>2 DEF PlainInv, NamesTypeOK, PlainCopiesSequential
      <3>3. QED
        BY <3>1, <3>2
    <2>2. CASE s = p.stem /\ Taken(p)
      <3>1. Copies(s)' = Copies(s) \cup {u} /\ u \notin Copies(s)
        BY <1>2, <1>5, <1>6, <2>2 DEF PlainInv, NamesTypeOK, Copies
      <3>2. Cardinality(Copies(s)') = c + 1
        BY <1>2, <2>2, <3>1, FS_AddElement
      <3>3. {file[v].tags[1] : v \in Copies(s)} = 1..c
        BY <2>2 DEF PlainInv, PlainCopiesSequential
      <3>4. /\ \A v \in Copies(s) : file'[v] = file[v]
            /\ file'[u].tags[1] = c + 1
        BY <1>2, <1>5, <1>6, <2>2, <3>1 DEF PlainInv, NamesTypeOK, Copies
      <3>5. {file'[v].tags[1] : v \in Copies(s)'} = 1..c \cup {c + 1}
        BY <3>1, <3>3, <3>4
      <3>6. 1..c \cup {c + 1} = 1..(c + 1)
        BY <1>2
      <3>7. QED
        BY <2>1, <3>2, <3>5, <3>6
    <2>3. CASE ~(s = p.stem /\ Taken(p))
      <3>0. ~(n.stem = s /\ Len(n.tags) = 1)
        BY <1>l, <1>5, <2>3
      <3>1. Copies(s)' = Copies(s) /\ u \notin Copies(s)
        BY <1>6, <3>0 DEF PlainInv, NamesTypeOK, Copies
      <3>2. \A v \in Copies(s) : file'[v] = file[v]
        BY <1>6, <3>1 DEF PlainInv, NamesTypeOK, Copies
      <3>3. QED
        BY <2>1, <3>1, <3>2 DEF PlainInv, PlainCopiesSequential
    <2>4. QED
      BY <2>2, <2>3
  <1>9. QED
    BY <1>7, <1>8 DEF PlainInv, PlainCopiesSequential, PlainContentKept

\* The numbers of the copies stay without gaps as long as names are plain.
LEMMA PlainInvariance == NamesSpec => []PlainInv
  <1>1. NamesInit => PlainInv
    <2> SUFFICES ASSUME NamesInit PROVE PlainInv
      OBVIOUS
    <2>1. \A s \in Stems : Copies(s) = {}
      BY DEF NamesInit, Copies
    <2>2. Cardinality({}) = 0
      BY FS_EmptySet
    <2>3. PlainCopiesSequential
      <3> SUFFICES ASSUME NEW s \in Stems
                   PROVE  {file[u].tags[1] : u \in Copies(s)} = 1..Cardinality(Copies(s))
        BY DEF PlainCopiesSequential, NamesInit
      <3>1. 1..0 = {}
        OBVIOUS
      <3>2. {file[u].tags[1] : u \in Copies(s)} = {}
        BY <2>1
      <3>3. QED
        BY <2>1, <2>2, <3>1, <3>2
    <2>4. QED
      BY <2>3 DEF NamesInit, PlainInv, NamesTypeOK, ContentKept, PlainContentKept
  <1>2. PlainInv /\ NamesTypeOK' /\ [NamesNext]_nameVars => PlainInv'
    <2> SUFFICES ASSUME PlainInv, NamesTypeOK', [NamesNext]_nameVars PROVE PlainInv'
      OBVIOUS
    <2>1. ASSUME NEW u \in Uploads, NEW p \in AskedPath, CreateFile(u, p)
          PROVE  PlainInv'
      <3>1. CASE plain /\ PlainName(p)
        BY <2>1, <3>1, PlainCreate
      <3>2. CASE ~(plain /\ PlainName(p))
        <4>1. ~plain'
          BY <2>1, <3>2 DEF CreateFile
        <4>2. QED
          BY <4>1 DEF PlainInv, PlainContentKept, PlainCopiesSequential
      <3>3. QED
        BY <3>1, <3>2
    <2>2. CASE ~plain'
      BY <2>2 DEF PlainInv, PlainContentKept, PlainCopiesSequential
    <2>3. CASE UNCHANGED nameVars
      BY <2>3 DEF nameVars, PlainInv, NamesTypeOK, ContentKept, PlainContentKept,
                  PlainCopiesSequential, Copies
    <2>4. QED
      BY <2>1, <2>2, <2>3 DEF NamesNext, DeleteFile, MoveFile
  <1>3. QED
    BY <1>1, <1>2, NamesTypeInvariance, PTL DEF NamesSpec

\* Until the first deletion, move or name that is not plain, get_available_path
\* gives every upload a path at which no content is replaced.
THEOREM PlainUploadsKeepContent == NamesSpec => []PlainContentKept
  <1>1. PlainInv => PlainContentKept
    BY DEF PlainInv
  <1>2. QED
    BY PlainInvariance, <1>1, PTL

\* Till then get_available_path numbers the copies of a stem without gaps.
THEOREM PlainUploadsAreSequential == NamesSpec => []PlainCopiesSequential
  <1>1. PlainInv => PlainCopiesSequential
    BY DEF PlainInv
  <1>2. QED
    BY PlainInvariance, <1>1, PTL
=============================================================================
