-------------------------- MODULE FileTree_proofs --------------------------
(***************************************************************************)
(* What holds of every directory tree: its sizes are natural numbers, and  *)
(* the planner's order is a strict total order of its entries, so that the *)
(* sorted list holds each entry once.                                      *)
(***************************************************************************)
EXTENDS FileTree, SumLemmas, SequenceTheorems

(* Partial sizes: a record, an identifier, their sums over a directory.    *)
LEMMA DivisionIsNat ==
  ASSUME NEW n \in Nat
  PROVE  SectorsOf(n) \in Nat
BY DEF SectorsOf, Sector

(* One node: its directory record and its file identifier.                 *)
LEMMA EntrySizes ==
  ASSUME NEW t, IsTree(t), NEW p \in DOMAIN t
  PROVE  /\ RecordLen(t, p) \in Nat
         /\ FidLen(t, p) \in Nat
<1>1. t[p].dir \in BOOLEAN /\ t[p].len \in Nat
  BY DEF IsTree, Attributes
<1>2. t[p].len % 2 \in {0, 1}
  BY <1>1
<1> QED  BY <1>1, <1>2 DEF RecordLen, FidLen, FidBase

(* A directory lists finitely many nodes of the tree.                      *)
LEMMA ChildrenFinite ==
  ASSUME NEW t, IsTree(t), NEW d
  PROVE  IsFiniteSet(Children(t, d)) /\ Children(t, d) \subseteq DOMAIN t
<1>1. Children(t, d) \subseteq DOMAIN t
  BY DEF Children, Entries
<1> QED  BY <1>1, FS_Subset DEF IsTree

(* One directory: the sectors of its records and identifiers.              *)
LEMMA DirectorySizes ==
  ASSUME NEW t, IsTree(t), NEW d
  PROVE  /\ RecordSectors(t, d) \in Nat
         /\ FidSectors(t, d) \in Nat
<1> DEFINE C == Children(t, d)
           r == [p \in C |-> RecordLen(t, p)]
           i == [p \in C |-> FidLen(t, p)]
<1>1. IsFiniteSet(C) /\ r \in [C -> Nat] /\ i \in [C -> Nat]
  BY ChildrenFinite, EntrySizes
<1>2. SumFunction(r) \in Nat /\ SumFunction(i) \in Nat
  <2> HIDE DEF C, r, i
  <2> QED  BY <1>1, SumIsNat
<1>3. RecordBytes(t, d) \in Nat /\ FidBytes(t, d) \in Nat
  BY <1>2 DEF RecordBytes, FidBytes, FidBase
<1> QED  BY <1>3, DivisionIsNat DEF RecordSectors, FidSectors

(* The sizes the planner asks for are natural numbers.                     *)
LEMMA TreeSizes ==
  ASSUME NEW t, IsTree(t)
  PROVE  /\ DirectoryRecordsAmount(t) \in Nat
         /\ FileIdentifiersAmount(t) \in Nat
         /\ DirAmount(t) \in Nat
         /\ FileAmount(t) \in Nat
<1> DEFINE D == Directories(t)
           r == [d \in D |-> RecordSectors(t, d)]
           i == [d \in D |-> FidSectors(t, d)]
<1>1. IsFiniteSet(D) /\ IsFiniteSet(D \ {Root}) /\ IsFiniteSet(PlainFiles(t))
  <2>1. D \subseteq DOMAIN t /\ PlainFiles(t) \subseteq DOMAIN t
    BY DEF Directories, PlainFiles
  <2> QED  BY <2>1, FS_Subset DEF IsTree
<1>2. r \in [D -> Nat] /\ i \in [D -> Nat]
  BY DirectorySizes
<1>3. SumFunction(r) \in Nat /\ SumFunction(i) \in Nat
  <2> HIDE DEF D, r, i
  <2> QED  BY <1>1, <1>2, SumIsNat
<1> QED
  BY <1>1, <1>3, FS_CardinalityType
     DEF DirectoryRecordsAmount, FileIdentifiersAmount, DirAmount, FileAmount
-----------------------------------------------------------------------------
(* Ranks along the path of a node are numbers.                             *)
LEMMA RanksAreNat ==
  ASSUME NEW t, IsTree(t), NEW p \in DOMAIN t, NEW k \in 1 .. Len(p)
  PROVE  /\ Prefix(p, k) \in DOMAIN t
         /\ RankAt(t, p, k) \in Nat
<1>1. p \in Seq(Nat \ {0})
  BY DEF IsTree
<1>2. Prefix(p, k) \in DOMAIN t
  <2>1. CASE k = Len(p)
    BY <1>1, <2>1, SubSeqFull DEF Prefix
  <2>2. CASE k # Len(p)
    BY <1>1, <2>2 DEF IsTree
  <2> QED  BY <2>1, <2>2
<1> QED  BY <1>2 DEF IsTree, RankAt, Attributes

(* The comparison of std::sort puts no node before itself,                 *)
LEMMA BeforeIrreflexive ==
  ASSUME NEW t, IsTree(t), NEW p \in Entries(t)
  PROVE  ~Before(t, p, p)
<1>1. Len(p) \in Nat
  BY DEF IsTree, Entries
<1> QED  BY <1>1, RanksAreNat DEF Before, Entries

(* and it is transitive.                                                   *)
LEMMA BeforeTransitive ==
  ASSUME NEW t, IsTree(t),
         NEW p \in Entries(t), NEW q \in Entries(t), NEW r \in Entries(t),
         Before(t, p, q), Before(t, q, r)
  PROVE  Before(t, p, r)
<1>1. Len(p) \in Nat /\ Len(q) \in Nat /\ Len(r) \in Nat
  BY DEF IsTree, Entries
<1>2. CASE Len(p) < Len(q) \/ Len(q) < Len(r)
  BY <1>1, <1>2 DEF Before
<1>3. CASE Len(p) = Len(q) /\ Len(q) = Len(r)
  <2>1. PICK k \in 1 .. Len(p) :
          /\ RankAt(t, p, k) < RankAt(t, q, k)
          /\ \A j \in 1 .. k - 1 : RankAt(t, p, j) = RankAt(t, q, j)
    BY <1>1, <1>3 DEF Before
  <2>2. PICK m \in 1 .. Len(p) :
          /\ RankAt(t, q, m) < RankAt(t, r, m)
          /\ \A j \in 1 .. m - 1 : RankAt(t, q, j) = RankAt(t, r, j)
    BY <1>1, <1>3 DEF Before
  <2>3. \A j \in 1 .. Len(p) :
          /\ RankAt(t, p, j) \in Nat
          /\ RankAt(t, q, j) \in Nat
          /\ RankAt(t, r, j) \in Nat
    BY <1>3, RanksAreNat DEF Entries
  <2>4. CASE k <= m
    <3>1. RankAt(t, p, k) < RankAt(t, r, k)
      BY <1>1, <2>1, <2>2, <2>3, <2>4
    <3>2. \A j \in 1 .. k - 1 : RankAt(t, p, j) = RankAt(t, r, j)
      BY <1>1, <2>1, <2>2, <2>4
    <3> QED  BY <1>3, <3>1, <3>2 DEF Before
  <2>5. CASE m < k
    <3>1. RankAt(t, p, m) < RankAt(t, r, m)
      BY <1>1, <2>1, <2>2, <2>3, <2>5
    <3>2. \A j \in 1 .. m - 1 : RankAt(t, p, j) = RankAt(t, r, j)
      BY <1>1, <2>1, <2>2, <2>5
    <3> QED  BY <1>3, <3>1, <3>2 DEF Before
  <2> QED  BY <1>1, <2>4, <2>5
<1> QED  BY <1>1, <1>2, <1>3 DEF Before

(* The directory of a prefix is the next shorter prefix.                   *)
LEMMA PrefixParent ==
  ASSUME NEW t, IsTree(t), NEW p \in DOMAIN t, NEW k \in 1 .. Len(p)
  PROVE  /\ Len(Prefix(p, k)) = k
         /\ Prefix(p, k) # Root
         /\ Parent(Prefix(p, k)) = Prefix(p, k - 1)
<1>1. p \in Seq(Nat \ {0})
  BY DEF IsTree
<1>2. /\ Prefix(p, k) \in Seq(Nat \ {0}) /\ Len(Prefix(p, k)) = k
      /\ \A i \in 1 .. k : Prefix(p, k)[i] = p[i]
  BY <1>1 DEF Prefix
<1>3. Parent(Prefix(p, k)) = Prefix(p, k - 1)
  <2>1. CASE k = 1
    BY <1>2, <2>1, SubSeqEmpty DEF Parent, Prefix
  <2>2. CASE k > 1
    <3>1. SubSeq(SubSeq(p, 1, k), 1, k - 1) = SubSeq(p, 1, k - 1)
      BY <1>1, <2>2, SubSeqOfSubSeq
    <3> QED  BY <1>2, <3>1 DEF Parent, Prefix
  <2> QED  BY <2>1, <2>2
<1> QED  BY <1>2, <1>3 DEF Root

(* Two entries differ first at siblings, whose names differ.               *)
LEMMA BeforeTotal ==
  ASSUME NEW t, IsTree(t), NEW p \in Entries(t), NEW q \in Entries(t), p # q
  PROVE  Before(t, p, q) \/ Before(t, q, p)
<1>1. /\ p \in DOMAIN t /\ p \in Seq(Nat \ {0}) /\ p # Root
      /\ q \in DOMAIN t /\ q \in Seq(Nat \ {0}) /\ q # Root
  BY DEF IsTree, Entries
<1>2. CASE Len(p) # Len(q)
  BY <1>1, <1>2 DEF Before
<1>3. CASE Len(p) = Len(q)
  <2> DEFINE K == {i \in Nat : i \in 1 .. Len(p) /\ Prefix(p, i) # Prefix(q, i)}
  <2>1. Len(p) \in K
    <3>1. Prefix(p, Len(p)) = p /\ Prefix(q, Len(q)) = q
      BY <1>1, SubSeqFull DEF Prefix
    <3>2. Len(p) \in Nat /\ Len(p) # 0
      BY <1>1 DEF Root
    <3> QED  BY <1>3, <3>1, <3>2
  <2>2. PICK k \in K : \A j \in K : ~(<<j, k>> \in OpToRel(<, Nat))
    BY <2>1, NatLessThanWellFounded, WFMin
  <2>3. \A j \in 1 .. k - 1 : Prefix(p, j) = Prefix(q, j)
    <3>1. Len(p) \in Nat /\ k \in Nat /\ k <= Len(p)
      BY <1>1
    <3>2. \A j \in K : ~(j < k)
      <4> HIDE DEF K
      <4>1. K \subseteq Nat
        BY DEF K
      <4> QED  BY <2>2, <4>1 DEF OpToRel
    <3>3. \A j \in 1 .. k - 1 : j \in Nat /\ j < k /\ j \in 1 .. Len(p)
      BY <3>1
    <3> QED  BY <3>2, <3>3
  <2>4. Prefix(p, k - 1) = Prefix(q, k - 1)
    <3>1. CASE k = 1
      BY <3>1, SubSeqEmpty DEF Prefix
    <3>2. CASE k # 1
      BY <2>3, <3>2
    <3> QED  BY <3>1, <3>2
  <2>5. RankAt(t, p, k) # RankAt(t, q, k)
    <3>1. /\ Prefix(p, k) \in DOMAIN t \ {Root}
          /\ Prefix(q, k) \in DOMAIN t \ {Root}
      BY <1>1, <1>3, RanksAreNat, PrefixParent
    <3>2. Parent(Prefix(p, k)) = Parent(Prefix(q, k))
      BY <1>1, <1>3, <2>4, PrefixParent
    <3> QED  BY <3>1, <3>2 DEF IsTree, RankAt
  <2>6. \A j \in 1 .. k - 1 : RankAt(t, p, j) = RankAt(t, q, j)
    BY <2>3 DEF RankAt
  <2>7. RankAt(t, p, k) \in Nat /\ RankAt(t, q, k) \in Nat
    BY <1>1, <1>3, RanksAreNat
  <2>8. CASE RankAt(t, p, k) < RankAt(t, q, k)
    BY <1>3, <2>6, <2>8 DEF Before
  <2>9. CASE RankAt(t, q, k) < RankAt(t, p, k)
    BY <1>3, <2>6, <2>9 DEF Before
  <2> QED  BY <2>5, <2>7, <2>8, <2>9
<1> QED  BY <1>2, <1>3
-----------------------------------------------------------------------------
(* An entry has fewer entries before it than one behind it.                *)
LEMMA PlaceIncreases ==
  ASSUME NEW t, IsTree(t), NEW p \in Entries(t), NEW q \in Entries(t),
         Before(t, p, q)
  PROVE  /\ Place(t, p) \in Nat /\ Place(t, q) \in Nat
         /\ Place(t, p) < Place(t, q)
         /\ Place(t, q) < Cardinality(Entries(t))
<1> DEFINE E == Entries(t)
           A == {r \in E : Before(t, r, p)}
           B == {r \in E : Before(t, r, q)}
<1>1. IsFiniteSet(E)
  BY FS_Subset DEF IsTree, Entries
<1>2. A \subseteq B /\ p \in B /\ p \notin A
  BY BeforeIrreflexive, BeforeTransitive
<1>3. B \subseteq E /\ q \notin B
  BY BeforeIrreflexive
<1>4. IsFiniteSet(A) /\ IsFiniteSet(B)
  BY <1>1, <1>2, <1>3, FS_Subset
<1>5. Cardinality(A) \in Nat /\ Cardinality(B) \in Nat
      /\ Cardinality(E) \in Nat
  BY <1>1, <1>4, FS_CardinalityType
<1>6. Cardinality(A) < Cardinality(B)
  BY <1>2, <1>4, <1>5, FS_Subset
<1>7. Cardinality(B) < Cardinality(E)
  BY <1>1, <1>3, <1>5, FS_Subset
<1> QED  BY <1>5, <1>6, <1>7 DEF Place

(* The place of an entry is an index of the list.                          *)
LEMMA PlaceBounds ==
  ASSUME NEW t, IsTree(t), NEW p \in Entries(t)
  PROVE  /\ Place(t, p) \in 0 .. Cardinality(Entries(t)) - 1
         /\ IsFiniteSet(Entries(t))
         /\ Cardinality(Entries(t)) \in Nat
<1> DEFINE E == Entries(t)
           A == {r \in E : Before(t, r, p)}
<1>1. IsFiniteSet(E)
  BY FS_Subset DEF IsTree, Entries
<1>2. A \subseteq E /\ p \notin A
  BY BeforeIrreflexive
<1>3. IsFiniteSet(A)
  BY <1>1, <1>2, FS_Subset
<1>4. Cardinality(A) \in Nat /\ Cardinality(E) \in Nat
  BY <1>1, <1>3, FS_CardinalityType
<1>5. Cardinality(A) < Cardinality(E)
  BY <1>1, <1>2, <1>4, FS_Subset
<1> QED  BY <1>1, <1>4, <1>5 DEF Place

(* The planner's list holds every entry, each at its place.                *)
THEOREM SortedIsOrder ==
  ASSUME NEW t, IsTree(t)
  PROVE  /\ Sorted(t) \in Seq(Entries(t))
         /\ Len(Sorted(t)) = Cardinality(Entries(t))
         /\ \A i \in 1 .. Len(Sorted(t)) : Place(t, Sorted(t)[i]) = i - 1
         /\ \A p \in Entries(t) : Sorted(t)[Place(t, p) + 1] = p
<1> DEFINE E == Entries(t)
           n == Cardinality(E)
           f == [p \in E |-> Place(t, p)]
<1>1. IsFiniteSet(E) /\ n \in Nat
  <2>1. IsFiniteSet(E)
    BY FS_Subset DEF IsTree, Entries
  <2> QED  BY <2>1, FS_CardinalityType
<1>2. IsFiniteSet(0 .. n - 1) /\ Cardinality(0 .. n - 1) = n
  <2>1. 0 \in Int /\ n - 1 \in Int
    BY <1>1
  <2> QED  BY <1>1, <2>1, FS_Interval
<1>3. \A p, q \in E : Place(t, p) = Place(t, q) => p = q
  BY BeforeTotal, PlaceIncreases
<1>4. f \in Injection(E, 0 .. n - 1)
  BY <1>3, PlaceBounds DEF Injection, IsInjective
<1>5. f \in Surjection(E, 0 .. n - 1)
  <2> HIDE DEF f, E, n
  <2> QED  BY <1>1, <1>2, <1>4, FS_Injection DEF n
<1>6. \A i \in 1 .. n : \E p \in E : Place(t, p) = i - 1
  <2> SUFFICES ASSUME NEW i \in 1 .. n
               PROVE  \E p \in E : f[p] = i - 1
    OBVIOUS
  <2>1. i - 1 \in 0 .. n - 1
    BY <1>1
  <2> HIDE DEF f, n
  <2> QED  BY <1>5, <2>1 DEF Surjection
<1>7. \A i \in 1 .. n : Sorted(t)[i] \in E /\ Place(t, Sorted(t)[i]) = i - 1
  BY <1>6 DEF Sorted
<1>8. Sorted(t) \in Seq(E) /\ Len(Sorted(t)) = n
  <2>1. Sorted(t) \in [1 .. n -> E]
    BY <1>7 DEF Sorted
  <2> HIDE DEF n, E
  <2> QED  BY <1>1, <2>1
<1>9. \A p \in E : Sorted(t)[Place(t, p) + 1] = p
  <2> TAKE p \in E
  <2>1. Place(t, p) + 1 \in 1 .. n /\ Place(t, p) \in Nat
    BY <1>1, PlaceBounds
  <2> QED  BY <1>3, <1>7, <2>1
<1> QED  BY <1>7, <1>8, <1>9

-----------------------------------------------------------------------------
(* Filtering a list.  The recursion of Kept on the first m elements        *)
IsKept(s, S, m, g) ==
  g = [i \in 0 .. m |->
         IF i = 0 THEN <<>>
         ELSE IF s[i] \in S THEN Append(g[i - 1], s[i]) ELSE g[i - 1]]

(* it has a value on every prefix of the list,                             *)
LEMMA KeptSolvable ==
  ASSUME NEW A, NEW s \in Seq(A), NEW S, NEW m \in 0 .. Len(s)
  PROVE  \E g : IsKept(s, S, m, g)
<1> DEFINE Good(n) == \E g : IsKept(s, S, n, g)
           Bad == {n \in Nat : n <= Len(s) /\ ~Good(n)}
<1> SUFFICES ASSUME Bad # {} PROVE FALSE
  <2>1. m \in Nat /\ m <= Len(s)
    OBVIOUS
  <2> HIDE DEF Good
  <2> QED BY <2>1 DEF Good
<1>1. PICK n \in Bad : \A j \in Bad : n <= j
  <2> Bad \in SUBSET Nat
    OBVIOUS
  <2> HIDE DEF Bad
  <2> QED BY SmallestNat
<1>2. n \in Nat /\ n <= Len(s) /\ ~Good(n)
  <2> HIDE DEF Good
  <2> QED BY <1>1
<1>3. CASE n = 0
  <2> DEFINE g == [i \in 0 .. 0 |-> <<>>]
  <2>1. g = [i \in 0 .. 0 |->
              IF i = 0 THEN <<>>
              ELSE IF s[i] \in S THEN Append(g[i - 1], s[i]) ELSE g[i - 1]]
    OBVIOUS
  <2> HIDE DEF g
  <2>2. Good(0) BY <2>1 DEF IsKept
  <2> HIDE DEF Good
  <2> QED BY <1>2, <1>3, <2>2
<1>4. CASE n # 0
  <2>1. n - 1 \in Nat /\ n - 1 <= Len(s) /\ n - 1 < n BY <1>2, <1>4
  <2>2. Good(n - 1)
    <3> HIDE DEF Good
    <3> QED BY <1>1, <1>2, <2>1
  <2>3. PICK g : IsKept(s, S, n - 1, g) BY <2>2
  <2> DEFINE last == IF s[n] \in S THEN Append(g[n - 1], s[n]) ELSE g[n - 1]
             h == [i \in 0 .. n |-> IF i = n THEN last ELSE g[i]]
  <2>4. \A i \in 0 .. n - 1 : i \in 0 .. n /\ h[i] = g[i] BY <1>2
  <2>5. h = [i \in 0 .. n |->
              IF i = 0 THEN <<>>
              ELSE IF s[i] \in S THEN Append(h[i - 1], s[i]) ELSE h[i - 1]]
    <3> SUFFICES ASSUME NEW i \in 0 .. n
                 PROVE  h[i] = IF i = 0 THEN <<>>
                               ELSE IF s[i] \in S THEN Append(h[i - 1], s[i])
                                    ELSE h[i - 1]
      OBVIOUS
    <3>1. CASE i = n
      <4>1. n - 1 \in 0 .. n - 1 BY <2>1
      <4>2. h[n - 1] = g[n - 1]
        <5> HIDE DEF h
        <5> QED BY <2>4, <4>1
      <4>3. h[n] = last BY <1>2
      <4> HIDE DEF h
      <4> QED BY <1>4, <3>1, <4>2, <4>3
    <3>2. CASE i # n
      <4>1. i \in 0 .. n - 1 BY <1>2, <3>2
      <4>2. g[i] = IF i = 0 THEN <<>>
                   ELSE IF s[i] \in S THEN Append(g[i - 1], s[i]) ELSE g[i - 1]
        BY <2>3, <4>1 DEF IsKept
      <4>3. h[i] = g[i]
        <5> HIDE DEF h
        <5> QED BY <2>4, <4>1
      <4>4. i # 0 => h[i - 1] = g[i - 1]
        <5>1. i # 0 => i - 1 \in 0 .. n - 1 BY <1>2, <4>1
        <5> HIDE DEF h
        <5> QED BY <2>4, <5>1
      <4> HIDE DEF h
      <4> QED BY <4>2, <4>3, <4>4
    <3> QED BY <3>1, <3>2
  <2>6. IsKept(s, S, n, h)
    <3> HIDE DEF h
    <3> QED BY <2>5 DEF IsKept
  <2>7. Good(n)
    <3> HIDE DEF h
    <3> QED BY <2>6
  <2> HIDE DEF Good
  <2> QED BY <1>2, <2>7
<1> QED BY <1>3, <1>4

(* so Kept is computed by its equations.                                   *)
LEMMA KeptEquations ==
  ASSUME NEW A, NEW s \in Seq(A), NEW S
  PROVE  /\ Kept(s, S, 0) = <<>>
         /\ \A n \in Nat : n < Len(s) =>
              Kept(s, S, n + 1) = IF s[n + 1] \in S
                                    THEN Append(Kept(s, S, n), s[n + 1])
                                    ELSE Kept(s, S, n)
<1> DEFINE kept == CHOOSE g : IsKept(s, S, Len(s), g)
<1>1. Len(s) \in Nat /\ Len(s) \in 0 .. Len(s)
  OBVIOUS
<1>2. IsKept(s, S, Len(s), kept)
  <2>1. \E g : IsKept(s, S, Len(s), g) BY <1>1, KeptSolvable
  <2> QED BY <2>1
<1>3. \A n : Kept(s, S, n) = kept[n] BY DEF Kept, IsKept
<1> HIDE DEF kept
<1>4. kept[0] = <<>> BY <1>1, <1>2 DEF IsKept
<1>5. ASSUME NEW n \in Nat, n < Len(s)
      PROVE  kept[n + 1] = IF s[n + 1] \in S THEN Append(kept[n], s[n + 1])
                                             ELSE kept[n]
  <2>1. n + 1 \in 0 .. Len(s) /\ n + 1 # 0 /\ (n + 1) - 1 = n
    BY <1>1, <1>5
  <2> DEFINE k == n + 1
  <2>2. kept[k] = IF k = 0 THEN <<>>
                  ELSE IF s[k] \in S THEN Append(kept[k - 1], s[k])
                       ELSE kept[k - 1]
    <3>1. k \in 0 .. Len(s) BY <2>1
    <3> HIDE DEF k
    <3> QED BY <1>2, <3>1 DEF IsKept
  <2> QED BY <2>1, <2>2
<1> QED BY <1>3, <1>4, <1>5

(* Nothing is kept of nothing,                                            *)
LEMMA KeptStart ==
  ASSUME NEW A, NEW s \in Seq(A), NEW S PROVE Kept(s, S, 0) = <<>>
BY KeptEquations

(* and the next element is appended if it is in S.                         *)
LEMMA KeptStep ==
  ASSUME NEW A, NEW s \in Seq(A), NEW S, NEW n \in Nat, n < Len(s)
  PROVE  Kept(s, S, n + 1) = IF s[n + 1] \in S
                               THEN Append(Kept(s, S, n), s[n + 1])
                               ELSE Kept(s, S, n)
<1>1. \A i \in Nat : i < Len(s) =>
        Kept(s, S, i + 1) = IF s[i + 1] \in S
                              THEN Append(Kept(s, S, i), s[i + 1])
                              ELSE Kept(s, S, i)
  BY ONLY s \in Seq(A), KeptEquations, ZenonT(30)
<1> QED BY <1>1

(* The list kept of the first n elements holds those of them in S,         *)
LEMMA KeptElements ==
  ASSUME NEW A, NEW s \in Seq(A), NEW S, NEW m \in 0 .. Len(s)
  PROVE  /\ Kept(s, S, m) \in Seq(A)
         /\ Len(Kept(s, S, m)) <= m
         /\ \A k \in 1 .. Len(Kept(s, S, m)) :
              Kept(s, S, m)[k] \in S /\ \E i \in 1 .. m : Kept(s, S, m)[k] = s[i]
         /\ \A i \in 1 .. m : s[i] \in S =>
              \E k \in 1 .. Len(Kept(s, S, m)) : Kept(s, S, m)[k] = s[i]
<1> DEFINE Good(n) ==
             /\ Kept(s, S, n) \in Seq(A)
             /\ Len(Kept(s, S, n)) <= n
             /\ \A k \in 1 .. Len(Kept(s, S, n)) :
                  Kept(s, S, n)[k] \in S /\ \E i \in 1 .. n : Kept(s, S, n)[k] = s[i]
             /\ \A i \in 1 .. n : s[i] \in S =>
                  \E k \in 1 .. Len(Kept(s, S, n)) : Kept(s, S, n)[k] = s[i]
           N == {n \in Nat : Good(n)}
<1>1. 0 \in N
  <2>1. Kept(s, S, 0) = <<>> BY KeptStart
  <2>2. <<>> \in Seq(A) /\ Len(<<>>) = 0
    OBVIOUS
  <2>3. \A k \in 1 .. 0 : FALSE
    OBVIOUS
  <2> DEFINE K == Kept(s, S, 0)
  <2>4. K \in Seq(A) /\ Len(K) = 0 BY <2>1, <2>2
  <2> HIDE DEF K, N
  <2>5. /\ K \in Seq(A) /\ Len(K) <= 0
        /\ \A k \in 1 .. Len(K) : K[k] \in S /\ \E i \in 1 .. 0 : K[k] = s[i]
        /\ \A i \in 1 .. 0 : s[i] \in S => \E k \in 1 .. Len(K) : K[k] = s[i]
    BY <2>3, <2>4
  <2>6. Good(0) BY <2>5 DEF K
  <2> QED BY <2>6 DEF N
<1>2. ASSUME NEW n \in Nat, n < Len(s), n \in N
      PROVE  n + 1 \in N
  <2> DEFINE K == Kept(s, S, n)
             M == Kept(s, S, n + 1)
  <2>1. Good(n) BY <1>2
  <2>2. M = IF s[n + 1] \in S THEN Append(K, s[n + 1]) ELSE K
    <3>1. n < Len(s) BY <1>2
    <3> HIDE DEF Good, N
    <3> QED BY <3>1, KeptStep
  <2>3. s[n + 1] \in A BY <1>2
  <2>4. /\ K \in Seq(A) /\ Len(K) <= n
        /\ \A k \in 1 .. Len(K) : K[k] \in S /\ \E i \in 1 .. n : K[k] = s[i]
        /\ \A i \in 1 .. n : s[i] \in S => \E k \in 1 .. Len(K) : K[k] = s[i]
    BY <2>1
  <2> HIDE DEF K, M, Good
  <2>5. CASE s[n + 1] \in S
    <3>1. M \in Seq(A) /\ Len(M) = Len(K) + 1 /\ M[Len(K) + 1] = s[n + 1]
          /\ \A k \in 1 .. Len(K) : M[k] = K[k]
      BY <2>2, <2>3, <2>4, <2>5
    <3>2. Len(K) \in Nat BY <2>4
    <3>3. ASSUME NEW k \in 1 .. Len(M)
          PROVE  M[k] \in S /\ \E i \in 1 .. n + 1 : M[k] = s[i]
      <4>1. CASE k = Len(K) + 1 BY <2>5, <3>1, <4>1
      <4>2. CASE k \in 1 .. Len(K)
        <5>1. M[k] \in S BY <2>4, <3>1, <4>2
        <5>2. PICK i \in 1 .. n : M[k] = s[i] BY <2>4, <3>1, <4>2
        <5> QED BY <5>1, <5>2
      <4> QED BY <3>1, <3>2, <4>1, <4>2
    <3>4. ASSUME NEW i \in 1 .. n + 1, s[i] \in S
          PROVE  \E k \in 1 .. Len(M) : M[k] = s[i]
      <4>1. CASE i = n + 1
        <5>1. Len(K) + 1 \in 1 .. Len(M) BY <3>1, <3>2
        <5> QED BY <3>1, <4>1, <5>1
      <4>2. CASE i \in 1 .. n
        <5>1. PICK k \in 1 .. Len(K) : K[k] = s[i] BY <2>4, <3>4, <4>2
        <5>2. k \in 1 .. Len(M) BY <3>1, <3>2
        <5> QED BY <3>1, <5>1, <5>2
      <4> QED BY <4>1, <4>2
    <3>5. Len(M) <= n + 1 BY <2>4, <3>1, <3>2
    <3> QED BY <3>1, <3>3, <3>4, <3>5 DEF Good, M
  <2>6. CASE s[n + 1] \notin S
    <3>1. M = K BY <2>2, <2>6
    <3>2. ASSUME NEW k \in 1 .. Len(K)
          PROVE  M[k] \in S /\ \E i \in 1 .. n + 1 : M[k] = s[i]
      BY <2>4, <3>1
    <3>3. ASSUME NEW i \in 1 .. n + 1, s[i] \in S
          PROVE  \E k \in 1 .. Len(K) : M[k] = s[i]
      BY <2>4, <2>6, <3>1, <3>3
    <3>4. Len(K) \in Nat BY <2>4
    <3> QED BY <2>4, <3>1, <3>2, <3>3, <3>4 DEF Good, M
  <2> QED BY <2>5, <2>6
<1>3. N \in SUBSET Nat
  OBVIOUS
<1>4. Len(s) \in Nat
  OBVIOUS
<1> HIDE DEF N
<1>5. m \in N BY <1>1, <1>2, <1>3, <1>4, Upwards
<1> QED BY <1>5 DEF N

(* once each if the list has no repetitions;                               *)
LEMMA KeptOnce ==
  ASSUME NEW A, NEW s \in Seq(A), NEW S, NEW m \in 0 .. Len(s),
         \A i, j \in 1 .. Len(s) : s[i] = s[j] => i = j
  PROVE  \A i, j \in 1 .. Len(Kept(s, S, m)) :
           Kept(s, S, m)[i] = Kept(s, S, m)[j] => i = j
<1> DEFINE Good(n) ==
             \A i, j \in 1 .. Len(Kept(s, S, n)) :
               Kept(s, S, n)[i] = Kept(s, S, n)[j] => i = j
           N == {n \in Nat : Good(n)}
<1>1. 0 \in N
  <2>1. Kept(s, S, 0) = <<>> BY KeptStart
  <2> QED BY <2>1
<1>2. ASSUME NEW n \in Nat, n < Len(s), n \in N
      PROVE  n + 1 \in N
  <2> DEFINE K == Kept(s, S, n)
             M == Kept(s, S, n + 1)
  <2>1. \A i, j \in 1 .. Len(K) : K[i] = K[j] => i = j BY <1>2
  <2>2. M = IF s[n + 1] \in S THEN Append(K, s[n + 1]) ELSE K
    <3>1. n < Len(s) BY <1>2
    <3> HIDE DEF Good, N
    <3> QED BY <3>1, KeptStep
  <2>3. /\ K \in Seq(A)
        /\ \A k \in 1 .. Len(K) : \E i \in 1 .. n : K[k] = s[i]
    <3>1. n \in 0 .. Len(s) /\ s \in Seq(A) BY <1>2
    <3> HIDE DEF Good, N, M
    <3> QED BY ONLY <3>1, KeptElements
  <2>4. \A k \in 1 .. Len(K) : K[k] # s[n + 1]
    <3>1. \A i \in 1 .. n : i \in 1 .. Len(s) /\ i # n + 1 BY <1>2
    <3>2. n + 1 \in 1 .. Len(s) BY <1>2
    <3> HIDE DEF K
    <3> QED BY <2>3, <3>1, <3>2
  <2>5. s[n + 1] \in A BY <1>2
  <2> HIDE DEF K, M
  <2>6. \A i, j \in 1 .. Len(M) : M[i] = M[j] => i = j
    <3>1. CASE s[n + 1] \notin S BY <2>1, <2>2, <3>1
    <3>2. CASE s[n + 1] \in S
      <4>1. Len(M) = Len(K) + 1 /\ M[Len(K) + 1] = s[n + 1]
            /\ \A k \in 1 .. Len(K) : M[k] = K[k]
        BY <2>2, <2>3, <2>5, <3>2
      <4>2. Len(K) \in Nat BY <2>3
      <4>3. \A i \in 1 .. Len(M) : i = Len(K) + 1 \/ i \in 1 .. Len(K)
        BY <4>1, <4>2
      <4> QED BY <2>1, <2>4, <4>1, <4>3
    <3> QED BY <3>1, <3>2
  <2>7. Good(n + 1) BY <2>6 DEF M
  <2> QED BY <2>7
<1>3. N \in SUBSET Nat
  OBVIOUS
<1>4. Len(s) \in Nat
  OBVIOUS
<1> HIDE DEF N
<1>5. m \in N BY <1>1, <1>2, <1>3, <1>4, Upwards
<1> QED BY <1>5 DEF N

(* it begins the list kept of all.                                         *)
LEMMA KeptBegins ==
  ASSUME NEW A, NEW s \in Seq(A), NEW S, NEW n \in 0 .. Len(s)
  PROVE  /\ Len(Kept(s, S, n)) <= Len(Kept(s, S, Len(s)))
         /\ \A k \in 1 .. Len(Kept(s, S, n)) :
              Kept(s, S, Len(s))[k] = Kept(s, S, n)[k]
<1> DEFINE K == Kept(s, S, n)
           Good(m) == /\ Len(K) <= Len(Kept(s, S, n + m))
                      /\ \A k \in 1 .. Len(K) : Kept(s, S, n + m)[k] = K[k]
           N == {m \in Nat : Good(m)}
           b == Len(s) - n
<1>1. K \in Seq(A) /\ Len(K) \in Nat /\ n \in Nat /\ Len(s) \in Nat /\ b \in Nat
  BY KeptElements
<1>2. 0 \in N
  <2>1. n + 0 = n
    OBVIOUS
  <2>2. Good(0) BY <1>1, <2>1
  <2> QED BY <2>2
<1>3. ASSUME NEW m \in Nat, m < b, m \in N
      PROVE  m + 1 \in N
  <2> DEFINE M == Kept(s, S, n + m)
             P == Kept(s, S, n + (m + 1))
  <2>1. n + m \in Nat /\ n + m < Len(s) /\ n + (m + 1) = (n + m) + 1
    BY <1>1, <1>3
  <2>2. P = IF s[(n + m) + 1] \in S THEN Append(M, s[(n + m) + 1]) ELSE M
    <3> DEFINE i == n + m
    <3>1. i \in Nat /\ i < Len(s) BY <2>1
    <3>2. Kept(s, S, i + 1) = IF s[i + 1] \in S
                                THEN Append(Kept(s, S, i), s[i + 1])
                                ELSE Kept(s, S, i)
      <4> HIDE DEF i, Good, N, K, M, P, b
      <4> QED BY <3>1, KeptStep
    <3> QED BY <2>1, <3>2
  <2>3. M \in Seq(A) /\ s[(n + m) + 1] \in A
    <3>1. n + m \in 0 .. Len(s) BY <2>1
    <3>2. s[(n + m) + 1] \in A BY <2>1
    <3> QED BY <3>1, <3>2, KeptElements
  <2>4. Len(K) <= Len(M) /\ \A k \in 1 .. Len(K) : M[k] = K[k]
    BY <1>3
  <2> HIDE DEF M, P, K
  <2>5. Len(K) <= Len(P) /\ \A k \in 1 .. Len(K) : P[k] = K[k]
    <3>1. Len(M) \in Nat BY <2>3
    <3>2. Len(M) <= Len(P) /\ \A k \in 1 .. Len(M) : P[k] = M[k]
      BY <2>2, <2>3
    <3>3. \A k \in 1 .. Len(K) : k \in 1 .. Len(M) BY <1>1, <2>4, <3>1
    <3>4. Len(P) \in Nat BY <2>2, <2>3
    <3> QED BY <1>1, <2>4, <3>1, <3>2, <3>3, <3>4
  <2>6. Good(m + 1) BY <2>5 DEF P
  <2> QED BY <2>6
<1>4. N \in SUBSET Nat
  OBVIOUS
<1>5. b \in 0 .. b /\ n + b = Len(s) BY <1>1
<1> HIDE DEF N, b, K
<1>6. b \in N BY <1>1, <1>2, <1>3, <1>4, <1>5, Upwards
<1>7. Good(b) BY <1>6 DEF N
<1> QED BY <1>5, <1>7 DEF K

(* The next element of the list is the next of those kept, or is not kept. *)
LEMMA KeptNext ==
  ASSUME NEW A, NEW s \in Seq(A), NEW S, NEW n \in Nat, n < Len(s)
  PROVE  LET K == Kept(s, S, Len(s))
             k == Len(Kept(s, S, n))
         IN  /\ k \in Nat
             /\ s[n + 1] \in S => /\ Len(Kept(s, S, n + 1)) = k + 1
                                  /\ k + 1 <= Len(K)
                                  /\ K[k + 1] = s[n + 1]
             /\ s[n + 1] \notin S => Len(Kept(s, S, n + 1)) = k
<1>1. n \in 0 .. Len(s) /\ n + 1 \in 0 .. Len(s) /\ s[n + 1] \in A
  OBVIOUS
<1>2. Kept(s, S, n) \in Seq(A) BY <1>1, KeptElements
<1>3. Kept(s, S, n + 1) = IF s[n + 1] \in S
                            THEN Append(Kept(s, S, n), s[n + 1])
                            ELSE Kept(s, S, n)
  BY KeptStep
<1>4. /\ Len(Kept(s, S, n + 1)) <= Len(Kept(s, S, Len(s)))
      /\ \A k \in 1 .. Len(Kept(s, S, n + 1)) :
           Kept(s, S, Len(s))[k] = Kept(s, S, n + 1)[k]
  <2> DEFINE m == n + 1
  <2>1. m \in 0 .. Len(s) BY <1>1
  <2> HIDE DEF m
  <2>2. /\ Len(Kept(s, S, m)) <= Len(Kept(s, S, Len(s)))
        /\ \A k \in 1 .. Len(Kept(s, S, m)) :
             Kept(s, S, Len(s))[k] = Kept(s, S, m)[k]
    BY <2>1, KeptBegins
  <2> QED BY <2>2 DEF m
<1> DEFINE K == Kept(s, S, n)
           M == Kept(s, S, n + 1)
           L == Kept(s, S, Len(s))
<1> SUFFICES /\ Len(K) \in Nat
             /\ s[n + 1] \in S => /\ Len(M) = Len(K) + 1
                                  /\ Len(K) + 1 <= Len(L)
                                  /\ L[Len(K) + 1] = s[n + 1]
             /\ s[n + 1] \notin S => Len(M) = Len(K)
  OBVIOUS
<1>5. /\ K \in Seq(A)
      /\ M = IF s[n + 1] \in S THEN Append(K, s[n + 1]) ELSE K
      /\ Len(M) <= Len(L) /\ \A k \in 1 .. Len(M) : L[k] = M[k]
  BY <1>2, <1>3, <1>4
<1> HIDE DEF K, M, L
<1>6. Len(K) \in Nat BY <1>5
<1>7. CASE s[n + 1] \in S
  <2>1. M = Append(K, s[n + 1]) BY <1>5, <1>7
  <2>2. Len(M) = Len(K) + 1 /\ M[Len(K) + 1] = s[n + 1] BY <1>5, <2>1
  <2>3. Len(K) + 1 \in 1 .. Len(M) BY <1>6, <2>2
  <2> QED BY <1>5, <1>6, <1>7, <2>2, <2>3
<1> QED BY <1>5, <1>6, <1>7

(* Elements that a list holds in ascending places are kept in that order.  *)
LEMMA KeptAscends ==
  ASSUME NEW A, NEW s \in Seq(A), NEW S, NEW m \in 0 .. Len(s), NEW f,
         \A i \in 1 .. Len(s) : f[s[i]] = i - 1
  PROVE  \A i, j \in 1 .. Len(Kept(s, S, m)) :
           i < j => f[Kept(s, S, m)[i]] < f[Kept(s, S, m)[j]]
<1> DEFINE Good(n) ==
             \A i, j \in 1 .. Len(Kept(s, S, n)) :
               i < j => f[Kept(s, S, n)[i]] < f[Kept(s, S, n)[j]]
           N == {n \in Nat : Good(n)}
<1>1. 0 \in N
  <2>1. Kept(s, S, 0) = <<>>
    BY KeptStart
  <2> QED  BY <2>1
<1>2. ASSUME NEW n \in Nat, n < Len(s), n \in N
      PROVE  n + 1 \in N
  <2> DEFINE K == Kept(s, S, n)
             M == Kept(s, S, n + 1)
  <2>1. \A i, j \in 1 .. Len(K) : i < j => f[K[i]] < f[K[j]]
    BY <1>2
  <2>2. M = IF s[n + 1] \in S THEN Append(K, s[n + 1]) ELSE K
    <3>1. n < Len(s)
      BY <1>2
    <3> HIDE DEF Good, N
    <3> QED  BY <3>1, KeptStep
  <2>3. /\ K \in Seq(A)
        /\ \A k \in 1 .. Len(K) : \E i \in 1 .. n : K[k] = s[i]
    <3>1. n \in 0 .. Len(s)
      BY <1>2
    <3> QED  BY <3>1, KeptElements
  <2>4. ASSUME NEW k \in 1 .. Len(K)
        PROVE  f[K[k]] < f[s[n + 1]]
    <3>1. PICK i \in 1 .. n : K[k] = s[i]
      BY <2>3
    <3>2. i \in 1 .. Len(s) /\ n + 1 \in 1 .. Len(s)
      BY <1>2
    <3>3. f[s[i]] = i - 1 /\ f[s[n + 1]] = (n + 1) - 1
      BY <3>2
    <3> HIDE DEF K
    <3> QED  BY <3>1, <3>3
  <2>5. s[n + 1] \in A
    BY <1>2
  <2> HIDE DEF K, M
  <2>6. \A i, j \in 1 .. Len(M) : i < j => f[M[i]] < f[M[j]]
    <3>1. CASE s[n + 1] \notin S
      BY <2>1, <2>2, <3>1
    <3>2. CASE s[n + 1] \in S
      <4>1. Len(M) = Len(K) + 1 /\ M[Len(K) + 1] = s[n + 1]
            /\ \A k \in 1 .. Len(K) : M[k] = K[k]
        BY <2>2, <2>3, <2>5, <3>2
      <4>2. Len(K) \in Nat
        BY <2>3
      <4>3. ASSUME NEW i \in 1 .. Len(M), NEW j \in 1 .. Len(M), i < j
            PROVE  f[M[i]] < f[M[j]]
        <5>1. i \in 1 .. Len(K) /\ M[i] = K[i]
          BY <4>1, <4>2, <4>3
        <5>2. CASE j = Len(K) + 1
          BY <2>4, <4>1, <5>1, <5>2
        <5>3. CASE j # Len(K) + 1
          <6>1. j \in 1 .. Len(K) /\ M[j] = K[j]
            BY <4>1, <4>2, <5>3
          <6> QED  BY <2>1, <4>3, <5>1, <6>1
        <5> QED  BY <5>2, <5>3
      <4> QED  BY <4>3
    <3> QED  BY <3>1, <3>2
  <2>7. Good(n + 1)
    BY <2>6 DEF M
  <2> QED  BY <2>7
<1>3. N \in SUBSET Nat
  OBVIOUS
<1>4. Len(s) \in Nat
  OBVIOUS
<1> HIDE DEF N
<1>5. m \in N
  BY <1>1, <1>2, <1>3, <1>4, Upwards
<1> QED  BY <1>5 DEF N

-----------------------------------------------------------------------------
(* The nodes of S in the planner's order.                                  *)
InOrder(t, S) == Kept(Sorted(t), S, Len(Sorted(t)))

(* The planner's list has no node twice.                                   *)
LEMMA SortedOnce ==
  ASSUME NEW t, IsTree(t)
  PROVE  \A i, j \in 1 .. Len(Sorted(t)) : Sorted(t)[i] = Sorted(t)[j] => i = j
<1>1. /\ Len(Sorted(t)) \in Nat
      /\ \A i \in 1 .. Len(Sorted(t)) : Place(t, Sorted(t)[i]) = i - 1
  BY SortedIsOrder
<1> QED  BY <1>1

(* A list without repetitions is as long as the set of its elements.       *)
LEMMA LengthOfOnce ==
  ASSUME NEW S, IsFiniteSet(S), NEW s \in Seq(S),
         \A i, j \in 1 .. Len(s) : s[i] = s[j] => i = j,
         \A x \in S : \E i \in 1 .. Len(s) : s[i] = x
  PROVE  Len(s) = Cardinality(S)
<1> DEFINE n == Len(s)
           I == 1 .. n
<1>1. n \in Nat /\ IsFiniteSet(I) /\ Cardinality(I) = n
  <2>1. n \in Nat
    OBVIOUS
  <2>2. IsFiniteSet(1 .. n) /\ Cardinality(1 .. n) = n
    <3> HIDE DEF n
    <3>1. 1 \in Int /\ n \in Int
      BY <2>1
    <3> QED  BY <2>1, <3>1, FS_Interval
  <2> QED  BY <2>1, <2>2
<1>2. s \in Surjection(I, S) /\ s \in Injection(I, S)
  BY SMTT(30) DEF Surjection, Injection, IsInjective
<1>3. Cardinality(S) = Cardinality(I)
  <2> HIDE DEF n, I
  <2> QED  BY <1>1, <1>2, FS_Surjection
<1> QED  BY <1>1, <1>3

(* They are those of S but for the root, once each.                        *)
LEMMA OrderedNodes ==
  ASSUME NEW t, IsTree(t), NEW S, S \subseteq DOMAIN t
  PROVE  /\ InOrder(t, S) \in Seq(S \ {Root})
         /\ Len(InOrder(t, S)) = Cardinality(S \ {Root})
         /\ \A i, j \in 1 .. Len(InOrder(t, S)) :
              InOrder(t, S)[i] = InOrder(t, S)[j] => i = j
         /\ \A p \in S \ {Root} :
              \E i \in 1 .. Len(InOrder(t, S)) : InOrder(t, S)[i] = p
<1> DEFINE s == Sorted(t)
           K == InOrder(t, S)
           N == S \ {Root}
           E == Entries(t)
<1>1. /\ s \in Seq(E) /\ Len(s) \in Nat /\ Len(s) \in 0 .. Len(s)
      /\ \A i \in 1 .. Len(s) : Place(t, s[i]) = i - 1
      /\ \A p \in E : s[Place(t, p) + 1] = p
      /\ Len(s) = Cardinality(E)
  <2>1. /\ s \in Seq(E)
        /\ \A i \in 1 .. Len(s) : Place(t, s[i]) = i - 1
        /\ \A p \in E : s[Place(t, p) + 1] = p
        /\ Len(s) = Cardinality(E)
    BY SortedIsOrder
  <2>2. Len(s) \in Nat
    BY <2>1
  <2> QED  BY <2>1, <2>2
<1>2. \A p \in E : Place(t, p) \in Nat /\ Place(t, p) + 1 \in 1 .. Len(s)
  BY <1>1, PlaceBounds
<1> HIDE DEF E
<1>3. /\ K \in Seq(E)
      /\ \A k \in 1 .. Len(K) : K[k] \in S
      /\ \A i \in 1 .. Len(s) : s[i] \in S =>
           \E k \in 1 .. Len(K) : K[k] = s[i]
  <2> HIDE DEF s, K, N
  <2>0. s \in Seq(E) /\ Len(s) \in 0 .. Len(s)
    BY <1>1
  <2>1. /\ Kept(s, S, Len(s)) \in Seq(E)
        /\ \A k \in 1 .. Len(Kept(s, S, Len(s))) : Kept(s, S, Len(s))[k] \in S
        /\ \A i \in 1 .. Len(s) : s[i] \in S =>
             \E k \in 1 .. Len(Kept(s, S, Len(s))) : Kept(s, S, Len(s))[k] = s[i]
    BY <2>0, KeptElements, SMTT(30)
  <2>2. K = Kept(s, S, Len(s))
    BY DEF InOrder, K, s
  <2> QED  BY <2>1, <2>2
<1>4. \A i, j \in 1 .. Len(K) : K[i] = K[j] => i = j
  <2>1. \A i, j \in 1 .. Len(s) : s[i] = s[j] => i = j
    BY SortedOnce
  <2> HIDE DEF s
  <2>2. \A i, j \in 1 .. Len(Kept(s, S, Len(s))) :
          Kept(s, S, Len(s))[i] = Kept(s, S, Len(s))[j] => i = j
    BY <1>1, <2>1, KeptOnce
  <2> QED  BY <2>2 DEF InOrder, s
<1> HIDE DEF K, s
<1>5. K \in Seq(N)
  <2>1. \A k \in 1 .. Len(K) : K[k] \in N
    BY <1>3 DEF E, Entries
  <2> QED  BY <1>3, <2>1
<1>6. \A p \in N : \E k \in 1 .. Len(K) : K[k] = p
  <2> TAKE p \in N
  <2>1. p \in E
    BY DEF E, Entries
  <2>2. Place(t, p) + 1 \in 1 .. Len(s) /\ s[Place(t, p) + 1] = p
    BY <1>1, <1>2, <2>1
  <2> QED  BY <1>3, <2>2
<1>7. IsFiniteSet(N)
  BY FS_Subset DEF IsTree
<1>8. Len(K) = Cardinality(N)
  <2> HIDE DEF N
  <2> QED  BY <1>4, <1>5, <1>6, <1>7, LengthOfOnce
<1> QED  BY <1>4, <1>5, <1>6, <1>8 DEF K, N

(* and each is before those behind it.                                     *)
LEMMA OrderedBefore ==
  ASSUME NEW t, IsTree(t), NEW S, S \subseteq DOMAIN t,
         NEW i \in 1 .. Len(InOrder(t, S)), NEW j \in 1 .. Len(InOrder(t, S)),
         i < j
  PROVE  Before(t, InOrder(t, S)[i], InOrder(t, S)[j])
<1> DEFINE s == Sorted(t)
           f == [p \in Entries(t) |-> Place(t, p)]
<1>1. /\ s \in Seq(Entries(t)) /\ Len(s) \in 0 .. Len(s)
      /\ \A k \in 1 .. Len(s) : f[s[k]] = k - 1
  <2>1. /\ s \in Seq(Entries(t))
        /\ \A k \in 1 .. Len(s) : Place(t, s[k]) = k - 1
    BY SortedIsOrder
  <2>2. Len(s) \in Nat /\ \A k \in 1 .. Len(s) : s[k] \in Entries(t)
    BY <2>1
  <2> QED  BY <2>1, <2>2
<1>2. f[InOrder(t, S)[i]] < f[InOrder(t, S)[j]]
  <2> HIDE DEF s, f
  <2>1. \A k, m \in 1 .. Len(Kept(s, S, Len(s))) :
          k < m => f[Kept(s, S, Len(s))[k]] < f[Kept(s, S, Len(s))[m]]
    BY <1>1, KeptAscends
  <2> QED  BY <2>1 DEF InOrder, s
<1>3. InOrder(t, S)[i] \in Entries(t) /\ InOrder(t, S)[j] \in Entries(t)
  <2>1. InOrder(t, S) \in Seq(S \ {Root})
    BY OrderedNodes
  <2> QED  BY <2>1 DEF Entries
<1> DEFINE p == InOrder(t, S)[i]
           q == InOrder(t, S)[j]
<1>4. Place(t, p) < Place(t, q) /\ p \in Entries(t) /\ q \in Entries(t)
  BY <1>2, <1>3
<1> HIDE DEF p, q, f, s
<1>5. Place(t, p) \in Nat /\ Place(t, q) \in Nat
  BY <1>4, PlaceBounds
<1>6. p # q /\ ~Before(t, q, p)
  BY <1>4, <1>5, PlaceIncreases
<1>7. Before(t, p, q)
  BY <1>4, <1>6, BeforeTotal
<1> QED  BY <1>7 DEF p, q

(* The directories, the root first, and the files, as write_sectors goes   *)
(* through them.                                                           *)
DirOrder(t) == <<Root>> \o InOrder(t, Directories(t))
FileOrder(t) == InOrder(t, PlainFiles(t))

(* Every directory is in its list once,                                    *)
LEMMA DirectoriesInOrder ==
  ASSUME NEW t, IsTree(t)
  PROVE  /\ DirOrder(t) \in Seq(Directories(t))
         /\ Len(DirOrder(t)) = DirAmount(t) + 1
         /\ DirOrder(t)[1] = Root
         /\ Len(InOrder(t, Directories(t))) = DirAmount(t)
         /\ \A k \in 1 .. DirAmount(t) :
              /\ DirOrder(t)[k + 1] = InOrder(t, Directories(t))[k]
              /\ DirOrder(t)[k + 1] \in Directories(t) \ {Root}
         /\ \A i, j \in 1 .. DirAmount(t) + 1 :
              DirOrder(t)[i] = DirOrder(t)[j] => i = j
         /\ \A d \in Directories(t) :
              \E i \in 1 .. DirAmount(t) + 1 : DirOrder(t)[i] = d
<1> DEFINE D == Directories(t)
           K == InOrder(t, D)
           L == DirOrder(t)
           n == DirAmount(t)
<1>1. /\ K \in Seq(D \ {Root})
      /\ Len(K) = n
      /\ \A i, j \in 1 .. Len(K) : K[i] = K[j] => i = j
      /\ \A p \in D \ {Root} : \E i \in 1 .. Len(K) : K[i] = p
  <2>1. D \subseteq DOMAIN t
    BY DEF Directories
  <2>2. n = Cardinality(D \ {Root})
    BY DEF DirAmount
  <2> HIDE DEF D, n
  <2> QED  BY <2>1, <2>2, OrderedNodes
<1>2. Root \in D
  BY DEF IsTree, Directories
<1>3. L = <<Root>> \o K
  BY DEF DirOrder
<1>4. n \in Nat
  BY TreeSizes
<1> HIDE DEF K, L, n, D
<1>5. L \in Seq(D) /\ Len(L) = n + 1 /\ L[1] = Root
  BY <1>1, <1>2, <1>3, <1>4
<1>6. \A k \in 1 .. n : L[k + 1] = K[k] /\ K[k] \in D \ {Root}
  BY <1>1, <1>3, <1>4
<1>7. ASSUME NEW i \in 1 .. n + 1, NEW j \in 1 .. n + 1, L[i] = L[j]
      PROVE  i = j
  <2>1. CASE i = 1 \/ j = 1
    <3>1. \A k \in 2 .. n + 1 : k - 1 \in 1 .. n /\ (k - 1) + 1 = k
      BY <1>4
    <3>2. \A k \in 2 .. n + 1 : L[k] # Root
      BY <1>6, <3>1
    <3>3. \A k \in 1 .. n + 1 : k = 1 \/ k \in 2 .. n + 1
      BY <1>4
    <3> QED  BY <1>5, <1>7, <2>1, <3>2, <3>3
  <2>2. CASE i # 1 /\ j # 1
    <3>1. /\ i - 1 \in 1 .. n /\ (i - 1) + 1 = i
          /\ j - 1 \in 1 .. n /\ (j - 1) + 1 = j
      BY <1>4, <2>2
    <3>2. K[i - 1] = K[j - 1]
      BY <1>6, <1>7, <3>1
    <3>3. i - 1 = j - 1
      BY <1>1, <3>1, <3>2
    <3> QED  BY <3>3
  <2> QED  BY <2>1, <2>2
<1>8. ASSUME NEW d \in D
      PROVE  \E i \in 1 .. n + 1 : L[i] = d
  <2>1. CASE d = Root
    <3>1. 1 \in 1 .. n + 1
      BY <1>4
    <3> QED  BY <1>5, <2>1, <3>1
  <2>2. CASE d # Root
    <3>1. PICK k \in 1 .. n : K[k] = d
      BY <1>1, <2>2
    <3>2. k + 1 \in 1 .. n + 1
      BY <1>4
    <3> QED  BY <1>6, <3>1, <3>2
  <2> QED  BY <2>1, <2>2
<1> QED  BY <1>1, <1>5, <1>6, <1>7, <1>8 DEF K, L, n, D

(* and every file in its own.                                              *)
LEMMA FilesInOrder ==
  ASSUME NEW t, IsTree(t)
  PROVE  /\ FileOrder(t) \in Seq(PlainFiles(t))
         /\ Len(FileOrder(t)) = FileAmount(t)
         /\ \A i, j \in 1 .. FileAmount(t) :
              FileOrder(t)[i] = FileOrder(t)[j] => i = j
         /\ \A p \in PlainFiles(t) :
              \E i \in 1 .. FileAmount(t) : FileOrder(t)[i] = p
<1> DEFINE F == PlainFiles(t)
           K == InOrder(t, F)
<1>1. F \subseteq DOMAIN t /\ F \ {Root} = F /\ FileAmount(t) = Cardinality(F)
  BY DEF PlainFiles, Directories, IsTree, FileAmount
<1>2. FileOrder(t) = K
  BY DEF FileOrder
<1>3. /\ K \in Seq(F \ {Root})
      /\ Len(K) = Cardinality(F \ {Root})
      /\ \A i, j \in 1 .. Len(K) : K[i] = K[j] => i = j
      /\ \A p \in F \ {Root} : \E i \in 1 .. Len(K) : K[i] = p
  <2> HIDE DEF F
  <2> QED  BY <1>1, OrderedNodes
<1> HIDE DEF K, F
<1>4. K \in Seq(F) /\ Len(K) = Cardinality(F)
  BY <1>1, <1>3
<1>5. \A p \in F : \E i \in 1 .. Len(K) : K[i] = p
  BY <1>1, <1>3
<1>6. \A i, j \in 1 .. FileAmount(t) : K[i] = K[j] => i = j
  BY <1>1, <1>3, <1>4
<1> QED  BY <1>1, <1>2, <1>4, <1>5, <1>6 DEF F

-----------------------------------------------------------------------------
(* What the first n directories' records and identifiers, and the first n  *)
(* files' data, take.                                                      *)
RecordsTo(t, n) ==
  SumTo([d \in Directories(t) |-> RecordSectors(t, d)], DirOrder(t), n)
IdsTo(t, n) ==
  SumTo([d \in Directories(t) |-> FidSectors(t, d)], DirOrder(t), n)
DataTo(t, n) ==
  SumTo([p \in PlainFiles(t) |-> t[p].sectors], FileOrder(t), n)

(* The sum along a list of all of a finite set is the sum over the set.    *)
LEMMA SumOfAll ==
  ASSUME NEW S, NEW f \in [S -> Nat], NEW s \in Seq(S),
         \A i, j \in 1 .. Len(s) : s[i] = s[j] => i = j,
         \A x \in S : \E i \in 1 .. Len(s) : s[i] = x
  PROVE  SumTo(f, s, Len(s)) = SumFunction(f)
<1>1. Len(s) \in 0 .. Len(s)
  <2>1. Len(s) \in Nat
    OBVIOUS
  <2> QED  BY <2>1
<1>2. SumTo(f, s, Len(s)) = SumOver(f, Elements(s, Len(s)))
  BY ONLY <1>1, f \in [S -> Nat], s \in Seq(S),
          \A i, j \in 1 .. Len(s) : s[i] = s[j] => i = j, SumOfList
<1>3. Elements(s, Len(s)) = S
  <2>1. ASSUME NEW x \in Elements(s, Len(s))
        PROVE  x \in S
    <3>1. PICK i \in 1 .. Len(s) : x = s[i]
      BY DEF Elements
    <3> QED  BY <3>1
  <2>2. ASSUME NEW x \in S
        PROVE  x \in Elements(s, Len(s))
    BY DEF Elements
  <2> QED  BY <2>1, <2>2
<1>4. [y \in S |-> f[y]] = f
  OBVIOUS
<1>5. SumOver(f, S) = SumFunction(f)
  BY <1>4 DEF SumOver
<1> QED  BY <1>2, <1>3, <1>5

(* The partial sums of a list of nodes.                                    *)
LEMMA SumsAlong ==
  ASSUME NEW S, NEW f \in [S -> Nat], NEW s \in Seq(S), NEW n \in Nat,
         n < Len(s)
  PROVE  /\ SumTo(f, s, 0) = 0
         /\ SumTo(f, s, n) \in Nat
         /\ f[s[n + 1]] \in Nat
         /\ SumTo(f, s, n + 1) = SumTo(f, s, n) + f[s[n + 1]]
<1>1. SumTo(f, s, 0) = 0
  BY SumToNone
<1>2. n <= Len(s) /\ n + 1 <= Len(s) /\ s[n + 1] \in S
  OBVIOUS
<1>3. SumTo(f, s, n) \in Nat
  BY <1>2, SumToIsNat
<1>4. SumTo(f, s, n + 1) = SumTo(f, s, n) + f[s[n + 1]]
  BY <1>2, SumToNext
<1> QED  BY <1>1, <1>2, <1>3, <1>4

(* Along the list of directories the partial sums grow by one directory's  *)
(* sectors: of records,                                                    *)
LEMMA RecordsAlong ==
  ASSUME NEW t, IsTree(t), NEW n \in Nat, n <= DirAmount(t)
  PROVE  /\ RecordsTo(t, n) \in Nat
         /\ DirOrder(t)[n + 1] \in Directories(t)
         /\ RecordSectors(t, DirOrder(t)[n + 1]) \in Nat
         /\ RecordsTo(t, n + 1)
              = RecordsTo(t, n) + RecordSectors(t, DirOrder(t)[n + 1])
<1> DEFINE f == [d \in Directories(t) |-> RecordSectors(t, d)]
           s == DirOrder(t)
<1>1. f \in [Directories(t) -> Nat]
  BY DirectorySizes
<1>2. s \in Seq(Directories(t)) /\ n < Len(s)
  <2>1. DirAmount(t) \in Nat
    BY TreeSizes
  <2> QED  BY <2>1, DirectoriesInOrder
<1>3. s[n + 1] \in Directories(t)
  <2> HIDE DEF s
  <2> QED  BY <1>2
<1>4. f[s[n + 1]] = RecordSectors(t, s[n + 1])
  BY <1>3
<1>5. /\ SumTo(f, s, n) \in Nat /\ f[s[n + 1]] \in Nat
      /\ SumTo(f, s, n + 1) = SumTo(f, s, n) + f[s[n + 1]]
  <2> HIDE DEF f, s
  <2> QED  BY <1>1, <1>2, SumsAlong
<1> QED  BY <1>3, <1>4, <1>5 DEF RecordsTo

(* of file identifiers,                                                    *)
LEMMA IdsAlong ==
  ASSUME NEW t, IsTree(t), NEW n \in Nat, n <= DirAmount(t)
  PROVE  /\ IdsTo(t, n) \in Nat
         /\ FidSectors(t, DirOrder(t)[n + 1]) \in Nat
         /\ IdsTo(t, n + 1) = IdsTo(t, n) + FidSectors(t, DirOrder(t)[n + 1])
<1> DEFINE f == [d \in Directories(t) |-> FidSectors(t, d)]
           s == DirOrder(t)
<1>1. f \in [Directories(t) -> Nat]
  BY DirectorySizes
<1>2. s \in Seq(Directories(t)) /\ n < Len(s)
  <2>1. DirAmount(t) \in Nat
    BY TreeSizes
  <2> QED  BY <2>1, DirectoriesInOrder
<1>3. s[n + 1] \in Directories(t)
  <2> HIDE DEF s
  <2> QED  BY <1>2
<1>4. f[s[n + 1]] = FidSectors(t, s[n + 1])
  BY <1>3
<1>5. /\ SumTo(f, s, n) \in Nat /\ f[s[n + 1]] \in Nat
      /\ SumTo(f, s, n + 1) = SumTo(f, s, n) + f[s[n + 1]]
  <2> HIDE DEF f, s
  <2> QED  BY <1>1, <1>2, SumsAlong
<1> QED  BY <1>4, <1>5 DEF IdsTo

(* and along the list of files by one file's data.                         *)
LEMMA DataAlong ==
  ASSUME NEW t, IsTree(t), NEW n \in Nat, n < FileAmount(t)
  PROVE  /\ DataTo(t, n) \in Nat
         /\ FileOrder(t)[n + 1] \in PlainFiles(t)
         /\ t[FileOrder(t)[n + 1]].sectors \in Nat
         /\ DataTo(t, n + 1) = DataTo(t, n) + t[FileOrder(t)[n + 1]].sectors
<1> DEFINE f == [p \in PlainFiles(t) |-> t[p].sectors]
           s == FileOrder(t)
<1>1. f \in [PlainFiles(t) -> Nat]
  BY DEF PlainFiles, IsTree, Attributes
<1>2. s \in Seq(PlainFiles(t)) /\ n < Len(s)
  BY FilesInOrder
<1>3. s[n + 1] \in PlainFiles(t)
  <2> HIDE DEF s
  <2> QED  BY <1>2
<1>4. f[s[n + 1]] = t[s[n + 1]].sectors
  BY <1>3
<1>5. /\ SumTo(f, s, n) \in Nat /\ f[s[n + 1]] \in Nat
      /\ SumTo(f, s, n + 1) = SumTo(f, s, n) + f[s[n + 1]]
  <2> HIDE DEF f, s
  <2> QED  BY <1>1, <1>2, SumsAlong
<1> QED  BY <1>3, <1>4, <1>5 DEF DataTo

(* They start at nothing and come to the sizes the planner reserves.       *)
THEOREM PartsMakeTheWhole ==
  ASSUME NEW t, IsTree(t)
  PROVE  /\ RecordsTo(t, 0) = 0 /\ IdsTo(t, 0) = 0 /\ DataTo(t, 0) = 0
         /\ RecordsTo(t, DirAmount(t) + 1) = DirectoryRecordsAmount(t)
         /\ IdsTo(t, DirAmount(t) + 1) = FileIdentifiersAmount(t)
         /\ DataTo(t, FileAmount(t))
              = SumFunction([p \in PlainFiles(t) |-> t[p].sectors])
<1> DEFINE D == Directories(t)
           F == PlainFiles(t)
           r == [d \in D |-> RecordSectors(t, d)]
           f == [d \in D |-> FidSectors(t, d)]
           s == [p \in F |-> t[p].sectors]
           dirs == DirOrder(t)
           files == FileOrder(t)
<1>1. r \in [D -> Nat] /\ f \in [D -> Nat] /\ s \in [F -> Nat]
  BY DirectorySizes DEF PlainFiles, IsTree, Attributes
<1>2. /\ dirs \in Seq(D) /\ Len(dirs) = DirAmount(t) + 1
      /\ \A i, j \in 1 .. Len(dirs) : dirs[i] = dirs[j] => i = j
      /\ \A d \in D : \E i \in 1 .. Len(dirs) : dirs[i] = d
  BY DirectoriesInOrder
<1>3. /\ files \in Seq(F) /\ Len(files) = FileAmount(t)
      /\ \A i, j \in 1 .. Len(files) : files[i] = files[j] => i = j
      /\ \A p \in F : \E i \in 1 .. Len(files) : files[i] = p
  BY FilesInOrder
<1>4. /\ RecordsTo(t, 0) = 0 /\ IdsTo(t, 0) = 0 /\ DataTo(t, 0) = 0
  BY SumToNone DEF RecordsTo, IdsTo, DataTo
<1>5. /\ SumTo(r, dirs, Len(dirs)) = SumFunction(r)
      /\ SumTo(f, dirs, Len(dirs)) = SumFunction(f)
  <2> HIDE DEF D, F, r, f, s, dirs, files
  <2> QED  BY <1>1, <1>2, SumOfAll
<1>6. SumTo(s, files, Len(files)) = SumFunction(s)
  <2> HIDE DEF D, F, r, f, s, dirs, files
  <2> QED  BY <1>1, <1>3, SumOfAll
<1>7. /\ SumTo(r, dirs, DirAmount(t) + 1) = DirectoryRecordsAmount(t)
      /\ SumTo(f, dirs, DirAmount(t) + 1) = FileIdentifiersAmount(t)
  BY <1>2, <1>5 DEF DirectoryRecordsAmount, FileIdentifiersAmount
<1>8. SumTo(s, files, FileAmount(t)) = SumFunction(s)
  BY <1>3, <1>6
<1> QED  BY <1>4, <1>7, <1>8 DEF RecordsTo, IdsTo, DataTo
-----------------------------------------------------------------------------
(* Parent drops the last position of a path.                               *)
LEMMA AllButLast ==
  ASSUME NEW p \in Seq(Nat \ {0}), p # <<>>
  PROVE  /\ Len(p) \in Nat /\ Len(p) # 0
         /\ Parent(p) \in Seq(Nat \ {0}) /\ Len(Parent(p)) = Len(p) - 1
         /\ \A i \in 1 .. Len(p) - 1 : Parent(p)[i] = p[i]
<1> DEFINE n == Len(p) - 1
<1>1. Len(p) \in Nat /\ Len(p) # 0 /\ n \in Nat
  OBVIOUS
<1>2. 1 \in Int /\ n \in Int /\ \A i \in 1 .. n : p[i] \in Nat \ {0}
  BY <1>1
<1>3. /\ SubSeq(p, 1, n) \in Seq(Nat \ {0})
      /\ Len(SubSeq(p, 1, n)) = IF 1 <= n THEN n - 1 + 1 ELSE 0
      /\ \A i \in 1 .. n - 1 + 1 : SubSeq(p, 1, n)[i] = p[1 + i - 1]
  <2> HIDE DEF n
  <2> QED  BY <1>2, SubSeqProperties
<1>4. n - 1 + 1 = n /\ \A i \in 1 .. n : 1 + i - 1 = i
  BY <1>1
<1>5. Parent(p) = SubSeq(p, 1, n)
  BY DEF Parent
<1> QED  BY <1>1, <1>3, <1>4, <1>5

(* An entry is listed in a directory, a level above it.                    *)
LEMMA ParentListsIt ==
  ASSUME NEW t, IsTree(t), NEW p \in Entries(t)
  PROVE  /\ p \in Seq(Nat \ {0}) /\ Len(p) \in Nat \ {0}
         /\ Parent(p) \in Directories(t)
         /\ Parent(p) \in Seq(Nat \ {0})
         /\ Len(Parent(p)) = Len(p) - 1
         /\ p[Len(p)] \in Nat \ {0}
         /\ p = Append(Parent(p), p[Len(p)])
<1>1. p \in DOMAIN t /\ p \in Seq(Nat \ {0}) /\ p # <<>>
  BY DEF IsTree, Entries, Root
<1>2. Len(p) \in Nat /\ Len(p) # 0
  BY <1>1
<1>3. Len(p) - 1 \in 0 .. Len(p) - 1
  BY <1>2
<1>4. Prefix(p, Len(p) - 1) \in DOMAIN t /\ t[Prefix(p, Len(p) - 1)].dir
  BY <1>1, <1>3 DEF IsTree
<1>5. Parent(p) \in Directories(t)
  BY <1>4 DEF Parent, Prefix, Directories
<1>6. /\ Parent(p) \in Seq(Nat \ {0}) /\ Len(Parent(p)) = Len(p) - 1
      /\ \A i \in 1 .. Len(p) - 1 : Parent(p)[i] = p[i]
  BY <1>1, AllButLast
<1>7. Len(p) \in 1 .. Len(p)
  BY <1>2
<1>8. p[Len(p)] \in Nat \ {0}
  BY <1>1, <1>7
<1>9. p = Append(Parent(p), p[Len(p)])
  <2> DEFINE q == Append(Parent(p), p[Len(p)])
  <2>1. /\ q \in Seq(Nat \ {0}) /\ Len(q) = Len(p)
        /\ \A i \in 1 .. Len(p) : q[i] = p[i]
    BY <1>2, <1>6, <1>8
  <2>2. p \in Seq(Nat \ {0})
    BY <1>1
  <2> HIDE DEF q
  <2>3. p = q
    BY ONLY <2>1, <2>2, SMTT(30)
  <2> QED  BY <2>3 DEF q
<1> QED  BY <1>1, <1>2, <1>5, <1>6, <1>8, <1>9

(* A set of positive numbers that holds what is below each of its members  *)
(* is an interval.                                                         *)
LEMMA Gapless ==
  ASSUME NEW I \in SUBSET (Nat \ {0}), IsFiniteSet(I),
         \A i \in I : i > 1 => i - 1 \in I
  PROVE  I = 1 .. Cardinality(I)
<1> DEFINE c == Cardinality(I)
<1>1. c \in Nat
  BY FS_CardinalityType
<1>2. ASSUME NEW i \in I
      PROVE  1 .. i \subseteq I
  <2> DEFINE N == {n \in Nat : n < i => i - n \in I}
             b == i - 1
  <2>1. 0 \in N /\ b \in Nat
    OBVIOUS
  <2>2. ASSUME NEW n \in Nat, n < b, n \in N
        PROVE  n + 1 \in N
    <3>1. i - n \in I /\ i - n > 1
      BY <2>2
    <3>2. (i - n) - 1 \in I
      BY <3>1
    <3>3. (i - n) - 1 = i - (n + 1)
      BY <2>2
    <3> QED  BY <3>2, <3>3
  <2>3. N \in SUBSET Nat
    OBVIOUS
  <2>4. \A n \in 0 .. b : n \in N
    <3> HIDE DEF N, b
    <3> QED  BY <2>1, <2>2, <2>3, Upwards
  <2>5. ASSUME NEW k \in 1 .. i
        PROVE  k \in I
    <3>1. i - k \in 0 .. b /\ i - k < i /\ i - (i - k) = k
      OBVIOUS
    <3>2. i - k \in N
      <4> HIDE DEF N, b
      <4> QED  BY <2>4, <3>1
    <3> QED  BY <3>1, <3>2
  <2> QED  BY <2>5
<1>3. ASSUME NEW n \in Nat
      PROVE  IsFiniteSet(1 .. n) /\ Cardinality(1 .. n) = n
  <2>1. 1 \in Int /\ n \in Int
    OBVIOUS
  <2>2. /\ IsFiniteSet(1 .. n)
        /\ Cardinality(1 .. n) = IF 1 > n THEN 0 ELSE n - 1 + 1
    BY ONLY <2>1, FS_Interval
  <2> QED  BY <2>2
<1>4. ASSUME NEW i \in I
      PROVE  i <= c
  <2>1. Cardinality(1 .. i) <= c /\ Cardinality(1 .. i) = i
    BY <1>2, <1>3, FS_Subset
  <2> QED  BY <2>1
<1>5. I \subseteq 1 .. c
  BY <1>1, <1>4
<1>6. Cardinality(1 .. c) = c /\ IsFiniteSet(1 .. c)
  BY <1>1, <1>3
<1>7. I = 1 .. c
  <2> HIDE DEF c
  <2> QED  BY <1>5, <1>6, FS_Subset DEF c
<1> QED  BY <1>7

(* readdir's positions number a directory's entries from 1 on.             *)
LEMMA ChildrenNumbered ==
  ASSUME NEW t, IsTree(t), NEW d \in Directories(t)
  PROVE  /\ \A i \in 1 .. Cardinality(Children(t, d)) :
              Append(d, i) \in Children(t, d)
         /\ \A p \in Children(t, d) :
              /\ p[Len(p)] \in 1 .. Cardinality(Children(t, d))
              /\ p = Append(d, p[Len(p)])
<1> DEFINE C == Children(t, d)
           last == [p \in C |-> p[Len(p)]]
           I == {last[p] : p \in C}
<1>1. d \in Seq(Nat \ {0}) /\ d \in DOMAIN t
  BY DEF Directories, IsTree
<1>2. ASSUME NEW p \in C
      PROVE  /\ p \in Entries(t) /\ Parent(p) = d
             /\ p[Len(p)] \in Nat \ {0}
             /\ p = Append(d, p[Len(p)])
             /\ p \in Seq(Nat \ {0}) /\ Len(p) = Len(d) + 1
  <2>1. p \in Entries(t) /\ Parent(p) = d
    BY DEF Children
  <2>2. /\ p \in Seq(Nat \ {0}) /\ Len(p) \in Nat \ {0}
        /\ Len(Parent(p)) = Len(p) - 1
        /\ p[Len(p)] \in Nat \ {0}
        /\ p = Append(Parent(p), p[Len(p)])
    BY <2>1, ParentListsIt
  <2> QED  BY <2>1, <2>2
<1>3. \A p \in C : last[p] = p[Len(p)]
  OBVIOUS
<1>4. IsFiniteSet(C)
  BY ChildrenFinite
<1>5. last \in Surjection(C, I)
  BY DEF Surjection
<1>6. \A p, q \in C : last[p] = last[q] => p = q
  BY <1>2, <1>3
<1>7. last \in Injection(C, I)
  BY <1>6 DEF Injection, IsInjective
<1>8. IsFiniteSet(I) /\ Cardinality(I) = Cardinality(C)
  <2> HIDE DEF C, last, I
  <2> QED  BY <1>4, <1>5, <1>7, FS_Surjection
<1>9. I \subseteq Nat \ {0}
  BY <1>2, <1>3
<1>10. ASSUME NEW i \in I, i > 1
       PROVE  i - 1 \in I
  <2>1. PICK p \in C : last[p] = i
    OBVIOUS
  <2>2. p \in DOMAIN t \ {Root} /\ p[Len(p)] > 1
    BY <1>2, <1>3, <1>10, <2>1 DEF Entries
  <2> DEFINE q == [p EXCEPT ![Len(p)] = @ - 1]
  <2>3. q \in DOMAIN t
    BY <2>2 DEF IsTree
  <2>4. Len(d) \in Nat /\ Len(p) = Len(d) + 1 /\ p[Len(p)] = i /\ i \in Nat \ {0}
    BY <1>1, <1>2, <1>3, <2>1
  <2>5. /\ q \in Seq(Nat \ {0}) /\ Len(q) = Len(d) + 1
        /\ q[Len(q)] = i - 1
        /\ \A k \in 1 .. Len(d) : q[k] = p[k]
    <3>1. p \in Seq(Nat \ {0}) /\ DOMAIN p = 1 .. Len(p)
      BY <1>2
    <3>2. i - 1 \in Nat \ {0}
      BY <1>10, <2>4
    <3>3. /\ DOMAIN q = 1 .. Len(d) + 1
          /\ \A k \in 1 .. Len(d) : q[k] = p[k]
          /\ q[Len(d) + 1] = i - 1
      BY <2>4, <3>1
    <3>4. q \in [1 .. Len(d) + 1 -> Nat \ {0}]
      <4>1. q = [k \in 1 .. Len(d) + 1 |-> q[k]]
        BY <3>3
      <4>2. \A k \in 1 .. Len(d) + 1 : q[k] \in Nat \ {0}
        <5>1. \A k \in 1 .. Len(d) : p[k] \in Nat \ {0}
          BY <2>4, <3>1
        <5>2. \A k \in 1 .. Len(d) + 1 : k \in 1 .. Len(d) \/ k = Len(d) + 1
          BY <2>4
        <5> HIDE DEF q
        <5> QED  BY <3>2, <3>3, <5>1, <5>2
      <4> HIDE DEF q
      <4> QED  BY <4>1, <4>2
    <3> HIDE DEF q
    <3>5. Len(d) + 1 \in Nat
      BY <2>4
    <3>6. q \in Seq(Nat \ {0}) /\ Len(q) = Len(d) + 1
      BY <3>4, <3>5
    <3> QED  BY <3>3, <3>6
  <2> HIDE DEF q
  <2>6. q # Root /\ q \in Entries(t)
    <3>1. q # <<>>
      BY <2>4, <2>5
    <3> QED  BY <2>3, <3>1 DEF Root, Entries
  <2>7. Parent(q) = d
    <3>1. /\ Parent(q) \in Seq(Nat \ {0}) /\ Len(Parent(q)) = Len(d)
          /\ \A k \in 1 .. Len(d) : Parent(q)[k] = q[k]
      <4>1. q # <<>> /\ Len(q) - 1 = Len(d)
        BY <2>4, <2>5
      <4> QED  BY <2>5, <4>1, AllButLast
    <3>2. \A k \in 1 .. Len(d) : p[k] = d[k]
      <4>1. p = Append(d, i)
        BY <1>2, <2>4
      <4> QED  BY <1>1, <2>4, <4>1
    <3>3. /\ Parent(q) \in Seq(Nat \ {0}) /\ d \in Seq(Nat \ {0})
          /\ Len(Parent(q)) = Len(d)
          /\ \A k \in 1 .. Len(d) : Parent(q)[k] = d[k]
      BY <1>1, <2>5, <3>1, <3>2
    <3> QED  BY ONLY <3>3, SMTT(30)
  <2>8. q \in C
    BY <2>6, <2>7 DEF Children
  <2>9. last[q] = i - 1
    BY <1>3, <2>5, <2>8
  <2> QED  BY <2>8, <2>9
<1>11. I = 1 .. Cardinality(C)
  <2>1. I \in SUBSET (Nat \ {0})
    BY <1>9
  <2>2. I = 1 .. Cardinality(I)
    <3> HIDE DEF I, C, last
    <3> QED  BY <1>8, <1>10, <2>1, Gapless
  <2> QED  BY <1>8, <2>2
<1>12. ASSUME NEW i \in 1 .. Cardinality(C)
       PROVE  Append(d, i) \in C
  <2>1. i \in I
    BY <1>11
  <2>2. PICK p \in C : last[p] = i
    BY <2>1
  <2> QED  BY <1>2, <1>3, <2>2
<1>13. ASSUME NEW p \in C
       PROVE  p[Len(p)] \in 1 .. Cardinality(C) /\ p = Append(d, p[Len(p)])
  <2>1. last[p] \in I
    OBVIOUS
  <2> QED  BY <1>2, <1>3, <1>11, <2>1
<1> QED  BY <1>12, <1>13
-----------------------------------------------------------------------------
(* An identifier fits a sector with room to spare.                         *)
LEMMA IdentifierFits ==
  ASSUME NEW t, IsTree(t), NEW p \in DOMAIN t
  PROVE  FidLen(t, p) \in 1 .. Sector
<1>1. t[p].len \in 1 .. 255
  BY DEF IsTree, Attributes, NameMax
<1>2. t[p].len % 2 \in {0, 1}
  BY <1>1
<1>3. ASSUME NEW l \in Int, NEW r \in Int, 1 <= l, l <= 255, 0 <= r, r <= 1
      PROVE  FidBase - 1 + (2 * l + 1) + 2 * r \in 1 .. Sector
  BY ONLY <1>3, SMTT(30) DEF FidBase, Sector
<1>4. FidLen(t, p) = FidBase - 1 + (2 * t[p].len + 1) + 2 * (t[p].len % 2)
  BY DEF FidLen
<1> DEFINE len == t[p].len
           odd == t[p].len % 2
<1>5. len \in Int /\ odd \in Int /\ 1 <= len /\ len <= 255 /\ 0 <= odd /\ odd <= 1
  BY ONLY <1>1, <1>2
<1>6. FidLen(t, p) = FidBase - 1 + (2 * len + 1) + 2 * odd
  BY ONLY <1>4
<1> HIDE DEF len, odd
<1> QED  BY ONLY <1>3, <1>5, <1>6

(* A directory's records and identifiers take at least a sector each.      *)
LEMMA AtLeastOneSector ==
  ASSUME NEW t, IsTree(t), NEW d
  PROVE  /\ RecordSectors(t, d) >= 1 /\ FidSectors(t, d) >= 1
         /\ RecordBytes(t, d) \in Nat
         /\ FidBytes(t, d) \in Nat /\ FidBytes(t, d) >= FidBase
<1> DEFINE C == Children(t, d)
           r == [p \in C |-> RecordLen(t, p)]
           i == [p \in C |-> FidLen(t, p)]
<1>1. IsFiniteSet(C) /\ r \in [C -> Nat] /\ i \in [C -> Nat]
  BY ChildrenFinite, EntrySizes
<1>2. SumFunction(r) \in Nat /\ SumFunction(i) \in Nat
  <2> HIDE DEF C, r, i
  <2> QED  BY <1>1, SumIsNat
<1>3. /\ RecordBytes(t, d) \in Nat /\ RecordBytes(t, d) >= 96
      /\ FidBytes(t, d) \in Nat /\ FidBytes(t, d) >= FidBase
  BY <1>2 DEF RecordBytes, FidBytes, FidBase
<1>4. ASSUME NEW n \in Nat, n >= 1
      PROVE  SectorsOf(n) >= 1
  BY <1>4 DEF SectorsOf, Sector
<1> QED  BY <1>3, <1>4 DEF RecordSectors, FidSectors, FidBase
=============================================================================
