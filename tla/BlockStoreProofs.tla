---------------------------- MODULE BlockStoreProofs ----------------------------
(***************************************************************************)
(* Proofs about the extent store: no block is taken twice, free space is   *)
(* known exactly and saved images load, for every set of inodes, contents, *)
(* block size and allocator policy.                                        *)
(***************************************************************************)
EXTENDS BlockStore, FiniteSetTheorems, WellFoundedInduction, TLAPS

-----------------------------------------------------------------------------
(* Least and greatest numbers *)

Less == {p \in Nat \X Nat : p[1] < p[2]}

\* A non-empty set of numbers has a least one.
LEMMA LeastNat ==
  ASSUME NEW T \in SUBSET Nat, T # {}
  PROVE  \E x \in T : \A y \in T : x <= y
<1>1. IsWellFoundedOn(Less, Nat)
  BY NatLessThanWellFounded DEF OpToRel, Less
<1>2. PICK x \in T : \A y \in T : ~(<<y, x>> \in Less)
  BY <1>1, WFMin
<1>3. \A y \in T : ~(y < x)
  <2> SUFFICES ASSUME NEW y \in T, y < x PROVE FALSE
    OBVIOUS
  <2>1. <<y, x>> \in Less
    BY DEF Less
  <2> QED
    BY <1>2, <2>1
<1> QED
  BY <1>3

\* Min is the least number of a set.
LEMMA MinIs ==
  ASSUME NEW T \in SUBSET Nat, T # {}
  PROVE  Min(T) \in T /\ \A y \in T : Min(T) <= y
<1>1. \E x \in T : \A y \in T : x <= y
  BY LeastNat
<1> QED
  BY <1>1 DEF Min

\* A set of numbers that holds 0 and, below n, the successor of each of its
\* elements, holds all numbers up to n.
LEMMA UpTo ==
  ASSUME NEW n \in Nat, NEW T, 0 \in T, \A m \in 1..n : m - 1 \in T => m \in T
  PROVE  \A m \in 0..n : m \in T
<1> DEFINE B == {m \in 0..n : m \notin T}
<1> SUFFICES ASSUME B # {} PROVE FALSE
  OBVIOUS
<1>1. B \in SUBSET Nat
  OBVIOUS
<1>2. PICK m \in B : \A y \in B : m <= y
  BY <1>1, LeastNat
<1>3. m \in 0..n /\ m \notin T /\ m # 0
  BY <1>2
<1>4. m \in 1..n /\ m - 1 \in 0..n /\ ~(m <= m - 1)
  BY <1>3
<1>5. m - 1 \in T
  BY <1>2, <1>4
<1> QED
  BY <1>3, <1>4, <1>5

\* A set of numbers with an upper bound has a greatest one.
LEMMA GreatestNat ==
  ASSUME NEW T \in SUBSET Nat, T # {}, NEW n \in Nat, \A y \in T : y <= n
  PROVE  \E x \in T : \A y \in T : x >= y
<1> DEFINE D == {d \in Nat : \E y \in T : d = n - y}
<1>1. D # {}
  <2>1. PICK y \in T : TRUE
    OBVIOUS
  <2>2. n - y \in D
    BY <2>1
  <2> QED
    BY <2>2
<1>2. PICK d \in D : \A c \in D : d <= c
  BY <1>1, LeastNat
<1>3. PICK x \in T : d = n - x
  BY <1>2
<1>4. ASSUME NEW y \in T PROVE x >= y
  <2>1. n - y \in D
    OBVIOUS
  <2>2. n - x <= n - y
    BY <1>2, <1>3, <2>1
  <2> QED
    BY <2>2
<1> QED
  BY <1>4

-----------------------------------------------------------------------------
(* Sorting *)

\* n numbers from 1, or from 0.
LEMMA CountTo ==
  ASSUME NEW n \in Nat
  PROVE  /\ IsFiniteSet(1..n) /\ Cardinality(1..n) = n
         /\ IsFiniteSet(0..n - 1) /\ Cardinality(0..n - 1) = n
<1>1. IsFiniteSet(1..n) /\ Cardinality(1..n) = IF 1 > n THEN 0 ELSE n - 1 + 1
  <2>1. n \in Int /\ 1 \in Int
    OBVIOUS
  <2> QED
    BY <2>1, FS_Interval
<1>2. IsFiniteSet(0..n - 1) /\ Cardinality(0..n - 1) = IF 0 > n - 1 THEN 0 ELSE (n - 1) - 0 + 1
  <2>1. n - 1 \in Int /\ 0 \in Int
    OBVIOUS
  <2> QED
    BY <2>1, FS_Interval
<1> QED
  BY <1>1, <1>2

\* R orders S strictly and totally.
StrictOrder(S, R) ==
    /\ \A x \in S : <<x, x>> \notin R
    /\ \A x, y \in S : x # y => <<x, y>> \in R \/ <<y, x>> \in R
    /\ \A x, y, z \in S : <<x, y>> \in R /\ <<y, z>> \in R => <<x, z>> \in R

\* Arranged lists a finite set completely, without repetition and in order.
LEMMA ArrangedIs ==
  ASSUME NEW S, IsFiniteSet(S), NEW R, StrictOrder(S, R)
  PROVE  /\ Cardinality(S) \in Nat
         /\ Arranged(S, R) \in [1..Cardinality(S) -> S]
         /\ \A x \in S : \E k \in 1..Cardinality(S) : Arranged(S, R)[k] = x
         /\ \A j, k \in 1..Cardinality(S) : j < k => <<Arranged(S, R)[j], Arranged(S, R)[k]>> \in R
<1> DEFINE n == Cardinality(S)
<1> DEFINE Below(x) == {y \in S : <<y, x>> \in R}
<1> DEFINE rank == [x \in S |-> Cardinality(Below(x))]
<1>1. n \in Nat
  BY FS_CardinalityType
<1>2. ASSUME NEW x \in S PROVE IsFiniteSet(Below(x)) /\ Cardinality(Below(x)) \in Nat
  <2>1. IsFiniteSet(Below(x))
    BY FS_Subset
  <2> QED
    BY <2>1, FS_CardinalityType
<1>3. ASSUME NEW x \in S, NEW y \in S, <<x, y>> \in R PROVE rank[x] < rank[y]
  <2>1. x \notin Below(x) /\ Below(x) \cup {x} \subseteq Below(y)
    BY <1>3 DEF StrictOrder
  <2>2. Cardinality(Below(x) \cup {x}) = Cardinality(Below(x)) + 1
    BY <1>2, <2>1, FS_AddElement
  <2>3. Cardinality(Below(x) \cup {x}) <= Cardinality(Below(y))
    BY <1>2, <2>1, FS_Subset
  <2> QED
    BY <1>2, <2>2, <2>3
<1>4. ASSUME NEW x \in S PROVE rank[x] \in 0..n - 1
  <2>1. Below(x) \subseteq S \ {x}
    BY DEF StrictOrder
  <2>2. IsFiniteSet(S \ {x}) /\ Cardinality(S \ {x}) = n - 1
    BY FS_RemoveElement
  <2> HIDE DEF Below
  <2>3. Cardinality(Below(x)) <= Cardinality(S \ {x})
    BY <2>1, <2>2, FS_Subset
  <2>4. rank[x] = Cardinality(Below(x)) /\ Cardinality(Below(x)) \in Nat
    BY <1>2
  <2> HIDE DEF n, rank
  <2> QED
    BY <1>1, <2>2, <2>3, <2>4
<1> HIDE DEF Below
<1>5. rank \in Injection(S, 0..n - 1)
  <2>1. rank \in [S -> 0..n - 1]
    BY <1>4
  <2>2. \A x, y \in S : x # y => rank[x] # rank[y]
    <3> SUFFICES ASSUME NEW x \in S, NEW y \in S, x # y PROVE rank[x] # rank[y]
      OBVIOUS
    <3>1. rank[x] < rank[y] \/ rank[y] < rank[x]
      BY <1>3 DEF StrictOrder
    <3>2. rank[x] \in Nat /\ rank[y] \in Nat
      BY <1>2
    <3> QED
      BY <3>1, <3>2
  <2> QED
    BY <2>1, <2>2 DEF Injection, IsInjective
<1>6. rank \in Surjection(S, 0..n - 1)
  <2>1. IsFiniteSet(0..n - 1) /\ Cardinality(0..n - 1) = n
    BY <1>1, CountTo
  <2> QED
    BY <1>5, <2>1, FS_Injection, Zenon
<1>7. \A i \in 0..n - 1 : \E x \in S : rank[x] = i
  BY <1>6 DEF Surjection
<1> DEFINE A == Arranged(S, R)
<1>8. A = [k \in 1..n |-> CHOOSE x \in S : Cardinality(Below(x)) = k - 1]
  BY DEF Arranged, Below
<1>9. ASSUME NEW k \in 1..n PROVE A[k] \in S /\ rank[A[k]] = k - 1
  <2>1. k - 1 \in 0..n - 1
    BY <1>1
  <2>2. \E x \in S : Cardinality(Below(x)) = k - 1
    BY <1>7, <2>1
  <2> QED
    BY <1>8, <2>2
<1> HIDE DEF rank
<1>10. A \in [1..n -> S]
  BY <1>8, <1>9
<1>11. ASSUME NEW x \in S PROVE \E k \in 1..n : A[k] = x
  <2>1. rank[x] + 1 \in 1..n
    BY <1>1, <1>4
  <2>2. A[rank[x] + 1] \in S /\ rank[A[rank[x] + 1]] = rank[x]
    BY <1>1, <1>4, <1>9, <2>1
  <2>3. A[rank[x] + 1] = x
    BY <1>5, <2>2 DEF Injection, IsInjective
  <2> QED
    BY <2>1, <2>3
<1>12. ASSUME NEW j \in 1..n, NEW k \in 1..n, j < k PROVE <<A[j], A[k]>> \in R
  <2>1. A[j] # A[k]
    BY <1>9, <1>12
  <2>2. <<A[k], A[j]>> \notin R
    BY <1>3, <1>9, <1>12
  <2> QED
    BY <1>9, <2>1, <2>2 DEF StrictOrder
<1> QED
  BY <1>1, <1>10, <1>11, <1>12

\* Max is the greatest number of a finite set.
LEMMA MaxIs ==
  ASSUME NEW T \in SUBSET Nat, T # {}, IsFiniteSet(T)
  PROVE  Max(T) \in T /\ \A y \in T : Max(T) >= y
<1> DEFINE R == {p \in Nat \X Nat : p[1] < p[2]}
<1> DEFINE n == Cardinality(T)
<1>1. \A x, y \in Nat : <<x, y>> \in R <=> x < y
  OBVIOUS
<1> HIDE DEF R
<1>2. StrictOrder(T, R)
  BY <1>1 DEF StrictOrder
<1> DEFINE A == Arranged(T, R)
<1>3. n \in Nat /\ A \in [1..n -> T] /\ (\A x \in T : \E k \in 1..n : A[k] = x)
      /\ \A j, k \in 1..n : j < k => <<A[j], A[k]>> \in R
  BY <1>2, ArrangedIs
<1> HIDE DEF n, A
<1>4. n \in 1..n
  <2>1. PICK x \in T : TRUE
    OBVIOUS
  <2>2. PICK k \in 1..n : A[k] = x
    BY <1>3
  <2> QED
    BY <1>3, <2>2
<1>5. A[n] \in T /\ \A y \in T : A[n] >= y
  <2>1. ASSUME NEW k \in 1..n PROVE A[n] >= A[k]
    <3>0. A[n] \in Nat /\ A[k] \in Nat
      BY <1>3, <1>4
    <3>1. CASE k = n
      BY <3>0, <3>1
    <3>2. CASE k < n
      <4>1. <<A[k], A[n]>> \in R
        BY <1>3, <1>4, <3>2
      <4> QED
        BY <1>1, <3>0, <4>1
    <3> QED
      BY <1>3, <3>1, <3>2
  <2> QED
    BY <1>3, <1>4, <2>1
<1> QED
  BY <1>5 DEF Max

-----------------------------------------------------------------------------
(* Lists of free extents *)

FreeExts == [start : Nat, len : Nat \ {0}]

\* The blocks of a list of extents.
Free(f) == {b \in Nat : \E k \in 1..Len(f) : b \in Span(f[k])}

Apart(f) == \A j, k \in 1..Len(f) : j # k => Span(f[j]) \cap Span(f[k]) = {}
Ordered(f) == \A j, k \in 1..Len(f) : j < k => End(f[j]) <= f[k].start
Spaced(f) == \A j, k \in 1..Len(f) : j < k => End(f[j]) < f[k].start

\* The numbers of an extent.
LEMMA ExtentNumbers ==
  ASSUME NEW e \in FreeExts
  PROVE  /\ e.start \in Nat /\ e.len \in Nat /\ e.len > 0 /\ End(e) \in Nat /\ e.start < End(e)
         /\ \A b : b \in Span(e) <=> b \in Nat /\ e.start <= b /\ b < End(e)
<1>1. e.start \in Nat /\ e.len \in Nat /\ e.len > 0
  BY DEF FreeExts
<1> QED
  BY <1>1 DEF End, Span

\* The numbers of a list of extents.
LEMMA ListNumbers ==
  ASSUME NEW f \in Seq(FreeExts)
  PROVE  /\ Len(f) \in Nat
         /\ \A k \in 1..Len(f) : /\ f[k].start \in Nat /\ End(f[k]) \in Nat /\ f[k].start < End(f[k])
                                 /\ \A b : b \in Span(f[k]) <=> b \in Nat /\ f[k].start <= b /\ b < End(f[k])
         /\ \A b : b \in Free(f) <=> \E k \in 1..Len(f) : b \in Nat /\ f[k].start <= b /\ b < End(f[k])
<1>1. Len(f) \in Nat /\ \A k \in 1..Len(f) : f[k] \in FreeExts
  OBVIOUS
<1>2. \A k \in 1..Len(f) : /\ f[k].start \in Nat /\ End(f[k]) \in Nat /\ f[k].start < End(f[k])
                           /\ \A b : b \in Span(f[k]) <=> b \in Nat /\ f[k].start <= b /\ b < End(f[k])
  BY <1>1, ExtentNumbers
<1> QED
  BY <1>1, <1>2 DEF Free

\* Extents in order do not overlap; extents with gaps between them are in order.
LEMMA OrderedApart ==
  ASSUME NEW f \in Seq(FreeExts)
  PROVE  /\ Ordered(f) => Apart(f)
         /\ Spaced(f) => Ordered(f)
<1>1. ASSUME Ordered(f), NEW j \in 1..Len(f), NEW k \in 1..Len(f), j # k
      PROVE  Span(f[j]) \cap Span(f[k]) = {}
  <2>1. j < k \/ k < j
    BY <1>1
  <2>2. End(f[j]) <= f[k].start \/ End(f[k]) <= f[j].start
    BY <1>1, <2>1 DEF Ordered
  <2>3. f[j] \in FreeExts /\ f[k] \in FreeExts
    OBVIOUS
  <2> SUFFICES ASSUME NEW b, b \in Span(f[j]), b \in Span(f[k]) PROVE FALSE
    OBVIOUS
  <2>4. b \in Nat /\ f[j].start <= b /\ b < End(f[j]) /\ f[k].start <= b /\ b < End(f[k])
    BY <2>3, ExtentNumbers
  <2>5. f[j].start \in Nat /\ End(f[j]) \in Nat /\ f[k].start \in Nat /\ End(f[k]) \in Nat
    BY <2>3, ExtentNumbers
  <2> QED
    BY <2>2, <2>4, <2>5
<1>2. ASSUME Spaced(f), NEW j \in 1..Len(f), NEW k \in 1..Len(f), j < k
      PROVE  End(f[j]) <= f[k].start
  <2>1. End(f[j]) < f[k].start
    BY <1>2 DEF Spaced
  <2> QED
    BY <2>1, ListNumbers
<1> QED
  BY <1>1, <1>2 DEF Apart, Ordered

\* sort_by_key: the same extents in order.
LEMMA SortIs ==
  ASSUME NEW f \in Seq(FreeExts), Apart(f)
  PROVE  LET g == SortedByStart(f)
         IN  /\ g \in Seq(FreeExts) /\ Len(g) = Len(f) /\ Ordered(g) /\ Free(g) = Free(f)
             /\ \A k \in 1..Len(g) : \E j \in 1..Len(f) : g[k] = f[j]
<1> DEFINE all == 1..Len(f)
<1> DEFINE R == {p \in all \X all : \/ f[p[1]].start < f[p[2]].start
                                    \/ f[p[1]].start = f[p[2]].start /\ p[1] < p[2]}
<1> DEFINE at == Arranged(all, R)
<1> DEFINE g == SortedByStart(f)
<1>1. Len(f) \in Nat /\ \A k \in all : f[k].start \in Nat /\ End(f[k]) \in Nat /\ f[k] \in FreeExts
  BY ListNumbers
<1>2. IsFiniteSet(all) /\ Cardinality(all) = Len(f)
  <2> HIDE DEF R
  <2>1. Len(f) \in Nat
    BY <1>1
  <2> QED
    BY <2>1, CountTo
<1>3. \A x, y \in all : <<x, y>> \in R <=> f[x].start < f[y].start \/ (f[x].start = f[y].start /\ x < y)
  OBVIOUS
<1>4. g = [k \in all |-> f[at[k]]]
  BY DEF SortedByStart
<1> HIDE DEF R
<1>5. StrictOrder(all, R)
  <2>1. \A x \in all : <<x, x>> \notin R
    BY <1>1, <1>3
  <2>2. \A x, y \in all : x # y => <<x, y>> \in R \/ <<y, x>> \in R
    BY <1>1, <1>3
  <2>3. ASSUME NEW x \in all, NEW y \in all, NEW z \in all, <<x, y>> \in R, <<y, z>> \in R
        PROVE  <<x, z>> \in R
    <3>1. f[x].start \in Nat /\ f[y].start \in Nat /\ f[z].start \in Nat /\ x \in Nat /\ y \in Nat /\ z \in Nat
      BY <1>1
    <3>2. /\ f[x].start < f[y].start \/ (f[x].start = f[y].start /\ x < y)
          /\ f[y].start < f[z].start \/ (f[y].start = f[z].start /\ y < z)
      BY <1>3, <2>3
    <3>3. f[x].start < f[z].start \/ (f[x].start = f[z].start /\ x < z)
      BY <3>1, <3>2
    <3> QED
      BY <1>3, <3>3
  <2> QED
    BY <2>1, <2>2, <2>3 DEF StrictOrder
<1>6. /\ at \in [all -> all]
      /\ \A x \in all : \E k \in all : at[k] = x
      /\ \A j, k \in all : j < k => <<at[j], at[k]>> \in R
  BY <1>2, <1>5, ArrangedIs
<1> HIDE DEF at, g
<1>7. g \in Seq(FreeExts) /\ Len(g) = Len(f) /\ \A k \in all : g[k] = f[at[k]]
  <2>1. g \in [1..Len(f) -> FreeExts]
    BY <1>1, <1>4, <1>6
  <2> QED
    BY <1>1, <1>4, <2>1
<1>8. Ordered(g)
  <2> SUFFICES ASSUME NEW j \in all, NEW k \in all, j < k PROVE End(f[at[j]]) <= f[at[k]].start
    BY <1>7 DEF Ordered
  <2> DEFINE x == f[at[j]]
  <2> DEFINE y == f[at[k]]
  <2>1. at[j] \in all /\ at[k] \in all /\ <<at[j], at[k]>> \in R
    BY <1>6
  <2>2. x \in FreeExts /\ y \in FreeExts /\ at[j] \in Nat
    BY <1>1, <2>1
  <2>3. x.start \in Nat /\ End(x) \in Nat /\ y.start \in Nat /\ End(y) \in Nat /\ y.start < End(y) /\ x.start < End(x)
    BY <2>2, ExtentNumbers
  <2>4. x.start < y.start \/ (x.start = y.start /\ at[j] < at[k])
    BY <1>3, <2>1
  <2>5. x.start <= y.start /\ at[j] # at[k]
    BY <2>2, <2>3, <2>4
  <2>6. Span(x) \cap Span(y) = {}
    BY <2>1, <2>5 DEF Apart
  <2> HIDE DEF x, y
  <2>7. y.start \in Span(y)
    BY <2>2, <2>3, ExtentNumbers
  <2>8. ~(y.start < End(x))
    BY <2>2, <2>3, <2>5, <2>6, <2>7, ExtentNumbers
  <2>9. End(x) <= y.start
    BY <2>3, <2>8
  <2> QED
    BY <2>9 DEF x, y
<1>9. Free(g) = Free(f)
  <2>1. ASSUME NEW b \in Free(g) PROVE b \in Free(f)
    BY <1>6, <1>7 DEF Free
  <2>2. ASSUME NEW b \in Free(f) PROVE b \in Free(g)
    <3>1. PICK x \in all : b \in Nat /\ b \in Span(f[x])
      BY DEF Free
    <3>2. PICK k \in all : at[k] = x
      BY <1>6
    <3> QED
      BY <1>7, <3>1, <3>2 DEF Free
  <2> QED
    BY <2>1, <2>2
<1>10. \A k \in 1..Len(g) : \E j \in 1..Len(f) : g[k] = f[j]
  BY <1>6, <1>7
<1> QED
  BY <1>7, <1>8, <1>9, <1>10 DEF g

\* The list after one more extent.
LEMMA FreeAppend ==
  ASSUME NEW f \in Seq(FreeExts), NEW e \in FreeExts
  PROVE  /\ Append(f, e) \in Seq(FreeExts)
         /\ Free(Append(f, e)) = Free(f) \cup Span(e)
         /\ Ordered(f) /\ (\A k \in 1..Len(f) : End(f[k]) <= e.start) => Ordered(Append(f, e))
         /\ Spaced(f) /\ (\A k \in 1..Len(f) : End(f[k]) < e.start) => Spaced(Append(f, e))
         /\ Apart(f) /\ Free(f) \cap Span(e) = {} => Apart(Append(f, e))
<1> DEFINE g == Append(f, e)
<1>1. /\ Len(f) \in Nat /\ g \in Seq(FreeExts) /\ Len(g) = Len(f) + 1 /\ g[Len(f) + 1] = e
      /\ \A k \in 1..Len(f) : g[k] = f[k]
  OBVIOUS
<1> HIDE DEF g
<1>2. \A b \in Span(e) : b \in Nat
  BY ExtentNumbers
<1>3. Free(g) = Free(f) \cup Span(e)
  <2>1. ASSUME NEW b \in Free(g) PROVE b \in Free(f) \cup Span(e)
    <3>1. PICK k \in 1..Len(f) + 1 : b \in Nat /\ b \in Span(g[k])
      BY <1>1 DEF Free
    <3>2. CASE k = Len(f) + 1
      BY <1>1, <3>1, <3>2
    <3>3. CASE k \in 1..Len(f)
      BY <1>1, <3>1, <3>3 DEF Free
    <3> QED
      BY <1>1, <3>2, <3>3
  <2>2. ASSUME NEW b \in Free(f) PROVE b \in Free(g)
    <3>1. PICK k \in 1..Len(f) : b \in Nat /\ b \in Span(f[k])
      BY DEF Free
    <3>2. k \in 1..Len(g) /\ g[k] = f[k]
      BY <1>1
    <3> QED
      BY <3>1, <3>2 DEF Free
  <2>3. ASSUME NEW b \in Span(e) PROVE b \in Free(g)
    <3>1. Len(f) + 1 \in 1..Len(g)
      BY <1>1
    <3> QED
      BY <1>1, <1>2, <3>1 DEF Free
  <2> QED
    BY <2>1, <2>2, <2>3
<1>4. ASSUME Ordered(f), \A k \in 1..Len(f) : End(f[k]) <= e.start PROVE Ordered(g)
  <2> SUFFICES ASSUME NEW j \in 1..Len(g), NEW k \in 1..Len(g), j < k PROVE End(g[j]) <= g[k].start
    BY DEF Ordered
  <2>1. j \in 1..Len(f) /\ g[j] = f[j]
    BY <1>1
  <2>2. CASE k = Len(f) + 1
    BY <1>1, <1>4, <2>1, <2>2
  <2>3. CASE k \in 1..Len(f)
    BY <1>1, <1>4, <2>1, <2>3 DEF Ordered
  <2> QED
    BY <1>1, <2>2, <2>3
<1>5. ASSUME Spaced(f), \A k \in 1..Len(f) : End(f[k]) < e.start PROVE Spaced(g)
  <2> SUFFICES ASSUME NEW j \in 1..Len(g), NEW k \in 1..Len(g), j < k PROVE End(g[j]) < g[k].start
    BY DEF Spaced
  <2>1. j \in 1..Len(f) /\ g[j] = f[j]
    BY <1>1
  <2>2. CASE k = Len(f) + 1
    BY <1>1, <1>5, <2>1, <2>2
  <2>3. CASE k \in 1..Len(f)
    BY <1>1, <1>5, <2>1, <2>3 DEF Spaced
  <2> QED
    BY <1>1, <2>2, <2>3
<1>6. ASSUME Apart(f), Free(f) \cap Span(e) = {} PROVE Apart(g)
  <2>1. ASSUME NEW k \in 1..Len(f) PROVE Span(f[k]) \cap Span(e) = {}
    BY <1>2, <1>6 DEF Free
  <2> SUFFICES ASSUME NEW j \in 1..Len(g), NEW k \in 1..Len(g), j # k PROVE Span(g[j]) \cap Span(g[k]) = {}
    BY DEF Apart
  <2>2. CASE j \in 1..Len(f) /\ k \in 1..Len(f)
    BY <1>1, <1>6, <2>2 DEF Apart
  <2>3. CASE j \in 1..Len(f) /\ k = Len(f) + 1
    BY <1>1, <2>1, <2>3
  <2>4. CASE j = Len(f) + 1 /\ k \in 1..Len(f)
    BY <1>1, <2>1, <2>4
  <2> QED
    BY <1>1, <2>2, <2>3, <2>4
<1> QED
  BY <1>1, <1>3, <1>4, <1>5, <1>6 DEF g

\* A part of a list: its extents are extents of the list, in the same order.
LEMMA FreePart ==
  ASSUME NEW f \in Seq(FreeExts), NEW n \in 0..Len(f)
  PROVE  LET g == SubSeq(f, 1, n)
         IN  /\ g \in Seq(FreeExts) /\ Len(g) = n /\ \A k \in 1..n : g[k] = f[k]
             /\ Ordered(f) => Ordered(g)
             /\ Spaced(f) => Spaced(g)
<1> DEFINE g == SubSeq(f, 1, n)
<1>1. g \in Seq(FreeExts) /\ Len(g) = n /\ \A k \in 1..n : g[k] = f[k] /\ k \in 1..Len(f)
  OBVIOUS
<1> HIDE DEF g
<1>2. Ordered(f) => Ordered(g)
  BY <1>1 DEF Ordered
<1>3. Spaced(f) => Spaced(g)
  BY <1>1 DEF Spaced
<1> QED
  BY <1>1, <1>2, <1>3 DEF g

\* The first extents of a list, and the blocks in them.
FreeUpTo(f, m) == {b \in Nat : \E k \in 1..m : b \in Span(f[k])}

\* One more extent is one more span.
LEMMA FreeUpToNext ==
  ASSUME NEW f \in Seq(FreeExts), NEW m \in 1..Len(f)
  PROVE  FreeUpTo(f, m) = FreeUpTo(f, m - 1) \cup Span(f[m])
<1>1. f[m] \in FreeExts
  OBVIOUS
<1>2. \A b \in Span(f[m]) : b \in Nat
  BY <1>1, ExtentNumbers
<1>3. m \in 1..m /\ 1..m - 1 \subseteq 1..m /\ \A k \in 1..m : k = m \/ k \in 1..m - 1
  OBVIOUS
<1> QED
  BY <1>2, <1>3 DEF FreeUpTo

-----------------------------------------------------------------------------
(* Merging *)

\* One turn of the merge loop over a list in order.
LEMMA MergeStep ==
  ASSUME NEW f \in Seq(FreeExts), Ordered(f), NEW m \in 1..Len(f), NEW g \in Seq(FreeExts),
         Spaced(g), Free(g) = FreeUpTo(f, m - 1),
         IF m = 1 THEN g = <<>> ELSE Len(g) > 0 /\ End(g[Len(g)]) = End(f[m - 1])
  PROVE  LET h == MergeInto(g, f[m])
         IN  /\ h \in Seq(FreeExts) /\ Spaced(h) /\ Free(h) = FreeUpTo(f, m)
             /\ Len(h) > 0 /\ End(h[Len(h)]) = End(f[m])
<1> DEFINE e == f[m]
<1> DEFINE h == MergeInto(g, e)
<1>1. e \in FreeExts /\ Len(g) \in Nat /\ FreeUpTo(f, m) = FreeUpTo(f, m - 1) \cup Span(e)
  BY FreeUpToNext
<1>2. /\ e.start \in Nat /\ End(e) \in Nat /\ e.start < End(e)
      /\ \A b : b \in Span(e) <=> b \in Nat /\ e.start <= b /\ b < End(e)
  BY <1>1, ExtentNumbers
<1>3. ASSUME h = Append(g, e), \A k \in 1..Len(g) : End(g[k]) < e.start
      PROVE  /\ h \in Seq(FreeExts) /\ Spaced(h) /\ Free(h) = FreeUpTo(f, m)
             /\ Len(h) > 0 /\ End(h[Len(h)]) = End(e)
  <2> HIDE DEF e
  <2>1. h \in Seq(FreeExts) /\ Spaced(h) /\ Free(h) = Free(g) \cup Span(e)
    BY <1>1, <1>3, FreeAppend
  <2>2. Len(h) = Len(g) + 1 /\ h[Len(g) + 1] = e
    BY <1>1, <1>3
  <2> QED
    BY <1>1, <2>1, <2>2
<1>4. CASE m = 1
  <2>1. g = <<>>
    BY <1>4
  <2>2. h = Append(g, e)
    BY <2>1 DEF MergeInto
  <2>3. \A k \in 1..Len(g) : End(g[k]) < e.start
    BY <2>1
  <2> QED
    BY <1>3, <2>2, <2>3
<1>5. CASE m > 1
  <2> DEFINE l == g[Len(g)]
  <2>1. Len(g) > 0 /\ End(l) = End(f[m - 1]) /\ g # <<>> /\ Last(g) = l /\ Len(g) \in 1..Len(g)
    BY <1>1, <1>5 DEF Last
  <2>2. End(l) <= e.start
    BY <1>5, <2>1 DEF Ordered
  <2>3. /\ l \in FreeExts /\ l.start \in Nat /\ End(l) \in Nat /\ l.start < End(l)
        /\ \A b : b \in Span(l) <=> b \in Nat /\ l.start <= b /\ b < End(l)
    <3>1. l \in FreeExts
      BY <2>1
    <3> QED
      BY <3>1, ExtentNumbers
  <2>4. \A k \in 1..Len(g) - 1 : End(g[k]) \in Nat /\ End(g[k]) < l.start
    <3>1. \A k \in 1..Len(g) - 1 : k \in 1..Len(g) /\ k < Len(g) /\ g[k] \in FreeExts
      BY <1>1
    <3> QED
      BY <2>1, <3>1, ExtentNumbers DEF Spaced
  <2>5. CASE End(l) < e.start
    <3>1. h = Append(g, e)
      BY <1>2, <2>1, <2>3, <2>5 DEF MergeInto
    <3>2. ASSUME NEW k \in 1..Len(g) PROVE End(g[k]) < e.start
      <4>1. CASE k = Len(g)
        BY <2>5, <4>1
      <4>2. CASE k \in 1..Len(g) - 1
        <5> HIDE DEF e, l
        <5> QED
          BY <1>2, <2>3, <2>4, <2>5, <4>2
      <4> QED
        BY <1>1, <4>1, <4>2
    <3> QED
      BY <1>3, <3>1, <3>2
  <2>6. CASE End(l) = e.start
    <3> DEFINE x == Extent(l.start, End(e) - l.start)
    <3> DEFINE front == SubSeq(g, 1, Len(g) - 1)
    <3>1. h = Append(front, x)
      BY <1>2, <2>1, <2>3, <2>6 DEF MergeInto, Front
    <3>2. x \in FreeExts /\ x.start = l.start /\ End(x) = End(e)
      <4> DEFINE n == End(e) - l.start
      <4>1. n \in Nat /\ n # 0 /\ l.start \in Nat /\ l.start + n = End(e)
        <5> HIDE DEF e, l
        <5> QED
          BY <1>2, <2>3, <2>6
      <4>2. x = [start |-> l.start, len |-> n]
        BY DEF Extent
      <4> HIDE DEF n, e, l, x
      <4> QED
        BY <4>1, <4>2 DEF FreeExts, End
    <3>3. front \in Seq(FreeExts) /\ Len(front) = Len(g) - 1 /\ Spaced(front)
          /\ \A k \in 1..Len(g) - 1 : front[k] = g[k]
      <4>1. Len(g) - 1 \in 0..Len(g)
        BY <2>1
      <4> QED
        BY <4>1, FreePart
    <3> HIDE DEF x, front, e, l
    <3>4. h \in Seq(FreeExts) /\ Free(h) = Free(front) \cup Span(x) /\ Spaced(h)
      BY <2>4, <3>1, <3>2, <3>3, FreeAppend
    <3>5. Span(x) = Span(l) \cup Span(e)
      <4>1. \A b : b \in Span(x) <=> b \in Nat /\ x.start <= b /\ b < End(x)
        BY <3>2, ExtentNumbers
      <4> QED
        BY <1>2, <2>3, <2>6, <3>2, <4>1
    <3>6. Free(g) = Free(front) \cup Span(l)
      <4>1. g = Append(front, l)
        BY <2>1 DEF front, l
      <4> QED
        BY <2>3, <3>3, <4>1, FreeAppend
    <3>7. Free(h) = FreeUpTo(f, m)
      BY <1>1, <3>4, <3>5, <3>6 DEF e
    <3>8. Len(h) = Len(front) + 1 /\ h[Len(front) + 1] = x
      BY <3>1, <3>3
    <3> QED
      BY <1>1, <3>2, <3>3, <3>4, <3>7, <3>8 DEF e
  <2> QED
    BY <1>2, <2>2, <2>3, <2>5, <2>6
<1> QED
  BY <1>4, <1>5

\* The merge loop: the lists it builds, one for each extent.
LEMMA MergeChain ==
  ASSUME NEW f, Len(f) \in Nat
  PROVE  \E w : /\ w[0] = <<>>
                /\ \A k \in 1..Len(f) : w[k] = MergeInto(w[k - 1], f[k])
                /\ Merge(f) = w[Len(f)]
<1> DEFINE Step(x, k) == MergeInto(x, f[k])
<1> DEFINE L == Len(f)
<1> DEFINE IsChain(w, m) == w = [k \in 0..m |-> IF k = 0 THEN <<>> ELSE Step(w[k - 1], k)]
<1>1. Merge(f) = (CHOOSE w : IsChain(w, L))[L]
  BY DEF Merge
<1> HIDE DEF Step, L
<1>2. \E w : IsChain(w, 0)
  <2> DEFINE w == [k \in 0..0 |-> <<>>]
  <2>1. IsChain(w, 0)
    OBVIOUS
  <2> QED
    BY <2>1
<1>3. ASSUME NEW m \in Nat, NEW u, IsChain(u, m) PROVE \E w : IsChain(w, m + 1)
  <2> DEFINE w == [k \in 0..m + 1 |-> IF k = m + 1 THEN Step(u[m], m + 1) ELSE u[k]]
  <2>1. \A k \in 0..m : u[k] = IF k = 0 THEN <<>> ELSE Step(u[k - 1], k)
    BY <1>3
  <2>2. /\ \A k \in 0..m : w[k] = u[k]
        /\ w[m + 1] = Step(u[m], m + 1)
        /\ \A k \in 1..m + 1 : w[k - 1] = u[k - 1]
    OBVIOUS
  <2>3. ASSUME NEW k \in 0..m + 1 PROVE w[k] = IF k = 0 THEN <<>> ELSE Step(w[k - 1], k)
    <3> HIDE DEF w
    <3>1. CASE k = m + 1
      BY <2>2, <3>1
    <3>2. CASE k \in 0..m
      BY <2>1, <2>2, <3>2
    <3> QED
      BY <3>1, <3>2
  <2>4. IsChain(w, m + 1)
    BY <2>3
  <2> QED
    BY <2>4
<1>4. \E w : IsChain(w, L)
  <2> DEFINE T == {m \in Nat : \E w : IsChain(w, m)}
  <2> HIDE DEF IsChain
  <2>1. 0 \in T
    BY <1>2
  <2>2. ASSUME NEW m \in 1..L, m - 1 \in T PROVE m \in T
    <3>1. m - 1 \in Nat /\ (m - 1) + 1 = m /\ m \in Nat
      BY DEF L
    <3>2. \E w : IsChain(w, (m - 1) + 1)
      BY <1>3, <2>2, <3>1
    <3> QED
      BY <3>1, <3>2
  <2> HIDE DEF T
  <2>3. \A m \in 0..L : m \in T
    BY <2>1, <2>2, UpTo DEF L
  <2> QED
    BY <2>3 DEF T, L
<1> DEFINE F == CHOOSE w : IsChain(w, L)
<1>5. IsChain(F, L)
  BY <1>4
<1> HIDE DEF F
<1>6. F[0] = <<>> /\ \A k \in 1..L : F[k] = Step(F[k - 1], k)
  BY <1>5 DEF L
<1>7. Merge(f) = F[L]
  BY <1>1 DEF F
<1> QED
  BY <1>6, <1>7 DEF L, Step

\* normalize_free_extents merges a list in order: the same blocks, with gaps between the extents.
LEMMA MergeIs ==
  ASSUME NEW f \in Seq(FreeExts), Ordered(f)
  PROVE  Merge(f) \in Seq(FreeExts) /\ Spaced(Merge(f)) /\ Free(Merge(f)) = Free(f)
<1>1. PICK w : /\ w[0] = <<>>
               /\ \A k \in 1..Len(f) : w[k] = MergeInto(w[k - 1], f[k])
               /\ Merge(f) = w[Len(f)]
  BY MergeChain
<1> DEFINE Good(m) == /\ w[m] \in Seq(FreeExts) /\ Spaced(w[m]) /\ Free(w[m]) = FreeUpTo(f, m)
                      /\ IF m = 0 THEN w[m] = <<>> ELSE Len(w[m]) > 0 /\ End(w[m][Len(w[m])]) = End(f[m])
<1>2. Good(0)
  <2>1. w[0] = <<>> /\ <<>> \in Seq(FreeExts) /\ Spaced(<<>>) /\ Free(<<>>) = {} /\ FreeUpTo(f, 0) = {}
    BY <1>1 DEF Spaced, Free, FreeUpTo
  <2> QED
    BY <2>1
<1>3. ASSUME NEW m \in 1..Len(f), Good(m - 1) PROVE Good(m)
  <2>1. w[m] = MergeInto(w[m - 1], f[m])
    BY <1>1
  <2>2. IF m = 1 THEN w[m - 1] = <<>> ELSE Len(w[m - 1]) > 0 /\ End(w[m - 1][Len(w[m - 1])]) = End(f[m - 1])
    BY <1>3
  <2>3. w[m - 1] \in Seq(FreeExts) /\ Spaced(w[m - 1]) /\ Free(w[m - 1]) = FreeUpTo(f, m - 1)
    BY <1>3
  <2>4. /\ w[m] \in Seq(FreeExts) /\ Spaced(w[m]) /\ Free(w[m]) = FreeUpTo(f, m)
        /\ Len(w[m]) > 0 /\ End(w[m][Len(w[m])]) = End(f[m])
    BY <2>1, <2>2, <2>3, MergeStep
  <2> QED
    BY <2>4
<1> HIDE DEF Good
<1>4. Good(Len(f))
  <2> DEFINE T == {m \in Nat : Good(m)}
  <2>1. 0 \in T
    BY <1>2
  <2>2. \A m \in 1..Len(f) : m - 1 \in T => m \in T
    BY <1>3
  <2> HIDE DEF T
  <2>3. Len(f) \in Nat
    OBVIOUS
  <2>4. \A m \in 0..Len(f) : m \in T
    BY <2>1, <2>2, <2>3, UpTo
  <2> QED
    BY <2>3, <2>4 DEF T
<1>5. FreeUpTo(f, Len(f)) = Free(f)
  BY DEF FreeUpTo, Free
<1> QED
  BY <1>1, <1>4, <1>5 DEF Good

-----------------------------------------------------------------------------
(* Free space *)

Numbers(n) == {b \in Nat : b < n}

\* The blocks below the bump pointer that are not free.
Used(s) == {b \in Numbers(s.next) : b \notin Free(s.free)}

\* The free list and the bump pointer agree.
SpaceOK(s) ==
    /\ s.next \in Nat
    /\ s.free \in Seq(FreeExts)
    /\ Ordered(s.free)
    /\ s.policy.coalesce => Spaced(s.free)
    /\ Free(s.free) \subseteq Numbers(s.next)

\* No free extent reaches the bump pointer.
Tight(s) == s.policy.trim => Free(s.free) \subseteq Numbers(s.next - 1)

Keys == {"next", "free", "records", "dedup", "trims", "dev", "policy"}

\* Two stores with the same files, blocks and policy.
SameFiles(s, t) == t.records = s.records /\ t.policy = s.policy /\ DOMAIN t = Keys

\* The fields of a store with other free space.
LEMMA WithFreeIs ==
  ASSUME NEW s, NEW n, NEW f
  PROVE  LET t == WithFree(s, n, f)
         IN  /\ t.next = n /\ t.free = f /\ t.records = s.records /\ t.dedup = s.dedup
             /\ t.trims = s.trims /\ t.dev = s.dev /\ t.policy = s.policy /\ DOMAIN t = Keys
<1> DEFINE t == WithFree(s, n, f)
<1>1. /\ t.next = n /\ t.free = f /\ t.records = s.records /\ t.dedup = s.dedup
      /\ t.trims = s.trims /\ t.dev = s.dev /\ t.policy = s.policy
  BY DEF WithFree
<1>2. DOMAIN t = Keys
  BY DEF WithFree, Keys
<1> QED
  BY <1>1, <1>2

\* A list of extents stays below a number if its blocks do.
LEMMA FreeBelow ==
  ASSUME NEW f \in Seq(FreeExts), NEW n \in Int
  PROVE  Free(f) \subseteq Numbers(n) <=> \A k \in 1..Len(f) : End(f[k]) <= n
<1>1. /\ \A k \in 1..Len(f) : /\ f[k].start \in Nat /\ End(f[k]) \in Nat /\ f[k].start < End(f[k])
      /\ \A b : b \in Free(f) <=> \E k \in 1..Len(f) : b \in Nat /\ f[k].start <= b /\ b < End(f[k])
  BY ListNumbers
<1>2. ASSUME Free(f) \subseteq Numbers(n), NEW k \in 1..Len(f) PROVE End(f[k]) <= n
  <2> DEFINE e == End(f[k])
  <2> DEFINE a == f[k].start
  <2>0. a \in Nat /\ e \in Nat /\ a < e
    BY <1>1
  <2> HIDE DEF a, e
  <2>1. e - 1 \in Nat /\ a <= e - 1 /\ e - 1 < e
    BY <2>0
  <2>2. e - 1 \in Free(f)
    BY <1>1, <2>1 DEF a, e
  <2>3. e - 1 < n
    BY <1>2, <2>2 DEF Numbers
  <2>4. e <= n
    BY <2>0, <2>3
  <2> QED
    BY <2>4 DEF e
<1>3. ASSUME \A k \in 1..Len(f) : End(f[k]) <= n, NEW b \in Free(f) PROVE b \in Numbers(n)
  <2>1. PICK k \in 1..Len(f) : b \in Nat /\ f[k].start <= b /\ b < End(f[k])
    BY <1>1
  <2>2. End(f[k]) \in Nat /\ End(f[k]) <= n
    BY <1>1, <1>3
  <2> QED
    BY <2>1, <2>2 DEF Numbers
<1> QED
  BY <1>2, <1>3

\* trim_free_tail: the blocks in use stay the same, and the list no longer
\* reaches the bump pointer.
LEMMA TrimIs ==
  ASSUME NEW s, s.next \in Nat, s.free \in Seq(FreeExts), Ordered(s.free), s.policy.trim \in BOOLEAN,
         DOMAIN s = Keys
  PROVE  LET t == TrimFreeTail(s)
         IN  /\ SameFiles(s, t) /\ t.dev = s.dev /\ t.dedup = s.dedup /\ t.trims = s.trims
             /\ t.next \in Nat /\ t.next <= s.next /\ t.free \in Seq(FreeExts) /\ Ordered(t.free)
             /\ Spaced(s.free) => Spaced(t.free)
             /\ Used(t) = Used(s) /\ Free(t.free) \subseteq Free(s.free)
             /\ Free(s.free) \subseteq Numbers(s.next) => Free(t.free) \subseteq Numbers(t.next) /\ Tight(t)
             /\ Tight(s) => t = s
<1> DEFINE f == s.free
<1> DEFINE n == s.next
<1> DEFINE t == TrimFreeTail(s)
<1> DEFINE T == {k \in 1..Len(f) : \A j \in k..Len(f) : End(f[j]) = IF j = Len(f) THEN n ELSE f[j + 1].start}
<1>1. ReachingNext(s) = T
  BY DEF ReachingNext
<1>2. /\ Len(f) \in Nat
      /\ \A k \in 1..Len(f) : /\ f[k].start \in Nat /\ End(f[k]) \in Nat /\ f[k].start < End(f[k])
      /\ \A b : b \in Free(f) <=> \E k \in 1..Len(f) : b \in Nat /\ f[k].start <= b /\ b < End(f[k])
  BY ListNumbers
<1>3. T \in SUBSET Nat
  BY <1>2
<1>4. ASSUME T = {}, Free(f) \subseteq Numbers(n) PROVE Free(f) \subseteq Numbers(n - 1)
  <2>1. \A k \in 1..Len(f) : End(f[k]) <= n
    <3>1. n \in Int
      OBVIOUS
    <3> HIDE DEF T
    <3> QED
      BY <1>4, <3>1, FreeBelow
  <2> SUFFICES ASSUME NEW k \in 1..Len(f), End(f[k]) = n PROVE FALSE
    <3>1. \A k \in 1..Len(f) : End(f[k]) <= n - 1
      BY <1>2, <2>1
    <3> QED
      BY <3>1, FreeBelow
  <2> DEFINE l == Len(f)
  <2>2. l \in 1..l /\ f[l].start \in Nat /\ End(f[l]) \in Nat /\ f[l].start < End(f[l]) /\ End(f[l]) <= n
    BY <1>2, <2>1
  <2>3. k = l
    <3> SUFFICES ASSUME k < l PROVE FALSE
      OBVIOUS
    <3>1. End(f[k]) <= f[l].start
      BY <2>2 DEF Ordered
    <3> QED
      BY <2>2, <3>1
  <2>4. l \in T
    BY <2>2, <2>3
  <2> QED
    BY <1>4, <2>4
<1>5. CASE s.policy.trim /\ T # {}
  <2> DEFINE m == Min(T)
  <2>1. m \in T /\ \A k \in T : m <= k
    BY <1>3, <1>5, MinIs
  <2> DEFINE a == f[m].start
  <2> DEFINE g == SubSeq(f, 1, m - 1)
  <2>2. t = WithFree(s, a, g)
    BY <1>1, <1>5 DEF TrimFreeTail
  <2>3. /\ t.next = a /\ t.free = g /\ t.records = s.records /\ t.policy = s.policy /\ t.dev = s.dev
        /\ t.dedup = s.dedup /\ t.trims = s.trims /\ DOMAIN t = Keys
    <3> HIDE DEF t, a, g, m, T
    <3> QED
      BY <2>2, WithFreeIs
  <2> HIDE DEF m, T
  <2>4. m \in 1..Len(f) /\ \A j \in m..Len(f) : End(f[j]) = IF j = Len(f) THEN n ELSE f[j + 1].start
    BY <2>1 DEF T
  <2>5. g \in Seq(FreeExts) /\ Len(g) = m - 1 /\ (\A k \in 1..m - 1 : g[k] = f[k]) /\ Ordered(g) /\ (Spaced(f) => Spaced(g))
    <3>1. m - 1 \in 0..Len(f)
      BY <2>4
    <3> QED
      BY <3>1, FreePart
  <2> HIDE DEF g, t
  <2>6. \A b : b \in Free(g) <=> \E k \in 1..m - 1 : b \in Nat /\ f[k].start <= b /\ b < End(f[k])
    <3>1. \A b : b \in Free(g) <=> \E k \in 1..Len(g) : b \in Nat /\ g[k].start <= b /\ b < End(g[k])
      BY <2>5, ListNumbers
    <3> QED
      BY <2>5, <3>1
  <2>7. a \in Nat
    BY <1>2, <2>4
  \* from the m-th extent on, the list covers everything up to the bump pointer
  <2>8. ASSUME NEW b \in Nat, a <= b, b < n PROVE b \in Free(f) /\ b \notin Free(g)
    <3> DEFINE J == {j \in m..Len(f) : f[j].start <= b}
    <3>1. m \in J /\ J \in SUBSET Nat /\ \A j \in J : j <= Len(f)
      BY <1>2, <2>4, <2>8
    <3>2. PICK j \in J : \A k \in J : j >= k
      BY <1>2, <3>1, GreatestNat
    <3>3. j \in 1..Len(f) /\ f[j].start <= b /\ j \in m..Len(f)
      BY <2>4, <3>2
    <3>4. b < End(f[j])
      <4>1. CASE j = Len(f)
        BY <2>4, <2>8, <3>3, <4>1
      <4>2. CASE j < Len(f)
        <5>1. End(f[j]) = f[j + 1].start
          BY <2>4, <3>3, <4>2
        <5>2. j + 1 \in m..Len(f) /\ j + 1 \notin J /\ j + 1 \in 1..Len(f)
          BY <2>4, <3>2, <3>3, <4>2
        <5>3. ~(f[j + 1].start <= b) /\ f[j + 1].start \in Nat
          BY <1>2, <5>2
        <5> QED
          BY <5>1, <5>3
      <4> QED
        BY <1>2, <3>3, <4>1, <4>2
    <3>5. b \in Free(f)
      BY <1>2, <3>3, <3>4
    <3>6. ASSUME NEW k \in 1..m - 1, b < End(f[k]) PROVE FALSE
      <4>1. End(f[k]) <= a
        BY <1>2, <2>4 DEF Ordered
      <4>2. End(f[k]) \in Nat
        BY <1>2, <2>4
      <4> QED
        BY <2>7, <2>8, <3>6, <4>1, <4>2
    <3> QED
      BY <2>6, <3>5, <3>6
  <2>9. a < n
    <3>1. \A j \in m..Len(f) : a <= f[j].start
      <4> SUFFICES ASSUME NEW j \in m..Len(f) PROVE a <= f[j].start
        OBVIOUS
      <4>1. CASE j = m
        BY <2>7, <4>1
      <4>2. CASE m < j
        <5>1. End(f[m]) <= f[j].start /\ f[m].start < End(f[m]) /\ End(f[m]) \in Nat /\ f[j].start \in Nat
          BY <1>2, <2>4, <4>2 DEF Ordered
        <5> QED
          BY <2>7, <5>1
      <4> QED
        BY <2>4, <4>1, <4>2
    <3>2. Len(f) \in m..Len(f) /\ End(f[Len(f)]) = n /\ f[Len(f)].start < End(f[Len(f)]) /\ f[Len(f)].start \in Nat
      BY <1>2, <2>4
    <3>3. a <= f[Len(f)].start
      BY <3>1, <3>2
    <3> QED
      BY <2>7, <3>2, <3>3
  <2>10. Free(g) \subseteq Free(f)
    BY <1>2, <2>4, <2>6
  <2>11. ASSUME NEW b \in Free(f), b < a PROVE b \in Free(g)
    <3>1. PICK k \in 1..Len(f) : b \in Nat /\ f[k].start <= b /\ b < End(f[k])
      BY <1>2
    <3>2. k < m
      <4> SUFFICES ASSUME m <= k PROVE FALSE
        BY <2>4
      <4>1. CASE k = m
        BY <2>7, <2>11, <3>1, <4>1
      <4>2. CASE m < k
        <5>1. End(f[m]) <= f[k].start /\ f[m].start < End(f[m]) /\ End(f[m]) \in Nat /\ f[k].start \in Nat
          BY <1>2, <2>4, <4>2 DEF Ordered
        <5> QED
          BY <2>7, <2>11, <3>1, <5>1
      <4> QED
        BY <2>4, <4>1, <4>2
    <3> QED
      BY <2>4, <2>6, <3>1, <3>2
  <2>12. Used(t) = Used(s)
    <3>1. \A b \in Nat : b < a /\ b \notin Free(g) <=> b < n /\ b \notin Free(f)
      BY <2>7, <2>8, <2>9, <2>10, <2>11
    <3> QED
      BY <2>3, <3>1 DEF Used, Numbers
  \* the extent before the m-th one ends earlier, or it would be one of them
  <2>13. \A k \in 1..m - 1 : End(f[k]) <= a - 1
    <3>1. \A k \in 1..m - 1 : End(f[k]) <= a /\ End(f[k]) \in Nat /\ f[k].start < End(f[k]) /\ f[k].start \in Nat
      BY <1>2, <2>4 DEF Ordered
    <3> SUFFICES ASSUME NEW k \in 1..m - 1, End(f[k]) = a PROVE FALSE
      BY <2>7, <3>1
    <3>2. k = m - 1
      <4> SUFFICES ASSUME k < m - 1 PROVE FALSE
        BY <2>4
      <4>1. m - 1 \in 1..m - 1 /\ k \in 1..Len(f) /\ m - 1 \in 1..Len(f)
        BY <2>4
      <4>2. End(f[k]) <= f[m - 1].start
        BY <4>1 DEF Ordered
      <4> QED
        BY <2>7, <3>1, <4>1, <4>2
    <3>3. \A j \in m - 1..Len(f) : End(f[j]) = IF j = Len(f) THEN n ELSE f[j + 1].start
      BY <2>4, <3>2
    <3>4. m - 1 \in T
      BY <2>4, <3>2, <3>3 DEF T
    <3> QED
      BY <2>1, <2>4, <3>4
  <2>14. Free(g) \subseteq Numbers(a - 1)
    <3>1. \A k \in 1..Len(g) : End(g[k]) <= a - 1
      BY <2>5, <2>13
    <3>2. a - 1 \in Int
      BY <2>7
    <3> QED
      BY <2>5, <3>1, <3>2, FreeBelow
  <2>15. ~Tight(s)
    <3>1. n - 1 \in Nat /\ a <= n - 1 /\ n - 1 < n
      BY <2>7, <2>9
    <3>2. n - 1 \in Free(f) /\ n - 1 \notin Numbers(n - 1)
      BY <2>8, <3>1 DEF Numbers
    <3> QED
      BY <1>5, <3>2 DEF Tight
  <2>16. Free(g) \subseteq Numbers(a) /\ Tight(t)
    BY <2>3, <2>7, <2>14 DEF Numbers, Tight
  <2> QED
    BY <2>3, <2>5, <2>7, <2>9, <2>10, <2>12, <2>15, <2>16 DEF SameFiles, t
<1>6. CASE ~s.policy.trim \/ T = {}
  <2>1. t = s
    BY <1>1, <1>6 DEF TrimFreeTail
  <2>2. Free(f) \subseteq Numbers(n) => Tight(s)
    BY <1>4, <1>6 DEF Tight
  <2> QED
    BY <2>1, <2>2 DEF SameFiles
<1> QED
  BY <1>5, <1>6

\* The blocks from a on, n of them.
Area(a, n) == {b \in Nat : a <= b /\ b < a + n}

\* Two stores that differ in their free space at most.
SameButSpace(s, t) ==
    /\ t.records = s.records /\ t.policy = s.policy /\ DOMAIN t = Keys
    /\ t.dev = s.dev /\ t.dedup = s.dedup

\* What the numbers and switches of a policy are.
LEMMA PolicyIs ==
  ASSUME NEW p \in Policies
  PROVE  /\ p.strategy \in {"BestFit", "FirstFit"} /\ p.split \in Nat
         /\ p.coalesce \in BOOLEAN /\ p.trim \in BOOLEAN
BY BlockStoreAssumption DEF BlockStoreAssumption

\* normalize_free_extents: the free blocks stay free but for those that are given back to
\* the bump pointer, and the list is in order again.
LEMMA NormalizeIs ==
  ASSUME NEW s, s.next \in Nat, s.free \in Seq(FreeExts), Apart(s.free), s.policy \in Policies,
         DOMAIN s = Keys
  PROVE  LET t == NormalizeFreeExtents(s)
         IN  /\ SameButSpace(s, t) /\ t.next \in Nat /\ t.next <= s.next
             /\ t.free \in Seq(FreeExts) /\ Ordered(t.free) /\ (s.policy.coalesce => Spaced(t.free))
             /\ Used(t) = Used(s) /\ Free(t.free) \subseteq Free(s.free)
             /\ Free(s.free) \subseteq Numbers(s.next) => SpaceOK(t) /\ Tight(t)
             /\ Tight(s) => t.next = s.next /\ Free(t.free) = Free(s.free)
<1> DEFINE sorted == SortedByStart(s.free)
<1> DEFINE list == IF s.policy.coalesce THEN Merge(sorted) ELSE sorted
<1> DEFINE u == WithFree(s, s.next, list)
<1> DEFINE t == NormalizeFreeExtents(s)
<1>1. t = TrimFreeTail(u)
  BY DEF NormalizeFreeExtents
<1>2. sorted \in Seq(FreeExts) /\ Ordered(sorted) /\ Free(sorted) = Free(s.free)
  BY SortIs
<1> HIDE DEF sorted
<1>3. /\ Merge(sorted) \in Seq(FreeExts) /\ Spaced(Merge(sorted)) /\ Free(Merge(sorted)) = Free(sorted)
      /\ Ordered(Merge(sorted))
  BY <1>2, MergeIs, OrderedApart
<1>4. /\ list \in Seq(FreeExts) /\ Ordered(list) /\ Free(list) = Free(s.free)
      /\ s.policy.coalesce => Spaced(list)
  BY <1>2, <1>3
<1> HIDE DEF list
<1>5. /\ u.next = s.next /\ u.free = list /\ u.records = s.records /\ u.policy = s.policy
      /\ u.dev = s.dev /\ u.dedup = s.dedup /\ DOMAIN u = Keys
  BY WithFreeIs
<1> HIDE DEF u, t
<1>6. u.policy.trim \in BOOLEAN /\ u.policy.coalesce \in BOOLEAN
  BY <1>5, PolicyIs
<1>7. /\ SameFiles(u, t) /\ t.dev = u.dev /\ t.dedup = u.dedup
      /\ t.next \in Nat /\ t.next <= u.next /\ t.free \in Seq(FreeExts) /\ Ordered(t.free)
      /\ Spaced(u.free) => Spaced(t.free)
      /\ Used(t) = Used(u) /\ Free(t.free) \subseteq Free(u.free)
      /\ Free(u.free) \subseteq Numbers(u.next) => Free(t.free) \subseteq Numbers(t.next) /\ Tight(t)
      /\ Tight(u) => t = u
  BY <1>1, <1>4, <1>5, <1>6, TrimIs
<1>8. SameButSpace(s, t)
  BY <1>5, <1>7 DEF SameButSpace, SameFiles
<1>9. Used(u) = Used(s) /\ (Tight(u) <=> Tight(s))
  BY <1>4, <1>5 DEF Used, Tight
<1>10. s.policy.coalesce => Spaced(t.free)
  BY <1>4, <1>5, <1>7
<1>11. Free(s.free) \subseteq Numbers(s.next) => SpaceOK(t) /\ Tight(t)
  BY <1>4, <1>5, <1>7, <1>10, Zenon DEF SpaceOK, SameFiles
<1> QED
  BY <1>4, <1>5, <1>7, <1>8, <1>9, <1>10, <1>11 DEF t

\* insert_free_extent: the blocks of the extent are no longer in use.
LEMMA InsertIs ==
  ASSUME NEW s, SpaceOK(s), s.policy \in Policies, DOMAIN s = Keys,
         NEW a \in Nat, NEW n \in Nat, Area(a, n) \subseteq Used(s)
  PROVE  LET t == InsertFreeExtent(s, Extent(a, n))
         IN  /\ SameButSpace(s, t) /\ SpaceOK(t) /\ Used(t) = Used(s) \ Area(a, n)
             /\ Tight(s) => Tight(t)
<1> DEFINE e == Extent(a, n)
<1> DEFINE t == InsertFreeExtent(s, e)
<1> DEFINE f == Append(s.free, e)
<1> DEFINE u == WithFree(s, s.next, f)
<1>1. e.start = a /\ e.len = n /\ e = [start |-> a, len |-> n]
  BY DEF Extent
<1> HIDE DEF e
<1>2. CASE n = 0
  <2>1. t = s /\ Area(a, n) = {}
    BY <1>1, <1>2 DEF InsertFreeExtent, Area
  <2> QED
    BY <2>1 DEF SameButSpace, e
<1>3. CASE n # 0
  <2>1. e \in FreeExts
    BY <1>1, <1>3 DEF FreeExts
  <2>2. Span(e) = Area(a, n)
    <3>1. End(e) = a + n
      BY <1>1 DEF End
    <3>2. \A b : b \in Span(e) <=> b \in Nat /\ a <= b /\ b < a + n
      BY <1>1, <2>1, <3>1, ExtentNumbers
    <3> QED
      BY <3>2 DEF Area
  <2>3. /\ s.next \in Nat /\ s.free \in Seq(FreeExts) /\ Apart(s.free)
        /\ Free(s.free) \cap Span(e) = {} /\ Span(e) \subseteq Numbers(s.next) /\ Free(s.free) \subseteq Numbers(s.next)
    BY <2>2, OrderedApart DEF SpaceOK, Used
  <2>4. f \in Seq(FreeExts) /\ Free(f) = Free(s.free) \cup Span(e) /\ Apart(f)
    BY <2>1, <2>3, FreeAppend
  <2> HIDE DEF f
  <2>5. /\ u.next = s.next /\ u.free = f /\ u.records = s.records /\ u.policy = s.policy
        /\ u.dev = s.dev /\ u.dedup = s.dedup /\ DOMAIN u = Keys
    BY WithFreeIs
  <2>6. t = NormalizeFreeExtents(u)
    BY <1>1, <1>3 DEF InsertFreeExtent, f
  <2> HIDE DEF u, t
  <2>7. Free(u.free) \subseteq Numbers(u.next)
    BY <2>3, <2>4, <2>5
  <2>8. SameButSpace(u, t) /\ Used(t) = Used(u) /\ SpaceOK(t) /\ Tight(t)
    BY <2>3, <2>4, <2>5, <2>6, <2>7, NormalizeIs
  <2>9. Used(u) = Used(s) \ Area(a, n)
    BY <2>2, <2>3, <2>4, <2>5 DEF Used
  <2>10. SameButSpace(s, t)
    BY <2>5, <2>8 DEF SameButSpace
  <2> QED
    BY <2>8, <2>9, <2>10 DEF t, e
<1> QED
  BY <1>2, <1>3

\* allocate_extent picks one of the free extents that are large enough.
LEMMA PickIs ==
  ASSUME NEW s, s.free \in Seq(FreeExts), s.policy \in Policies, NEW n \in Nat,
         ~\A k \in DOMAIN s.free : s.free[k].len < n
  PROVE  PickExtent(s, n) \in 1..Len(s.free) /\ s.free[PickExtent(s, n)].len >= n
<1> DEFINE f == s.free
<1> DEFINE fits == {k \in DOMAIN f : f[k].len >= n}
<1> DEFINE Best(k) == \A j \in fits \ {k} :
            \/ s.policy.strategy = "BestFit" /\ f[k].len < f[j].len
            \/ s.policy.strategy = "BestFit" /\ f[k].len = f[j].len /\ k < j
            \/ s.policy.strategy = "FirstFit" /\ k < j
<1>1. PickExtent(s, n) = CHOOSE k \in fits : Best(k)
  BY DEF PickExtent
<1>2. Len(f) \in Nat /\ DOMAIN f = 1..Len(f) /\ \A k \in DOMAIN f : f[k].len \in Nat
  <2>1. Len(f) \in Nat /\ DOMAIN f = 1..Len(f) /\ \A k \in DOMAIN f : f[k] \in FreeExts
    OBVIOUS
  <2> QED
    BY <2>1, ExtentNumbers
<1>3. fits # {} /\ fits \in SUBSET Nat
  BY <1>2
<1>4. \E k \in fits : Best(k)
  <2>1. CASE s.policy.strategy = "FirstFit"
    <3>1. PICK k \in fits : \A j \in fits : k <= j
      BY <1>3, LeastNat
    <3>2. Best(k)
      BY <1>3, <2>1, <3>1
    <3> QED
      BY <3>1, <3>2
  <2>2. CASE s.policy.strategy = "BestFit"
    <3> DEFINE lens == {l \in Nat : \E k \in fits : f[k].len = l}
    <3>1. lens \in SUBSET Nat /\ lens # {}
      BY <1>2, <1>3
    <3>2. PICK l \in lens : \A m \in lens : l <= m
      BY <3>1, LeastNat
    <3> DEFINE short == {k \in fits : f[k].len = l}
    <3>3. short \in SUBSET Nat /\ short # {}
      BY <1>3, <3>2
    <3>4. PICK k \in short : \A j \in short : k <= j
      BY <3>3, LeastNat
    <3>5. ASSUME NEW j \in fits \ {k}
          PROVE  f[k].len < f[j].len \/ (f[k].len = f[j].len /\ k < j)
      <4>1. f[k].len = l /\ l \in Nat /\ f[j].len \in Nat /\ f[j].len \in lens /\ k \in Nat /\ j \in Nat
        BY <1>2, <3>2, <3>4
      <4>2. l <= f[j].len
        BY <3>2, <4>1
      <4>3. CASE l = f[j].len
        <5>1. k <= j
          BY <3>4, <4>3
        <5> QED
          BY <4>1, <4>3, <5>1
      <4>4. CASE l # f[j].len
        <5> HIDE DEF fits, lens, short, f
        <5> QED
          BY <4>1, <4>2, <4>4
      <4> QED
        BY <4>3, <4>4
    <3>6. Best(k)
      BY <2>2, <3>5
    <3> QED
      BY <3>4, <3>6
  <2> QED
    BY <2>1, <2>2, PolicyIs
<1> HIDE DEF Best
<1>5. PickExtent(s, n) \in fits
  BY <1>1, <1>4
<1> QED
  BY <1>2, <1>5

\* The list without its k-th extent.
LEMMA RemoveIs ==
  ASSUME NEW f \in Seq(FreeExts), Ordered(f), NEW k \in 1..Len(f)
  PROVE  LET g == RemoveAt(f, k)
         IN  /\ g \in Seq(FreeExts) /\ Ordered(g) /\ (Spaced(f) => Spaced(g))
             /\ Free(g) = Free(f) \ Span(f[k])
<1> DEFINE g == RemoveAt(f, k)
<1> DEFINE at(j) == IF j < k THEN j ELSE j + 1
<1>1. Len(f) \in Nat /\ \A j \in 1..Len(f) : f[j] \in FreeExts
  OBVIOUS
<1>2. g \in Seq(FreeExts) /\ Len(g) = Len(f) - 1 /\ \A j \in 1..Len(f) - 1 : g[j] = f[at(j)]
  <2> DEFINE x == SubSeq(f, 1, k - 1)
  <2> DEFINE y == SubSeq(f, k + 1, Len(f))
  <2>1. x \in Seq(FreeExts) /\ Len(x) = k - 1 /\ \A j \in 1..k - 1 : x[j] = f[j]
    OBVIOUS
  <2>2. y \in Seq(FreeExts) /\ Len(y) = Len(f) - k /\ \A j \in 1..Len(f) - k : y[j] = f[j + k]
    OBVIOUS
  <2>3. g = x \o y
    BY DEF RemoveAt
  <2> HIDE DEF x, y, g
  <2>4. /\ g \in Seq(FreeExts) /\ Len(g) = Len(f) - 1
        /\ \A j \in 1..Len(f) - 1 : g[j] = IF j <= k - 1 THEN x[j] ELSE y[j - (k - 1)]
    <3>0. x \in Seq(FreeExts) /\ y \in Seq(FreeExts)
      BY <2>1, <2>2
    <3>1. g \in Seq(FreeExts) /\ Len(g) = Len(x) + Len(y)
      BY <2>3, <3>0
    <3>2. \A j \in 1..Len(x) + Len(y) : g[j] = IF j <= Len(x) THEN x[j] ELSE y[j - Len(x)]
      BY <2>3, <3>0
    <3>3. Len(x) + Len(y) = Len(f) - 1
      BY <1>1, <2>1, <2>2
    <3> QED
      BY <2>1, <3>1, <3>2, <3>3
  <2>5. ASSUME NEW j \in 1..Len(f) - 1 PROVE g[j] = f[at(j)]
    <3>1. CASE j <= k - 1
      <4>1. j \in 1..k - 1 /\ j < k
        BY <1>1, <3>1
      <4> QED
        BY <2>1, <2>4, <3>1, <4>1
    <3>2. CASE ~(j <= k - 1)
      <4>1. j - (k - 1) \in 1..Len(f) - k /\ j - (k - 1) + k = j + 1 /\ ~(j < k)
        BY <1>1, <3>2
      <4> QED
        BY <2>2, <2>4, <3>2, <4>1
    <3> QED
      BY <3>1, <3>2
  <2> QED
    BY <2>4, <2>5
<1> HIDE DEF g
<1>3. \A j \in 1..Len(f) - 1 : at(j) \in 1..Len(f) /\ at(j) # k
  BY <1>1
<1>4. \A i, j \in 1..Len(f) - 1 : i < j => at(i) < at(j)
  BY <1>1
<1>5. \A i \in 1..Len(f) : i # k => \E j \in 1..Len(f) - 1 : at(j) = i
  <2> SUFFICES ASSUME NEW i \in 1..Len(f), i # k PROVE \E j \in 1..Len(f) - 1 : at(j) = i
    OBVIOUS
  <2>1. CASE i < k
    <3>1. i \in 1..Len(f) - 1 /\ at(i) = i
      BY <1>1, <2>1
    <3> QED
      BY <3>1
  <2>2. CASE i > k
    <3>1. i - 1 \in 1..Len(f) - 1 /\ at(i - 1) = i
      BY <1>1, <2>2
    <3> QED
      BY <3>1
  <2> QED
    BY <2>1, <2>2
<1> HIDE DEF at
<1>6. Ordered(g)
  BY <1>2, <1>3, <1>4 DEF Ordered
<1>7. Spaced(f) => Spaced(g)
  BY <1>2, <1>3, <1>4 DEF Spaced
<1>8. Free(g) = Free(f) \ Span(f[k])
  <2>1. ASSUME NEW b \in Free(g) PROVE b \in Free(f) /\ b \notin Span(f[k])
    <3>1. PICK j \in 1..Len(f) - 1 : b \in Nat /\ b \in Span(g[j])
      BY <1>2 DEF Free
    <3>2. b \in Span(f[at(j)]) /\ at(j) \in 1..Len(f) /\ at(j) # k
      BY <1>2, <1>3, <3>1
    <3>3. Span(f[at(j)]) \cap Span(f[k]) = {}
      BY <3>2, OrderedApart DEF Apart
    <3> QED
      BY <3>1, <3>2, <3>3 DEF Free
  <2>2. ASSUME NEW b \in Free(f), b \notin Span(f[k]) PROVE b \in Free(g)
    <3>1. PICK i \in 1..Len(f) : b \in Nat /\ b \in Span(f[i])
      BY DEF Free
    <3>2. PICK j \in 1..Len(f) - 1 : at(j) = i
      BY <1>5, <2>2, <3>1
    <3>3. j \in 1..Len(g) /\ b \in Span(g[j])
      BY <1>2, <3>1, <3>2
    <3> QED
      BY <3>1, <3>3 DEF Free
  <2> QED
    BY <2>1, <2>2
<1> QED
  BY <1>2, <1>6, <1>7, <1>8 DEF g

\* The blocks an allocation hands out.
Given(a) == Area(a.start, a.blocks)

\* allocate_extent hands out blocks that were not in use.
LEMMA AllocateIs ==
  ASSUME NEW s, SpaceOK(s), s.policy \in Policies, DOMAIN s = Keys, NEW n \in Nat, n # 0
  PROVE  LET a == AllocateExtent(s, n)
             t == a.store
         IN  /\ a.start \in Nat /\ a.blocks \in Nat /\ a.blocks >= n
             /\ SameButSpace(s, t) /\ SpaceOK(t)
             /\ Used(t) = Used(s) \cup Given(a) /\ Used(s) \cap Given(a) = {}
             /\ Tight(s) => Tight(t)
<1> DEFINE a == AllocateExtent(s, n)
<1> DEFINE t == a.store
<1>0. s.next \in Nat /\ s.free \in Seq(FreeExts) /\ Ordered(s.free) /\ Free(s.free) \subseteq Numbers(s.next)
      /\ (s.policy.coalesce => Spaced(s.free))
  BY DEF SpaceOK
<1>1. CASE \A k \in DOMAIN s.free : s.free[k].len < n
  <2> DEFINE u == WithFree(s, s.next + n, s.free)
  <2>1. a.start = s.next /\ a.blocks = n /\ t = u
    BY <1>1 DEF AllocateExtent
  <2>2. /\ u.next = s.next + n /\ u.free = s.free /\ u.records = s.records /\ u.policy = s.policy
        /\ u.dev = s.dev /\ u.dedup = s.dedup /\ DOMAIN u = Keys
    BY WithFreeIs
  <2> HIDE DEF u, a
  <2>3. SameButSpace(s, t)
    BY <2>1, <2>2 DEF SameButSpace
  <2>4. SpaceOK(t)
    BY <1>0, <2>1, <2>2 DEF SpaceOK, Numbers
  <2>5. Used(t) = Used(s) \cup Given(a) /\ Used(s) \cap Given(a) = {}
    BY <1>0, <2>1, <2>2 DEF Used, Given, Area, Numbers
  <2>6. Tight(s) => Tight(t)
    BY <1>0, <2>1, <2>2 DEF Tight, Numbers
  <2> QED
    BY <1>0, <2>1, <2>3, <2>4, <2>5, <2>6 DEF a
<1>2. CASE ~\A k \in DOMAIN s.free : s.free[k].len < n
  <2> DEFINE k == PickExtent(s, n)
  <2> DEFINE e == s.free[k]
  <2> DEFINE rest == WithFree(s, s.next, RemoveAt(s.free, k))
  <2>1. k \in 1..Len(s.free) /\ e.len >= n
    BY <1>0, <1>2, PickIs
  <2>2. a = IF e.len - n >= Greatest(s.policy.split, 1)
            THEN [store |-> InsertFreeExtent(rest, Extent(e.start + n, e.len - n)),
                  start |-> e.start, blocks |-> n]
            ELSE [store |-> rest, start |-> e.start, blocks |-> e.len]
    BY <1>2 DEF AllocateExtent
  <2> HIDE DEF k
  <2>3. /\ RemoveAt(s.free, k) \in Seq(FreeExts) /\ Ordered(RemoveAt(s.free, k))
        /\ Spaced(s.free) => Spaced(RemoveAt(s.free, k))
        /\ Free(RemoveAt(s.free, k)) = Free(s.free) \ Span(e)
    BY <1>0, <2>1, RemoveIs
  <2>4. /\ rest.next = s.next /\ rest.free = RemoveAt(s.free, k) /\ rest.records = s.records
        /\ rest.policy = s.policy /\ rest.dev = s.dev /\ rest.dedup = s.dedup /\ DOMAIN rest = Keys
    BY WithFreeIs
  <2>5. /\ e.start \in Nat /\ e.len \in Nat /\ Span(e) = Area(e.start, e.len) /\ Span(e) \subseteq Free(s.free)
    <3>1. e \in FreeExts
      BY <1>0, <2>1
    <3>2. e.start \in Nat /\ e.len \in Nat /\ End(e) = e.start + e.len
          /\ \A b : b \in Span(e) <=> b \in Nat /\ e.start <= b /\ b < End(e)
      BY <3>1, ExtentNumbers DEF End
    <3>3. Span(e) \subseteq Free(s.free)
      BY <2>1, <3>2 DEF Free
    <3> QED
      BY <3>2, <3>3 DEF Area
  <2> HIDE DEF e, rest, a
  <2>6. SpaceOK(rest) /\ SameButSpace(s, rest)
    BY <1>0, <2>3, <2>4 DEF SpaceOK, SameButSpace
  <2>7. Used(rest) = Used(s) \cup Span(e) /\ Used(s) \cap Span(e) = {}
    BY <1>0, <2>3, <2>4, <2>5 DEF Used
  <2>8. Tight(s) => Tight(rest)
    BY <2>3, <2>4 DEF Tight
  <2>9. CASE e.len - n >= Greatest(s.policy.split, 1)
    <3> DEFINE m == e.len - n
    <3>1. t = InsertFreeExtent(rest, Extent(e.start + n, m)) /\ a.start = e.start /\ a.blocks = n
      BY <2>2, <2>9
    <3>2. m \in Nat /\ e.start + n \in Nat
      BY <2>1, <2>5
    <3>3. Area(e.start, e.len) = Area(e.start, n) \cup Area(e.start + n, m)
          /\ Area(e.start, n) \cap Area(e.start + n, m) = {}
      <4>1. e.start \in Nat /\ n \in Nat /\ e.len = n + m
        BY <2>1, <2>5
      <4> HIDE DEF m
      <4> QED
        BY <3>2, <4>1 DEF Area
    <3> HIDE DEF m, t
    <3>4. /\ SameButSpace(rest, t) /\ SpaceOK(t) /\ Used(t) = Used(rest) \ Area(e.start + n, m)
          /\ Tight(rest) => Tight(t)
      <4>1. Area(e.start + n, m) \subseteq Used(rest)
        BY <2>5, <2>7, <3>3
      <4> QED
        BY <2>4, <2>6, <3>1, <3>2, <4>1, InsertIs
    <3>5. SameButSpace(s, t)
      BY <2>6, <3>4 DEF SameButSpace
    <3>6. Used(t) = Used(s) \cup Given(a) /\ Used(s) \cap Given(a) = {}
      BY <2>5, <2>7, <3>1, <3>3, <3>4 DEF Given
    <3> QED
      BY <2>5, <2>8, <3>1, <3>4, <3>5, <3>6 DEF t, a
  <2>10. CASE ~(e.len - n >= Greatest(s.policy.split, 1))
    <3>1. t = rest /\ a.start = e.start /\ a.blocks = e.len
      BY <2>2, <2>10
    <3>2. Used(t) = Used(s) \cup Given(a) /\ Used(s) \cap Given(a) = {}
      BY <2>5, <2>7, <3>1 DEF Given
    <3> QED
      BY <2>1, <2>5, <2>6, <2>8, <3>1, <3>2 DEF a
  <2> QED
    BY <2>9, <2>10
<1> QED
  BY <1>1, <1>2

-----------------------------------------------------------------------------
(* Records *)

FileExts == [start : Nat, blocks : Nat \ {0}, len : Nat]

Blocks(x) == Area(x.start, x.blocks)

\* The blocks of a record.
Held(r) == {b \in Nat : \E k \in 1..Len(r.extents) : b \in Blocks(r.extents[k])}

\* A record of a file: it has extents if it has content, they have room for
\* their bytes, and do not overlap.
Counted(r) == Len(r.extents) = 1 => r.size <= r.extents[1].len

RecordOK(r) ==
    /\ DOMAIN r = {"size", "crc", "extents"}
    /\ r.size \in Nat
    /\ r.extents \in Seq(FileExts)
    /\ r.size = 0 <=> Len(r.extents) = 0
    /\ Counted(r)
    /\ \A k \in 1..Len(r.extents) : r.extents[k].len <= r.extents[k].blocks * BlockSize
    /\ \A j, k \in 1..Len(r.extents) : j # k => Blocks(r.extents[j]) \cap Blocks(r.extents[k]) = {}

\* The files own the blocks U between them, each its own.
FilesOK(R, U) ==
    /\ \A i \in DOMAIN R : RecordOK(R[i]) /\ Held(R[i]) \subseteq U
    /\ \A i, j \in DOMAIN R : i # j => Held(R[i]) \cap Held(R[j]) = {}

AllHeld(R) == {b \in Nat : \E i \in DOMAIN R : b \in Held(R[i])}

\* required_blocks has room for the bytes, and is never 0.
LEMMA RequiredIs ==
  ASSUME NEW n \in Nat
  PROVE  /\ RequiredBlocks(n) \in Nat /\ RequiredBlocks(n) # 0
         /\ n <= RequiredBlocks(n) * BlockSize
<1>1. BlockSize \in Nat /\ BlockSize > 0
  BY BlockStoreAssumption DEF BlockStoreAssumption
<1>2. CASE n = 0
  BY <1>1, <1>2 DEF RequiredBlocks
<1>3. CASE n # 0
  <2> DEFINE m == n + BlockSize - 1
  <2> DEFINE q == m \div BlockSize
  <2>1. m \in Nat /\ m >= BlockSize
    BY <1>1, <1>3
  <2>2. q \in Int /\ q * BlockSize <= m /\ m < (q + 1) * BlockSize
    BY <1>1, <2>1
  <2>3. (q + 1) * BlockSize = q * BlockSize + BlockSize
    BY <1>1, <2>2
  <2>4. q >= 1
    <3> SUFFICES ASSUME q <= 0 PROVE FALSE
      BY <2>2
    <3>1. q * BlockSize <= 0
      BY <1>1, <2>2
    <3> QED
      BY <1>1, <2>1, <2>2, <2>3, <3>1
  <2>5. n <= q * BlockSize
    BY <1>1, <2>2, <2>3
  <2>6. RequiredBlocks(n) = q
    BY <1>3 DEF RequiredBlocks
  <2> QED
    BY <2>2, <2>4, <2>5, <2>6
<1> QED
  BY <1>2, <1>3

\* More blocks have more room.
LEMMA MoreRoom ==
  ASSUME NEW n \in Nat, NEW m \in Nat, n <= m
  PROVE  n * BlockSize <= m * BlockSize
<1>1. BlockSize \in Nat
  BY BlockStoreAssumption DEF BlockStoreAssumption
<1>2. m - n \in Nat /\ m = n + (m - n)
  OBVIOUS
<1>3. m * BlockSize = n * BlockSize + (m - n) * BlockSize
  BY <1>1
<1>4. (m - n) * BlockSize >= 0
  BY <1>1, <1>2
<1>5. n * BlockSize \in Int /\ m * BlockSize \in Int /\ (m - n) * BlockSize \in Int
  BY <1>1, <1>2
<1> QED
  BY <1>3, <1>4, <1>5

\* The partial sums of total_blocks.
LEMMA TotalChain ==
  ASSUME NEW r, Len(r.extents) \in Nat
  PROVE  \E w : /\ w[0] = 0
                /\ \A k \in 1..Len(r.extents) : w[k] = w[k - 1] + r.extents[k].blocks
                /\ TotalBlocks(r) = w[Len(r.extents)]
<1> DEFINE Step(x, k) == x + r.extents[k].blocks
<1> DEFINE L == Len(r.extents)
<1> DEFINE IsChain(w, m) == w = [k \in 0..m |-> IF k = 0 THEN 0 ELSE Step(w[k - 1], k)]
<1>1. TotalBlocks(r) = (CHOOSE w : IsChain(w, L))[L]
  BY DEF TotalBlocks
<1> HIDE DEF Step, L
<1>2. \E w : IsChain(w, 0)
  <2> DEFINE w == [k \in 0..0 |-> 0]
  <2>1. IsChain(w, 0)
    OBVIOUS
  <2> QED
    BY <2>1
<1>3. ASSUME NEW m \in Nat, NEW u, IsChain(u, m) PROVE \E w : IsChain(w, m + 1)
  <2> DEFINE w == [k \in 0..m + 1 |-> IF k = m + 1 THEN Step(u[m], m + 1) ELSE u[k]]
  <2>1. \A k \in 0..m : u[k] = IF k = 0 THEN 0 ELSE Step(u[k - 1], k)
    BY <1>3
  <2>2. /\ \A k \in 0..m : w[k] = u[k]
        /\ w[m + 1] = Step(u[m], m + 1)
        /\ \A k \in 1..m + 1 : w[k - 1] = u[k - 1]
    OBVIOUS
  <2>3. ASSUME NEW k \in 0..m + 1 PROVE w[k] = IF k = 0 THEN 0 ELSE Step(w[k - 1], k)
    <3> HIDE DEF w
    <3>1. CASE k = m + 1
      BY <2>2, <3>1
    <3>2. CASE k \in 0..m
      BY <2>1, <2>2, <3>2
    <3> QED
      BY <3>1, <3>2
  <2>4. IsChain(w, m + 1)
    BY <2>3
  <2> QED
    BY <2>4
<1>4. \E w : IsChain(w, L)
  <2> DEFINE T == {m \in Nat : \E w : IsChain(w, m)}
  <2> HIDE DEF IsChain
  <2>1. 0 \in T
    BY <1>2
  <2>2. ASSUME NEW m \in 1..L, m - 1 \in T PROVE m \in T
    <3>1. m - 1 \in Nat /\ (m - 1) + 1 = m /\ m \in Nat
      BY DEF L
    <3>2. \E w : IsChain(w, (m - 1) + 1)
      BY <1>3, <2>2, <3>1
    <3> QED
      BY <3>1, <3>2
  <2> HIDE DEF T
  <2>3. \A m \in 0..L : m \in T
    BY <2>1, <2>2, UpTo DEF L
  <2> QED
    BY <2>3 DEF T, L
<1> DEFINE F == CHOOSE w : IsChain(w, L)
<1>5. IsChain(F, L)
  BY <1>4
<1> HIDE DEF F
<1>6. F[0] = 0 /\ \A k \in 1..L : F[k] = Step(F[k - 1], k)
  <2>1. L \in Nat
    BY DEF L
  <2>2. \A k \in 0..L : F[k] = IF k = 0 THEN 0 ELSE Step(F[k - 1], k)
    BY <1>5
  <2>3. 0 \in 0..L /\ \A k \in 1..L : k \in 0..L /\ k # 0
    BY <2>1
  <2> QED
    BY <2>2, <2>3
<1>7. TotalBlocks(r) = F[L]
  BY <1>1 DEF F
<1> QED
  BY <1>6, <1>7 DEF L, Step

\* An extent of a file.
LEMMA FileExtent ==
  ASSUME NEW x \in FileExts
  PROVE  /\ x.start \in Nat /\ x.blocks \in Nat /\ x.blocks > 0 /\ x.len \in Nat
         /\ IsFiniteSet(Blocks(x)) /\ Cardinality(Blocks(x)) = x.blocks
<1>1. x.start \in Nat /\ x.blocks \in Nat /\ x.blocks > 0 /\ x.len \in Nat
  BY DEF FileExts
<1>2. Blocks(x) = x.start..x.start + x.blocks - 1
  BY <1>1 DEF Blocks, Area
<1> DEFINE a == x.start
<1> DEFINE b == x.start + x.blocks - 1
<1>3. a \in Int /\ b \in Int /\ ~(a > b) /\ b - a + 1 = x.blocks
  BY <1>1
<1> HIDE DEF a, b
<1>4. IsFiniteSet(a..b) /\ Cardinality(a..b) = b - a + 1
  BY <1>3, FS_Interval
<1>5. Blocks(x) = a..b
  BY <1>2 DEF a, b
<1> QED
  BY <1>1, <1>3, <1>4, <1>5

\* total_blocks counts the blocks of a record.
LEMMA TotalIs ==
  ASSUME NEW r, RecordOK(r)
  PROVE  IsFiniteSet(Held(r)) /\ Cardinality(Held(r)) = TotalBlocks(r) /\ TotalBlocks(r) \in Nat
<1> DEFINE x == r.extents
<1>1. x \in Seq(FileExts) /\ Len(x) \in Nat
  BY DEF RecordOK
<1>2. PICK w : /\ w[0] = 0
               /\ \A k \in 1..Len(x) : w[k] = w[k - 1] + x[k].blocks
               /\ TotalBlocks(r) = w[Len(x)]
  BY <1>1, TotalChain
<1> DEFINE Part(m) == {b \in Nat : \E k \in 1..m : b \in Blocks(x[k])}
<1> DEFINE T == {m \in Nat : IsFiniteSet(Part(m)) /\ Cardinality(Part(m)) = w[m]}
<1>3. 0 \in T
  <2>1. Part(0) = {}
    OBVIOUS
  <2> QED
    BY <1>2, <2>1, FS_EmptySet
<1>4. ASSUME NEW m \in 1..Len(x), m - 1 \in T PROVE m \in T
  <2>1. x[m] \in FileExts
    BY <1>1
  <2>2. Part(m) = Part(m - 1) \cup Blocks(x[m])
    <3>1. \A b \in Blocks(x[m]) : b \in Nat
      BY DEF Blocks, Area
    <3>2. m \in 1..m /\ 1..m - 1 \subseteq 1..m /\ \A k \in 1..m : k = m \/ k \in 1..m - 1
      OBVIOUS
    <3> QED
      BY <3>1, <3>2
  <2>3. Part(m - 1) \cap Blocks(x[m]) = {}
    <3>1. \A k \in 1..m - 1 : Blocks(x[k]) \cap Blocks(x[m]) = {}
      <4>1. \A k \in 1..m - 1 : k \in 1..Len(x) /\ k # m
        BY <1>1
      <4> QED
        BY <4>1 DEF RecordOK
    <3> QED
      BY <3>1
  <2>4. IsFiniteSet(Part(m - 1)) /\ Cardinality(Part(m - 1)) = w[m - 1] /\ w[m] = w[m - 1] + x[m].blocks
    BY <1>2, <1>4
  <2>5. IsFiniteSet(Blocks(x[m])) /\ Cardinality(Blocks(x[m])) = x[m].blocks /\ x[m].blocks \in Nat
    BY <2>1, FileExtent
  <2> HIDE DEF Part
  <2>6. Cardinality({}) = 0 /\ Cardinality(Part(m - 1)) \in Nat
    BY <2>4, FS_EmptySet, FS_CardinalityType
  <2>7. /\ IsFiniteSet(Part(m - 1) \cup Blocks(x[m]))
        /\ Cardinality(Part(m - 1) \cup Blocks(x[m]))
             = Cardinality(Part(m - 1)) + Cardinality(Blocks(x[m])) - Cardinality(Part(m - 1) \cap Blocks(x[m]))
    BY <2>4, <2>5, FS_Union
  <2>8. Cardinality(Part(m)) = w[m] /\ IsFiniteSet(Part(m))
    <3>1. Cardinality(Part(m)) = Cardinality(Part(m - 1)) + Cardinality(Blocks(x[m])) - 0
      BY <2>2, <2>3, <2>6, <2>7
    <3> QED
      BY <2>2, <2>4, <2>5, <2>6, <2>7, <3>1
  <2> QED
    BY <1>1, <2>8
<1>5. Len(x) \in T
  <2> HIDE DEF T
  <2>1. \A m \in 0..Len(x) : m \in T
    BY <1>1, <1>3, <1>4, UpTo
  <2> QED
    BY <1>1, <2>1
<1>6. Part(Len(x)) = Held(r)
  BY DEF Held
<1> HIDE DEF Part
<1> QED
  BY <1>2, <1>5, <1>6, FS_CardinalityType

\* A record with at most one extent occupies total_blocks() blocks from
\* first_physical_block() on, which is what the methods free.
LEMMA OneExtent ==
  ASSUME NEW r, RecordOK(r), Len(r.extents) <= 1
  PROVE  /\ FirstPhysicalBlock(r) \in Nat /\ TotalBlocks(r) \in Nat
         /\ Held(r) = Area(FirstPhysicalBlock(r), TotalBlocks(r))
         /\ TotalBlocks(r) = 0 <=> Len(r.extents) = 0
         /\ \A k \in 1..Len(r.extents) : r.extents[k].start = FirstPhysicalBlock(r)
                                         /\ r.extents[k].blocks = TotalBlocks(r)
<1> DEFINE x == r.extents
<1>1. x \in Seq(FileExts) /\ Len(x) \in Nat
  BY DEF RecordOK
<1>2. PICK w : /\ w[0] = 0
               /\ \A k \in 1..Len(x) : w[k] = w[k - 1] + x[k].blocks
               /\ TotalBlocks(r) = w[Len(x)]
  BY <1>1, TotalChain
<1>3. CASE Len(x) = 0
  <2>1. x = <<>>
    BY <1>1, <1>3
  <2>2. FirstPhysicalBlock(r) = 0
    BY <2>1 DEF FirstPhysicalBlock
  <2>3. TotalBlocks(r) = 0
    BY <1>2, <1>3
  <2>4. Held(r) = {} /\ Area(0, 0) = {}
    BY <1>3 DEF Held, Area
  <2> QED
    BY <1>3, <2>2, <2>3, <2>4
<1>4. CASE Len(x) = 1
  <2>1. x # <<>> /\ x[1] \in FileExts /\ 1 \in 1..Len(x)
    BY <1>1, <1>4
  <2>2. x[1].start \in Nat /\ x[1].blocks \in Nat /\ x[1].blocks > 0
    BY <2>1, FileExtent
  <2>3. FirstPhysicalBlock(r) = x[1].start
    BY <2>1 DEF FirstPhysicalBlock
  <2>4. TotalBlocks(r) = x[1].blocks
    <3>1. w[1] = w[1 - 1] + x[1].blocks /\ 1 - 1 = 0
      BY <1>2, <2>1
    <3> QED
      BY <1>2, <1>4, <2>2, <3>1
  <2>5. Held(r) = Blocks(x[1])
    BY <1>4 DEF Held, Blocks, Area
  <2> QED
    BY <1>4, <2>2, <2>3, <2>4, <2>5 DEF Blocks
<1>5. Len(x) = 0 \/ Len(x) = 1
  <2>1. \A n \in Nat : n <= 1 => n = 0 \/ n = 1
    OBVIOUS
  <2> QED
    BY <1>1, <2>1, Zenon
<1> QED
  BY <1>3, <1>4, <1>5

\* A record with one new extent.
LEMMA NewRecord ==
  ASSUME NEW r, DOMAIN r = {"size", "crc", "extents"}, r.size \in Nat, r.size # 0,
         NEW x \in FileExts, r.extents = <<x>>, x.len <= x.blocks * BlockSize, r.size <= x.len
  PROVE  RecordOK(r) /\ Held(r) = Blocks(x) /\ Len(r.extents) = 1
<1>1. r.extents \in Seq(FileExts) /\ Len(r.extents) = 1 /\ r.extents[1] = x
  OBVIOUS
<1>2. RecordOK(r)
  <2>1. \A k \in 1..Len(r.extents) : k = 1
    BY <1>1
  <2> QED
    BY <1>1, <2>1 DEF RecordOK, Counted
<1>3. Held(r) = Blocks(x)
  BY <1>1 DEF Held, Blocks, Area
<1> QED
  BY <1>1, <1>2, <1>3

\* A record of an empty file.
LEMMA EmptyRecord ==
  ASSUME NEW r, DOMAIN r = {"size", "crc", "extents"}, r.size = 0, r.extents = <<>>
  PROVE  RecordOK(r) /\ Held(r) = {} /\ Len(r.extents) = 0
<1>1. r.extents \in Seq(FileExts) /\ Len(r.extents) = 0
  OBVIOUS
<1> QED
  BY <1>1 DEF RecordOK, Held, Counted

\* The records R2 are the records R with record i put in.
Puts(R, R2, i, r) ==
    /\ DOMAIN R2 = DOMAIN R \cup {i}
    /\ R2[i] = r
    /\ \A j \in DOMAIN R \ {i} : R2[j] = R[j]

\* The blocks of record i, if there is one.
HeldBy(R, i) == IF i \in DOMAIN R THEN Held(R[i]) ELSE {}

\* The blocks V have room for the files R on the blocks U when record i becomes r.
RoomFor(R, U, i, r, V) ==
    /\ Held(r) \subseteq V
    /\ U \ HeldBy(R, i) \subseteq V
    /\ (U \ HeldBy(R, i)) \cap Held(r) = {}

\* Putting in a record that has its blocks for itself.
LEMMA FilesPut ==
  ASSUME NEW R, NEW U, FilesOK(R, U), NEW i, NEW r, RecordOK(r), NEW R2, Puts(R, R2, i, r),
         NEW V, RoomFor(R, U, i, r, V)
  PROVE  /\ FilesOK(R2, V)
         /\ U \subseteq AllHeld(R) => (U \ HeldBy(R, i)) \cup Held(r) \subseteq AllHeld(R2)
<1>1. \A j \in DOMAIN R \ {i} : Held(R[j]) \cap HeldBy(R, i) = {}
  BY DEF FilesOK, HeldBy
<1>2. ASSUME NEW j \in DOMAIN R \ {i}
      PROVE  R2[j] = R[j] /\ RecordOK(R2[j]) /\ Held(R2[j]) \subseteq V /\ Held(R2[j]) \cap Held(r) = {}
  <2>1. R2[j] = R[j] /\ RecordOK(R[j]) /\ Held(R[j]) \subseteq U
    BY DEF FilesOK, Puts
  <2>2. Held(R[j]) \subseteq U \ HeldBy(R, i)
    BY <1>1, <2>1
  <2> QED
    BY <2>1, <2>2 DEF RoomFor
<1>3. R2[i] = r /\ DOMAIN R2 = DOMAIN R \cup {i}
  BY DEF Puts
<1>4. \A j \in DOMAIN R2 : RecordOK(R2[j]) /\ Held(R2[j]) \subseteq V
  BY <1>2, <1>3 DEF RoomFor
<1>5. ASSUME NEW j \in DOMAIN R2, NEW k \in DOMAIN R2, j # k PROVE Held(R2[j]) \cap Held(R2[k]) = {}
  <2>1. CASE j = i
    BY <1>2, <1>3, <1>5, <2>1
  <2>2. CASE k = i
    BY <1>2, <1>3, <1>5, <2>2
  <2>3. CASE j # i /\ k # i
    <3>1. j \in DOMAIN R \ {i} /\ k \in DOMAIN R \ {i}
      BY <1>3, <2>3
    <3>2. R2[j] = R[j] /\ R2[k] = R[k]
      BY <1>2, <3>1
    <3> QED
      BY <1>5, <3>1, <3>2 DEF FilesOK
  <2> QED
    BY <2>1, <2>2, <2>3
<1>6. ASSUME U \subseteq AllHeld(R), NEW b \in (U \ HeldBy(R, i)) \cup Held(r) PROVE b \in AllHeld(R2)
  <2>1. CASE b \in Held(r)
    <3>1. b \in Nat
      BY <2>1 DEF Held
    <3> QED
      BY <1>3, <2>1, <3>1 DEF AllHeld
  <2>2. CASE b \in U \ HeldBy(R, i)
    <3>1. PICK j \in DOMAIN R : b \in Nat /\ b \in Held(R[j])
      BY <1>6, <2>2 DEF AllHeld
    <3>2. j # i
      BY <2>2, <3>1 DEF HeldBy
    <3>3. j \in DOMAIN R2 /\ R2[j] = R[j]
      BY <1>2, <1>3, <3>2
    <3> QED
      BY <3>1, <3>3 DEF AllHeld
  <2> QED
    BY <1>6, <2>1, <2>2
<1> QED
  BY <1>4, <1>5, <1>6 DEF FilesOK

\* Taking a record out.
LEMMA FilesDrop ==
  ASSUME NEW R, NEW U, FilesOK(R, U), NEW i \in DOMAIN R,
         NEW R2, DOMAIN R2 = DOMAIN R \ {i}, \A j \in DOMAIN R2 : R2[j] = R[j]
  PROVE  /\ FilesOK(R2, U \ Held(R[i]))
         /\ U \subseteq AllHeld(R) => U \ Held(R[i]) \subseteq AllHeld(R2)
<1>1. ASSUME NEW j \in DOMAIN R2 PROVE RecordOK(R2[j]) /\ Held(R2[j]) \subseteq U \ Held(R[i])
  BY DEF FilesOK
<1>2. \A j, k \in DOMAIN R2 : j # k => Held(R2[j]) \cap Held(R2[k]) = {}
  BY DEF FilesOK
<1>3. ASSUME U \subseteq AllHeld(R), NEW b \in U \ Held(R[i]) PROVE b \in AllHeld(R2)
  <2>1. PICK j \in DOMAIN R : b \in Nat /\ b \in Held(R[j])
    BY <1>3 DEF AllHeld
  <2>2. j \in DOMAIN R2 /\ R2[j] = R[j]
    BY <1>3, <2>1
  <2> QED
    BY <2>1, <2>2 DEF AllHeld
<1> QED
  BY <1>1, <1>2, <1>3 DEF FilesOK

-----------------------------------------------------------------------------
(* The store *)

\* The inductive invariant of a store: the free space agrees with itself and
\* with the blocks of the files.
StoreOK(s) ==
    /\ DOMAIN s = Keys
    /\ s.policy \in Policies
    /\ SpaceOK(s)
    /\ DOMAIN s.records \subseteq Inodes
    /\ FilesOK(s.records, Used(s))

\* Every block in use belongs to a file, and the free list ends below the bump pointer.
ExactOK(s) == Tight(s) /\ Used(s) \subseteq AllHeld(s.records)

\* A store with the same free space, whose records keep their blocks.
LEMMA SameBlocks ==
  ASSUME NEW s, StoreOK(s), NEW t, DOMAIN t = Keys,
         t.next = s.next, t.free = s.free, t.policy = s.policy, DOMAIN t.records = DOMAIN s.records,
         \A i \in DOMAIN s.records : RecordOK(t.records[i]) /\ Held(t.records[i]) = Held(s.records[i])
  PROVE  StoreOK(t) /\ Used(t) = Used(s) /\ (ExactOK(s) => ExactOK(t))
<1>1. SpaceOK(t) /\ Used(t) = Used(s) /\ (Tight(s) => Tight(t))
  BY DEF StoreOK, SpaceOK, Used, Tight
<1>2. FilesOK(t.records, Used(t))
  BY <1>1 DEF StoreOK, FilesOK
<1>3. AllHeld(t.records) = AllHeld(s.records)
  BY DEF AllHeld
<1> QED
  BY <1>1, <1>2, <1>3 DEF StoreOK, ExactOK

\* A record with the same size and extents has the same blocks.
LEMMA SameRecord ==
  ASSUME NEW r, RecordOK(r), NEW q, DOMAIN q = {"size", "crc", "extents"},
         q.size \in Nat, q.size = 0 <=> r.size = 0, q.extents = r.extents, Counted(q)
  PROVE  RecordOK(q) /\ Held(q) = Held(r)
BY DEF RecordOK, Held

\* A store where blocks of a file were freed.
LEMMA FreedIs ==
  ASSUME NEW s, DOMAIN s = Keys, s.policy \in Policies, SpaceOK(s), NEW d,
         NEW a \in Nat, NEW n \in Nat, Area(a, n) \subseteq Used(s)
  PROVE  LET t == FreeBlocks([s EXCEPT !.dedup = d], Extent(a, n))
         IN  /\ t.records = s.records /\ t.policy = s.policy /\ DOMAIN t = Keys
             /\ SpaceOK(t) /\ Used(t) = Used(s) \ Area(a, n) /\ (Tight(s) => Tight(t))
<1> DEFINE e == Extent(a, n)
<1> DEFINE v == [s EXCEPT !.dedup = d]
<1> DEFINE T == IF TrackTrims THEN v.trims \cup Span(e) ELSE v.trims
<1> DEFINE u == [v EXCEPT !.trims = T]
<1> DEFINE t == FreeBlocks(v, e)
<1>1. /\ v.next = s.next /\ v.free = s.free /\ v.records = s.records /\ v.policy = s.policy
      /\ DOMAIN v = Keys
  BY DEF Keys
<1>2. t = InsertFreeExtent(u, e)
  BY DEF FreeBlocks
<1> HIDE DEF v, T, e
<1>3. /\ u.next = v.next /\ u.free = v.free /\ u.records = v.records /\ u.policy = v.policy
      /\ DOMAIN u = Keys
  BY <1>1 DEF Keys
<1> HIDE DEF u, t
<1>4. SpaceOK(u) /\ Used(u) = Used(s) /\ (Tight(s) => Tight(u))
  BY <1>1, <1>3 DEF SpaceOK, Used, Tight
<1>5. SameButSpace(u, t) /\ SpaceOK(t) /\ Used(t) = Used(u) \ Area(a, n) /\ (Tight(u) => Tight(t))
  BY <1>1, <1>2, <1>3, <1>4, InsertIs DEF e
<1> QED
  BY <1>1, <1>3, <1>4, <1>5 DEF SameButSpace, t, v, e

\* What write, write_device, remove and remove_inode free: the blocks of the record.
LEMMA ReleaseIs ==
  ASSUME NEW s, DOMAIN s = Keys, s.policy \in Policies, SpaceOK(s),
         NEW r, RecordOK(r), Len(r.extents) <= 1, Held(r) \subseteq Used(s)
  PROVE  LET t == Release(s, r)
         IN  /\ t.records = s.records /\ t.policy = s.policy /\ DOMAIN t = Keys
             /\ SpaceOK(t) /\ Used(t) = Used(s) \ Held(r) /\ (Tight(s) => Tight(t))
<1> DEFINE a == FirstPhysicalBlock(r)
<1> DEFINE n == TotalBlocks(r)
<1> DEFINE d == DedupRelease(s.dedup, r.crc)
<1>1. a \in Nat /\ n \in Nat /\ Held(r) = Area(a, n)
  BY OneExtent
<1>2. Release(s, r) = FreeBlocks([s EXCEPT !.dedup = d], Extent(a, n))
  BY DEF Release
<1> HIDE DEF a, n, d
<1> QED
  BY <1>1, <1>2, FreedIs

\* The place where a new record of inode i goes: n blocks at least, which only the
\* old record used.
SpotOK(s, i, spot, n) ==
    /\ spot.start \in Nat /\ spot.blocks \in Nat /\ spot.blocks >= n
    /\ spot.store.records = s.records /\ spot.store.policy = s.policy /\ DOMAIN spot.store = Keys
    /\ SpaceOK(spot.store)
    /\ Used(spot.store) = (Used(s) \ HeldBy(s.records, i)) \cup Given(spot)
    /\ (Used(s) \ HeldBy(s.records, i)) \cap Given(spot) = {}
    /\ Tight(s) => Tight(spot.store)

\* The store after the blocks of inode i were freed.
Freed(s, i) == IF i \in DOMAIN s.records THEN Release(s, s.records[i]) ELSE s

\* Freeing the blocks of a file.
LEMMA FreedRecord ==
  ASSUME NEW s, StoreOK(s), NEW i, i \in DOMAIN s.records => Len(s.records[i].extents) <= 1
  PROVE  LET t == Freed(s, i)
         IN  /\ t.records = s.records /\ t.policy = s.policy /\ DOMAIN t = Keys
             /\ SpaceOK(t) /\ Used(t) = Used(s) \ HeldBy(s.records, i) /\ (Tight(s) => Tight(t))
<1>1. CASE i \in DOMAIN s.records
  <2>1. RecordOK(s.records[i]) /\ Held(s.records[i]) \subseteq Used(s)
    BY <1>1 DEF StoreOK, FilesOK
  <2>2. Freed(s, i) = Release(s, s.records[i]) /\ HeldBy(s.records, i) = Held(s.records[i])
    BY <1>1 DEF Freed, HeldBy
  <2>3. DOMAIN s = Keys /\ s.policy \in Policies /\ SpaceOK(s)
    BY DEF StoreOK
  <2> QED
    BY <1>1, <2>1, <2>2, <2>3, ReleaseIs
<1>2. CASE i \notin DOMAIN s.records
  BY <1>2 DEF Freed, HeldBy, StoreOK
<1> QED
  BY <1>1, <1>2

\* A new place, after the old one was freed.
LEMMA MovedSpot ==
  ASSUME NEW s, StoreOK(s), NEW i, i \in DOMAIN s.records => Len(s.records[i].extents) <= 1,
         NEW n \in Nat, n # 0
  PROVE  SpotOK(s, i, AllocateExtent(Freed(s, i), n), n)
<1> DEFINE u == Freed(s, i)
<1> DEFINE a == AllocateExtent(u, n)
<1>1. /\ u.records = s.records /\ u.policy = s.policy /\ DOMAIN u = Keys
      /\ SpaceOK(u) /\ Used(u) = Used(s) \ HeldBy(s.records, i) /\ (Tight(s) => Tight(u))
  BY FreedRecord
<1> HIDE DEF u
<1>2. u.policy \in Policies
  BY <1>1 DEF StoreOK
<1>3. /\ a.start \in Nat /\ a.blocks \in Nat /\ a.blocks >= n
      /\ SameButSpace(u, a.store) /\ SpaceOK(a.store)
      /\ Used(a.store) = Used(u) \cup Given(a) /\ Used(u) \cap Given(a) = {}
      /\ Tight(u) => Tight(a.store)
  BY <1>1, <1>2, AllocateIs
<1> HIDE DEF a
<1>4. SpotOK(s, i, a, n)
  BY <1>1, <1>3 DEF SpotOK, SameButSpace
<1> QED
  BY <1>4 DEF a, u

\* The old place, the blocks behind the first n of it freed.
LEMMA ReusedSpot ==
  ASSUME NEW s, StoreOK(s), NEW i \in DOMAIN s.records, Len(s.records[i].extents) <= 1,
         NEW n \in Nat, TotalBlocks(s.records[i]) >= n
  PROVE  SpotOK(s, i, ReuseBlocks(s, s.records[i], n), n)
<1> DEFINE r == s.records[i]
<1> DEFINE a == FirstPhysicalBlock(r)
<1> DEFINE m == TotalBlocks(r)
<1> DEFINE d == DedupRelease(s.dedup, r.crc)
<1> DEFINE t == FreeBlocks([s EXCEPT !.dedup = d], Extent(a + n, m - n))
<1> DEFINE spot == ReuseBlocks(s, r, n)
<1>1. RecordOK(r) /\ Held(r) \subseteq Used(s)
  BY DEF StoreOK, FilesOK
<1>2. a \in Nat /\ m \in Nat /\ Held(r) = Area(a, m)
  BY <1>1, OneExtent
<1>3. spot.store = t /\ spot.start = a /\ spot.blocks = n
  BY DEF ReuseBlocks
<1>4. HeldBy(s.records, i) = Held(r)
  BY DEF HeldBy
<1>5. m >= n /\ DOMAIN s = Keys /\ s.policy \in Policies /\ SpaceOK(s)
  BY DEF StoreOK
<1> HIDE DEF a, m, d, r, spot
<1>6. a + n \in Nat /\ m - n \in Nat
  BY <1>2, <1>5
<1>7. Area(a, m) = Area(a, n) \cup Area(a + n, m - n) /\ Area(a, n) \cap Area(a + n, m - n) = {}
  BY <1>2, <1>5 DEF Area
<1>8. /\ t.records = s.records /\ t.policy = s.policy /\ DOMAIN t = Keys
      /\ SpaceOK(t) /\ Used(t) = Used(s) \ Area(a + n, m - n) /\ (Tight(s) => Tight(t))
  <2>1. Area(a + n, m - n) \subseteq Used(s)
    BY <1>1, <1>2, <1>7
  <2> QED
    BY <1>5, <1>6, <2>1, FreedIs
<1> HIDE DEF t
<1>9. Given(spot) = Area(a, n)
  BY <1>3 DEF Given
<1>10. /\ Used(t) = (Used(s) \ Held(r)) \cup Given(spot)
       /\ (Used(s) \ Held(r)) \cap Given(spot) = {}
  BY <1>1, <1>2, <1>7, <1>8, <1>9
<1>11. SpotOK(s, i, spot, n)
  BY <1>2, <1>3, <1>4, <1>5, <1>8, <1>10 DEF SpotOK
<1> QED
  BY <1>11 DEF spot, r

-----------------------------------------------------------------------------
(* The methods *)

\* What a caller may store.
IsContent(c) == Len(c) \in Nat /\ (c = <<>> <=> Len(c) = 0)

\* The store t is the store s with the record of inode i put in.
Stores(s, t, i) ==
    /\ StoreOK(t)
    /\ t.policy = s.policy
    /\ Puts(s.records, t.records, i, t.records[i])

\* The fields of a store with other files.
LEMMA WithFilesIs ==
  ASSUME NEW s, NEW R, NEW d, NEW v
  PROVE  LET t == WithFiles(s, R, d, v)
         IN  /\ t.next = s.next /\ t.free = s.free /\ t.records = R /\ t.dedup = d
             /\ t.trims = s.trims /\ t.dev = v /\ t.policy = s.policy /\ DOMAIN t = Keys
<1> DEFINE t == WithFiles(s, R, d, v)
<1>1. /\ t.next = s.next /\ t.free = s.free /\ t.records = R /\ t.dedup = d
      /\ t.trims = s.trims /\ t.dev = v /\ t.policy = s.policy
  BY DEF WithFiles
<1>2. DOMAIN t = Keys
  BY DEF WithFiles, Keys
<1> QED
  BY <1>1, <1>2

\* A bound record is a record put in.
LEMMA BindIs ==
  ASSUME NEW R, NEW i, NEW r
  PROVE  Puts(R, Bind(R, i, r), i, r)
BY DEF Puts, Bind

\* The record of new content at a place that is free for it.
LEMMA PutIs ==
  ASSUME NEW s, StoreOK(s), NEW i \in Inodes, NEW c, IsContent(c), NEW spot,
         SpotOK(s, i, spot, RequiredBlocks(Len(c))), NEW d
  PROVE  LET t == PutRecord(spot, i, c, d)
         IN  /\ Stores(s, t, i) /\ Len(t.records[i].extents) <= 1 /\ t.records[i].size = Len(c)
             /\ ExactOK(s) /\ c # <<>> => ExactOK(t)
<1> DEFINE x == [start |-> spot.start, blocks |-> spot.blocks, len |-> Len(c)]
<1> DEFINE r == [size |-> Len(c), crc |-> c, extents |-> IF c = <<>> THEN <<>> ELSE <<x>>]
<1> DEFINE R2 == Bind(spot.store.records, i, r)
<1> DEFINE v == WriteAtBlock(spot.store.dev, spot.start, spot.blocks, c)
<1> DEFINE t == PutRecord(spot, i, c, d)
<1> DEFINE n == RequiredBlocks(Len(c))
<1> DEFINE old == HeldBy(s.records, i)
<1>1. t = WithFiles(spot.store, R2, d, v)
  BY DEF PutRecord
<1>2. Len(c) \in Nat /\ (c = <<>> <=> Len(c) = 0)
  BY DEF IsContent
<1>3. n \in Nat /\ n # 0 /\ Len(c) <= n * BlockSize
  BY <1>2, RequiredIs
<1> HIDE DEF n
<1>4. /\ spot.start \in Nat /\ spot.blocks \in Nat /\ spot.blocks >= n
      /\ spot.store.records = s.records /\ spot.store.policy = s.policy /\ DOMAIN spot.store = Keys
      /\ SpaceOK(spot.store)
      /\ Used(spot.store) = (Used(s) \ old) \cup Given(spot)
      /\ (Used(s) \ old) \cap Given(spot) = {}
      /\ Tight(s) => Tight(spot.store)
  BY DEF SpotOK, n
<1>5. x \in FileExts /\ x.len <= x.blocks * BlockSize
  <2>1. n * BlockSize <= spot.blocks * BlockSize /\ n * BlockSize \in Int /\ spot.blocks * BlockSize \in Int
    <3>1. n <= spot.blocks
      BY <1>3, <1>4
    <3>2. BlockSize \in Int
      BY BlockStoreAssumption DEF BlockStoreAssumption
    <3> QED
      BY <1>3, <1>4, <3>1, <3>2, MoreRoom
  <2>2. Len(c) <= spot.blocks * BlockSize
    BY <1>2, <1>3, <2>1
  <2>3. x \in FileExts
    BY <1>2, <1>3, <1>4 DEF FileExts
  <2> QED
    BY <2>2, <2>3
<1>6. RecordOK(r) /\ Held(r) = (IF c = <<>> THEN {} ELSE Given(spot)) /\ Len(r.extents) <= 1
  <2>1. DOMAIN r = {"size", "crc", "extents"} /\ r.size = Len(c)
        /\ r.extents = IF c = <<>> THEN <<>> ELSE <<x>>
    OBVIOUS
  <2>2. Blocks(x) = Given(spot)
    BY DEF Blocks, Given
  <2>5. x.len = Len(c)
    OBVIOUS
  <2> HIDE DEF x, r
  <2>3. CASE c = <<>>
    <3>1. r.size = 0 /\ r.extents = <<>>
      BY <1>2, <2>1, <2>3
    <3>2. RecordOK(r) /\ Held(r) = {} /\ Len(r.extents) = 0
      BY <2>1, <3>1, EmptyRecord
    <3> QED
      BY <2>3, <3>2
  <2>4. CASE c # <<>>
    <3>1. r.size \in Nat /\ r.size # 0 /\ r.extents = <<x>> /\ r.size <= x.len
      BY <1>2, <2>1, <2>4, <2>5
    <3>2. RecordOK(r) /\ Held(r) = Blocks(x) /\ Len(r.extents) = 1
      BY <1>5, <2>1, <3>1, NewRecord
    <3> QED
      BY <2>2, <2>4, <3>2
  <2> QED
    BY <2>3, <2>4
<1>7. r.size = Len(c)
  OBVIOUS
<1> HIDE DEF r, x, v
<1>8. Puts(s.records, R2, i, r)
  BY <1>4, BindIs
<1>9. /\ t.next = spot.store.next /\ t.free = spot.store.free /\ t.records = R2
      /\ t.policy = spot.store.policy /\ DOMAIN t = Keys
  BY <1>1, WithFilesIs
<1> HIDE DEF R2, t
<1>10. SpaceOK(t) /\ Used(t) = Used(spot.store) /\ (Tight(spot.store) => Tight(t))
  BY <1>4, <1>9 DEF SpaceOK, Used, Tight
<1>11. Held(r) \subseteq Used(t) /\ Used(s) \ old \subseteq Used(t) /\ (Used(s) \ old) \cap Held(r) = {}
  BY <1>4, <1>6, <1>10
<1>12. FilesOK(s.records, Used(s)) /\ DOMAIN s.records \subseteq Inodes /\ s.policy \in Policies
  BY DEF StoreOK
<1>13. /\ FilesOK(R2, Used(t))
       /\ Used(s) \subseteq AllHeld(s.records) => (Used(s) \ old) \cup Held(r) \subseteq AllHeld(R2)
  <2>1. RoomFor(s.records, Used(s), i, r, Used(t))
    BY <1>11 DEF RoomFor
  <2> QED
    BY <1>6, <1>8, <1>12, <2>1, FilesPut
<1>14. StoreOK(t)
  <2>1. DOMAIN t.records \subseteq Inodes
    BY <1>8, <1>9, <1>12 DEF Puts
  <2> QED
    BY <1>4, <1>9, <1>10, <1>12, <1>13, <2>1 DEF StoreOK
<1>15. t.records[i] = r
  BY <1>8, <1>9 DEF Puts
<1>16. Stores(s, t, i)
  BY <1>4, <1>8, <1>9, <1>14, <1>15 DEF Stores
<1>17. ExactOK(s) /\ c # <<>> => ExactOK(t)
  BY <1>4, <1>6, <1>9, <1>10, <1>13 DEF ExactOK
<1> QED
  BY <1>6, <1>7, <1>15, <1>16, <1>17 DEF t

\* A file with one extent at most: what write, write_device and remove give up.
Whole(s, i) == i \in DOMAIN s.records => Len(s.records[i].extents) <= 1

\* write
LEMMA WriteIs ==
  ASSUME NEW s, StoreOK(s), NEW i \in Inodes, Whole(s, i), NEW c, IsContent(c)
  PROVE  LET t == Write(s, i, c)
         IN  /\ Stores(s, t, i) /\ Len(t.records[i].extents) <= 1 /\ t.records[i].size = Len(c)
             /\ ExactOK(s) /\ c # <<>> => ExactOK(t)
<1> DEFINE n == RequiredBlocks(Len(c))
<1> DEFINE has == i \in DOMAIN s.records
<1> DEFINE spot == IF has /\ TotalBlocks(s.records[i]) >= n THEN ReuseBlocks(s, s.records[i], n)
                   ELSE AllocateExtent(Freed(s, i), n)
<1> DEFINE d == DedupInsert(spot.store.dedup, c)
<1>1. Write(s, i, c) = PutRecord(spot, i, c, d)
  BY DEF Write, Freed
<1>2. n \in Nat /\ n # 0
  BY RequiredIs DEF IsContent
<1> HIDE DEF n
<1>3. SpotOK(s, i, spot, n)
  <2>1. CASE has /\ TotalBlocks(s.records[i]) >= n
    <3>1. spot = ReuseBlocks(s, s.records[i], n)
      BY <2>1
    <3>2. Len(s.records[i].extents) <= 1
      BY <2>1 DEF Whole
    <3> QED
      BY <1>2, <2>1, <3>1, <3>2, ReusedSpot
  <2>2. CASE ~(has /\ TotalBlocks(s.records[i]) >= n)
    <3>1. spot = AllocateExtent(Freed(s, i), n)
      BY <2>2
    <3> QED
      BY <1>2, <3>1, MovedSpot DEF Whole
  <2> QED
    BY <2>1, <2>2
<1> HIDE DEF spot, d
<1> QED
  BY <1>1, <1>3, PutIs DEF n

\* write_device
LEMMA WriteDeviceIs ==
  ASSUME NEW s, StoreOK(s), NEW i \in Inodes, Whole(s, i), NEW c, IsContent(c)
  PROVE  LET t == WriteDevice(s, i, c)
         IN  /\ Stores(s, t, i) /\ Len(t.records[i].extents) <= 1 /\ t.records[i].size = Len(c)
             /\ ExactOK(s) /\ c # <<>> => ExactOK(t)
<1> DEFINE n == RequiredBlocks(Len(c))
<1> DEFINE spot == AllocateExtent(Freed(s, i), n)
<1> DEFINE d == DedupInsert(spot.store.dedup, c)
<1> DEFINE put == PutRecord(spot, i, c, d)
<1> DEFINE u == [put EXCEPT !.dev = s.dev]
<1> DEFINE t == WriteDevice(s, i, c)
<1>1. t = IF c = <<>> THEN u ELSE put
  BY DEF WriteDevice, Freed
<1>2. n \in Nat /\ n # 0
  BY RequiredIs DEF IsContent
<1>3. SpotOK(s, i, spot, n)
  <2> HIDE DEF n
  <2> QED
    BY <1>2, MovedSpot DEF Whole
<1> HIDE DEF spot, d
<1>4. /\ Stores(s, put, i) /\ Len(put.records[i].extents) <= 1 /\ put.records[i].size = Len(c)
      /\ ExactOK(s) /\ c # <<>> => ExactOK(put)
  BY <1>3, PutIs
<1> HIDE DEF put
<1>5. /\ u.next = put.next /\ u.free = put.free /\ u.records = put.records /\ u.policy = put.policy
      /\ DOMAIN u = Keys
  BY <1>4 DEF Stores, StoreOK, Keys
<1> HIDE DEF u, t
<1>6. StoreOK(u)
  BY <1>4, <1>5, SameBlocks DEF Stores, StoreOK, FilesOK
<1>7. Stores(s, u, i)
  BY <1>4, <1>5, <1>6 DEF Stores
<1> QED
  BY <1>1, <1>4, <1>5, <1>7 DEF t

\* A record that is replaced is a record put in.
LEMMA ExceptIs ==
  ASSUME NEW R, NEW i \in DOMAIN R, NEW r
  PROVE  Puts(R, [R EXCEPT ![i] = r], i, r)
BY DEF Puts

\* Two methods on the same inode, one after the other.
LEMMA StoresTwice ==
  ASSUME NEW s, NEW u, NEW t, NEW i, Stores(s, u, i), Stores(u, t, i)
  PROVE  Stores(s, t, i)
BY DEF Stores, Puts

\* A function on 1..n is content of n cells.
LEMMA ContentIs ==
  ASSUME NEW c, NEW n \in Nat, DOMAIN c = 1..n, c = [k \in 1..n |-> c[k]]
  PROVE  IsContent(c) /\ Len(c) = n
<1>1. Len(c) = n
  OBVIOUS
<1>2. c = <<>> <=> n = 0
  OBVIOUS
<1> QED
  BY <1>1, <1>2 DEF IsContent

\* Reading a file gives as many cells as its size says.
LEMMA ReadIs ==
  ASSUME NEW s, NEW i, RecordOK(s.records[i])
  PROVE  IsContent(Read(s, i)) /\ Len(Read(s, i)) = s.records[i].size
<1> DEFINE r == s.records[i]
<1> DEFINE at == CellsOf(r)
<1> DEFINE c == [k \in 1..r.size |-> s.dev[at[k]]]
<1>1. Read(s, i) = IF r.extents = <<>> \/ r.size = 0 THEN <<>> ELSE c
  BY DEF Read
<1>2. r.size \in Nat /\ r.extents \in Seq(FileExts) /\ (r.size = 0 <=> Len(r.extents) = 0)
  BY DEF RecordOK
<1> HIDE DEF r, at
<1>3. IsContent(c) /\ Len(c) = r.size
  BY <1>2, ContentIs
<1>4. r.extents = <<>> <=> Len(r.extents) = 0
  BY <1>2
<1>5. IsContent(<<>>) /\ Len(<<>>) = 0
  BY DEF IsContent
<1> HIDE DEF c
<1> QED
  BY <1>1, <1>2, <1>3, <1>4, <1>5 DEF r

\* The content with other bytes laid over it.
LEMMA OverlayIs ==
  ASSUME NEW old, Len(old) \in Nat, NEW off \in Nat, NEW c, Len(c) \in Nat
  PROVE  /\ IsContent(Overlay(old, off, c))
         /\ Len(Overlay(old, off, c)) = Greatest(Len(old), off + Len(c))
<1> DEFINE n == Greatest(Len(old), off + Len(c))
<1>1. n \in Nat
  BY DEF Greatest
<1>2. /\ DOMAIN Overlay(old, off, c) = 1..n
      /\ Overlay(old, off, c) = [k \in 1..n |-> Overlay(old, off, c)[k]]
  BY DEF Overlay
<1> HIDE DEF n
<1> QED
  BY <1>1, <1>2, ContentIs DEF n

\* Content cut or extended to n cells.
LEMMA ResizedIs ==
  ASSUME NEW c, NEW n \in Nat
  PROVE  IsContent(Resized(c, n)) /\ Len(Resized(c, n)) = n
<1>1. /\ DOMAIN Resized(c, n) = 1..n
      /\ Resized(c, n) = [k \in 1..n |-> Resized(c, n)[k]]
  BY DEF Resized
<1> QED
  BY <1>1, ContentIs

\* A record with one more extent.
LEMMA GrowRecord ==
  ASSUME NEW r, RecordOK(r), r.size # 0,
         NEW x \in FileExts, x.len <= x.blocks * BlockSize, Blocks(x) \cap Held(r) = {},
         NEW q, DOMAIN q = {"size", "crc", "extents"}, q.size \in Nat, q.size # 0,
         q.extents = Append(r.extents, x)
  PROVE  RecordOK(q) /\ Held(q) = Held(r) \cup Blocks(x) /\ Len(q.extents) # 1
<1> DEFINE f == r.extents
<1> DEFINE g == q.extents
<1>1. f \in Seq(FileExts) /\ Len(f) \in Nat
  BY DEF RecordOK
<1>2. g \in Seq(FileExts) /\ Len(g) = Len(f) + 1 /\ g[Len(f) + 1] = x /\ \A k \in 1..Len(f) : g[k] = f[k]
  BY <1>1
<1>3. \A b \in Blocks(x) : b \in Nat
  BY DEF Blocks, Area
<1>4. \A k \in 1..Len(f) : Blocks(f[k]) \cap Blocks(x) = {}
  BY <1>3 DEF Held
<1>5. \A k \in 1..Len(g) : k \in 1..Len(f) \/ k = Len(f) + 1
  BY <1>1, <1>2
<1>6. \A k \in 1..Len(g) : g[k].len <= g[k].blocks * BlockSize
  <2> SUFFICES ASSUME NEW k \in 1..Len(g) PROVE g[k].len <= g[k].blocks * BlockSize
    OBVIOUS
  <2>1. CASE k \in 1..Len(f)
    BY <1>2, <2>1 DEF RecordOK
  <2>2. CASE k = Len(f) + 1
    BY <1>2, <2>2
  <2> QED
    BY <1>5, <2>1, <2>2
<1>7. ASSUME NEW j \in 1..Len(g), NEW k \in 1..Len(g), j # k PROVE Blocks(g[j]) \cap Blocks(g[k]) = {}
  <2>1. CASE j \in 1..Len(f) /\ k \in 1..Len(f)
    BY <1>2, <1>7, <2>1 DEF RecordOK
  <2>2. CASE j \in 1..Len(f) /\ k = Len(f) + 1
    BY <1>2, <1>4, <2>2
  <2>3. CASE j = Len(f) + 1 /\ k \in 1..Len(f)
    BY <1>2, <1>4, <2>3
  <2> QED
    BY <1>5, <1>7, <2>1, <2>2, <2>3
<1>10. Len(g) # 1
  <2>1. Len(f) # 0
    BY DEF RecordOK
  <2> QED
    BY <1>1, <1>2, <2>1
<1>8. RecordOK(q)
  <2>1. q.size = 0 <=> Len(g) = 0
    BY <1>1, <1>2
  <2> QED
    BY <1>2, <1>6, <1>7, <1>10, <2>1 DEF RecordOK, Counted
<1>9. Held(q) = Held(r) \cup Blocks(x)
  <2>1. ASSUME NEW b \in Held(q) PROVE b \in Held(r) \cup Blocks(x)
    <3>1. PICK k \in 1..Len(g) : b \in Nat /\ b \in Blocks(g[k])
      BY DEF Held
    <3>2. CASE k \in 1..Len(f)
      BY <1>2, <3>1, <3>2 DEF Held
    <3>3. CASE k = Len(f) + 1
      BY <1>2, <3>1, <3>3
    <3> QED
      BY <1>5, <3>2, <3>3
  <2>2. ASSUME NEW b \in Held(r) PROVE b \in Held(q)
    <3>1. PICK k \in 1..Len(f) : b \in Nat /\ b \in Blocks(f[k])
      BY DEF Held
    <3>2. k \in 1..Len(g) /\ g[k] = f[k]
      BY <1>1, <1>2
    <3> QED
      BY <3>1, <3>2 DEF Held
  <2>3. ASSUME NEW b \in Blocks(x) PROVE b \in Held(q)
    <3>1. Len(f) + 1 \in 1..Len(g)
      BY <1>1, <1>2
    <3> QED
      BY <1>2, <1>3, <3>1 DEF Held
  <2> QED
    BY <2>1, <2>2, <2>3
<1> QED
  BY <1>8, <1>9, <1>10

\* The new extent of an append.
LEMMA AddExtentIs ==
  ASSUME NEW s, StoreOK(s), NEW i \in DOMAIN s.records, s.records[i].size # 0,
         NEW c, IsContent(c)
  PROVE  LET t == AddExtent(s, i, c)
         IN  /\ Stores(s, t, i) /\ t.records[i].size = s.records[i].size
             /\ Len(t.records[i].extents) # 1
             /\ ExactOK(s) => ExactOK(t)
<1> DEFINE n == RequiredBlocks(Len(c))
<1> DEFINE spot == AllocateExtent(s, n)
<1> DEFINE x == [start |-> spot.start, blocks |-> spot.blocks, len |-> Len(c)]
<1> DEFINE r == s.records[i]
<1> DEFINE q == [r EXCEPT !.extents = Append(r.extents, x)]
<1> DEFINE v == WriteAtBlock(spot.store.dev, spot.start, spot.blocks, c)
<1> DEFINE R2 == [spot.store.records EXCEPT ![i] = q]
<1> DEFINE t == AddExtent(s, i, c)
<1>1. t = WithFiles(spot.store, R2, spot.store.dedup, v)
  BY DEF AddExtent, WithRecord
<1>2. n \in Nat /\ n # 0 /\ Len(c) <= n * BlockSize /\ Len(c) \in Nat
  BY RequiredIs DEF IsContent
<1> HIDE DEF n
<1>3. DOMAIN s = Keys /\ s.policy \in Policies /\ SpaceOK(s) /\ RecordOK(r) /\ Held(r) \subseteq Used(s)
      /\ DOMAIN s.records \subseteq Inodes /\ FilesOK(s.records, Used(s))
  BY DEF StoreOK, FilesOK
<1>4. /\ spot.start \in Nat /\ spot.blocks \in Nat /\ spot.blocks >= n
      /\ SameButSpace(s, spot.store) /\ SpaceOK(spot.store)
      /\ Used(spot.store) = Used(s) \cup Given(spot) /\ Used(s) \cap Given(spot) = {}
      /\ Tight(s) => Tight(spot.store)
  BY <1>2, <1>3, AllocateIs
<1> HIDE DEF spot
<1>5. x \in FileExts /\ x.len <= x.blocks * BlockSize
  <2>1. n * BlockSize <= spot.blocks * BlockSize /\ n * BlockSize \in Int /\ spot.blocks * BlockSize \in Int
    <3>1. n <= spot.blocks
      BY <1>2, <1>4
    <3>2. BlockSize \in Int
      BY BlockStoreAssumption DEF BlockStoreAssumption
    <3> QED
      BY <1>2, <1>4, <3>1, <3>2, MoreRoom
  <2>2. Len(c) <= spot.blocks * BlockSize
    BY <1>2, <2>1
  <2>3. x \in FileExts
    BY <1>2, <1>4 DEF FileExts
  <2> QED
    BY <2>2, <2>3
<1>6. Blocks(x) = Given(spot)
  BY DEF Blocks, Given
<1> HIDE DEF x, r
<1>7. /\ DOMAIN q = {"size", "crc", "extents"} /\ q.size = r.size /\ q.extents = Append(r.extents, x)
      /\ r.size \in Nat /\ r.size # 0
  BY <1>3 DEF RecordOK, r
<1> HIDE DEF q, v
<1>8. RecordOK(q) /\ Held(q) = Held(r) \cup Given(spot) /\ Len(q.extents) # 1
  <2>1. Blocks(x) \cap Held(r) = {}
    BY <1>3, <1>4, <1>6
  <2>2. q.size \in Nat /\ q.size # 0 /\ RecordOK(r)
    BY <1>3, <1>7
  <2>3. RecordOK(q) /\ Held(q) = Held(r) \cup Blocks(x) /\ Len(q.extents) # 1
    BY <1>5, <1>7, <2>1, <2>2, GrowRecord
  <2> QED
    BY <1>6, <2>3
<1>9. Puts(s.records, R2, i, q)
  BY <1>4, ExceptIs DEF SameButSpace
<1>10. /\ t.next = spot.store.next /\ t.free = spot.store.free /\ t.records = R2
       /\ t.policy = spot.store.policy /\ DOMAIN t = Keys
  BY <1>1, WithFilesIs
<1> HIDE DEF R2, t
<1>11. SpaceOK(t) /\ Used(t) = Used(s) \cup Given(spot) /\ (Tight(s) => Tight(t))
  BY <1>4, <1>10 DEF SpaceOK, Used, Tight
<1>12. HeldBy(s.records, i) = Held(r)
  BY DEF HeldBy, r
<1>13. RoomFor(s.records, Used(s), i, q, Used(t))
  BY <1>3, <1>4, <1>8, <1>11, <1>12 DEF RoomFor
<1>14. /\ FilesOK(R2, Used(t))
       /\ Used(s) \subseteq AllHeld(s.records) => (Used(s) \ HeldBy(s.records, i)) \cup Held(q) \subseteq AllHeld(R2)
  BY <1>3, <1>8, <1>9, <1>13, FilesPut
<1>15. t.policy = s.policy /\ t.records[i] = q
  BY <1>4, <1>9, <1>10 DEF SameButSpace, Puts
<1>16. StoreOK(t)
  <2>1. DOMAIN t.records \subseteq Inodes
    BY <1>3, <1>9, <1>10 DEF Puts
  <2> QED
    BY <1>3, <1>10, <1>11, <1>14, <1>15, <2>1 DEF StoreOK
<1>17. Stores(s, t, i)
  BY <1>9, <1>10, <1>15, <1>16 DEF Stores
<1>18. ExactOK(s) => ExactOK(t)
  BY <1>8, <1>10, <1>11, <1>12, <1>14 DEF ExactOK
<1> QED
  BY <1>7, <1>8, <1>15, <1>17, <1>18 DEF t, r

SizeOf(s, i) == IF i \in DOMAIN s.records THEN s.records[i].size ELSE 0

\* The content of a file is as long as the file.
LEMMA ContentOf ==
  ASSUME NEW s, StoreOK(s), NEW i
  PROVE  LET old == IF i \in DOMAIN s.records THEN Read(s, i) ELSE <<>>
         IN  IsContent(old) /\ Len(old) = SizeOf(s, i) /\ SizeOf(s, i) \in Nat
<1>1. CASE i \in DOMAIN s.records
  <2>1. RecordOK(s.records[i])
    BY <1>1 DEF StoreOK, FilesOK
  <2>2. IsContent(Read(s, i)) /\ Len(Read(s, i)) = s.records[i].size
    BY <2>1, ReadIs
  <2> QED
    BY <1>1, <2>1, <2>2 DEF SizeOf, RecordOK
<1>2. CASE i \notin DOMAIN s.records
  BY <1>2 DEF SizeOf, IsContent
<1> QED
  BY <1>1, <1>2

\* A file without content has no extent.
LEMMA NoContent ==
  ASSUME NEW s, StoreOK(s), NEW i
  PROVE  /\ ~HasContent(s, i) => Whole(s, i)
         /\ SizeOf(s, i) = 0 => Whole(s, i)
         /\ HasContent(s, i) => i \in DOMAIN s.records /\ s.records[i].size # 0 /\ Len(s.records[i].extents) > 0
<1>1. CASE i \in DOMAIN s.records
  <2> DEFINE r == s.records[i]
  <2>1. r.extents \in Seq(FileExts) /\ Len(r.extents) \in Nat /\ r.size \in Nat /\ (r.size = 0 <=> Len(r.extents) = 0)
    BY <1>1 DEF StoreOK, FilesOK, RecordOK
  <2>2. r.extents = <<>> <=> Len(r.extents) = 0
    BY <2>1
  <2> HIDE DEF r
  <2>3. HasContent(s, i) <=> r.extents # <<>> /\ r.size > 0
    BY <1>1 DEF HasContent, r
  <2>4. SizeOf(s, i) = r.size /\ (Whole(s, i) <=> Len(r.extents) <= 1)
    BY <1>1 DEF SizeOf, Whole, r
  <2> QED
    BY <1>1, <2>1, <2>2, <2>3, <2>4 DEF r
<1>2. CASE i \notin DOMAIN s.records
  BY <1>2 DEF HasContent, Whole
<1> QED
  BY <1>1, <1>2

\* A method has stored content for inode i: the store is sound, and no block is lost.
Sound(s, t, i) ==
    /\ Stores(s, t, i)
    /\ t.records[i].size # 0
    /\ ExactOK(s) => ExactOK(t)

\* A store is sound as it is.
LEMMA StaysSound ==
  ASSUME NEW s, StoreOK(s), NEW i \in DOMAIN s.records, s.records[i].size # 0
  PROVE  Sound(s, s, i)
BY DEF Sound, Stores, Puts

\* A record that is replaced by one with the same blocks.
LEMMA RecordChanged ==
  ASSUME NEW s, StoreOK(s), NEW i \in DOMAIN s.records, NEW q, RecordOK(q), Held(q) = Held(s.records[i]),
         NEW t, DOMAIN t = Keys, t.next = s.next, t.free = s.free, t.policy = s.policy,
         t.records = [s.records EXCEPT ![i] = q]
  PROVE  Stores(s, t, i) /\ t.records[i] = q /\ (ExactOK(s) => ExactOK(t))
<1>1. Puts(s.records, t.records, i, q)
  BY ExceptIs
<1>2. t.records[i] = q /\ DOMAIN t.records = DOMAIN s.records
      /\ \A j \in DOMAIN s.records \ {i} : t.records[j] = s.records[j]
  BY <1>1 DEF Puts
<1>3. \A j \in DOMAIN s.records : RecordOK(t.records[j]) /\ Held(t.records[j]) = Held(s.records[j])
  BY <1>2 DEF StoreOK, FilesOK
<1>4. StoreOK(t) /\ (ExactOK(s) => ExactOK(t))
  BY <1>2, <1>3, SameBlocks
<1> QED
  BY <1>1, <1>2, <1>4 DEF Stores

\* A record's only extent holds n cells that are not yet counted as the file's.
LeavesRoom(r, n) == Len(r.extents) = 1 => r.size + n <= r.extents[1].len

\* The bookkeeping of an append.
LEMMA GrownIs ==
  ASSUME NEW s, StoreOK(s), NEW i \in DOMAIN s.records, s.records[i].size # 0, NEW c, IsContent(c),
         LeavesRoom(s.records[i], Len(c))
  PROVE  Sound(s, Grown(s, i, c), i)
<1> DEFINE r == s.records[i]
<1> DEFINE q == GrownRecord(r, c)
<1> DEFINE t == Grown(s, i, c)
<1>1. t = WithFiles(s, [s.records EXCEPT ![i] = q], DedupRelease(s.dedup, r.crc), s.dev)
  BY DEF Grown
<1>2. RecordOK(r) /\ r.size \in Nat /\ Len(c) \in Nat
  BY DEF StoreOK, FilesOK, RecordOK, IsContent
<1>3. q.size = r.size + Len(c) /\ q.extents = r.extents /\ DOMAIN q = {"size", "crc", "extents"}
  BY DEF GrownRecord
<1>4. /\ t.next = s.next /\ t.free = s.free /\ t.records = [s.records EXCEPT ![i] = q]
      /\ t.policy = s.policy /\ DOMAIN t = Keys
  BY <1>1, WithFilesIs
<1> HIDE DEF q, t, r
<1>5. q.size \in Nat /\ q.size # 0
  BY <1>2, <1>3 DEF r
<1>6. RecordOK(q) /\ Held(q) = Held(r)
  <2>1. q.size = 0 <=> r.size = 0
    BY <1>5 DEF r
  <2>2. Counted(q)
    BY <1>3 DEF Counted, LeavesRoom, r
  <2> QED
    BY <1>2, <1>3, <1>5, <2>1, <2>2, SameRecord
<1>7. Stores(s, t, i) /\ t.records[i] = q /\ (ExactOK(s) => ExactOK(t))
  BY <1>4, <1>6, RecordChanged DEF r
<1> QED
  BY <1>5, <1>7 DEF Sound, t

\* append_to_inode
LEMMA AppendIs ==
  ASSUME NEW s, StoreOK(s), NEW i \in Inodes, NEW c, IsContent(c), c # <<>>
  PROVE  Sound(s, AppendToInode(s, i, c), i)
<1> DEFINE t == AppendToInode(s, i, c)
<1>1. CASE ~HasContent(s, i)
  <2>1. t = Write(s, i, c)
    BY <1>1 DEF AppendToInode
  <2>2. Whole(s, i)
    BY <1>1, NoContent
  <2>3. Stores(s, t, i) /\ t.records[i].size = Len(c) /\ (ExactOK(s) /\ c # <<>> => ExactOK(t))
    BY <2>1, <2>2, WriteIs
  <2> QED
    BY <2>3 DEF IsContent, Sound
<1>2. CASE HasContent(s, i)
  <2> DEFINE u == AddExtent(s, i, c)
  <2>1. t = Grown(u, i, c)
    BY <1>2 DEF AppendToInode
  <2>2. i \in DOMAIN s.records /\ s.records[i].size # 0
    BY <1>2, NoContent
  <2>3. Stores(s, u, i) /\ u.records[i].size = s.records[i].size /\ (ExactOK(s) => ExactOK(u))
        /\ Len(u.records[i].extents) # 1
    BY <2>2, AddExtentIs
  <2> HIDE DEF u
  <2>4. StoreOK(u) /\ i \in DOMAIN u.records /\ u.records[i].size # 0
    BY <2>2, <2>3 DEF Stores, Puts
  <2>5. Sound(u, t, i)
    <3>1. LeavesRoom(u.records[i], Len(c))
      BY <2>3 DEF LeavesRoom
    <3> QED
      BY <2>1, <2>4, <3>1, GrownIs
  <2>6. Stores(s, t, i)
    BY <2>3, <2>5, StoresTwice DEF Sound
  <2> QED
    BY <2>3, <2>5, <2>6 DEF Sound
<1> QED
  BY <1>1, <1>2

\* An extent with more of its room used.
LEMMA LongerExtent ==
  ASSUME NEW e \in FileExts, NEW n \in Nat
  PROVE  LET x == [e EXCEPT !.len = e.len + n]
         IN  x \in FileExts /\ x.start = e.start /\ x.blocks = e.blocks /\ x.len = e.len + n
BY DEF FileExts

\* append_device fills the slack of the last extent first.
LEMMA FillSlackIs ==
  ASSUME NEW s, StoreOK(s), NEW i \in DOMAIN s.records, NEW k \in 1..Len(s.records[i].extents),
         NEW n \in Nat,
         s.records[i].extents[k].len + n <= s.records[i].extents[k].blocks * BlockSize,
         NEW base, NEW c
  PROVE  LET t == FillSlack(s, i, k, n, base, c)
         IN  /\ Stores(s, t, i) /\ t.records[i].size = s.records[i].size
             /\ k = Len(s.records[i].extents) => LeavesRoom(t.records[i], n)
             /\ ExactOK(s) => ExactOK(t)
<1> DEFINE r == s.records[i]
<1> DEFINE f == r.extents
<1> DEFINE q == [r EXCEPT !.extents[k].len = r.extents[k].len + n]
<1> DEFINE g == q.extents
<1> DEFINE v == [x \in DOMAIN s.dev |-> IF x - base \in 0..n - 1 THEN c[x - base + 1] ELSE s.dev[x]]
<1> DEFINE t == FillSlack(s, i, k, n, base, c)
<1>1. t = WithFiles(s, [s.records EXCEPT ![i] = q], s.dedup, v)
  BY DEF FillSlack, WithRecord
<1>2. RecordOK(r)
  BY DEF StoreOK, FilesOK
<1>3. f \in Seq(FileExts) /\ Len(f) \in Nat /\ r.size \in Nat /\ DOMAIN r = {"size", "crc", "extents"}
  BY <1>2 DEF RecordOK
<1>4. \A j \in 1..Len(f) : f[j] \in FileExts
  BY <1>3
<1>5. DOMAIN q = {"size", "crc", "extents"} /\ q.size = r.size
      /\ g = [f EXCEPT ![k] = [f[k] EXCEPT !.len = f[k].len + n]]
  BY <1>3
<1>6. /\ f[k].start \in Nat /\ f[k].blocks \in Nat /\ f[k].blocks > 0 /\ f[k].len \in Nat
      /\ f[k] = [start |-> f[k].start, blocks |-> f[k].blocks, len |-> f[k].len]
  BY <1>4 DEF FileExts
<1> DEFINE x == [f[k] EXCEPT !.len = f[k].len + n]
<1>7. x \in FileExts /\ x.start = f[k].start /\ x.blocks = f[k].blocks /\ x.len = f[k].len + n
  <2>1. f[k] \in FileExts
    BY <1>4
  <2> QED
    BY <2>1, LongerExtent
<1>8. x.len <= x.blocks * BlockSize
  BY <1>7
<1> HIDE DEF x
<1>9. g \in Seq(FileExts) /\ Len(g) = Len(f) /\ g[k] = x /\ \A j \in 1..Len(f) : j # k => g[j] = f[j]
  BY <1>3, <1>5, <1>7 DEF x
<1> HIDE DEF q, v, t
<1>10. \A j \in 1..Len(f) : Blocks(g[j]) = Blocks(f[j])
  BY <1>7, <1>9 DEF Blocks
<1>11. Held(q) = Held(r)
  BY <1>9, <1>10 DEF Held
<1>12. \A j \in 1..Len(f) : g[j].len <= g[j].blocks * BlockSize
  BY <1>2, <1>8, <1>9 DEF RecordOK
<1>16. Counted(q)
  <2>1. g[1].len >= f[1].len \/ Len(f) # 1
    <3>1. CASE k = 1
      BY <1>6, <1>7, <1>9, <3>1
    <3>2. CASE k # 1
      BY <1>3, <3>2
    <3> QED
      BY <3>1, <3>2
  <2>2. Len(f) = 1 => f[1].len \in Nat /\ r.size <= f[1].len
    BY <1>2, <1>4 DEF RecordOK, Counted, FileExts
  <2>3. Len(f) = 1 => g[1].len \in Nat
    <3>1. Len(f) = 1 => g[1] \in FileExts
      BY <1>9
    <3> QED
      BY <3>1 DEF FileExts
  <2> QED
    BY <1>3, <1>5, <1>9, <2>1, <2>2, <2>3 DEF Counted
<1>17. k = Len(f) => LeavesRoom(q, n)
  <2> SUFFICES ASSUME k = Len(f), Len(g) = 1 PROVE q.size + n <= g[1].len
    BY DEF LeavesRoom
  <2>1. k = 1 /\ g[1].len = f[1].len + n
    BY <1>7, <1>9
  <2>2. r.size <= f[1].len /\ f[1].len \in Nat
    BY <1>2, <1>6, <1>9, <2>1 DEF RecordOK, Counted
  <2> QED
    BY <1>3, <1>5, <2>1, <2>2
<1>13. RecordOK(q)
  <2>1. \A j, l \in 1..Len(g) : j # l => Blocks(g[j]) \cap Blocks(g[l]) = {}
    BY <1>2, <1>9, <1>10 DEF RecordOK
  <2>2. q.size \in Nat /\ (q.size = 0 <=> Len(g) = 0)
    BY <1>2, <1>5, <1>9 DEF RecordOK
  <2> QED
    BY <1>5, <1>9, <1>12, <1>16, <2>1, <2>2 DEF RecordOK
<1>14. /\ t.next = s.next /\ t.free = s.free /\ t.records = [s.records EXCEPT ![i] = q]
       /\ t.policy = s.policy /\ DOMAIN t = Keys
  BY <1>1, WithFilesIs
<1>15. Stores(s, t, i) /\ t.records[i] = q /\ (ExactOK(s) => ExactOK(t))
  BY <1>11, <1>13, <1>14, RecordChanged
<1> QED
  BY <1>5, <1>15, <1>17 DEF t

\* append_device
LEMMA AppendDeviceIs ==
  ASSUME NEW s, StoreOK(s), NEW i \in Inodes, NEW S, NEW c \in Seq(S), c # <<>>
  PROVE  Sound(s, AppendDevice(s, i, c), i)
<1> DEFINE t == AppendDevice(s, i, c)
<1> DEFINE k == Len(s.records[i].extents)
<1> DEFINE e == s.records[i].extents[k]
<1> DEFINE fill == Least(Len(c), e.blocks * BlockSize - e.len)
<1> DEFINE u == FillSlack(s, i, k, fill, e.start * BlockSize + e.len, c)
<1> DEFINE rest == SubSeq(c, fill + 1, Len(c))
<1> DEFINE w == IF rest = <<>> THEN u ELSE AddExtent(u, i, rest)
<1>0. IsContent(c) /\ Len(c) \in Nat
  BY DEF IsContent
<1>2. CASE ~HasContent(s, i)
  <2>1. t = WriteDevice(s, i, c)
    BY <1>2 DEF AppendDevice
  <2>2. Stores(s, t, i) /\ t.records[i].size = Len(c) /\ (ExactOK(s) /\ c # <<>> => ExactOK(t))
    BY <1>0, <1>2, <2>1, NoContent, WriteDeviceIs
  <2> QED
    BY <1>0, <2>2 DEF IsContent, Sound
<1>3. CASE HasContent(s, i)
  <2>1. t = Grown(w, i, c)
    BY <1>3 DEF AppendDevice
  <2>2. i \in DOMAIN s.records /\ s.records[i].size # 0 /\ Len(s.records[i].extents) > 0
    BY <1>3, NoContent
  <2>3. RecordOK(s.records[i])
    BY <2>2 DEF StoreOK, FilesOK
  <2>4. k \in 1..k /\ e \in FileExts /\ e.len <= e.blocks * BlockSize
    BY <2>2, <2>3 DEF RecordOK
  <2>5. /\ e.blocks \in Nat /\ e.len \in Nat /\ BlockSize \in Nat
    BY <2>4, FileExtent, BlockStoreAssumption DEF BlockStoreAssumption
  <2>6. fill \in Nat /\ fill <= Len(c) /\ e.len + fill <= e.blocks * BlockSize
    <3> DEFINE room == e.blocks * BlockSize
    <3>1. room \in Int
      <4> HIDE DEF e
      <4> QED
        BY <2>5
    <3> HIDE DEF room
    <3>2. e.len <= room /\ fill = Least(Len(c), room - e.len)
      BY <2>4 DEF room
    <3> HIDE DEF e, fill
    <3>3. fill \in Nat /\ fill <= Len(c) /\ e.len + fill <= room
      BY <1>0, <2>5, <3>1, <3>2 DEF Least
    <3> QED
      BY <3>3 DEF room
  <2>7. Stores(s, u, i) /\ u.records[i].size = s.records[i].size /\ (ExactOK(s) => ExactOK(u))
        /\ LeavesRoom(u.records[i], fill)
    <3>1. s.records[i].extents[k].len + fill <= s.records[i].extents[k].blocks * BlockSize
      BY <2>6
    <3> HIDE DEF fill
    <3> QED
      BY <2>2, <2>4, <2>6, <3>1, FillSlackIs
  <2>8. IsContent(rest)
    <3>1. fill + 1 \in 1..Len(c) + 1
      BY <1>0, <2>6
    <3> HIDE DEF fill
    <3>2. rest \in Seq(S)
      BY <1>0, <3>1
    <3> HIDE DEF rest
    <3> QED
      BY <3>2 DEF IsContent
  <2>13. rest = <<>> => fill = Len(c)
    <3> HIDE DEF fill
    <3>1. Len(rest) = IF fill + 1 <= Len(c) THEN Len(c) - (fill + 1) + 1 ELSE 0
      BY <1>0, <2>6
    <3>2. rest = <<>> => Len(rest) = 0
      <4> HIDE DEF rest
      <4> QED
        OBVIOUS
    <3> HIDE DEF rest
    <3> QED
      BY <1>0, <2>6, <3>1, <3>2
  <2> HIDE DEF u, rest, fill
  <2>9. StoreOK(u) /\ i \in DOMAIN u.records /\ u.records[i].size # 0
    BY <2>2, <2>7 DEF Stores, Puts
  <2>10. Sound(s, w, i) /\ LeavesRoom(w.records[i], Len(c))
    <3>1. CASE rest = <<>>
      BY <2>7, <2>9, <2>13, <3>1 DEF Sound
    <3>2. CASE rest # <<>>
      <4>1. w = AddExtent(u, i, rest)
        BY <3>2
      <4> HIDE DEF w
      <4>2. Stores(u, w, i) /\ w.records[i].size = u.records[i].size /\ (ExactOK(u) => ExactOK(w))
            /\ Len(w.records[i].extents) # 1
        BY <2>8, <2>9, <4>1, AddExtentIs
      <4>3. Stores(s, w, i)
        BY <2>7, <4>2, StoresTwice
      <4> QED
        BY <2>7, <2>9, <4>2, <4>3 DEF Sound, LeavesRoom
    <3> QED
      BY <3>1, <3>2
  <2> HIDE DEF w
  <2>11. Sound(w, t, i)
    <3>1. StoreOK(w) /\ i \in DOMAIN w.records /\ w.records[i].size # 0
      BY <2>10 DEF Sound, Stores, Puts
    <3> QED
      BY <1>0, <2>1, <2>10, <3>1, GrownIs
  <2>12. Stores(s, t, i)
    BY <2>10, <2>11, StoresTwice DEF Sound
  <2> QED
    BY <2>10, <2>11, <2>12 DEF Sound
<1> QED
  BY <1>2, <1>3

\* The in-place branch of write_range_report.
LEMMA OverwriteIs ==
  ASSUME NEW s, StoreOK(s), NEW i \in DOMAIN s.records, s.records[i].size # 0, NEW off, NEW c
  PROVE  Sound(s, OverwriteInPlace(s, i, off, c), i)
<1> DEFINE t == OverwriteInPlace(s, i, off, c)
<1> DEFINE r == s.records[i]
<1>1. \E crc, d, v : t = s \/ t = WithFiles(s, [s.records EXCEPT ![i] = [r EXCEPT !.crc = crc]], d, v)
  BY DEF OverwriteInPlace
<1>2. PICK crc, d, v : t = s \/ t = WithFiles(s, [s.records EXCEPT ![i] = [r EXCEPT !.crc = crc]], d, v)
  BY <1>1
<1> DEFINE q == [r EXCEPT !.crc = crc]
<1>3. RecordOK(r)
  BY DEF StoreOK, FilesOK
<1>4. q.size = r.size /\ q.extents = r.extents /\ DOMAIN q = {"size", "crc", "extents"}
  BY <1>3 DEF RecordOK
<1> HIDE DEF t, q
<1>5. RecordOK(q) /\ Held(q) = Held(r)
  BY <1>3, <1>4, SameRecord DEF RecordOK, Counted
<1>6. CASE t = s
  BY <1>6, StaysSound DEF t
<1>7. CASE t = WithFiles(s, [s.records EXCEPT ![i] = q], d, v)
  <2>1. /\ t.next = s.next /\ t.free = s.free /\ t.records = [s.records EXCEPT ![i] = q]
        /\ t.policy = s.policy /\ DOMAIN t = Keys
    BY <1>7, WithFilesIs
  <2>2. Stores(s, t, i) /\ t.records[i] = q /\ (ExactOK(s) => ExactOK(t))
    BY <1>5, <2>1, RecordChanged
  <2> QED
    BY <1>4, <2>2 DEF Sound, t
<1> QED
  BY <1>2, <1>6, <1>7 DEF q

\* write_range_fallback
LEMMA FallbackIs ==
  ASSUME NEW s, StoreOK(s), NEW i \in Inodes, Whole(s, i), NEW off \in Nat, NEW c, IsContent(c), c # <<>>
  PROVE  Sound(s, WriteRangeFallback(s, i, off, c), i)
<1> DEFINE old == IF i \in DOMAIN s.records THEN Read(s, i) ELSE <<>>
<1> DEFINE new == Overlay(old, off, c)
<1> DEFINE t == WriteRangeFallback(s, i, off, c)
<1>1. t = IF new = old THEN s ELSE Write(s, i, new)
  BY DEF WriteRangeFallback
<1>2. IsContent(old) /\ Len(old) \in Nat /\ Len(old) = SizeOf(s, i)
  BY ContentOf DEF IsContent
<1> HIDE DEF old
<1>3. Len(c) \in Nat /\ Len(c) # 0
  BY DEF IsContent
<1>4. IsContent(new) /\ Len(new) = Greatest(Len(old), off + Len(c))
  BY <1>2, <1>3, OverlayIs
<1>5. new # <<>>
  BY <1>2, <1>3, <1>4 DEF IsContent, Greatest
<1> HIDE DEF new
<1>6. CASE new = old
  <2>1. i \in DOMAIN s.records /\ s.records[i].size # 0
    BY <1>2, <1>5, <1>6 DEF SizeOf, IsContent
  <2> QED
    BY <1>1, <1>6, <2>1, StaysSound
<1>7. CASE new # old
  <2>1. t = Write(s, i, new)
    BY <1>1, <1>7
  <2>2. Stores(s, t, i) /\ t.records[i].size = Len(new) /\ (ExactOK(s) /\ new # <<>> => ExactOK(t))
    BY <1>4, <2>1, WriteIs
  <2> QED
    BY <1>4, <1>5, <2>2 DEF Sound, IsContent
<1> QED
  BY <1>6, <1>7

\* write_range: the whole file is written only if the range reaches beyond the
\* file, or covers it.
LEMMA WriteRangeIs ==
  ASSUME NEW s, StoreOK(s), NEW i \in Inodes, NEW off \in Nat, NEW c, IsContent(c), c # <<>>,
         \/ off = SizeOf(s, i)
         \/ off + Len(c) <= SizeOf(s, i) /\ ~(off = 0 /\ Len(c) >= SizeOf(s, i))
         \/ Whole(s, i)
  PROVE  Sound(s, WriteRange(s, i, off, c), i)
<1> DEFINE t == WriteRange(s, i, off, c)
<1> DEFINE n == SizeOf(s, i)
<1>0. Len(c) \in Nat /\ n \in Nat
  BY ContentOf DEF IsContent
<1>1. ASSUME t = Write(s, i, c), Whole(s, i) PROVE Sound(s, t, i)
  <2>1. Stores(s, t, i) /\ t.records[i].size = Len(c) /\ (ExactOK(s) /\ c # <<>> => ExactOK(t))
    BY <1>1, WriteIs
  <2> QED
    BY <2>1 DEF IsContent, Sound
<1>2. ASSUME t = WriteRangeFallback(s, i, off, c), Whole(s, i) PROVE Sound(s, t, i)
  BY <1>2, FallbackIs
<1>3. CASE i \notin DOMAIN s.records
  <2>1. t = IF off = 0 THEN Write(s, i, c) ELSE WriteRangeFallback(s, i, off, c)
    BY <1>3 DEF WriteRange
  <2>2. Whole(s, i)
    BY <1>3 DEF Whole
  <2> QED
    BY <1>1, <1>2, <2>1, <2>2
<1>4. CASE i \in DOMAIN s.records
  <2>1. n = s.records[i].size
    BY <1>4 DEF SizeOf
  <2>2. t = IF off = n THEN AppendToInode(s, i, c)
            ELSE IF off = 0 /\ off + Len(c) >= n THEN Write(s, i, c)
            ELSE IF off + Len(c) > n THEN WriteRangeFallback(s, i, off, c)
            ELSE OverwriteInPlace(s, i, off, c)
    BY <1>4, <2>1 DEF WriteRange
  <2> HIDE DEF t
  <2>3. CASE off = n
    <3>1. t = AppendToInode(s, i, c)
      BY <2>2, <2>3
    <3> QED
      BY <3>1, AppendIs DEF t
  <2>4. CASE off # n /\ off = 0 /\ off + Len(c) >= n
    <3>1. t = Write(s, i, c)
      BY <2>2, <2>4
    <3>2. Whole(s, i)
      BY <1>0, <2>4
    <3> QED
      BY <1>1, <3>1, <3>2 DEF t
  <2>5. CASE off # n /\ ~(off = 0 /\ off + Len(c) >= n) /\ off + Len(c) > n
    <3>1. t = WriteRangeFallback(s, i, off, c)
      BY <2>2, <2>5
    <3>2. Whole(s, i)
      BY <1>0, <2>5
    <3> QED
      BY <1>2, <3>1, <3>2 DEF t
  <2>6. CASE off # n /\ ~(off = 0 /\ off + Len(c) >= n) /\ ~(off + Len(c) > n)
    <3>1. t = OverwriteInPlace(s, i, off, c)
      BY <2>2, <2>6
    <3>2. s.records[i].size # 0
      BY <1>0, <2>1, <2>6 DEF IsContent
    <3> QED
      BY <1>4, <3>1, <3>2, OverwriteIs DEF t
  <2> QED
    BY <2>3, <2>4, <2>5, <2>6
<1> QED
  BY <1>3, <1>4

\* write_at
LEMMA WriteAtIs ==
  ASSUME NEW s, StoreOK(s), NEW i \in Inodes, NEW off \in Nat, NEW S, NEW c \in Seq(S), c # <<>>,
         off = SizeOf(s, i) \/ Whole(s, i)
  PROVE  Sound(s, WriteAt(s, i, off, c), i)
<1> DEFINE old == IF i \in DOMAIN s.records THEN Read(s, i) ELSE <<>>
<1> DEFINE t == WriteAt(s, i, off, c)
<1>1. IsContent(c) /\ Len(c) \in Nat /\ Len(c) # 0
  BY DEF IsContent
<1>2. t = IF off = 0 /\ Len(c) >= Len(old) THEN WriteDevice(s, i, c)
          ELSE IF off = Len(old) THEN AppendDevice(s, i, c)
          ELSE WriteDevice(s, i, Overlay(old, off, c))
  BY DEF WriteAt
<1>3. IsContent(old) /\ Len(old) = SizeOf(s, i) /\ Len(old) \in Nat
  BY ContentOf
<1> HIDE DEF old
<1>4. IsContent(Overlay(old, off, c)) /\ Overlay(old, off, c) # <<>>
  <2>1. IsContent(Overlay(old, off, c)) /\ Len(Overlay(old, off, c)) = Greatest(Len(old), off + Len(c))
    BY <1>1, <1>3, OverlayIs
  <2>2. Greatest(Len(old), off + Len(c)) # 0
    BY <1>1, <1>3 DEF Greatest
  <2> QED
    BY <2>1, <2>2 DEF IsContent
<1> HIDE DEF t
<1>5. ASSUME NEW x, IsContent(x), x # <<>>, t = WriteDevice(s, i, x), Whole(s, i) PROVE Sound(s, t, i)
  <2>1. Stores(s, t, i) /\ t.records[i].size = Len(x) /\ (ExactOK(s) /\ x # <<>> => ExactOK(t))
    BY <1>5, WriteDeviceIs
  <2> QED
    BY <1>5, <2>1 DEF IsContent, Sound
<1>6. CASE off = 0 /\ Len(c) >= Len(old)
  <2>1. Whole(s, i)
    BY <1>3, <1>6, NoContent
  <2>2. t = WriteDevice(s, i, c)
    BY <1>2, <1>6
  <2> QED
    BY <1>1, <1>5, <2>1, <2>2 DEF t
<1>7. CASE ~(off = 0 /\ Len(c) >= Len(old)) /\ off = Len(old)
  <2>1. t = AppendDevice(s, i, c)
    BY <1>2, <1>7
  <2> QED
    BY <2>1, AppendDeviceIs DEF t
<1>8. CASE ~(off = 0 /\ Len(c) >= Len(old)) /\ off # Len(old)
  <2>1. t = WriteDevice(s, i, Overlay(old, off, c))
    BY <1>2, <1>8
  <2>2. Whole(s, i)
    BY <1>3, <1>8
  <2> QED
    BY <1>4, <1>5, <2>1, <2>2 DEF t
<1> QED
  BY <1>6, <1>7, <1>8

\* The store t is the store s with content of n cells put in for inode i.
Settles(s, t, i, n) ==
    /\ Stores(s, t, i)
    /\ t.records[i].size = 0 <=> n = 0
    /\ ExactOK(s) /\ n # 0 => ExactOK(t)

\* Nothing changes.
LEMMA StoresSame ==
  ASSUME NEW s, StoreOK(s), NEW i \in DOMAIN s.records
  PROVE  Stores(s, s, i)
BY DEF Stores, Puts

\* resize_inode: only a shrunk file is rewritten.
LEMMA ResizeIs ==
  ASSUME NEW s, StoreOK(s), NEW i \in Inodes, i \in DOMAIN s.records, NEW n \in Nat,
         n < SizeOf(s, i) => Whole(s, i)
  PROVE  Settles(s, ResizeInode(s, i, n), i, n)
<1> DEFINE m == SizeOf(s, i)
<1> DEFINE t == ResizeInode(s, i, n)
<1> DEFINE c == [k \in 1..n - m |-> Zero]
<1> DEFINE new == Resized(Read(s, i), n)
<1>1. m \in Nat /\ m = s.records[i].size
  BY ContentOf DEF SizeOf
<1>2. t = IF n = m THEN s ELSE IF n > m THEN AppendToInode(s, i, c) ELSE Write(s, i, new)
  BY <1>1 DEF ResizeInode
<1> HIDE DEF t
<1>3. CASE n = m
  <2>1. t = s
    BY <1>2, <1>3
  <2> QED
    BY <1>1, <1>3, <2>1, StoresSame DEF Settles, t
<1>4. CASE n > m
  <2>1. t = AppendToInode(s, i, c)
    BY <1>1, <1>2, <1>4
  <2>2. n - m \in Nat /\ n - m # 0 /\ n # 0
    BY <1>1, <1>4
  <2>3. DOMAIN c = 1..n - m /\ c = [k \in 1..n - m |-> c[k]]
    OBVIOUS
  <2> HIDE DEF c
  <2>4. IsContent(c) /\ Len(c) = n - m
    BY <2>2, <2>3, ContentIs
  <2>5. c # <<>>
    BY <2>2, <2>4 DEF IsContent
  <2>6. Sound(s, t, i)
    BY <2>1, <2>4, <2>5, AppendIs
  <2> QED
    BY <2>2, <2>6 DEF Settles, Sound, t
<1>5. CASE n < m
  <2>1. t = Write(s, i, new) /\ Whole(s, i)
    BY <1>1, <1>2, <1>5
  <2>2. IsContent(new) /\ Len(new) = n
    BY ResizedIs
  <2> HIDE DEF new
  <2>3. Stores(s, t, i) /\ t.records[i].size = Len(new) /\ (ExactOK(s) /\ new # <<>> => ExactOK(t))
    BY <2>1, <2>2, WriteIs
  <2> QED
    BY <2>2, <2>3 DEF Settles, IsContent, t
<1> QED
  BY <1>1, <1>3, <1>4, <1>5

\* truncate, which always rewrites the file.
LEMMA TruncateIs ==
  ASSUME NEW s, StoreOK(s), NEW i \in Inodes, Whole(s, i), NEW n \in Nat
  PROVE  Settles(s, Truncate(s, i, n), i, n)
<1> DEFINE old == IF i \in DOMAIN s.records THEN Read(s, i) ELSE <<>>
<1> DEFINE new == Resized(old, n)
<1> DEFINE t == Truncate(s, i, n)
<1>1. t = WriteDevice(s, i, new)
  BY DEF Truncate
<1>2. IsContent(new) /\ Len(new) = n
  BY ResizedIs
<1> HIDE DEF new, t
<1>3. Stores(s, t, i) /\ t.records[i].size = Len(new) /\ (ExactOK(s) /\ new # <<>> => ExactOK(t))
  BY <1>1, <1>2, WriteDeviceIs
<1> QED
  BY <1>2, <1>3 DEF Settles, IsContent, t

\* remove and remove_inode: the record goes, its blocks become free.
LEMMA RemoveInodeIs ==
  ASSUME NEW s, StoreOK(s), NEW i \in DOMAIN s.records, Whole(s, i)
  PROVE  LET t == RemoveInode(s, i)
         IN  /\ StoreOK(t) /\ t.policy = s.policy /\ DOMAIN t.records = DOMAIN s.records \ {i}
             /\ \A j \in DOMAIN t.records : t.records[j] = s.records[j]
             /\ ExactOK(s) => ExactOK(t)
<1> DEFINE r == s.records[i]
<1> DEFINE R2 == [j \in DOMAIN s.records \ {i} |-> s.records[j]]
<1> DEFINE u == [s EXCEPT !.records = R2]
<1> DEFINE t == RemoveInode(s, i)
<1>1. t = Release(u, r)
  BY DEF RemoveInode
<1>2. DOMAIN R2 = DOMAIN s.records \ {i} /\ \A j \in DOMAIN R2 : R2[j] = s.records[j]
  OBVIOUS
<1>3. RecordOK(r) /\ Held(r) \subseteq Used(s) /\ Len(r.extents) <= 1
  BY DEF StoreOK, FilesOK, Whole
<1> HIDE DEF R2, r
<1>4. /\ u.records = R2 /\ u.next = s.next /\ u.free = s.free /\ u.policy = s.policy /\ DOMAIN u = Keys
  BY DEF StoreOK, Keys
<1> HIDE DEF u
<1>5. SpaceOK(u) /\ Used(u) = Used(s) /\ (Tight(s) => Tight(u)) /\ u.policy \in Policies
  BY <1>4 DEF StoreOK, SpaceOK, Used, Tight
<1>6. /\ t.records = R2 /\ t.policy = s.policy /\ DOMAIN t = Keys
      /\ SpaceOK(t) /\ Used(t) = Used(s) \ Held(r) /\ (Tight(s) => Tight(t))
  BY <1>1, <1>3, <1>4, <1>5, ReleaseIs
<1> HIDE DEF t
<1>7. /\ FilesOK(R2, Used(s) \ Held(r))
      /\ Used(s) \subseteq AllHeld(s.records) => Used(s) \ Held(r) \subseteq AllHeld(R2)
  BY <1>2, FilesDrop DEF StoreOK, r
<1>8. StoreOK(t)
  BY <1>2, <1>6, <1>7 DEF StoreOK
<1>9. ExactOK(s) => ExactOK(t)
  BY <1>6, <1>7 DEF ExactOK
<1> QED
  BY <1>2, <1>6, <1>8, <1>9 DEF t

\* clone_for_inode, for an inode that has no record yet.
LEMMA CloneIs ==
  ASSUME NEW s, StoreOK(s), NEW i \in DOMAIN s.records, NEW j \in Inodes, j \notin DOMAIN s.records
  PROVE  Settles(s, CloneForInode(s, i, j), j, s.records[i].size)
<1> DEFINE c == Read(s, i)
<1> DEFINE crc == s.records[i].crc
<1> DEFINE spot == AllocateExtent(s, RequiredBlocks(Len(c)))
<1> DEFINE d == Bind(s.dedup, crc, IF crc \in DOMAIN s.dedup THEN s.dedup[crc] + 1 ELSE 2)
<1> DEFINE put == PutRecord(spot, j, c, d)
<1> DEFINE q == [put.records[j] EXCEPT !.crc = crc]
<1> DEFINE R2 == [put.records EXCEPT ![j] = q]
<1> DEFINE v == IF c = <<>> THEN s.dev ELSE put.dev
<1> DEFINE t == CloneForInode(s, i, j)
<1>1. t = WithFiles(put, R2, put.dedup, v)
  BY DEF CloneForInode, WithRecord
<1>2. IsContent(c) /\ Len(c) = s.records[i].size
  BY ReadIs DEF StoreOK, FilesOK
<1> HIDE DEF c
<1>3. SpotOK(s, j, spot, RequiredBlocks(Len(c)))
  <2> DEFINE n == RequiredBlocks(Len(c))
  <2>1. n \in Nat /\ n # 0
    BY <1>2, RequiredIs DEF IsContent
  <2>2. Freed(s, j) = s
    BY DEF Freed
  <2> HIDE DEF n
  <2>3. SpotOK(s, j, AllocateExtent(Freed(s, j), n), n)
    BY <2>1, MovedSpot
  <2> QED
    BY <2>2, <2>3 DEF n
<1> HIDE DEF spot, d
<1>4. /\ Stores(s, put, j) /\ put.records[j].size = Len(c)
      /\ ExactOK(s) /\ c # <<>> => ExactOK(put)
  BY <1>2, <1>3, PutIs
<1> HIDE DEF put
<1>5. StoreOK(put) /\ j \in DOMAIN put.records /\ RecordOK(put.records[j])
  BY <1>4 DEF Stores, StoreOK, FilesOK, Puts
<1>6. /\ DOMAIN q = {"size", "crc", "extents"} /\ q.size = put.records[j].size
      /\ q.extents = put.records[j].extents
  BY <1>5 DEF RecordOK
<1> HIDE DEF q
<1>7. RecordOK(q) /\ Held(q) = Held(put.records[j])
  BY <1>5, <1>6, SameRecord DEF RecordOK, Counted
<1>8. /\ t.next = put.next /\ t.free = put.free /\ t.records = R2 /\ t.policy = put.policy
      /\ DOMAIN t = Keys
  BY <1>1, WithFilesIs
<1> HIDE DEF t, v
<1>9. Stores(put, t, j) /\ t.records[j] = q /\ (ExactOK(put) => ExactOK(t))
  BY <1>5, <1>7, <1>8, RecordChanged
<1>10. Stores(s, t, j)
  BY <1>4, <1>9, StoresTwice
<1>11. t.records[j].size = Len(c)
  BY <1>4, <1>6, <1>9
<1> QED
  BY <1>2, <1>4, <1>9, <1>10, <1>11 DEF Settles, IsContent, t

\* dedup_pass and the drain of the pending TRIM list leave blocks and files alone.
LEMMA BookkeepingIs ==
  ASSUME NEW s, StoreOK(s), NEW t, t \in {DedupPass(s), [s EXCEPT !.trims = {}]}
  PROVE  StoreOK(t) /\ t.records = s.records /\ (ExactOK(s) => ExactOK(t))
<1>1. DOMAIN s = Keys
  BY DEF StoreOK
<1>2. /\ t.next = s.next /\ t.free = s.free /\ t.policy = s.policy /\ t.records = s.records
      /\ DOMAIN t = Keys
  BY <1>1 DEF DedupPass, Keys
<1>3. \A i \in DOMAIN s.records : RecordOK(t.records[i]) /\ Held(t.records[i]) = Held(s.records[i])
  BY <1>2 DEF StoreOK, FilesOK
<1> QED
  BY <1>2, <1>3, SameBlocks

\* set_allocator_policy: the free list is put in the new policy's form.
LEMMA SetPolicyIs ==
  ASSUME NEW s, StoreOK(s), NEW p \in Policies
  PROVE  LET t == SetAllocatorPolicy(s, p)
         IN  StoreOK(t) /\ t.records = s.records /\ (ExactOK(s) => ExactOK(t))
<1> DEFINE u == [s EXCEPT !.policy = p]
<1> DEFINE t == NormalizeFreeExtents(u)
<1>1. SetAllocatorPolicy(s, p) = t
  BY DEF SetAllocatorPolicy
<1>2. u.next = s.next /\ u.free = s.free /\ u.policy = p /\ u.records = s.records /\ DOMAIN u = Keys
  BY DEF StoreOK, Keys
<1>3. /\ s.next \in Nat /\ s.free \in Seq(FreeExts) /\ Ordered(s.free)
      /\ Free(s.free) \subseteq Numbers(s.next)
  BY DEF StoreOK, SpaceOK
<1>4. Apart(s.free)
  BY <1>3, OrderedApart
<1> HIDE DEF u
<1>5. /\ SameButSpace(u, t) /\ Used(t) = Used(u)
      /\ Free(u.free) \subseteq Numbers(u.next) => SpaceOK(t) /\ Tight(t)
  BY <1>2, <1>3, <1>4, NormalizeIs
<1> HIDE DEF t
<1>6. SpaceOK(t) /\ Tight(t)
  BY <1>2, <1>3, <1>5
<1>7. t.records = s.records /\ t.policy = p /\ DOMAIN t = Keys /\ Used(t) = Used(s)
  BY <1>2, <1>5 DEF SameButSpace, Used
<1> QED
  BY <1>1, <1>6, <1>7 DEF StoreOK, ExactOK

\* The files fit a larger set of blocks too.
LEMMA FilesMore ==
  ASSUME NEW R, NEW U, FilesOK(R, U), NEW V, U \subseteq V
  PROVE  FilesOK(R, V)
BY DEF FilesOK

\* Blocks taken for nothing: what a failed write of the device leaves behind.
LEMMA TakenIs ==
  ASSUME NEW s, StoreOK(s), NEW n \in Nat, n # 0
  PROVE  LET t == AllocateExtent(s, n).store
         IN  StoreOK(t) /\ t.records = s.records
<1> DEFINE a == AllocateExtent(s, n)
<1> DEFINE t == a.store
<1>1. DOMAIN s = Keys /\ s.policy \in Policies /\ SpaceOK(s) /\ FilesOK(s.records, Used(s))
  BY DEF StoreOK
<1>2. SameButSpace(s, t) /\ SpaceOK(t) /\ Used(t) = Used(s) \cup Given(a)
  BY <1>1, AllocateIs
<1> HIDE DEF a, t
<1>3. FilesOK(s.records, Used(t))
  BY <1>1, <1>2, FilesMore
<1>4. StoreOK(t) /\ t.records = s.records
  BY <1>2, <1>3 DEF StoreOK, SameButSpace
<1> QED
  BY <1>4 DEF t, a

\* The turns of the compaction loop, one after the other.
LEMMA RelocateChain ==
  ASSUME NEW s, NEW order, NEW floor, Len(order) \in Nat
  PROVE  \E w : /\ w[0] = WithFree(s, 0, <<>>)
                /\ \A k \in 1..Len(order) : w[k] = MoveToCursor(s, w[k - 1], order[k], floor)
                /\ Relocate(s, order, floor) = w[Len(order)]
<1> DEFINE Step(x, k) == MoveToCursor(s, x, order[k], floor)
<1> DEFINE Start == WithFree(s, 0, <<>>)
<1> DEFINE L == Len(order)
<1> DEFINE IsChain(w, m) == w = [k \in 0..m |-> IF k = 0 THEN Start ELSE Step(w[k - 1], k)]
<1>1. Relocate(s, order, floor) = (CHOOSE w : IsChain(w, L))[L]
  BY DEF Relocate
<1> HIDE DEF Step, L, Start
<1>2. \E w : IsChain(w, 0)
  <2> DEFINE w == [k \in 0..0 |-> Start]
  <2>1. IsChain(w, 0)
    OBVIOUS
  <2> QED
    BY <2>1
<1>3. ASSUME NEW m \in Nat, NEW u, IsChain(u, m) PROVE \E w : IsChain(w, m + 1)
  <2> DEFINE w == [k \in 0..m + 1 |-> IF k = m + 1 THEN Step(u[m], m + 1) ELSE u[k]]
  <2>1. \A k \in 0..m : u[k] = IF k = 0 THEN Start ELSE Step(u[k - 1], k)
    BY <1>3
  <2>2. /\ \A k \in 0..m : w[k] = u[k]
        /\ w[m + 1] = Step(u[m], m + 1)
        /\ \A k \in 1..m + 1 : w[k - 1] = u[k - 1]
    OBVIOUS
  <2>3. ASSUME NEW k \in 0..m + 1 PROVE w[k] = IF k = 0 THEN Start ELSE Step(w[k - 1], k)
    <3> HIDE DEF w
    <3>1. CASE k = m + 1
      BY <2>2, <3>1
    <3>2. CASE k \in 0..m
      BY <2>1, <2>2, <3>2
    <3> QED
      BY <3>1, <3>2
  <2>4. IsChain(w, m + 1)
    BY <2>3
  <2> QED
    BY <2>4
<1>4. \E w : IsChain(w, L)
  <2> DEFINE T == {m \in Nat : \E w : IsChain(w, m)}
  <2> HIDE DEF IsChain
  <2>1. 0 \in T
    BY <1>2
  <2>2. ASSUME NEW m \in 1..L, m - 1 \in T PROVE m \in T
    <3>1. m - 1 \in Nat /\ (m - 1) + 1 = m /\ m \in Nat
      BY DEF L
    <3>2. \E w : IsChain(w, (m - 1) + 1)
      BY <1>3, <2>2, <3>1
    <3> QED
      BY <3>1, <3>2
  <2> HIDE DEF T
  <2>3. \A m \in 0..L : m \in T
    BY <2>1, <2>2, UpTo DEF L
  <2> QED
    BY <2>3 DEF T, L
<1> DEFINE F == CHOOSE w : IsChain(w, L)
<1>5. IsChain(F, L)
  BY <1>4
<1> HIDE DEF F
<1>6. F[0] = Start /\ \A k \in 1..L : F[k] = Step(F[k - 1], k)
  BY <1>5 DEF L
<1>7. Relocate(s, order, floor) = F[L]
  BY <1>1 DEF F
<1> QED
  BY <1>6, <1>7 DEF L, Step, Start

\* A record of one extent at most that starts at block a.
Moved(r, a) == [r EXCEPT !.extents = [k \in DOMAIN r.extents |-> [r.extents[k] EXCEPT !.start = a]]]

\* A record of one extent at most, moved to block a, is sound, keeps its size, and holds the
\* blocks from a on.
LEMMA MovedRecord ==
  ASSUME NEW r, RecordOK(r), Len(r.extents) <= 1, NEW a \in Nat
  PROVE  LET q == Moved(r, a)
         IN  RecordOK(q) /\ q.size = r.size /\ Held(q) = Area(a, TotalBlocks(r))
<1> DEFINE q == Moved(r, a)
<1> DEFINE x == q.extents
<1>1. /\ DOMAIN q = {"size", "crc", "extents"} /\ q.size = r.size
      /\ x = [k \in DOMAIN r.extents |-> [r.extents[k] EXCEPT !.start = a]]
  BY DEF RecordOK, Moved
<1>2. r.extents \in Seq(FileExts) /\ DOMAIN r.extents = 1..Len(r.extents)
  BY DEF RecordOK
<1>3. TotalBlocks(r) = 0 <=> Len(r.extents) = 0
  BY OneExtent
<1> HIDE DEF q
<1>4. CASE Len(r.extents) = 0
  <2>1. x = <<>>
    BY <1>1, <1>2, <1>4
  <2>2. q.size = 0
    BY <1>1, <1>4 DEF RecordOK
  <2>3. RecordOK(q) /\ Held(q) = {}
    BY <1>1, <2>1, <2>2, EmptyRecord
  <2>4. Area(a, 0) = {}
    BY DEF Area
  <2> QED
    BY <1>1, <1>3, <1>4, <2>3, <2>4 DEF q
<1>5. CASE Len(r.extents) = 1
  <2> DEFINE e == r.extents[1]
  <2> DEFINE y == [e EXCEPT !.start = a]
  <2>1. e \in FileExts
    BY <1>2, <1>5
  <2>2. y \in FileExts /\ y.start = a /\ y.blocks = e.blocks /\ y.len = e.len
    BY <2>1 DEF FileExts
  <2>3. x = <<y>>
    BY <1>1, <1>2, <1>5
  <2>4. e.blocks = TotalBlocks(r) /\ e.len <= e.blocks * BlockSize
    <3>1. 1 \in 1..Len(r.extents)
      BY <1>5
    <3>2. e.len <= e.blocks * BlockSize
      BY <3>1 DEF RecordOK
    <3>3. e.blocks = TotalBlocks(r)
      BY <3>1, OneExtent
    <3> QED
      BY <3>2, <3>3
  <2>5. r.size \in Nat /\ r.size # 0
    BY <1>5 DEF RecordOK
  <2> HIDE DEF y, e
  <2>6. y.len <= y.blocks * BlockSize /\ q.size <= y.len
    BY <1>1, <1>5, <2>2, <2>4 DEF RecordOK, Counted, e
  <2>7. RecordOK(q) /\ Held(q) = Blocks(y)
    BY <1>1, <2>2, <2>3, <2>5, <2>6, NewRecord
  <2> QED
    BY <1>1, <2>2, <2>4, <2>7 DEF Blocks, q
<1>6. Len(r.extents) = 0 \/ Len(r.extents) = 1
  <2>1. Len(r.extents) \in Nat
    BY <1>2
  <2>2. \A n \in Nat : n <= 1 => n = 0 \/ n = 1
    OBVIOUS
  <2> QED
    BY <2>1, <2>2, Zenon
<1> QED
  BY <1>4, <1>5, <1>6

\* The store acc after the files of D were laid out: they lie one after the other
\* below the cursor, the others are where they were.
Compacted(s, acc, D) ==
    /\ DOMAIN acc = Keys /\ acc.policy = s.policy /\ acc.free = <<>> /\ acc.next \in Nat
    /\ DOMAIN acc.records = DOMAIN s.records /\ D \subseteq DOMAIN s.records
    /\ \A i \in DOMAIN s.records : RecordOK(acc.records[i]) /\ acc.records[i].size = s.records[i].size
    /\ \A i \in DOMAIN s.records \ D : acc.records[i] = s.records[i]
    /\ \A i \in D : Held(acc.records[i]) \subseteq Numbers(acc.next)
    /\ \A i, j \in D : i # j => Held(acc.records[i]) \cap Held(acc.records[j]) = {}
    /\ (\A i \in DOMAIN s.records : s.records[i].size # 0) =>
          \A b \in Numbers(acc.next) : \E i \in D : b \in Held(acc.records[i])

\* One turn of the loop: the file's record holds the blocks behind the cursor.
Turned(s, acc, i, t) ==
    /\ DOMAIN t = Keys /\ t.policy = acc.policy /\ t.free = <<>>
    /\ t.next \in Nat /\ t.next >= acc.next
    /\ Puts(acc.records, t.records, i, t.records[i])
    /\ RecordOK(t.records[i]) /\ t.records[i].size = s.records[i].size
    /\ Held(t.records[i]) \subseteq Area(acc.next, t.next - acc.next)
    /\ s.records[i].size # 0 => Held(t.records[i]) = Area(acc.next, t.next - acc.next)

\* One turn of the loop lays out one more file behind the others.
LEMMA TurnIs ==
  ASSUME NEW s, NEW i \in DOMAIN s.records, RecordOK(s.records[i]), Whole(s, i),
         NEW acc, DOMAIN acc = Keys, acc.next \in Nat, DOMAIN acc.records = DOMAIN s.records,
         acc.records[i] = s.records[i], NEW floor \in {0, 1}
  PROVE  Turned(s, acc, i, MoveToCursor(s, acc, i, floor))
<1> DEFINE r == s.records[i]
<1> DEFINE m == TotalBlocks(r)
<1> DEFINE n == Greatest(m, floor)
<1> DEFINE at == acc.next
<1> DEFINE next == at + Greatest(n, 1)
<1> DEFINE u == WithFree(acc, next, <<>>)
<1> DEFINE v == CopyBlocks(acc.dev, FirstPhysicalBlock(r), at, n)
<1> DEFINE t == MoveToCursor(s, acc, i, floor)
<1>1. t = IF FirstPhysicalBlock(r) = at THEN u ELSE WithRecord(u, i, Moved(r, at), v)
  BY DEF MoveToCursor, Moved
<1>2. /\ FirstPhysicalBlock(r) \in Nat /\ m \in Nat /\ Held(r) = Area(FirstPhysicalBlock(r), m)
      /\ m = 0 <=> Len(r.extents) = 0
  BY OneExtent DEF Whole
<1>3. /\ u.next = next /\ u.free = <<>> /\ u.records = acc.records /\ u.policy = acc.policy /\ DOMAIN u = Keys
  BY WithFreeIs
<1>4. r.size = 0 <=> m = 0
  BY <1>2 DEF RecordOK
<1> HIDE DEF m, u, v, t
<1>5. /\ next \in Nat /\ next >= at /\ m <= next - at
      /\ m # 0 => next - at = m
  BY <1>2 DEF Greatest
<1>6. Area(at, m) \subseteq Area(at, next - at) /\ (r.size # 0 => Area(at, m) = Area(at, next - at))
  BY <1>2, <1>4, <1>5 DEF Area
<1> HIDE DEF next
<1>7. CASE FirstPhysicalBlock(r) = at
  <2>1. t = u
    BY <1>1, <1>7
  <2>2. t.records[i] = r
    BY <1>3, <2>1
  <2>3. Puts(acc.records, t.records, i, t.records[i])
    BY <1>3, <2>1 DEF Puts
  <2> QED
    BY <1>2, <1>3, <1>5, <1>6, <1>7, <2>1, <2>2, <2>3 DEF t, Turned
<1>8. CASE FirstPhysicalBlock(r) # at
  <2> DEFINE q == Moved(r, at)
  <2> DEFINE R2 == [u.records EXCEPT ![i] = q]
  <2>1. t = WithFiles(u, R2, u.dedup, v)
    BY <1>1, <1>8 DEF WithRecord
  <2>2. /\ t.next = u.next /\ t.free = u.free /\ t.records = R2 /\ t.policy = u.policy /\ DOMAIN t = Keys
    BY <2>1, WithFilesIs
  <2>3. RecordOK(q) /\ q.size = r.size /\ Held(q) = Area(at, m)
    BY MovedRecord DEF Whole, m
  <2> HIDE DEF q
  <2>4. Puts(acc.records, R2, i, q)
    BY <1>3, ExceptIs
  <2> HIDE DEF R2
  <2>5. t.records[i] = q
    BY <2>2, <2>4 DEF Puts
  <2> QED
    BY <1>3, <1>5, <1>6, <2>2, <2>3, <2>4, <2>5 DEF t, Turned
<1> QED
  BY <1>7, <1>8

\* The loop keeps the files it has laid out apart and in place.
LEMMA LaidDown ==
  ASSUME NEW s, NEW acc, NEW D, Compacted(s, acc, D), NEW i \in DOMAIN s.records, i \notin D,
         RecordOK(s.records[i]), Whole(s, i), NEW floor \in {0, 1}
  PROVE  Compacted(s, MoveToCursor(s, acc, i, floor), D \cup {i})
<1> DEFINE t == MoveToCursor(s, acc, i, floor)
<1> DEFINE E == D \cup {i}
<1> DEFINE H(j) == Held(t.records[j])
<1>1. /\ DOMAIN acc = Keys /\ acc.policy = s.policy /\ acc.next \in Nat
      /\ DOMAIN acc.records = DOMAIN s.records /\ acc.records[i] = s.records[i]
  BY DEF Compacted
<1>2. /\ DOMAIN t = Keys /\ t.policy = acc.policy /\ t.free = <<>>
      /\ t.next \in Nat /\ t.next >= acc.next
      /\ Puts(acc.records, t.records, i, t.records[i])
      /\ RecordOK(t.records[i]) /\ t.records[i].size = s.records[i].size
      /\ Held(t.records[i]) \subseteq Area(acc.next, t.next - acc.next)
      /\ s.records[i].size # 0 => Held(t.records[i]) = Area(acc.next, t.next - acc.next)
  <2>1. Turned(s, acc, i, t)
    BY <1>1, TurnIs
  <2> QED
    BY <2>1 DEF Turned
<1> HIDE DEF t
<1>3. DOMAIN t.records = DOMAIN s.records /\ \A j \in DOMAIN s.records \ {i} : t.records[j] = acc.records[j]
  BY <1>1, <1>2 DEF Puts
<1>4. \A j \in DOMAIN s.records : RecordOK(t.records[j]) /\ t.records[j].size = s.records[j].size
  BY <1>2, <1>3 DEF Compacted
<1>5. \A j \in DOMAIN s.records \ E : t.records[j] = s.records[j]
  BY <1>3 DEF Compacted
<1>6. D \subseteq DOMAIN s.records /\ i \notin D /\ \A j \in D : H(j) = Held(acc.records[j])
  BY <1>3 DEF Compacted
<1>7. \A j \in D : H(j) \subseteq Numbers(acc.next)
  BY <1>6 DEF Compacted
<1>8. \A j, k \in D : j # k => H(j) \cap H(k) = {}
  BY <1>6 DEF Compacted
<1>9. (\A j \in DOMAIN s.records : s.records[j].size # 0) =>
          \A b \in Numbers(acc.next) : \E j \in D : b \in H(j)
  BY <1>6 DEF Compacted
<1>10. /\ Numbers(t.next) = Numbers(acc.next) \cup Area(acc.next, t.next - acc.next)
       /\ Numbers(acc.next) \cap Area(acc.next, t.next - acc.next) = {}
  BY <1>1, <1>2 DEF Numbers, Area
<1> DEFINE A == Area(acc.next, t.next - acc.next)
<1>11. H(i) \subseteq A /\ (s.records[i].size # 0 => H(i) = A)
  BY <1>2
<1> HIDE DEF H, A
<1>12. \A j \in E : H(j) \subseteq Numbers(t.next)
  BY <1>7, <1>10, <1>11 DEF A
<1>13. \A j, k \in E : j # k => H(j) \cap H(k) = {}
  <2>1. \A j \in D : H(i) \cap H(j) = {}
    BY <1>7, <1>10, <1>11 DEF A
  <2> QED
    BY <1>8, <2>1
<1>14. (\A j \in DOMAIN s.records : s.records[j].size # 0) =>
          \A b \in Numbers(t.next) : \E j \in E : b \in H(j)
  BY <1>9, <1>10, <1>11 DEF A
<1> QED
  BY <1>1, <1>2, <1>3, <1>4, <1>5, <1>6, <1>12, <1>13, <1>14 DEF Compacted, t, H

\* An order of a set: every element once.
OrderOf(S, order) ==
    /\ Len(order) \in Nat
    /\ \A k \in 1..Len(order) : order[k] \in S
    /\ \A x \in S : \E k \in 1..Len(order) : order[k] = x
    /\ \A j, k \in 1..Len(order) : j # k => order[j] # order[k]

\* A finite set arranged by a strict total order is listed in an order.
LEMMA ArrangedOrder ==
  ASSUME NEW S, IsFiniteSet(S), NEW R, StrictOrder(S, R)
  PROVE  OrderOf(S, Arranged(S, R))
<1> DEFINE n == Cardinality(S)
<1> DEFINE f == Arranged(S, R)
<1>1. /\ n \in Nat /\ f \in [1..n -> S]
      /\ \A x \in S : \E k \in 1..n : f[k] = x
      /\ \A j, k \in 1..n : j < k => <<f[j], f[k]>> \in R
  BY ArrangedIs
<1> HIDE DEF n, f
<1>2. Len(f) = n
  BY <1>1
<1>3. \A j, k \in 1..n : j < k => f[j] # f[k]
  BY <1>1 DEF StrictOrder
<1>4. \A j, k \in 1..n : j # k => f[j] # f[k]
  <2> SUFFICES ASSUME NEW j \in 1..n, NEW k \in 1..n, j # k PROVE f[j] # f[k]
    OBVIOUS
  <2>1. j < k \/ k < j
    BY <1>1
  <2> QED
    BY <1>3, <2>1
<1>5. OrderOf(S, f)
  BY <1>1, <1>2, <1>4 DEF OrderOf
<1> QED
  BY <1>5 DEF f

\* Every file of the store has one extent at most.
AllWhole(s) == \A i \in DOMAIN s.records : Whole(s, i)

\* Every file of the store has content.
NoneEmpty(s) == \A i \in DOMAIN s.records : s.records[i].size # 0

\* The files of the store t are those of s, of the same sizes.
SameSizes(s, t) ==
    DOMAIN t.records = DOMAIN s.records /\ \A i \in DOMAIN s.records : t.records[i].size = s.records[i].size

\* A store whose files have all been laid out.
LEMMA LaidOutStore ==
  ASSUME NEW s, StoreOK(s), NEW t, Compacted(s, t, DOMAIN s.records)
  PROVE  /\ StoreOK(t) /\ SameSizes(s, t)
         /\ NoneEmpty(s) => ExactOK(t)
<1> DEFINE R == t.records
<1>1. /\ DOMAIN t = Keys /\ t.policy = s.policy /\ t.free = <<>> /\ t.next \in Nat
      /\ DOMAIN R = DOMAIN s.records
      /\ \A i \in DOMAIN s.records : RecordOK(R[i]) /\ R[i].size = s.records[i].size
      /\ \A i \in DOMAIN s.records : Held(R[i]) \subseteq Numbers(t.next)
      /\ \A i, j \in DOMAIN s.records : i # j => Held(R[i]) \cap Held(R[j]) = {}
      /\ (\A i \in DOMAIN s.records : s.records[i].size # 0) =>
            \A b \in Numbers(t.next) : \E i \in DOMAIN s.records : b \in Held(R[i])
  BY DEF Compacted
<1>2. Free(t.free) = {}
  BY <1>1 DEF Free
<1>3. Used(t) = Numbers(t.next)
  BY <1>2 DEF Used
<1>4. SpaceOK(t) /\ Tight(t)
  <2>1. t.free \in Seq(FreeExts) /\ Ordered(t.free) /\ Spaced(t.free)
    BY <1>1 DEF Ordered, Spaced
  <2> QED
    BY <1>1, <1>2, <2>1 DEF SpaceOK, Tight
<1> HIDE DEF R
<1>5. FilesOK(R, Used(t))
  <2>1. \A i \in DOMAIN R : RecordOK(R[i]) /\ Held(R[i]) \subseteq Used(t)
    BY <1>1, <1>3
  <2>2. \A i, j \in DOMAIN R : i # j => Held(R[i]) \cap Held(R[j]) = {}
    BY <1>1
  <2> QED
    BY <2>1, <2>2 DEF FilesOK
<1>6. StoreOK(t)
  BY <1>1, <1>4, <1>5 DEF StoreOK, R
<1>7. ASSUME NoneEmpty(s) PROVE ExactOK(t)
  <2>1. \A b \in Numbers(t.next) : \E i \in DOMAIN R : b \in Held(R[i])
    BY <1>1, <1>7 DEF NoneEmpty
  <2>2. Used(t) \subseteq AllHeld(R)
    BY <1>3, <2>1 DEF AllHeld, Numbers
  <2> QED
    BY <1>4, <2>2 DEF ExactOK, R
<1> QED
  BY <1>1, <1>6, <1>7 DEF SameSizes, R

\* The compaction loop
LEMMA RelocateIs ==
  ASSUME NEW s, StoreOK(s), AllWhole(s), NEW floor \in {0, 1}, NEW order, OrderOf(DOMAIN s.records, order)
  PROVE  LET t == Relocate(s, order, floor)
         IN  StoreOK(t) /\ SameSizes(s, t) /\ (NoneEmpty(s) => ExactOK(t))
<1>0. PICK w : /\ w[0] = WithFree(s, 0, <<>>)
               /\ \A k \in 1..Len(order) : w[k] = MoveToCursor(s, w[k - 1], order[k], floor)
               /\ Relocate(s, order, floor) = w[Len(order)]
  <2>1. Len(order) \in Nat
    BY DEF OrderOf
  <2> QED
    BY <2>1, RelocateChain
<1> DEFINE L == Len(order)
<1> DEFINE D(m) == {order[k] : k \in 1..m}
<1>1. /\ L \in Nat
      /\ \A k \in 1..L : order[k] \in DOMAIN s.records
      /\ \A x \in DOMAIN s.records : \E k \in 1..L : order[k] = x
      /\ \A j, k \in 1..L : j # k => order[j] # order[k]
  BY DEF OrderOf
<1>2. /\ w[0] = WithFree(s, 0, <<>>)
      /\ \A k \in 1..L : w[k] = MoveToCursor(s, w[k - 1], order[k], floor)
      /\ Relocate(s, order, floor) = w[L]
  BY <1>0
<1> DEFINE Good(m) == Compacted(s, w[m], D(m))
<1>3. Good(0)
  <2>1. /\ w[0].next = 0 /\ w[0].free = <<>> /\ w[0].records = s.records /\ w[0].policy = s.policy
        /\ DOMAIN w[0] = Keys
    BY <1>2, WithFreeIs
  <2>2. D(0) = {}
    OBVIOUS
  <2>3. Numbers(0) = {}
    BY DEF Numbers
  <2>4. \A i \in DOMAIN s.records : RecordOK(s.records[i])
    BY DEF StoreOK, FilesOK
  <2> QED
    BY <2>1, <2>2, <2>3, <2>4 DEF Compacted
<1>4. ASSUME NEW m \in 1..L, Good(m - 1) PROVE Good(m)
  <2>1. w[m] = MoveToCursor(s, w[m - 1], order[m], floor)
    BY <1>2
  <2>2. order[m] \in DOMAIN s.records /\ order[m] \notin D(m - 1)
    BY <1>1
  <2>3. D(m) = D(m - 1) \cup {order[m]}
    BY <1>1
  <2>4. RecordOK(s.records[order[m]]) /\ Whole(s, order[m])
    BY <2>2 DEF StoreOK, FilesOK, AllWhole
  <2>5. Compacted(s, w[m - 1], D(m - 1))
    BY <1>4
  <2> HIDE DEF D
  <2>6. Compacted(s, MoveToCursor(s, w[m - 1], order[m], floor), D(m - 1) \cup {order[m]})
    BY <2>2, <2>4, <2>5, LaidDown
  <2> QED
    BY <2>1, <2>3, <2>6
<1> HIDE DEF Good
<1>5. Good(L)
  <2> DEFINE T == {m \in Nat : Good(m)}
  <2>1. 0 \in T
    BY <1>3
  <2>2. \A m \in 1..L : m - 1 \in T => m \in T
    BY <1>4
  <2> HIDE DEF T
  <2>3. \A m \in 0..L : m \in T
    BY <1>1, <2>1, <2>2, UpTo
  <2> QED
    BY <1>1, <2>3 DEF T
<1>6. D(L) = DOMAIN s.records
  BY <1>1
<1> HIDE DEF D, L
<1> QED
  BY <1>2, <1>5, <1>6, LaidOutStore DEF Good

\* The inodes with a record are finitely many numbers.
LEMMA KnownIs ==
  ASSUME NEW s, StoreOK(s)
  PROVE  IsFiniteSet(DOMAIN s.records) /\ DOMAIN s.records \subseteq Nat
<1>1. DOMAIN s.records \subseteq Inodes
  BY DEF StoreOK
<1>2. IsFiniteSet(Inodes) /\ Inodes \subseteq Nat
  BY BlockStoreAssumption DEF BlockStoreAssumption
<1> QED
  BY <1>1, <1>2, FS_Subset

\* The first blocks and the inode numbers order the files, and so do the ranks in
\* a list of hot inodes before them.
LEMMA FileOrders ==
  ASSUME NEW s, StoreOK(s), AllWhole(s), NEW hot \in Seq(Inodes)
  PROVE  LET known == DOMAIN s.records
         IN  /\ StrictOrder(known, {p \in known \X known : InPlaceOrder(s, p[1], p[2])})
             /\ StrictOrder(known, {p \in known \X known : HeatOrder(s, hot, p[1], p[2])})
<1> DEFINE known == DOMAIN s.records
<1> DEFINE A == {p \in known \X known : InPlaceOrder(s, p[1], p[2])}
<1> DEFINE B == {p \in known \X known : HeatOrder(s, hot, p[1], p[2])}
<1> DEFINE at(i) == FirstPhysicalBlock(s.records[i])
<1> DEFINE rank(i) == Rank(hot, i)
<1>1. \A i \in known : i \in Nat /\ at(i) \in Nat
  <2>1. \A i \in known : RecordOK(s.records[i]) /\ Len(s.records[i].extents) <= 1
    BY DEF StoreOK, FilesOK, AllWhole, Whole
  <2>2. \A i \in known : i \in Nat
    BY KnownIs
  <2> QED
    BY <2>1, <2>2, OneExtent
<1>2. \A i \in known : rank(i) \in Nat
  <2> SUFFICES ASSUME NEW i \in known PROVE rank(i) \in Nat
    OBVIOUS
  <2>1. Len(hot) \in Nat /\ DOMAIN hot = 1..Len(hot)
    OBVIOUS
  <2>2. CASE \E k \in DOMAIN hot : hot[k] = i
    <3> DEFINE k == CHOOSE k \in DOMAIN hot : hot[k] = i
    <3>1. k \in DOMAIN hot
      BY <2>2
    <3>2. rank(i) = k
      BY <2>2 DEF Rank
    <3> HIDE DEF k
    <3> QED
      BY <2>1, <3>1, <3>2
  <2>3. CASE ~\E k \in DOMAIN hot : hot[k] = i
    <3>1. rank(i) = Len(hot) + 1
      BY <2>3 DEF Rank
    <3> QED
      BY <2>1, <3>1
  <2> QED
    BY <2>2, <2>3
<1>3. \A i, j : <<i, j>> \in A <=> /\ i \in known /\ j \in known
                                   /\ at(i) < at(j) \/ (at(i) = at(j) /\ i < j)
  BY DEF InPlaceOrder
<1>4. \A i, j : <<i, j>> \in B <=> /\ i \in known /\ j \in known
                                   /\ \/ rank(i) < rank(j)
                                      \/ rank(i) = rank(j) /\ (at(i) < at(j) \/ (at(i) = at(j) /\ i < j))
  BY DEF HeatOrder, InPlaceOrder
<1> HIDE DEF A, B, at, rank, known
<1>5. StrictOrder(known, A)
  <2>1. \A i \in known : <<i, i>> \notin A
    BY <1>1, <1>3
  <2>2. \A i, j \in known : i # j => <<i, j>> \in A \/ <<j, i>> \in A
    BY <1>1, <1>3
  <2>3. \A i, j, k \in known : <<i, j>> \in A /\ <<j, k>> \in A => <<i, k>> \in A
    BY <1>1, <1>3
  <2> QED
    BY <2>1, <2>2, <2>3 DEF StrictOrder
<1>6. StrictOrder(known, B)
  <2>1. \A i \in known : <<i, i>> \notin B
    BY <1>1, <1>2, <1>4
  <2>2. \A i, j \in known : i # j => <<i, j>> \in B \/ <<j, i>> \in B
    BY <1>1, <1>2, <1>4
  <2>3. \A i, j, k \in known : <<i, j>> \in B /\ <<j, k>> \in B => <<i, k>> \in B
    BY <1>1, <1>2, <1>4
  <2> QED
    BY <2>1, <2>2, <2>3 DEF StrictOrder
<1> QED
  BY <1>5, <1>6 DEF A, B, known

\* defragment
LEMMA DefragmentIs ==
  ASSUME NEW s, StoreOK(s), AllWhole(s)
  PROVE  LET t == Defragment(s)
         IN  StoreOK(t) /\ SameSizes(s, t) /\ (NoneEmpty(s) => ExactOK(t))
<1> DEFINE known == DOMAIN s.records
<1> DEFINE A == {p \in known \X known : InPlaceOrder(s, p[1], p[2])}
<1>1. StrictOrder(known, A)
  <2>1. <<>> \in Seq(Inodes)
    OBVIOUS
  <2> QED
    BY <2>1, FileOrders
<1>2. LaidOut(s) = Arranged(known, A)
  BY DEF LaidOut
<1>3. IsFiniteSet(known)
  BY KnownIs
<1> HIDE DEF A, known
<1>4. OrderOf(known, LaidOut(s))
  BY <1>1, <1>2, <1>3, ArrangedOrder
<1>5. Defragment(s) = Relocate(s, LaidOut(s), 0) /\ 0 \in {0, 1}
  BY DEF Defragment
<1> QED
  BY <1>4, <1>5, RelocateIs DEF known

\* optimize_with_priorities
LEMMA OptimizeIs ==
  ASSUME NEW s, StoreOK(s), AllWhole(s), NEW hot \in Seq(Inodes)
  PROVE  LET t == OptimizeWithPriorities(s, hot)
         IN  StoreOK(t) /\ SameSizes(s, t) /\ (NoneEmpty(s) /\ ExactOK(s) => ExactOK(t))
<1> DEFINE t == OptimizeWithPriorities(s, hot)
<1> DEFINE known == DOMAIN s.records
<1> DEFINE B == {p \in known \X known : HeatOrder(s, hot, p[1], p[2])}
<1> DEFINE order == Arranged(known, B)
<1> DEFINE u == Relocate(s, order, 1)
<1>1. t = u \/ t = Defragment(s) \/ t = s
  BY DEF OptimizeWithPriorities, ReallocatePrioritizedExtents
<1>2. StrictOrder(known, B)
  BY FileOrders
<1>3. IsFiniteSet(known)
  BY KnownIs
<1> HIDE DEF B, known
<1>4. OrderOf(known, order)
  BY <1>2, <1>3, ArrangedOrder
<1> HIDE DEF order
<1>5. StoreOK(u) /\ SameSizes(s, u) /\ (NoneEmpty(s) => ExactOK(u))
  BY <1>4, RelocateIs DEF known
<1>6. LET v == Defragment(s) IN StoreOK(v) /\ SameSizes(s, v) /\ (NoneEmpty(s) => ExactOK(v))
  BY DefragmentIs
<1>7. SameSizes(s, s)
  BY DEF SameSizes
<1> HIDE DEF t, u
<1> QED
  BY <1>1, <1>5, <1>6, <1>7 DEF t

-----------------------------------------------------------------------------
(* Saving and loading an image *)

\* The image of a finite set is finite.
LEMMA ImageIs ==
  ASSUME NEW S, IsFiniteSet(S), NEW f, NEW T, T \subseteq {f[x] : x \in S}
  PROVE  IsFiniteSet(T)
<1> DEFINE I == {f[x] : x \in S}
<1> DEFINE g == [x \in S |-> f[x]]
<1>1. g \in [S -> I] /\ \A y \in I : \E x \in S : g[x] = y
  OBVIOUS
<1>2. g \in Surjection(S, I)
  BY <1>1 DEF Surjection
<1>3. IsFiniteSet(I)
  BY <1>2, FS_Surjection
<1> QED
  BY <1>3, FS_Subset

\* The blocks of a set of extents.
Taken(occ) == {b \in Nat : \E e \in occ : b \in Span(e)}

\* The bump pointer of Gaps lies behind every occupied extent.
TopOf(occ) == Max({0} \cup {End(e) : e \in occ})

\* The greatest end is above every block taken, and the least such number.
LEMMA TopIs ==
  ASSUME NEW occ, occ \subseteq FreeExts, IsFiniteSet(occ)
  PROVE  /\ TopOf(occ) \in Nat
         /\ \A e \in occ : End(e) <= TopOf(occ)
         /\ TopOf(occ) = 0 \/ \E e \in occ : End(e) = TopOf(occ)
         /\ Taken(occ) \subseteq Numbers(TopOf(occ))
<1> DEFINE T == {0} \cup {End(e) : e \in occ}
<1>1. \A e \in occ : End(e) \in Nat /\ \A b : b \in Span(e) => b \in Nat /\ b < End(e)
  BY ExtentNumbers
<1>2. T \in SUBSET Nat /\ T # {}
  BY <1>1
<1>3. IsFiniteSet(T)
  <2> DEFINE f == [e \in occ |-> End(e)]
  <2>1. {End(e) : e \in occ} \subseteq {f[x] : x \in occ}
    OBVIOUS
  <2> HIDE DEF f
  <2>2. IsFiniteSet({End(e) : e \in occ})
    BY <2>1, ImageIs
  <2> QED
    BY <2>2, FS_Singleton, FS_Union
<1>4. TopOf(occ) = Max(T)
  BY DEF TopOf
<1> HIDE DEF T
<1>5. TopOf(occ) \in T /\ \A y \in T : TopOf(occ) >= y
  BY <1>2, <1>3, <1>4, MaxIs
<1>6. TopOf(occ) \in Nat /\ \A e \in occ : End(e) \in T
  BY <1>2, <1>5 DEF T
<1>7. \A e \in occ : End(e) <= TopOf(occ)
  BY <1>1, <1>5, <1>6
<1>8. Taken(occ) \subseteq Numbers(TopOf(occ))
  <2> SUFFICES ASSUME NEW b \in Taken(occ) PROVE b \in Numbers(TopOf(occ))
    OBVIOUS
  <2>1. PICK e \in occ : b \in Span(e)
    BY DEF Taken
  <2> QED
    BY <1>1, <1>6, <1>7, <2>1 DEF Numbers
<1> QED
  BY <1>5, <1>6, <1>7, <1>8 DEF T

\* The maximal runs of a set of numbers below n.
Runs(hole, n) ==
    {e \in {Extent(a, m) : a \in hole, m \in 1..n} :
        Span(e) \subseteq hole /\ e.start - 1 \notin hole /\ End(e) \notin hole}

\* A run is a free extent; two runs with the same start are one.
LEMMA RunIs ==
  ASSUME NEW n \in Nat, NEW hole, hole \subseteq Numbers(n)
  PROVE  /\ \A e \in Runs(hole, n) : /\ e \in FreeExts /\ Span(e) \subseteq hole
                                     /\ e.start \in hole /\ e.start - 1 \notin hole /\ End(e) \notin hole
         /\ \A d, e \in Runs(hole, n) : d # e => d.start < e.start \/ e.start < d.start
         /\ IsFiniteSet(Runs(hole, n))
<1> DEFINE R == Runs(hole, n)
<1> DEFINE C == {Extent(a, m) : a \in hole, m \in 1..n}
<1>0. \A b \in hole : b \in Nat /\ b < n
  BY DEF Numbers
<1>1. \A e \in C : \E a \in hole, m \in 1..n : e = Extent(a, m)
  OBVIOUS
<1>2. \A e \in C : e \in FreeExts /\ e.start \in hole
  BY <1>0, <1>1 DEF Extent, FreeExts
<1>3. \A e \in R : e \in C /\ Span(e) \subseteq hole /\ e.start - 1 \notin hole /\ End(e) \notin hole
  BY DEF Runs
<1>4. \A e \in R : /\ e \in FreeExts /\ Span(e) \subseteq hole
                   /\ e.start \in hole /\ e.start - 1 \notin hole /\ End(e) \notin hole
  BY <1>2, <1>3
<1>5. ASSUME NEW d \in R, NEW e \in R, d # e PROVE d.start < e.start \/ e.start < d.start
  <2>1. d \in FreeExts /\ e \in FreeExts
    BY <1>4
  <2>2. /\ d.start \in Nat /\ d.len \in Nat /\ d.len > 0 /\ End(d) \in Nat /\ End(d) = d.start + d.len
        /\ e.start \in Nat /\ e.len \in Nat /\ e.len > 0 /\ End(e) \in Nat /\ End(e) = e.start + e.len
        /\ \A b : b \in Span(d) <=> b \in Nat /\ d.start <= b /\ b < End(d)
        /\ \A b : b \in Span(e) <=> b \in Nat /\ e.start <= b /\ b < End(e)
    BY <2>1, ExtentNumbers DEF End
  <2>3. d.start # e.start \/ d.len # e.len
    BY <1>5, <2>1 DEF FreeExts
  <2>4. End(d) \notin Span(e) /\ End(e) \notin Span(d)
    BY <1>4
  <2>5. d.start = e.start => d.len = e.len
    BY <2>2, <2>4
  <2> QED
    BY <2>2, <2>3, <2>5
<1>6. IsFiniteSet(R)
  <2> DEFINE P == (0..n) \X (0..n)
  <2> DEFINE f == [p \in P |-> Extent(p[1], p[2])]
  <2>1. IsFiniteSet(P)
    <3>1. IsFiniteSet(0..n)
      BY FS_Interval
    <3> QED
      BY <3>1, FS_Product
  <2>2. C \subseteq {f[p] : p \in P}
    <3> SUFFICES ASSUME NEW e \in C PROVE \E p \in P : e = f[p]
      OBVIOUS
    <3>1. PICK a \in hole, m \in 1..n : e = Extent(a, m)
      BY <1>1
    <3>2. a \in 0..n /\ m \in 0..n
      BY <1>0
    <3>3. <<a, m>> \in P /\ f[<<a, m>>] = e
      BY <3>1, <3>2
    <3> QED
      BY <3>3
  <2>3. R \subseteq {f[p] : p \in P}
    BY <1>3, <2>2
  <2> HIDE DEF f, P, R
  <2> QED
    BY <2>1, <2>3, ImageIs
<1> QED
  BY <1>4, <1>5, <1>6

\* Every number of the set lies in one of its runs.
LEMMA InRun ==
  ASSUME NEW n \in Nat, NEW hole, hole \subseteq Numbers(n), NEW b \in hole
  PROVE  \E e \in Runs(hole, n) : b \in Span(e)
<1>0. \A c \in hole : c \in Nat /\ c < n
  BY DEF Numbers
<1> DEFINE A == {a \in Nat : a <= b /\ \A c \in Nat : a <= c /\ c <= b => c \in hole}
<1> DEFINE Z == {z \in Nat : b < z /\ z \notin hole}
<1>1. b \in A /\ A \in SUBSET Nat
  BY <1>0
<1>2. PICK a \in A : \A x \in A : a <= x
  BY <1>1, LeastNat
<1>3. n \in Z /\ Z \in SUBSET Nat
  BY <1>0
<1>4. PICK z \in Z : \A x \in Z : z <= x
  BY <1>3, LeastNat
<1>5. a \in Nat /\ z \in Nat /\ a <= b /\ b < z /\ z \notin hole /\ z <= n /\ b \in Nat
  BY <1>0, <1>2, <1>3, <1>4
<1>6. a - 1 \notin hole
  <2> SUFFICES ASSUME a - 1 \in hole PROVE FALSE
    OBVIOUS
  <2>1. a - 1 \in Nat
    BY <1>0
  <2>2. a - 1 \in A
    BY <1>2, <1>5, <2>1
  <2> QED
    BY <1>2, <1>5, <2>2
<1>7. \A c \in Nat : a <= c /\ c < z => c \in hole
  <2> SUFFICES ASSUME NEW c \in Nat, a <= c, c < z PROVE c \in hole
    OBVIOUS
  <2>1. CASE c <= b
    BY <1>2, <2>1
  <2>2. CASE b < c
    BY <1>4, <1>5, <2>2
  <2> QED
    BY <1>5, <2>1, <2>2
<1> DEFINE e == Extent(a, z - a)
<1>8. z - a \in 1..n /\ a \in hole /\ z - a \in Nat \ {0}
  BY <1>5, <1>7
<1>9. e \in FreeExts /\ e.start = a /\ End(e) = z
  BY <1>5, <1>8 DEF FreeExts, Extent, End
<1>10. \A c : c \in Span(e) <=> c \in Nat /\ a <= c /\ c < z
  BY <1>9, ExtentNumbers
<1>11. e \in {Extent(x, m) : x \in hole, m \in 1..n}
  BY <1>8
<1> HIDE DEF e
<1>12. e \in Runs(hole, n)
  BY <1>5, <1>6, <1>7, <1>9, <1>10, <1>11 DEF Runs
<1> QED
  BY <1>5, <1>10, <1>12

\* The runs in order are a free list of the set with gaps between the extents.
LEMMA RunsListed ==
  ASSUME NEW n \in Nat, NEW hole, hole \subseteq Numbers(n)
  PROVE  LET R == Runs(hole, n)
             f == Arranged(R, {p \in R \X R : p[1].start < p[2].start})
         IN  f \in Seq(FreeExts) /\ Spaced(f) /\ Free(f) = hole
<1> DEFINE R == Runs(hole, n)
<1> DEFINE order == {p \in R \X R : p[1].start < p[2].start}
<1> DEFINE f == Arranged(R, order)
<1> DEFINE m == Cardinality(R)
<1>1. /\ \A e \in R : /\ e \in FreeExts /\ Span(e) \subseteq hole
                      /\ e.start \in hole /\ e.start - 1 \notin hole /\ End(e) \notin hole
      /\ \A d, e \in R : d # e => d.start < e.start \/ e.start < d.start
      /\ IsFiniteSet(R)
  BY RunIs
<1>2. \A b \in hole : \E e \in R : b \in Span(e)
  BY InRun
<1>3. \A e \in R : /\ e.start \in Nat /\ End(e) \in Nat /\ e.start < End(e)
                   /\ \A b : b \in Span(e) <=> b \in Nat /\ e.start <= b /\ b < End(e)
  BY <1>1, ExtentNumbers
<1>4. \A d, e : <<d, e>> \in order <=> d \in R /\ e \in R /\ d.start < e.start
  OBVIOUS
<1> HIDE DEF R, order
<1>5. StrictOrder(R, order)
  BY <1>1, <1>3, <1>4 DEF StrictOrder
<1>6. /\ m \in Nat /\ f \in [1..m -> R]
      /\ \A x \in R : \E k \in 1..m : f[k] = x
      /\ \A j, k \in 1..m : j < k => <<f[j], f[k]>> \in order
  BY <1>1, <1>5, ArrangedIs
<1> HIDE DEF m, f
<1>7. f \in Seq(FreeExts) /\ Len(f) = m /\ \A k \in 1..m : f[k] \in R
  BY <1>1, <1>6
<1>8. ASSUME NEW j \in 1..m, NEW k \in 1..m, j < k PROVE End(f[j]) < f[k].start
  <2> DEFINE d == f[j]
  <2> DEFINE e == f[k]
  <2>1. d \in R /\ e \in R /\ d.start < e.start
    BY <1>4, <1>6, <1>8
  <2> HIDE DEF d, e
  <2>2. d.start \in Nat /\ End(d) \in Nat /\ e.start \in Nat /\ e.start \in hole /\ e.start - 1 \notin hole
        /\ End(d) \notin hole
    BY <1>1, <1>3, <2>1
  <2>3. End(d) # e.start
    BY <2>2
  <2>4. ASSUME e.start < End(d) PROVE FALSE
    <3>1. e.start - 1 \in Span(d)
      BY <1>3, <2>1, <2>2, <2>4
    <3> QED
      BY <1>1, <2>1, <2>2, <3>1
  <2>5. End(d) < e.start
    BY <2>2, <2>3, <2>4
  <2> QED
    BY <2>5 DEF d, e
<1>9. Spaced(f)
  BY <1>7, <1>8 DEF Spaced
<1>10. Free(f) = hole
  <2>1. ASSUME NEW b \in Free(f) PROVE b \in hole
    BY <1>1, <1>7 DEF Free
  <2>2. ASSUME NEW b \in hole PROVE b \in Free(f)
    <3>1. PICK e \in R : b \in Span(e)
      BY <1>2
    <3>2. PICK k \in 1..m : f[k] = e
      BY <1>6
    <3>3. b \in Nat
      BY <1>3, <3>1
    <3> QED
      BY <1>7, <3>1, <3>2, <3>3 DEF Free
  <2> QED
    BY <2>1, <2>2
<1> QED
  BY <1>7, <1>9, <1>10 DEF f, order, R

\* rebuild_free_extents and reconstruct_free_extents_from_records: what no record
\* occupies below the last one that does.
LEMMA GapsIs ==
  ASSUME NEW occ, occ \subseteq FreeExts, IsFiniteSet(occ)
  PROVE  LET g == Gaps(occ)
         IN  /\ g.top = TopOf(occ)
             /\ g.free \in Seq(FreeExts) /\ Spaced(g.free)
             /\ Free(g.free) = Numbers(TopOf(occ)) \ Taken(occ)
<1> DEFINE n == TopOf(occ)
<1> DEFINE hole == (0..n - 1) \ UNION {Span(e) : e \in occ}
<1> DEFINE R == Runs(hole, n)
<1> DEFINE f == Arranged(R, {p \in R \X R : p[1].start < p[2].start})
<1>1. Gaps(occ) = [top |-> n, free |-> f]
  BY DEF Gaps, TopOf, Runs
<1>2. n \in Nat
  BY TopIs
<1> HIDE DEF n
<1>3. hole = Numbers(n) \ Taken(occ)
  <2>1. \A b \in Nat : b \in UNION {Span(e) : e \in occ} <=> b \in Taken(occ)
    BY DEF Taken
  <2>2. 0..n - 1 = Numbers(n)
    BY <1>2 DEF Numbers
  <2>3. \A b \in Numbers(n) : b \in Nat
    BY DEF Numbers
  <2> QED
    BY <2>1, <2>2, <2>3
<1> HIDE DEF hole
<1>4. f \in Seq(FreeExts) /\ Spaced(f) /\ Free(f) = hole
  <2>1. hole \subseteq Numbers(n)
    BY <1>3
  <2> QED
    BY <1>2, <2>1, RunsListed
<1> HIDE DEF f
<1> QED
  BY <1>1, <1>3, <1>4 DEF n

\* The blocks a saved record is taken to occupy: its own, or one for an empty file.
LEMMA OccupiedIs ==
  ASSUME NEW r, RecordOK(r), Len(r.extents) <= 1
  PROVE  /\ Occupied(r) \in FreeExts
         /\ Held(r) \subseteq Span(Occupied(r))
         /\ r.size # 0 => Span(Occupied(r)) = Held(r)
<1> DEFINE a == FirstPhysicalBlock(r)
<1> DEFINE m == TotalBlocks(r)
<1> DEFINE e == Occupied(r)
<1>1. a \in Nat /\ m \in Nat /\ Held(r) = Area(a, m) /\ (m = 0 <=> Len(r.extents) = 0)
  BY OneExtent
<1>2. r.size = 0 <=> m = 0
  BY <1>1 DEF RecordOK
<1>3. e = Extent(a, Greatest(m, 1))
  BY DEF Occupied
<1> HIDE DEF a, m, e
<1>4. e.start = a /\ e.len = Greatest(m, 1) /\ e \in FreeExts
  BY <1>1, <1>3 DEF Extent, FreeExts, Greatest
<1>5. \A b : b \in Span(e) <=> b \in Nat /\ a <= b /\ b < a + Greatest(m, 1)
  BY <1>4, ExtentNumbers DEF End
<1>6. Held(r) \subseteq Span(e) /\ (m # 0 => Span(e) = Held(r))
  BY <1>1, <1>5 DEF Area, Greatest
<1> QED
  BY <1>2, <1>4, <1>6 DEF e

\* A record comes back as it was saved.
LEMMA SavedIs ==
  ASSUME NEW s, StoreOK(s), NEW i \in DOMAIN s.records, Whole(s, i)
  PROVE  LET r == SavedRecord(s, i)
         IN  /\ RecordOK(r) /\ Len(r.extents) <= 1
             /\ r.size = s.records[i].size /\ Held(r) = Held(s.records[i])
<1> DEFINE r == s.records[i]
<1> DEFINE c == Read(s, i)
<1> DEFINE x == [start |-> FirstPhysicalBlock(r), len |-> Len(c), blocks |-> Greatest(TotalBlocks(r), 1)]
<1> DEFINE q == SavedRecord(s, i)
<1>1. /\ DOMAIN q = {"size", "crc", "extents"} /\ q.size = r.size
      /\ q.extents = IF c = <<>> THEN <<>> ELSE <<x>>
  BY DEF SavedRecord
<1>2. RecordOK(r) /\ Len(r.extents) <= 1
  BY DEF StoreOK, FilesOK, Whole
<1>3. IsContent(c) /\ Len(c) = r.size
  BY <1>2, ReadIs
<1>4. /\ FirstPhysicalBlock(r) \in Nat /\ TotalBlocks(r) \in Nat
      /\ Held(r) = Area(FirstPhysicalBlock(r), TotalBlocks(r))
      /\ TotalBlocks(r) = 0 <=> Len(r.extents) = 0
      /\ \A k \in 1..Len(r.extents) : r.extents[k].start = FirstPhysicalBlock(r)
                                      /\ r.extents[k].blocks = TotalBlocks(r)
  BY <1>2, OneExtent
<1>5. r.size \in Nat /\ (r.size = 0 <=> Len(r.extents) = 0) /\ Len(r.extents) \in Nat
  BY <1>2 DEF RecordOK
<1> HIDE DEF q, c
<1>6. CASE r.size = 0
  <2>1. c = <<>>
    BY <1>3, <1>6 DEF IsContent
  <2>2. q.extents = <<>> /\ q.size = 0
    BY <1>1, <1>6, <2>1
  <2>3. RecordOK(q) /\ Held(q) = {} /\ Len(q.extents) = 0
    BY <1>1, <2>2, EmptyRecord
  <2>4. Held(r) = {}
    BY <1>5, <1>6 DEF Held
  <2> QED
    BY <1>1, <2>3, <2>4 DEF q
<1>7. CASE r.size # 0
  <2>1. c # <<>>
    BY <1>3, <1>7 DEF IsContent
  <2>2. Len(r.extents) = 1
    <3>1. Len(r.extents) # 0 /\ Len(r.extents) <= 1 /\ Len(r.extents) \in Nat
      BY <1>2, <1>5, <1>7
    <3>2. \A n \in Nat : n # 0 /\ n <= 1 => n = 1
      OBVIOUS
    <3> QED
      BY <3>1, <3>2, Zenon
  <2>3. /\ r.extents[1].blocks = TotalBlocks(r)
        /\ r.extents[1].len <= TotalBlocks(r) * BlockSize /\ r.size <= r.extents[1].len
        /\ r.extents[1] \in FileExts
    <3>1. 1 \in 1..Len(r.extents)
      BY <2>2
    <3>2. r.extents[1].blocks = TotalBlocks(r)
      BY <1>4, <3>1
    <3> QED
      BY <1>2, <2>2, <3>1, <3>2 DEF RecordOK, Counted
  <2>4. r.extents[1].len \in Nat /\ TotalBlocks(r) # 0 /\ BlockSize \in Nat
    BY <1>4, <2>2, <2>3, BlockStoreAssumption DEF FileExts, BlockStoreAssumption
  <2>5. /\ x.start = FirstPhysicalBlock(r) /\ x.len = r.size /\ x.blocks = TotalBlocks(r) /\ x \in FileExts
    BY <1>3, <1>4, <1>5, <2>4 DEF Greatest, FileExts
  <2>6. q.extents = <<x>>
    BY <1>1, <2>1
  <2> HIDE DEF x
  <2>7. x.len <= x.blocks * BlockSize
    <3> DEFINE room == TotalBlocks(r) * BlockSize
    <3>1. room \in Int
      BY <1>4, <2>4
    <3>2. r.extents[1].len <= room
      BY <2>3
    <3> HIDE DEF room
    <3>3. r.size <= room
      BY <1>5, <2>3, <2>4, <3>1, <3>2
    <3> QED
      BY <2>5, <3>3 DEF room
  <2>8. q.size \in Nat /\ q.size # 0 /\ q.size <= x.len
    BY <1>1, <1>5, <1>7, <2>5
  <2>9. RecordOK(q) /\ Held(q) = Blocks(x) /\ Len(q.extents) = 1
    BY <1>1, <2>5, <2>6, <2>7, <2>8, NewRecord
  <2> QED
    BY <1>1, <1>4, <2>5, <2>9 DEF Blocks, q
<1> QED
  BY <1>6, <1>7

\* What the records occupy, the empty files among them and not.
OccOf(R) == {Occupied(R[i]) : i \in DOMAIN R}
OccFilled(R) == {Occupied(R[i]) : i \in {j \in DOMAIN R : R[j].extents # <<>>}}

SingleFiles(R) ==
    /\ IsFiniteSet(DOMAIN R)
    /\ \A i \in DOMAIN R : RecordOK(R[i]) /\ Len(R[i].extents) <= 1

\* What single-extent records occupy, and how it compares to the blocks they hold.
LEMMA OccIs ==
  ASSUME NEW R, SingleFiles(R)
  PROVE  /\ OccOf(R) \subseteq FreeExts /\ IsFiniteSet(OccOf(R))
         /\ OccFilled(R) \subseteq FreeExts /\ IsFiniteSet(OccFilled(R))
         /\ AllHeld(R) \subseteq Taken(OccOf(R))
         /\ Taken(OccFilled(R)) = AllHeld(R)
         /\ (\A i \in DOMAIN R : R[i].size # 0) => OccFilled(R) = OccOf(R)
<1> DEFINE f == [i \in DOMAIN R |-> Occupied(R[i])]
<1> DEFINE D == {j \in DOMAIN R : R[j].extents # <<>>}
<1>1. \A i \in DOMAIN R : RecordOK(R[i]) /\ Len(R[i].extents) <= 1
  BY DEF SingleFiles
<1>2. \A i \in DOMAIN R : /\ Occupied(R[i]) \in FreeExts
                          /\ Held(R[i]) \subseteq Span(Occupied(R[i]))
                          /\ R[i].size # 0 => Span(Occupied(R[i])) = Held(R[i])
  BY <1>1, OccupiedIs
<1>3. \A i \in DOMAIN R : i \in D <=> R[i].size # 0
  <2> SUFFICES ASSUME NEW i \in DOMAIN R PROVE R[i].extents # <<>> <=> R[i].size # 0
    OBVIOUS
  <2>1. R[i].extents \in Seq(FileExts) /\ (R[i].size = 0 <=> Len(R[i].extents) = 0)
    BY <1>1 DEF RecordOK
  <2>2. R[i].extents = <<>> <=> Len(R[i].extents) = 0
    BY <2>1
  <2> QED
    BY <2>1, <2>2
<1>4. OccOf(R) \subseteq {f[i] : i \in DOMAIN R} /\ OccFilled(R) \subseteq {f[i] : i \in DOMAIN R}
  BY DEF OccOf, OccFilled
<1> HIDE DEF f
<1>5. IsFiniteSet(OccOf(R)) /\ IsFiniteSet(OccFilled(R))
  BY <1>4, ImageIs DEF SingleFiles
<1>6. OccOf(R) \subseteq FreeExts /\ OccFilled(R) \subseteq FreeExts
  BY <1>2 DEF OccOf, OccFilled
<1>7. AllHeld(R) \subseteq Taken(OccOf(R))
  BY <1>2 DEF AllHeld, Taken, OccOf
<1>8. OccFilled(R) = {Occupied(R[i]) : i \in D}
  BY DEF OccFilled
<1>9. \A i \in DOMAIN R \ D : Held(R[i]) = {}
  <2> SUFFICES ASSUME NEW i \in DOMAIN R, i \notin D PROVE Held(R[i]) = {}
    OBVIOUS
  <2>1. Len(R[i].extents) = 0
    BY <1>1, <1>3 DEF RecordOK
  <2> QED
    BY <2>1 DEF Held
<1>10. \A i \in D : i \in DOMAIN R
  OBVIOUS
<1> HIDE DEF D
<1>11. Taken(OccFilled(R)) = AllHeld(R)
  <2>1. ASSUME NEW b \in Taken(OccFilled(R)) PROVE b \in AllHeld(R)
    <3>1. b \in Nat /\ \E e \in OccFilled(R) : b \in Span(e)
      BY DEF Taken
    <3>2. PICK i \in D : b \in Span(Occupied(R[i]))
      BY <1>8, <3>1
    <3>3. b \in Held(R[i]) /\ i \in DOMAIN R
      BY <1>2, <1>3, <1>10, <3>2
    <3> QED
      BY <3>1, <3>3 DEF AllHeld
  <2>2. ASSUME NEW b \in AllHeld(R) PROVE b \in Taken(OccFilled(R))
    <3>1. PICK i \in DOMAIN R : b \in Nat /\ b \in Held(R[i])
      BY DEF AllHeld
    <3>2. i \in D
      BY <1>9, <3>1
    <3>3. b \in Span(Occupied(R[i])) /\ Occupied(R[i]) \in OccFilled(R)
      BY <1>2, <1>8, <3>1, <3>2
    <3> QED
      BY <3>1, <3>3 DEF Taken
  <2> QED
    BY <2>1, <2>2
<1>12. (\A i \in DOMAIN R : R[i].size # 0) => OccFilled(R) = OccOf(R)
  BY <1>3, <1>8, <1>10 DEF OccOf
<1> QED
  BY <1>5, <1>6, <1>7, <1>11, <1>12

\* validate_free_space_layout compares the blocks of the free extents with those
\* of the records.
LEMMA LayoutIs ==
  ASSUME NEW f \in Seq(FreeExts), NEW occ, occ \subseteq FreeExts
  PROVE  /\ FreeLayoutOK(f, occ) => Free(f) \cap Taken(occ) = {}
         /\ Ordered(f) /\ Free(f) \cap Taken(occ) = {} => FreeLayoutOK(f, occ)
<1>1. DOMAIN f = 1..Len(f)
  OBVIOUS
<1>2. \A k \in 1..Len(f) : \A b \in Span(f[k]) : b \in Free(f) /\ b \in Nat
  BY ListNumbers
<1>3. FreeLayoutOK(f, occ) => Free(f) \cap Taken(occ) = {}
  BY <1>1 DEF FreeLayoutOK, Free, Taken
<1>4. ASSUME Ordered(f), Free(f) \cap Taken(occ) = {} PROVE FreeLayoutOK(f, occ)
  <2>1. \A j, k \in DOMAIN f : j < k => Span(f[j]) \cap Span(f[k]) = {}
    <3> SUFFICES ASSUME NEW j \in 1..Len(f), NEW k \in 1..Len(f), j < k PROVE Span(f[j]) \cap Span(f[k]) = {}
      BY <1>1
    <3>1. Apart(f)
      BY <1>4, OrderedApart
    <3>2. j # k
      OBVIOUS
    <3> QED
      BY <3>1, <3>2 DEF Apart
  <2>2. \A k \in DOMAIN f : \A e \in occ : Span(f[k]) \cap Span(e) = {}
    <3> SUFFICES ASSUME NEW k \in 1..Len(f), NEW e \in occ, NEW b, b \in Span(f[k]), b \in Span(e) PROVE FALSE
      BY <1>1
    <3>1. b \in Free(f) /\ b \in Nat
      BY <1>2
    <3>2. b \in Taken(occ)
      BY <3>1 DEF Taken
    <3> QED
      BY <1>4, <3>1, <3>2
  <2> QED
    BY <2>1, <2>2 DEF FreeLayoutOK
<1> QED
  BY <1>3, <1>4

\* The records of a store as they come back from its image.
Restored(s, R) ==
    /\ SingleFiles(R)
    /\ DOMAIN R = DOMAIN s.records
    /\ \A i \in DOMAIN R : R[i].size = s.records[i].size /\ Held(R[i]) = Held(s.records[i])

\* Restored records hold the blocks their files held.
LEMMA RestoredIs ==
  ASSUME NEW s, StoreOK(s), NEW R, Restored(s, R)
  PROVE  /\ AllHeld(R) = AllHeld(s.records) /\ AllHeld(R) \subseteq Used(s)
         /\ \A U : AllHeld(R) \subseteq U => FilesOK(R, U)
         /\ NoneEmpty(s) => Taken(OccOf(R)) = AllHeld(R)
         /\ ExactOK(s) => AllHeld(R) = Used(s)
<1>1. /\ DOMAIN R = DOMAIN s.records
      /\ \A i \in DOMAIN R : R[i].size = s.records[i].size /\ Held(R[i]) = Held(s.records[i])
      /\ SingleFiles(R)
  BY DEF Restored
<1>2. AllHeld(R) = AllHeld(s.records)
  BY <1>1 DEF AllHeld
<1>3. FilesOK(s.records, Used(s))
  BY DEF StoreOK
<1>4. AllHeld(R) \subseteq Used(s)
  BY <1>2, <1>3 DEF FilesOK, AllHeld
<1>5. ASSUME NEW U, AllHeld(R) \subseteq U PROVE FilesOK(R, U)
  <2>1. \A i \in DOMAIN R : RecordOK(R[i])
    BY <1>1 DEF SingleFiles
  <2>2. \A i \in DOMAIN R : Held(R[i]) \subseteq U
    <3> SUFFICES ASSUME NEW i \in DOMAIN R, NEW b \in Held(R[i]) PROVE b \in U
      OBVIOUS
    <3>1. b \in Nat
      BY DEF Held
    <3>2. b \in AllHeld(R)
      BY <3>1 DEF AllHeld
    <3> QED
      BY <1>5, <3>2
  <2>3. \A i, j \in DOMAIN R : i # j => Held(R[i]) \cap Held(R[j]) = {}
    BY <1>1, <1>3 DEF FilesOK
  <2> QED
    BY <2>1, <2>2, <2>3 DEF FilesOK
<1>6. NoneEmpty(s) => Taken(OccOf(R)) = AllHeld(R)
  BY <1>1, OccIs DEF NoneEmpty
<1>7. ExactOK(s) => AllHeld(R) = Used(s)
  BY <1>2, <1>4 DEF ExactOK
<1> QED
  BY <1>2, <1>4, <1>5, <1>6, <1>7

\* ingest_records and rebuild_free_extents: what the records occupy is used.
LEMMA IngestIs ==
  ASSUME NEW z, z.policy \in Policies, NEW R, SingleFiles(R)
  PROVE  LET t == Ingest(z, R)
         IN  /\ t.records = R /\ t.policy = z.policy /\ DOMAIN t = Keys
             /\ SpaceOK(t) /\ Tight(t) /\ t.next <= TopOf(OccOf(R))
             /\ Used(t) = Taken(OccOf(R))
<1> DEFINE occ == OccOf(R)
<1> DEFINE g == Gaps(occ)
<1> DEFINE n == TopOf(occ)
<1> DEFINE d == [c \in {R[i].crc : i \in DOMAIN R} |-> Cardinality({i \in DOMAIN R : R[i].crc = c})]
<1> DEFINE v == WithFiles(z, R, d, z.dev)
<1> DEFINE u == WithFree(v, g.top, g.free)
<1> DEFINE t == TrimFreeTail(u)
<1>1. Ingest(z, R) = t
  BY DEF Ingest, OccOf
<1>2. occ \subseteq FreeExts /\ IsFiniteSet(occ)
  BY OccIs
<1> HIDE DEF occ, d
<1>3. v.records = R /\ v.policy = z.policy
  BY WithFilesIs
<1> HIDE DEF v
<1>4. /\ g.top = n /\ g.free \in Seq(FreeExts) /\ Spaced(g.free) /\ Free(g.free) = Numbers(n) \ Taken(occ)
  BY <1>2, GapsIs
<1>5. n \in Nat /\ Taken(occ) \subseteq Numbers(n)
  BY <1>2, TopIs
<1> HIDE DEF g, n
<1>6. u.next = n /\ u.free = g.free /\ u.records = R /\ u.policy = z.policy /\ DOMAIN u = Keys
  BY <1>3, <1>4, WithFreeIs
<1> HIDE DEF u
<1>7. Ordered(u.free) /\ Spaced(u.free)
  BY <1>4, <1>6, OrderedApart
<1>8. u.policy.trim \in BOOLEAN /\ u.policy.coalesce \in BOOLEAN
  BY <1>6, PolicyIs
<1>9. Used(u) = Taken(occ) /\ Free(u.free) \subseteq Numbers(u.next)
  BY <1>4, <1>5, <1>6 DEF Used
<1>10. /\ SameFiles(u, t) /\ t.next \in Nat /\ t.next <= u.next
       /\ t.free \in Seq(FreeExts) /\ Ordered(t.free) /\ Spaced(t.free) /\ Used(t) = Used(u)
       /\ Free(t.free) \subseteq Numbers(t.next) /\ Tight(t)
  <2>1. u.next \in Nat /\ u.free \in Seq(FreeExts) /\ Ordered(u.free) /\ Spaced(u.free)
        /\ u.policy.trim \in BOOLEAN /\ DOMAIN u = Keys /\ Free(u.free) \subseteq Numbers(u.next)
    BY <1>4, <1>5, <1>6, <1>7, <1>8, <1>9
  <2> QED
    BY <2>1, TrimIs
<1> HIDE DEF t
<1>11. SpaceOK(t)
  BY <1>10 DEF SpaceOK
<1> QED
  BY <1>1, <1>6, <1>9, <1>10, <1>11 DEF SameFiles, n, occ

\* Extents below n have their top below n.
LEMMA TopBelow ==
  ASSUME NEW occ, occ \subseteq FreeExts, IsFiniteSet(occ), NEW n \in Nat, Taken(occ) \subseteq Numbers(n)
  PROVE  TopOf(occ) <= n
<1>1. TopOf(occ) = 0 \/ \E e \in occ : End(e) = TopOf(occ)
  BY TopIs
<1>2. ASSUME NEW e \in occ PROVE End(e) <= n
  <2>1. /\ e.start \in Nat /\ End(e) \in Nat /\ e.start < End(e)
        /\ \A b : b \in Span(e) <=> b \in Nat /\ e.start <= b /\ b < End(e)
    BY ExtentNumbers
  <2>2. End(e) - 1 \in Span(e) /\ End(e) - 1 \in Nat
    BY <2>1
  <2>3. End(e) - 1 \in Taken(occ)
    BY <2>2 DEF Taken
  <2>4. End(e) - 1 < n
    BY <2>3 DEF Numbers
  <2> QED
    BY <2>1, <2>4
<1> QED
  BY <1>1, <1>2

\* The records of an image
LEMMA SavedAll ==
  ASSUME NEW s, StoreOK(s), AllWhole(s)
  PROVE  Restored(s, SavedRecords(s))
<1> DEFINE R == SavedRecords(s)
<1>1. DOMAIN R = DOMAIN s.records /\ \A i \in DOMAIN R : R[i] = SavedRecord(s, i)
  BY DEF SavedRecords
<1>2. IsFiniteSet(DOMAIN R)
  BY <1>1, KnownIs
<1>3. \A i \in DOMAIN s.records : /\ RecordOK(SavedRecord(s, i)) /\ Len(SavedRecord(s, i).extents) <= 1
                                  /\ SavedRecord(s, i).size = s.records[i].size
                                  /\ Held(SavedRecord(s, i)) = Held(s.records[i])
  BY SavedIs DEF AllWhole
<1> HIDE DEF R
<1>4. Restored(s, R)
  BY <1>1, <1>2, <1>3 DEF Restored, SingleFiles
<1> QED
  BY <1>4 DEF R

\* The free list of an image holds no block of a file; if the free space is known
\* exactly it is the free space of the store.
LEMMA SavedFreeIs ==
  ASSUME NEW s, StoreOK(s), AllWhole(s)
  PROVE  LET f == SavedFree(s)
         IN  /\ f \in Seq(FreeExts) /\ Ordered(f) /\ Free(f) \cap AllHeld(s.records) = {}
             /\ ExactOK(s) => Free(f) = Free(s.free)
<1> DEFINE R == SavedRecords(s)
<1> DEFINE occ == OccFilled(R)
<1> DEFINE f == SavedFree(s)
<1>1. f = IF s.free # <<>> THEN s.free ELSE Gaps(occ).free
  BY DEF SavedFree, OccFilled
<1>2. Restored(s, R)
  BY SavedAll
<1> HIDE DEF R
<1>3. /\ AllHeld(R) = AllHeld(s.records) /\ AllHeld(R) \subseteq Used(s)
      /\ ExactOK(s) => AllHeld(R) = Used(s)
  BY <1>2, RestoredIs
<1>4. occ \subseteq FreeExts /\ IsFiniteSet(occ) /\ Taken(occ) = AllHeld(R)
  BY <1>2, OccIs DEF Restored
<1> HIDE DEF occ, f
<1>5. s.next \in Nat /\ s.free \in Seq(FreeExts) /\ Ordered(s.free)
  BY DEF StoreOK, SpaceOK
<1>6. CASE s.free # <<>>
  <2>1. f = s.free
    BY <1>1, <1>6
  <2>2. Free(s.free) \cap AllHeld(s.records) = {}
    BY <1>3 DEF Used
  <2> QED
    BY <1>5, <2>1, <2>2 DEF f
<1>7. CASE s.free = <<>>
  <2>1. /\ f \in Seq(FreeExts) /\ Spaced(f)
        /\ Free(f) = Numbers(TopOf(occ)) \ Taken(occ)
    BY <1>1, <1>4, <1>7, GapsIs
  <2>2. Ordered(f)
    BY <2>1, OrderedApart
  <2>3. Free(s.free) = {}
    BY <1>7 DEF Free
  <2>4. ASSUME ExactOK(s) PROVE Free(f) = {}
    <3>1. Taken(occ) = Numbers(s.next)
      BY <1>3, <1>4, <2>3, <2>4 DEF Used
    <3>2. TopOf(occ) <= s.next /\ TopOf(occ) \in Nat
      BY <1>4, <1>5, <3>1, TopBelow, TopIs
    <3>3. Numbers(TopOf(occ)) \subseteq Numbers(s.next)
      BY <1>5, <3>2 DEF Numbers
    <3> QED
      BY <2>1, <3>1, <3>3
  <2>5. Free(f) \cap AllHeld(s.records) = {}
    BY <1>3, <1>4, <2>1
  <2> QED
    BY <2>1, <2>2, <2>3, <2>4, <2>5 DEF f
<1> QED
  BY <1>6, <1>7

\* An image of a store without multi-extent files is accepted.
LEMMA AcceptedIs ==
  ASSUME NEW s, StoreOK(s), AllWhole(s)
  PROVE  ImageAccepted(s)
<1> DEFINE R == SavedRecords(s)
<1> DEFINE occ == OccFilled(R)
<1>1. ImageAccepted(s) <=> FreeLayoutOK(SavedFree(s), occ)
  BY DEF ImageAccepted, OccFilled
<1>2. Restored(s, R)
  BY SavedAll
<1> HIDE DEF R
<1>3. occ \subseteq FreeExts /\ Taken(occ) = AllHeld(R)
  BY <1>2, OccIs DEF Restored
<1>4. AllHeld(R) = AllHeld(s.records)
  BY <1>2, RestoredIs
<1> HIDE DEF occ
<1>5. /\ SavedFree(s) \in Seq(FreeExts) /\ Ordered(SavedFree(s))
      /\ Free(SavedFree(s)) \cap AllHeld(s.records) = {}
  BY SavedFreeIs
<1>6. Free(SavedFree(s)) \cap Taken(occ) = {}
  BY <1>3, <1>4, <1>5
<1>7. FreeLayoutOK(SavedFree(s), occ)
  BY <1>3, <1>5, <1>6, LayoutIs
<1> QED
  BY <1>1, <1>7

\* With the tail trimmed, the used blocks determine the bump pointer.
LEMMA TightNext ==
  ASSUME NEW s, SpaceOK(s), Tight(s), s.policy.trim,
         NEW t, t.next \in Nat, Free(t.free) \subseteq Numbers(t.next), Used(s) \subseteq Used(t)
  PROVE  s.next <= t.next
<1> SUFFICES ASSUME t.next < s.next PROVE FALSE
  BY DEF SpaceOK
<1>1. s.next \in Nat /\ t.next \in Nat
  BY DEF SpaceOK
<1> DEFINE b == s.next - 1
<1>2. b \in Nat /\ b < s.next /\ ~(b < t.next)
  BY <1>1
<1>3. b \notin Free(s.free)
  BY DEF Tight, Numbers
<1>4. b \in Used(s)
  BY <1>2, <1>3 DEF Used, Numbers
<1> QED
  BY <1>2, <1>4 DEF Used, Numbers

\* The greatest of two numbers and the ends of a free list.
LEMMA EndsBelow ==
  ASSUME NEW f \in Seq(FreeExts), NEW m \in Nat, NEW n \in Nat
  PROVE  LET top == Max({m, n} \cup {End(e) : e \in ToSet(f)})
         IN  /\ top \in Nat /\ m <= top /\ n <= top
             /\ Free(f) \subseteq Numbers(top)
             /\ \A x \in Nat : m <= x /\ n <= x /\ Free(f) \subseteq Numbers(x) => top <= x
<1> DEFINE E == {End(e) : e \in ToSet(f)}
<1> DEFINE T == {m, n} \cup E
<1> DEFINE top == Max(T)
<1>1. Len(f) \in Nat /\ DOMAIN f = 1..Len(f) /\ \A k \in 1..Len(f) : End(f[k]) \in Nat
  BY ListNumbers
<1>2. E = {End(f[k]) : k \in 1..Len(f)}
  BY <1>1 DEF ToSet
<1> HIDE DEF E
<1>3. IsFiniteSet(E)
  <2> DEFINE g == [k \in 1..Len(f) |-> End(f[k])]
  <2>1. E \subseteq {g[k] : k \in 1..Len(f)}
    BY <1>2
  <2>2. IsFiniteSet(1..Len(f))
    BY <1>1, FS_Interval
  <2> HIDE DEF g
  <2> QED
    BY <2>1, <2>2, ImageIs
<1>4. IsFiniteSet(T)
  <2>1. IsFiniteSet({m} \cup {n})
    BY FS_Singleton, FS_Union
  <2>2. {m, n} = {m} \cup {n}
    OBVIOUS
  <2> QED
    BY <1>3, <2>1, <2>2, FS_Union
<1>5. T \in SUBSET Nat /\ T # {} /\ m \in T /\ n \in T /\ \A k \in 1..Len(f) : End(f[k]) \in T
  BY <1>1, <1>2
<1>6. \A x \in T : x = m \/ x = n \/ \E k \in 1..Len(f) : x = End(f[k])
  BY <1>2
<1> HIDE DEF T
<1>7. top \in T /\ \A x \in T : top >= x
  BY <1>4, <1>5, MaxIs
<1> HIDE DEF top
<1>8. top \in Nat /\ m <= top /\ n <= top /\ \A k \in 1..Len(f) : End(f[k]) <= top
  BY <1>1, <1>5, <1>7
<1>9. Free(f) \subseteq Numbers(top)
  <2>1. top \in Int
    BY <1>8
  <2> QED
    BY <1>8, <2>1, FreeBelow
<1>10. ASSUME NEW x \in Nat, m <= x, n <= x, Free(f) \subseteq Numbers(x) PROVE top <= x
  <2>1. x \in Int
    OBVIOUS
  <2>2. \A k \in 1..Len(f) : End(f[k]) <= x
    BY <1>10, <2>1, FreeBelow
  <2> QED
    BY <1>6, <1>7, <1>10, <2>2
<1> QED
  BY <1>8, <1>9, <1>10 DEF top, T, E

\* The blocks below a number are below a greater one.
LEMMA NumbersMore ==
  ASSUME NEW m \in Nat, NEW n \in Nat, m <= n
  PROVE  Numbers(m) \subseteq Numbers(n)
BY DEF Numbers

\* A store with the restored records and free space that avoids what they occupy.
LEMMA RestoredStore ==
  ASSUME NEW s, StoreOK(s), NEW R, Restored(s, R),
         NEW t, DOMAIN t = Keys, t.records = R, t.policy = s.policy, SpaceOK(t),
         Taken(OccOf(R)) \subseteq Used(t)
  PROVE  StoreOK(t) /\ (Tight(t) /\ (Used(t) \subseteq AllHeld(R)) => ExactOK(t))
<1>1. SingleFiles(R) /\ DOMAIN R = DOMAIN s.records
  BY DEF Restored
<1>2. AllHeld(R) \subseteq Used(t)
  BY <1>1, OccIs
<1>3. FilesOK(R, Used(t))
  BY <1>2, RestoredIs
<1>4. StoreOK(t)
  BY <1>1, <1>3 DEF StoreOK
<1> QED
  BY <1>4 DEF ExactOK

\* from_records_with_allocator with the saved free list adopted.
LEMMA AdoptedIs ==
  ASSUME NEW s, StoreOK(s), NEW R, Restored(s, R),
         NEW f \in Seq(FreeExts), Ordered(f), NoneEmpty(s) /\ ExactOK(s) => Free(f) = Free(s.free),
         NEW base, base.records = R, base.policy = s.policy, SpaceOK(base), Tight(base),
         base.next <= TopOf(OccOf(R)), Used(base) = Taken(OccOf(R)),
         NEW a, a = NormalizeFreeExtents(WithFree(base, base.next, f)),
         NEW top, top = Max({a.next, TopOf(OccOf(R))} \cup {End(e) : e \in ToSet(a.free)}),
         FreeLayoutOK(a.free, OccOf(R))
  PROVE  LET t == WithFree(a, top, a.free)
         IN  /\ StoreOK(t) /\ t.records = R /\ t.policy = s.policy
             /\ NoneEmpty(s) /\ ExactOK(s) => ExactOK(t)
<1> DEFINE occ == OccOf(R)
<1> DEFINE n == TopOf(occ)
<1> DEFINE u == WithFree(base, base.next, f)
<1> DEFINE t == WithFree(a, top, a.free)
<1>1. occ \subseteq FreeExts /\ IsFiniteSet(occ)
  BY OccIs DEF Restored
<1>2. n \in Nat /\ Taken(occ) \subseteq Numbers(n)
  BY <1>1, TopIs
<1>3. u.next = base.next /\ u.free = f /\ u.records = R /\ u.policy = s.policy /\ DOMAIN u = Keys
  BY WithFreeIs
<1>4. base.next \in Nat /\ s.policy \in Policies /\ SpaceOK(s) /\ s.next \in Nat
  BY DEF SpaceOK, StoreOK
<1> HIDE DEF u
<1>5. Apart(f)
  BY OrderedApart
<1>6. /\ SameButSpace(u, a) /\ a.next \in Nat /\ a.next <= u.next
      /\ a.free \in Seq(FreeExts) /\ Ordered(a.free) /\ (u.policy.coalesce => Spaced(a.free))
      /\ Tight(u) => a.next = u.next /\ Free(a.free) = Free(u.free)
  <2>1. a = NormalizeFreeExtents(u)
    BY DEF u
  <2> QED
    BY <1>3, <1>4, <1>5, <2>1, NormalizeIs
<1>7. /\ top \in Nat /\ a.next <= top /\ n <= top /\ Free(a.free) \subseteq Numbers(top)
      /\ \A x \in Nat : a.next <= x /\ n <= x /\ Free(a.free) \subseteq Numbers(x) => top <= x
  BY <1>2, <1>6, EndsBelow
<1>8. Free(a.free) \cap Taken(occ) = {}
  BY <1>1, <1>6, LayoutIs
<1>9. /\ t.next = top /\ t.free = a.free /\ t.records = a.records /\ t.policy = a.policy /\ DOMAIN t = Keys
  BY WithFreeIs
<1>10. base.next <= n /\ Used(base) = Taken(occ)
  OBVIOUS
<1> HIDE DEF t, n, occ
<1>11. t.records = R /\ t.policy = s.policy
  BY <1>3, <1>6, <1>9 DEF SameButSpace
<1>12. SpaceOK(t)
  BY <1>3, <1>6, <1>7, <1>9, <1>11 DEF SpaceOK
<1>13. Numbers(n) \subseteq Numbers(top)
  BY <1>2, <1>7, NumbersMore
<1>14. Taken(occ) \subseteq Used(t)
  BY <1>2, <1>8, <1>9, <1>13 DEF Used
<1>15. StoreOK(t) /\ (Tight(t) /\ (Used(t) \subseteq AllHeld(R)) => ExactOK(t))
  BY <1>9, <1>11, <1>12, <1>14, RestoredStore DEF occ
<1>16. ASSUME NoneEmpty(s), ExactOK(s) PROVE Tight(t) /\ Used(t) \subseteq AllHeld(R)
  <2>1. Free(f) = Free(s.free) /\ Tight(s)
    BY <1>16 DEF ExactOK
  <2>2. Taken(occ) = Used(s) /\ AllHeld(R) = Used(s)
    BY <1>16, RestoredIs DEF occ
  <2>3. n <= s.next
    <3>1. Taken(occ) \subseteq Numbers(s.next)
      BY <2>2 DEF Used
    <3> QED
      BY <1>1, <1>4, <3>1, TopBelow DEF n
  <2>4. s.policy.trim => base.next = s.next
    <3> SUFFICES ASSUME s.policy.trim PROVE base.next = s.next
      OBVIOUS
    <3>1. Free(base.free) \subseteq Numbers(base.next) /\ Used(s) \subseteq Used(base)
      BY <1>10, <2>2 DEF SpaceOK
    <3>2. s.next <= base.next
      BY <1>4, <2>1, <3>1, TightNext
    <3> QED
      BY <1>2, <1>4, <1>10, <2>3, <3>2
  <2>5. Tight(u)
    BY <1>3, <2>1, <2>4 DEF Tight
  <2>6. a.next = base.next /\ Free(a.free) = Free(s.free)
    BY <1>3, <1>6, <2>1, <2>5
  <2>7. Free(s.free) \subseteq Numbers(s.next)
    BY <1>4 DEF SpaceOK
  <2>8. a.next <= s.next
    BY <1>2, <1>4, <1>6, <1>10, <2>3, <2>6
  <2>9. top <= s.next
    BY <1>4, <1>7, <2>3, <2>6, <2>7, <2>8
  <2>10. Used(t) \subseteq Used(s)
    <3>1. Numbers(top) \subseteq Numbers(s.next)
      BY <1>4, <1>7, <2>9, NumbersMore
    <3> QED
      BY <1>9, <2>6, <3>1 DEF Used
  <2>11. Tight(t)
    <3> SUFFICES ASSUME s.policy.trim PROVE Free(t.free) \subseteq Numbers(t.next - 1)
      BY <1>11 DEF Tight
    <3>1. top = s.next
      BY <1>4, <1>7, <2>4, <2>6, <2>9
    <3> QED
      BY <1>9, <2>1, <2>6, <3>1 DEF Tight
  <2> QED
    BY <2>2, <2>10, <2>11
<1> QED
  BY <1>11, <1>15, <1>16 DEF t

\* from_records_with_allocator with the free list rebuilt from the records.
LEMMA RebuiltIs ==
  ASSUME NEW s, StoreOK(s), NEW R, Restored(s, R), NEW a, a.records = R, a.policy = s.policy,
         a.next \in Nat, a.next <= TopOf(OccOf(R))
  PROVE  LET g == Gaps(OccOf(R))
             t == TrimFreeTail(WithFree(a, Greatest(a.next, g.top), g.free))
         IN  /\ StoreOK(t) /\ t.records = R /\ t.policy = s.policy
             /\ NoneEmpty(s) /\ ExactOK(s) => ExactOK(t)
<1> DEFINE occ == OccOf(R)
<1> DEFINE g == Gaps(occ)
<1> DEFINE n == TopOf(occ)
<1> DEFINE u == WithFree(a, Greatest(a.next, g.top), g.free)
<1> DEFINE t == TrimFreeTail(u)
<1>1. occ \subseteq FreeExts /\ IsFiniteSet(occ)
  BY OccIs DEF Restored
<1>2. /\ g.top = n /\ g.free \in Seq(FreeExts) /\ Spaced(g.free) /\ Free(g.free) = Numbers(n) \ Taken(occ)
  BY <1>1, GapsIs
<1>3. n \in Nat /\ Taken(occ) \subseteq Numbers(n)
  BY <1>1, TopIs
<1>4. a.next <= n
  OBVIOUS
<1> HIDE DEF g, n, occ
<1>5. Greatest(a.next, g.top) = n
  BY <1>2, <1>3, <1>4 DEF Greatest
<1>6. u.next = n /\ u.free = g.free /\ u.records = R /\ u.policy = s.policy /\ DOMAIN u = Keys
  BY <1>5, WithFreeIs
<1> HIDE DEF u
<1>7. Ordered(u.free) /\ Spaced(u.free)
  BY <1>2, <1>6, OrderedApart
<1>8. u.policy.trim \in BOOLEAN /\ u.policy.coalesce \in BOOLEAN
  BY <1>6, PolicyIs DEF StoreOK
<1>9. Used(u) = Taken(occ) /\ Free(u.free) \subseteq Numbers(u.next)
  BY <1>2, <1>3, <1>6 DEF Used
<1>10. /\ SameFiles(u, t) /\ t.next \in Nat
       /\ t.free \in Seq(FreeExts) /\ Ordered(t.free) /\ Spaced(t.free) /\ Used(t) = Used(u)
       /\ Free(t.free) \subseteq Numbers(t.next) /\ Tight(t)
  BY <1>2, <1>3, <1>6, <1>7, <1>8, <1>9, TrimIs
<1> HIDE DEF t
<1>11. SpaceOK(t)
  BY <1>10 DEF SpaceOK
<1>12. t.records = R /\ t.policy = s.policy /\ DOMAIN t = Keys
  BY <1>6, <1>10 DEF SameFiles
<1>13. StoreOK(t) /\ (Tight(t) /\ (Used(t) \subseteq AllHeld(R)) => ExactOK(t))
  BY <1>9, <1>10, <1>11, <1>12, RestoredStore DEF occ
<1>14. NoneEmpty(s) => Used(t) \subseteq AllHeld(R)
  BY <1>9, <1>10, RestoredIs DEF occ
<1> QED
  BY <1>10, <1>12, <1>13, <1>14 DEF t, u, g, occ

\* from_records_with_allocator
LEMMA FromRecordsIs ==
  ASSUME NEW s, StoreOK(s), NEW R, Restored(s, R),
         NEW f \in Seq(FreeExts), Ordered(f), NoneEmpty(s) /\ ExactOK(s) => Free(f) = Free(s.free)
  PROVE  LET t == FromRecordsWithAllocator(EmptyStore(s.policy), R, f)
         IN  /\ StoreOK(t) /\ t.records = R /\ t.policy = s.policy
             /\ NoneEmpty(s) /\ ExactOK(s) => ExactOK(t)
<1> DEFINE z == EmptyStore(s.policy)
<1> DEFINE base == Ingest(z, R)
<1> DEFINE a == NormalizeFreeExtents(WithFree(base, base.next, f))
<1> DEFINE g == Gaps(OccOf(R))
<1> DEFINE top == Max({a.next, g.top} \cup {End(e) : e \in ToSet(a.free)})
<1> DEFINE t == FromRecordsWithAllocator(z, R, f)
<1>1. t = IF FreeLayoutOK(a.free, OccOf(R)) THEN WithFree(a, top, a.free)
          ELSE TrimFreeTail(WithFree(a, Greatest(a.next, g.top), g.free))
  BY DEF FromRecordsWithAllocator, OccOf
<1>2. z.policy = s.policy /\ s.policy \in Policies
  BY DEF EmptyStore, StoreOK
<1>3. SingleFiles(R)
  BY DEF Restored
<1>4. OccOf(R) \subseteq FreeExts /\ IsFiniteSet(OccOf(R))
  BY <1>3, OccIs
<1>5. g.top = TopOf(OccOf(R)) /\ TopOf(OccOf(R)) \in Nat
  BY <1>4, GapsIs, TopIs
<1> HIDE DEF z, g, t
<1>6. /\ base.records = R /\ base.policy = s.policy /\ DOMAIN base = Keys
      /\ SpaceOK(base) /\ Tight(base) /\ base.next <= TopOf(OccOf(R))
      /\ Used(base) = Taken(OccOf(R))
  BY <1>2, <1>3, IngestIs
<1> HIDE DEF base
<1> DEFINE u == WithFree(base, base.next, f)
<1>7. a.records = R /\ a.policy = s.policy /\ a.next \in Nat /\ a.next <= TopOf(OccOf(R))
  <2>1. u.next = base.next /\ u.free = f /\ u.records = R /\ u.policy = s.policy /\ DOMAIN u = Keys
    BY <1>6, WithFreeIs
  <2>2. Apart(f) /\ base.next \in Nat
    BY <1>6, OrderedApart DEF SpaceOK
  <2> HIDE DEF u
  <2>3. SameButSpace(u, NormalizeFreeExtents(u)) /\ NormalizeFreeExtents(u).next \in Nat
        /\ NormalizeFreeExtents(u).next <= u.next
    BY <1>2, <2>1, <2>2, NormalizeIs
  <2>4. a = NormalizeFreeExtents(u)
    BY DEF u
  <2> HIDE DEF a
  <2> QED
    BY <1>5, <1>6, <2>1, <2>2, <2>3, <2>4 DEF SameButSpace
<1>8. CASE FreeLayoutOK(a.free, OccOf(R))
  <2>1. t = WithFree(a, top, a.free)
    BY <1>1, <1>8
  <2>2. a = NormalizeFreeExtents(WithFree(base, base.next, f))
    OBVIOUS
  <2>3. top = Max({a.next, TopOf(OccOf(R))} \cup {End(e) : e \in ToSet(a.free)})
    BY <1>5
  <2> HIDE DEF a, top
  <2> QED
    BY <1>6, <1>8, <2>1, <2>2, <2>3, AdoptedIs DEF t, z
<1>9. CASE ~FreeLayoutOK(a.free, OccOf(R))
  <2>1. t = TrimFreeTail(WithFree(a, Greatest(a.next, g.top), g.free))
    BY <1>1, <1>9
  <2> HIDE DEF a, top
  <2> QED
    BY <1>7, <2>1, RebuiltIs DEF t, z, g
<1> QED
  BY <1>8, <1>9

\* The files of a loaded image are written back one after the other.
LEMMA LoadChain ==
  ASSUME NEW s, NEW order, Len(order) \in Nat
  PROVE  \E w : /\ w[0] = FromRecordsWithAllocator(EmptyStore(s.policy), SavedRecords(s), SavedFree(s))
                /\ \A k \in 1..Len(order) : w[k] = Write(w[k - 1], order[k], Read(s, order[k]))
                /\ LoadImage(s, order) = w[Len(order)]
<1> DEFINE Step(x, k) == Write(x, order[k], Read(s, order[k]))
<1> DEFINE Start == FromRecordsWithAllocator(EmptyStore(s.policy), SavedRecords(s), SavedFree(s))
<1> DEFINE L == Len(order)
<1> DEFINE IsChain(w, m) == w = [k \in 0..m |-> IF k = 0 THEN Start ELSE Step(w[k - 1], k)]
<1>1. LoadImage(s, order) = (CHOOSE w : IsChain(w, L))[L]
  BY DEF LoadImage
<1> HIDE DEF Step, L, Start
<1>2. \E w : IsChain(w, 0)
  <2> DEFINE w == [k \in 0..0 |-> Start]
  <2>1. IsChain(w, 0)
    OBVIOUS
  <2> QED
    BY <2>1
<1>3. ASSUME NEW m \in Nat, NEW u, IsChain(u, m) PROVE \E w : IsChain(w, m + 1)
  <2> DEFINE w == [k \in 0..m + 1 |-> IF k = m + 1 THEN Step(u[m], m + 1) ELSE u[k]]
  <2>1. \A k \in 0..m : u[k] = IF k = 0 THEN Start ELSE Step(u[k - 1], k)
    BY <1>3
  <2>2. /\ \A k \in 0..m : w[k] = u[k]
        /\ w[m + 1] = Step(u[m], m + 1)
        /\ \A k \in 1..m + 1 : w[k - 1] = u[k - 1]
    OBVIOUS
  <2>3. ASSUME NEW k \in 0..m + 1 PROVE w[k] = IF k = 0 THEN Start ELSE Step(w[k - 1], k)
    <3> HIDE DEF w
    <3>1. CASE k = m + 1
      BY <2>2, <3>1
    <3>2. CASE k \in 0..m
      BY <2>1, <2>2, <3>2
    <3> QED
      BY <3>1, <3>2
  <2>4. IsChain(w, m + 1)
    BY <2>3
  <2> QED
    BY <2>4
<1>4. \E w : IsChain(w, L)
  <2> DEFINE T == {m \in Nat : \E w : IsChain(w, m)}
  <2> HIDE DEF IsChain
  <2>1. 0 \in T
    BY <1>2
  <2>2. ASSUME NEW m \in 1..L, m - 1 \in T PROVE m \in T
    <3>1. m - 1 \in Nat /\ (m - 1) + 1 = m /\ m \in Nat
      BY DEF L
    <3>2. \E w : IsChain(w, (m - 1) + 1)
      BY <1>3, <2>2, <3>1
    <3> QED
      BY <3>1, <3>2
  <2> HIDE DEF T
  <2>3. \A m \in 0..L : m \in T
    BY <2>1, <2>2, UpTo DEF L
  <2> QED
    BY <2>3 DEF T, L
<1> DEFINE F == CHOOSE w : IsChain(w, L)
<1>5. IsChain(F, L)
  BY <1>4
<1> HIDE DEF F
<1>6. F[0] = Start /\ \A k \in 1..L : F[k] = Step(F[k - 1], k)
  BY <1>5 DEF L
<1>7. LoadImage(s, order) = F[L]
  BY <1>1 DEF F
<1> QED
  BY <1>6, <1>7 DEF L, Step, Start

\* Loading so far: the files of s, each with one extent at most.
Loaded(s, t) ==
    /\ StoreOK(t)
    /\ SameSizes(s, t)
    /\ AllWhole(t)
    /\ NoneEmpty(s) /\ ExactOK(s) => ExactOK(t)

\* The restored records are where loading starts.
LEMMA LoadStart ==
  ASSUME NEW s, StoreOK(s), AllWhole(s)
  PROVE  Loaded(s, FromRecordsWithAllocator(EmptyStore(s.policy), SavedRecords(s), SavedFree(s)))
<1> DEFINE R == SavedRecords(s)
<1> DEFINE f == SavedFree(s)
<1> DEFINE t == FromRecordsWithAllocator(EmptyStore(s.policy), R, f)
<1>1. Restored(s, R)
  BY SavedAll
<1>2. f \in Seq(FreeExts) /\ Ordered(f) /\ (ExactOK(s) => Free(f) = Free(s.free))
  BY SavedFreeIs
<1> HIDE DEF R, f
<1>3. /\ StoreOK(t) /\ t.records = R
      /\ NoneEmpty(s) /\ ExactOK(s) => ExactOK(t)
  BY <1>1, <1>2, FromRecordsIs
<1> HIDE DEF t
<1>4. SameSizes(s, t)
  BY <1>1, <1>3 DEF Restored, SameSizes
<1>5. AllWhole(t)
  BY <1>1, <1>3 DEF Restored, SingleFiles, AllWhole, Whole
<1> QED
  BY <1>3, <1>4, <1>5 DEF Loaded, t, R, f

\* The bytes of one file are written back.
LEMMA LoadOne ==
  ASSUME NEW s, StoreOK(s), NEW u, Loaded(s, u), NEW i \in DOMAIN s.records, Read(s, i) # <<>>
  PROVE  Loaded(s, Write(u, i, Read(s, i)))
<1> DEFINE c == Read(s, i)
<1> DEFINE t == Write(u, i, c)
<1>1. IsContent(c) /\ Len(c) = s.records[i].size
  BY ReadIs DEF StoreOK, FilesOK
<1>2. i \in Inodes /\ StoreOK(u) /\ Whole(u, i) /\ DOMAIN u.records = DOMAIN s.records
  BY DEF StoreOK, Loaded, AllWhole, SameSizes
<1>3. c # <<>>
  OBVIOUS
<1> HIDE DEF c
<1>4. /\ Stores(u, t, i) /\ Len(t.records[i].extents) <= 1 /\ t.records[i].size = Len(c)
      /\ ExactOK(u) /\ c # <<>> => ExactOK(t)
  BY <1>1, <1>2, WriteIs
<1> HIDE DEF t
<1>5. StoreOK(t) /\ DOMAIN t.records = DOMAIN s.records
      /\ \A j \in DOMAIN s.records : j # i => t.records[j] = u.records[j]
  BY <1>2, <1>4 DEF Stores, Puts
<1>6. SameSizes(s, t)
  BY <1>1, <1>4, <1>5 DEF Loaded, SameSizes
<1>7. AllWhole(t)
  BY <1>2, <1>4, <1>5 DEF Loaded, AllWhole, Whole
<1>8. NoneEmpty(s) /\ ExactOK(s) => ExactOK(t)
  BY <1>3, <1>4 DEF Loaded
<1> QED
  BY <1>5, <1>6, <1>7, <1>8 DEF Loaded, t, c

\* load_image_from_path
LEMMA LoadImageIs ==
  ASSUME NEW s, StoreOK(s), AllWhole(s), NEW order, Len(order) \in Nat,
         \A k \in 1..Len(order) : order[k] \in DOMAIN s.records /\ Read(s, order[k]) # <<>>
  PROVE  Loaded(s, LoadImage(s, order))
<1>1. PICK w : /\ w[0] = FromRecordsWithAllocator(EmptyStore(s.policy), SavedRecords(s), SavedFree(s))
               /\ \A k \in 1..Len(order) : w[k] = Write(w[k - 1], order[k], Read(s, order[k]))
               /\ LoadImage(s, order) = w[Len(order)]
  BY LoadChain
<1> DEFINE T == {m \in 0..Len(order) : Loaded(s, w[m])}
<1>2. 0 \in T
  BY <1>1, LoadStart
<1>3. ASSUME NEW m \in 1..Len(order), m - 1 \in T PROVE m \in T
  <2>1. Loaded(s, w[m - 1])
    BY <1>3
  <2>2. order[m] \in DOMAIN s.records /\ Read(s, order[m]) # <<>>
    BY <1>3
  <2>3. Loaded(s, Write(w[m - 1], order[m], Read(s, order[m])))
    BY <2>1, <2>2, LoadOne
  <2>4. Loaded(s, w[m])
    BY <1>1, <1>3, <2>3
  <2> QED
    BY <1>3, <2>4
<1> HIDE DEF T
<1>4. \A m \in 0..Len(order) : m \in T
  BY <1>2, <1>3, UpTo
<1> QED
  BY <1>1, <1>4 DEF T

-----------------------------------------------------------------------------
(* The behaviours *)

\* The inductive invariant: the store is sound, the promises fit its files, the
\* loader has rejected nothing, and no block is lost unless one was spilt.
Sane(s, d, l, x) ==
    /\ StoreOK(s)
    /\ DOMAIN d = DOMAIN s.records
    /\ \A i \in DOMAIN d : d[i] \in Seq(Cells) /\ (d[i] = <<>> <=> s.records[i].size = 0)
    /\ l
    /\ "empty" \in Avoid /\ ~x => ExactOK(s)

IInv == Sane(store, told, loads, spilt)

\* A method keeps its promise for one inode.
LEMMA StoredSane ==
  ASSUME NEW s, NEW d, NEW l, NEW x, Sane(s, d, l, x), NEW i \in Inodes, NEW c \in Seq(Cells),
         NEW t, Settles(s, t, i, Len(c))
  PROVE  Sane(t, Bind(d, i, c), l, x \/ c = <<>>)
<1> DEFINE e == Bind(d, i, c)
<1>1. DOMAIN e = DOMAIN d \cup {i} /\ e[i] = c /\ \A j \in DOMAIN d : j # i => e[j] = d[j]
  BY DEF Bind
<1> HIDE DEF e
<1>2. c = <<>> <=> Len(c) = 0
  OBVIOUS
<1>3. /\ StoreOK(t) /\ DOMAIN t.records = DOMAIN s.records \cup {i}
      /\ \A j \in DOMAIN s.records : j # i => t.records[j] = s.records[j]
      /\ t.records[i].size = 0 <=> Len(c) = 0
      /\ ExactOK(s) /\ Len(c) # 0 => ExactOK(t)
  BY DEF Settles, Stores, Puts
<1>4. /\ DOMAIN d = DOMAIN s.records /\ l /\ ("empty" \in Avoid /\ ~x => ExactOK(s))
      /\ \A j \in DOMAIN d : d[j] \in Seq(Cells) /\ (d[j] = <<>> <=> s.records[j].size = 0)
  BY DEF Sane
<1>5. DOMAIN e = DOMAIN t.records
  BY <1>1, <1>3, <1>4
<1>6. ASSUME NEW j \in DOMAIN e PROVE e[j] \in Seq(Cells) /\ (e[j] = <<>> <=> t.records[j].size = 0)
  <2>1. CASE j = i
    BY <1>1, <1>2, <1>3, <2>1
  <2>2. CASE j # i
    BY <1>1, <1>3, <1>4, <2>2
  <2> QED
    BY <2>1, <2>2
<1>7. "empty" \in Avoid /\ ~(x \/ c = <<>>) => ExactOK(t)
  BY <1>2, <1>3, <1>4, Zenon
<1> QED
  BY <1>3, <1>4, <1>5, <1>6, <1>7, Zenon DEF Sane, e

\* A method moves files, and none of them changes.
LEMMA KeptSane ==
  ASSUME NEW s, NEW d, NEW l, NEW x, Sane(s, d, l, x), NEW t, StoreOK(t), SameSizes(s, t), NEW y,
         "empty" \in Avoid /\ ~y /\ (x \/ ExactOK(s)) => ExactOK(t)
  PROVE  Sane(t, d, l, y)
<1>1. \A i \in DOMAIN d : d[i] \in Seq(Cells) /\ (d[i] = <<>> <=> t.records[i].size = 0)
  BY DEF Sane, SameSizes
<1>2. DOMAIN d = DOMAIN t.records
  BY DEF Sane, SameSizes
<1>3. l /\ ("empty" \in Avoid /\ ~x => ExactOK(s))
  BY DEF Sane
<1>4. "empty" \in Avoid /\ ~y => ExactOK(t)
  BY <1>3, Zenon
<1> QED
  BY <1>1, <1>2, <1>3, <1>4, Zenon DEF Sane

\* A file goes.
LEMMA DroppedSane ==
  ASSUME NEW s, NEW d, NEW l, NEW x, Sane(s, d, l, x), NEW i, NEW t, StoreOK(t),
         DOMAIN t.records = DOMAIN s.records \ {i},
         \A j \in DOMAIN t.records : t.records[j] = s.records[j],
         NEW y, "empty" \in Avoid /\ ~y /\ (x \/ ExactOK(s)) => ExactOK(t)
  PROVE  Sane(t, [j \in DOMAIN d \ {i} |-> d[j]], l, y)
<1> DEFINE e == [j \in DOMAIN d \ {i} |-> d[j]]
<1>1. DOMAIN e = DOMAIN d \ {i} /\ \A j \in DOMAIN e : e[j] = d[j]
  OBVIOUS
<1> HIDE DEF e
<1>2. DOMAIN d = DOMAIN s.records /\ l /\ ("empty" \in Avoid /\ ~x => ExactOK(s))
  BY DEF Sane
<1>3. \A j \in DOMAIN e : e[j] \in Seq(Cells) /\ (e[j] = <<>> <=> t.records[j].size = 0)
  BY <1>1, <1>2 DEF Sane
<1>4. DOMAIN e = DOMAIN t.records
  BY <1>1, <1>2
<1>5. "empty" \in Avoid /\ ~y => ExactOK(t)
  BY <1>2, Zenon
<1> QED
  BY <1>2, <1>3, <1>4, <1>5, Zenon DEF Sane, e

\* What the callers store is content, and so is what a file is promised to hold.
LEMMA CellsIs ==
  /\ \A c \in Data : c \in Seq(Cells) /\ c # <<>> /\ IsContent(c)
  /\ \A c \in Seq(Cells) : IsContent(c) /\ Len(c) \in Nat
  /\ \A c, e \in Seq(Cells) : c \o e \in Seq(Cells) /\ (e # <<>> => c \o e # <<>>)
<1>1. \A c \in Seq(Values) : c \in Seq(Cells)
  BY DEF Cells
<1>2. \A c \in Seq(Cells) : IsContent(c) /\ Len(c) \in Nat
  BY DEF IsContent
<1>3. \A c \in Data : c \in Seq(Values) /\ c # <<>>
  BY BlockStoreAssumption DEF BlockStoreAssumption
<1>4. \A c, e \in Seq(Cells) : c \o e \in Seq(Cells) /\ (e # <<>> => c \o e # <<>>)
  OBVIOUS
<1> QED
  BY <1>1, <1>2, <1>3, <1>4, Zenon

\* Content overlaid, cut or extended is content.
LEMMA EditedCells ==
  ASSUME NEW c \in Seq(Cells), NEW n \in Nat
  PROVE  /\ Resized(c, n) \in Seq(Cells) /\ Len(Resized(c, n)) = n
         /\ \A e \in Seq(Cells) : e # <<>> => Overlay(c, n, e) \in Seq(Cells) /\ Overlay(c, n, e) # <<>>
<1>1. Resized(c, n) \in Seq(Cells) /\ Len(Resized(c, n)) = n
  <2>1. \A k \in 1..n : Resized(c, n)[k] \in Cells
    BY DEF Resized, Cells
  <2>2. DOMAIN Resized(c, n) = 1..n /\ Resized(c, n) = [k \in 1..n |-> Resized(c, n)[k]]
    BY DEF Resized
  <2> QED
    BY <2>1, <2>2
<1>2. ASSUME NEW e \in Seq(Cells), e # <<>> PROVE Overlay(c, n, e) \in Seq(Cells) /\ Overlay(c, n, e) # <<>>
  <2> DEFINE m == Greatest(Len(c), n + Len(e))
  <2>1. m \in Nat /\ m # 0
    BY <1>2 DEF Greatest
  <2>2. \A k \in 1..m : Overlay(c, n, e)[k] \in Cells
    BY DEF Overlay, Cells
  <2>3. DOMAIN Overlay(c, n, e) = 1..m /\ Overlay(c, n, e) = [k \in 1..m |-> Overlay(c, n, e)[k]]
    BY DEF Overlay
  <2> DEFINE v == Overlay(c, n, e)
  <2> HIDE DEF m, v
  <2>4. v \in Seq(Cells) /\ Len(v) = m
    BY <2>1, <2>2, <2>3 DEF v
  <2>5. v # <<>>
    BY <2>1, <2>4
  <2> QED
    BY <2>4, <2>5 DEF v
<1> QED
  BY <1>1, <1>2

\* The store after a refused append of c to file i that left n cells in its slack.
Refused(s, i, n, c) ==
    LET x == s.records[i].extents
        e == x[Len(x)]
    IN  WithFiles(s, s.records, DedupRelease(s.dedup, s.records[i].crc),
                  FillSlack(s, i, Len(x), n, e.start * BlockSize + e.len, c).dev)

\* The last extent of file i has n cells of slack.
HasSlack(s, i, n) ==
    LET x == s.records[i].extents
    IN  Len(x) # 0 /\ x[Len(x)].len + n <= x[Len(x)].blocks * BlockSize

\* What a refused append does: it writes into the slack, or fills it and takes blocks.
LEMMA RefusedAppend ==
  ASSUME StoreOK(store), NEW i, NEW c, Len(c) \in Nat, DoAppendDeviceFails(i, c)
  PROVE  /\ i \in DOMAIN store.records /\ told' = told /\ loads' = loads
         /\ \E n \in Nat : /\ n <= Len(c) /\ HasSlack(store, i, n)
                          /\ \/ store' = Refused(store, i, n, c) /\ spilt' = spilt
                             \/ \E m \in Nat \ {0} : /\ store' = AllocateExtent(Refused(store, i, n, c), m).store
                                                     /\ spilt' = TRUE
<1> DEFINE x == store.records[i].extents
           k == Len(x)
           e == x[k]
           room == e.blocks * BlockSize
           slack == Least(Len(c), room - e.len)
           u(n) == Refused(store, i, n, c)
<1>1. /\ HasContent(store, i) /\ told' = told /\ loads' = loads
      /\ \/ spilt' = spilt /\ \E n \in 0..slack : store' = u(n)
         \/ /\ slack < Len(c) /\ spilt' = TRUE
            /\ store' = AllocateExtent(u(slack), RequiredBlocks(Len(c) - slack)).store
  BY DEF DoAppendDeviceFails, Refused
<1>2. i \in DOMAIN store.records /\ k > 0
  BY <1>1, NoContent
<1>3. RecordOK(store.records[i])
  BY <1>2 DEF StoreOK, FilesOK
<1>4. e \in FileExts /\ e.len <= room
  <2>1. x \in Seq(FileExts) /\ \A j \in 1..Len(x) : x[j].len <= x[j].blocks * BlockSize
    BY <1>3 DEF RecordOK
  <2> HIDE DEF x
  <2>2. k \in 1..k /\ k \in 1..Len(x)
    BY <1>2, <2>1
  <2> QED
    BY <2>1, <2>2
<1>5. e.len \in Nat /\ room \in Nat
  <2>1. e.len \in Nat /\ e.blocks \in Nat /\ BlockSize \in Nat
    BY <1>4, FileExtent, BlockStoreAssumption DEF BlockStoreAssumption
  <2> HIDE DEF e
  <2> QED
    BY <2>1
<1> HIDE DEF room, e
<1>6. slack \in Nat /\ slack <= Len(c) /\ e.len + slack <= room
  BY <1>4, <1>5 DEF Least
<1> HIDE DEF slack, u
<1>7. ASSUME NEW n \in 0..slack PROVE n \in Nat /\ n <= Len(c) /\ HasSlack(store, i, n)
  <2>1. n \in Nat /\ n <= Len(c) /\ e.len + n <= room
    BY <1>5, <1>6
  <2>2. e = x[Len(x)] /\ room = x[Len(x)].blocks * BlockSize
    BY DEF e, room
  <2>3. Len(x) # 0
    BY <1>2
  <2> HIDE DEF x
  <2> QED
    BY <2>1, <2>2, <2>3 DEF HasSlack, x
<1>8. CASE spilt' = spilt /\ \E n \in 0..slack : store' = u(n)
  BY <1>1, <1>2, <1>7, <1>8 DEF u
<1>9. CASE slack < Len(c) /\ spilt' = TRUE /\ store' = AllocateExtent(u(slack), RequiredBlocks(Len(c) - slack)).store
  <2> DEFINE m == RequiredBlocks(Len(c) - slack)
  <2>1. Len(c) - slack \in Nat
    BY <1>6, <1>9
  <2>2. m \in Nat \ {0}
    BY <2>1, RequiredIs
  <2>3. slack \in 0..slack
    BY <1>6
  <2> HIDE DEF m
  <2>4. store' = AllocateExtent(Refused(store, i, slack, c), m).store /\ spilt' = TRUE
    BY <1>9 DEF u, m
  <2>5. slack \in Nat /\ slack <= Len(c) /\ HasSlack(store, i, slack)
    BY <1>7, <2>3
  <2> QED
    BY <1>1, <1>2, <2>2, <2>4, <2>5
<1> QED
  BY <1>1, <1>8, <1>9 DEF u

\* It leaves the files where they are.
LEMMA RefusedIs ==
  ASSUME NEW s, StoreOK(s), NEW i, NEW n, NEW c
  PROVE  LET t == Refused(s, i, n, c)
         IN  /\ StoreOK(t) /\ t.records = s.records /\ (ExactOK(s) => ExactOK(t))
             /\ t.dedup = DedupRelease(s.dedup, s.records[i].crc)
<1> DEFINE t == Refused(s, i, n, c)
<1>1. /\ t.next = s.next /\ t.free = s.free /\ t.records = s.records /\ t.policy = s.policy
      /\ DOMAIN t = Keys /\ t.dedup = DedupRelease(s.dedup, s.records[i].crc)
  <2> DEFINE x == s.records[i].extents
             e == x[Len(x)]
             d == DedupRelease(s.dedup, s.records[i].crc)
             v == FillSlack(s, i, Len(x), n, e.start * BlockSize + e.len, c).dev
  <2>1. t = WithFiles(s, s.records, d, v)
    BY DEF Refused
  <2> HIDE DEF t, v
  <2> QED
    BY <2>1, WithFilesIs
<1> HIDE DEF t
<1>2. \A j \in DOMAIN s.records : RecordOK(t.records[j]) /\ Held(t.records[j]) = Held(s.records[j])
  BY <1>1 DEF StoreOK, FilesOK
<1>3. StoreOK(t) /\ (ExactOK(s) => ExactOK(t))
  BY <1>1, <1>2, SameBlocks
<1> QED
  BY <1>1, <1>3 DEF t

\* Every action preserves the invariant, when the callers do not give up or move the
\* blocks of a file with several extents.
LEMMA StepSane ==
  ASSUME "appended" \in Avoid, IInv, [Next]_vars
  PROVE  IInv'
<1>1. /\ Sane(store, told, loads, spilt) /\ StoreOK(store) /\ DOMAIN told = DOMAIN store.records
      /\ \A i \in DOMAIN told : told[i] \in Seq(Cells) /\ (told[i] = <<>> <=> store.records[i].size = 0)
  BY DEF IInv, Sane
<1>2. \A i : /\ Told(i) \in Seq(Cells) /\ Len(Told(i)) \in Nat
             /\ i \in Known => (Told(i) = <<>> <=> store.records[i].size = 0)
  <2>1. <<>> \in Seq(Cells)
    OBVIOUS
  <2> QED
    BY <1>1, <2>1, CellsIs DEF Told, Known
<1>3. \A i : Size(i) = SizeOf(store, i) /\ (Spares(i) => Whole(store, i))
  BY DEF Size, SizeOf, Known, Spares, Whole
<1>4. ASSUME SparesAll PROVE AllWhole(store) /\ ("empty" \in Avoid => NoneEmpty(store))
  <2>1. AllWhole(store)
    BY <1>3, <1>4 DEF SparesAll, AllWhole, Known
  <2>2. ASSUME "empty" \in Avoid, NEW i \in DOMAIN store.records PROVE store.records[i].size # 0
    <3>1. store.records[i].extents # <<>>
      BY <1>4, <2>2 DEF SparesAll, Known
    <3>2. RecordOK(store.records[i])
      BY <1>1 DEF StoreOK, FilesOK
    <3> QED
      BY <3>1, <3>2 DEF RecordOK
  <2> QED
    BY <2>1, <2>2 DEF NoneEmpty
<1>5. \A c \in Data : c \in Seq(Cells) /\ c # <<>> /\ IsContent(c) /\ Len(c) \in Nat /\ Len(c) # 0
  BY CellsIs DEF IsContent
<1>6. ASSUME NEW i \in Inodes, NEW c \in Seq(Cells), Settles(store, store', i, Len(c)),
             told' = Bind(told, i, c), loads' = loads, spilt' = (spilt \/ c = <<>>)
      PROVE  IInv'
  <2>1. Sane(store', Bind(told, i, c), loads, spilt \/ c = <<>>)
    BY <1>1, <1>6, StoredSane
  <2> QED
    BY <1>6, <2>1 DEF IInv
<1>7. ASSUME NEW i \in Inodes, NEW c \in Seq(Cells), c # <<>>, Sound(store, store', i),
             told' = Bind(told, i, c), loads' = loads, spilt' = (spilt \/ c = <<>>)
      PROVE  IInv'
  <2>1. Len(c) # 0
    BY <1>7
  <2>2. Settles(store, store', i, Len(c))
    BY <1>7, <2>1 DEF Settles, Sound
  <2> QED
    BY <1>6, <1>7, <2>2
<1>8. ASSUME StoreOK(store'), SameSizes(store, store'), told' = told, loads' = loads, spilt' = spilt,
             "empty" \in Avoid /\ ExactOK(store) => ExactOK(store')
      PROVE  IInv'
  <2>1. "empty" \in Avoid /\ ~spilt /\ (spilt \/ ExactOK(store)) => ExactOK(store')
    BY <1>8, Zenon
  <2>2. Sane(store', told, loads, spilt)
    BY <1>1, <1>8, <2>1, KeptSane
  <2> QED
    BY <1>8, <2>2 DEF IInv
<1>9. ASSUME NEW i \in Inodes, NEW c \in Data, DoAppendDeviceFails(i, c) PROVE IInv'
  <2>1. told' = told /\ loads' = loads
    BY <1>1, <1>5, <1>9, RefusedAppend
  <2>2. PICK n \in Nat :
           \/ store' = Refused(store, i, n, c) /\ spilt' = spilt
           \/ \E m \in Nat \ {0} : store' = AllocateExtent(Refused(store, i, n, c), m).store /\ spilt' = TRUE
    BY <1>1, <1>5, <1>9, RefusedAppend
  <2> DEFINE t == Refused(store, i, n, c)
  <2>3. StoreOK(t) /\ t.records = store.records /\ (ExactOK(store) => ExactOK(t))
    BY <1>1, RefusedIs
  <2> HIDE DEF t
  <2>4. CASE store' = t /\ spilt' = spilt
    <3>1. SameSizes(store, store')
      BY <2>3, <2>4 DEF SameSizes
    <3> QED
      BY <1>8, <2>1, <2>3, <2>4, <3>1
  <2>5. ASSUME NEW m \in Nat \ {0}, store' = AllocateExtent(t, m).store, spilt' = TRUE PROVE IInv'
    <3>1. StoreOK(store') /\ store'.records = store.records
      BY <2>3, <2>5, TakenIs
    <3>2. SameSizes(store, store')
      BY <3>1 DEF SameSizes
    <3>3. "empty" \in Avoid /\ ~TRUE /\ (spilt \/ ExactOK(store)) => ExactOK(store')
      OBVIOUS
    <3>4. Sane(store', told, loads, TRUE)
      BY <1>1, <3>1, <3>2, <3>3, KeptSane
    <3> QED
      BY <2>1, <2>5, <3>4 DEF IInv
  <2> QED
    BY <2>2, <2>4, <2>5 DEF t
<1>10. ASSUME NEW i \in Inodes, NEW c \in Data, DoWrite(i, c) PROVE IInv'
  <2>1. /\ store' = Write(store, i, c) /\ Whole(store, i)
        /\ told' = Bind(told, i, c) /\ loads' = loads /\ spilt' = (spilt \/ c = <<>>)
    BY <1>3, <1>10 DEF DoWrite, Holds
  <2>2. Sound(store, store', i)
    BY <1>1, <1>5, <2>1, WriteIs DEF Sound
  <2> QED
    BY <1>5, <1>7, <2>1, <2>2
<1>11. ASSUME NEW i \in Inodes, DoWriteEmpty(i) PROVE IInv'
  <2>1. /\ store' = Write(store, i, <<>>) /\ Whole(store, i)
        /\ told' = Bind(told, i, <<>>) /\ loads' = loads /\ spilt' = (spilt \/ <<>> = <<>>)
    BY <1>3, <1>11 DEF DoWriteEmpty, Holds
  <2>2. <<>> \in Seq(Cells) /\ IsContent(<<>>) /\ Len(<<>>) = 0
    BY DEF IsContent
  <2>3. Stores(store, store', i) /\ store'.records[i].size = 0
    BY <1>1, <2>1, <2>2, WriteIs
  <2>4. Settles(store, store', i, Len(<<>>))
    BY <2>2, <2>3 DEF Settles
  <2> QED
    BY <1>6, <2>1, <2>2, <2>4
<1>12. ASSUME NEW i \in Inodes, NEW c \in Data, DoAppend(i, c) PROVE IInv'
  <2> DEFINE e == Told(i) \o c
  <2>1. /\ store' = AppendToInode(store, i, c)
        /\ told' = Bind(told, i, e) /\ loads' = loads /\ spilt' = (spilt \/ e = <<>>)
    BY <1>12 DEF DoAppend, Holds
  <2>2. Sound(store, store', i)
    BY <1>1, <1>5, <2>1, AppendIs
  <2>3. e \in Seq(Cells) /\ e # <<>>
    BY <1>2, <1>5, CellsIs
  <2> HIDE DEF e
  <2> QED
    BY <1>7, <2>1, <2>2, <2>3
<1>13. ASSUME NEW i \in Inodes, NEW c \in Data, DoWriteDevice(i, c) PROVE IInv'
  <2>1. /\ store' = WriteDevice(store, i, c) /\ Whole(store, i)
        /\ told' = Bind(told, i, c) /\ loads' = loads /\ spilt' = (spilt \/ c = <<>>)
    BY <1>3, <1>13 DEF DoWriteDevice, Holds
  <2>2. Sound(store, store', i)
    BY <1>1, <1>5, <2>1, WriteDeviceIs DEF Sound
  <2> QED
    BY <1>5, <1>7, <2>1, <2>2
<1>14. ASSUME NEW i \in Inodes, NEW c \in Data, DoWriteDeviceFails(i, c) PROVE IInv'
  <2> DEFINE freed == IF i \in Known THEN RemoveInode(store, i) ELSE store
  <2>1. /\ store' = AllocateExtent(freed, RequiredBlocks(Len(c))).store /\ Whole(store, i)
        /\ told' = [j \in DOMAIN told \ {i} |-> told[j]] /\ loads' = loads /\ spilt' = TRUE
    BY <1>3, <1>14 DEF DoWriteDeviceFails
  <2>2. /\ StoreOK(freed) /\ DOMAIN freed.records = DOMAIN store.records \ {i}
        /\ \A j \in DOMAIN freed.records : freed.records[j] = store.records[j]
    <3>1. CASE i \in Known
      <4>1. freed = RemoveInode(store, i) /\ i \in DOMAIN store.records
        BY <3>1 DEF Known
      <4> QED
        BY <1>1, <2>1, <4>1, RemoveInodeIs
    <3>2. CASE i \notin Known
      <4>1. freed = store /\ i \notin DOMAIN store.records
        BY <3>2 DEF Known
      <4> QED
        BY <1>1, <4>1
    <3> QED
      BY <3>1, <3>2
  <2> HIDE DEF freed
  <2>3. RequiredBlocks(Len(c)) \in Nat /\ RequiredBlocks(Len(c)) # 0
    BY <1>5, RequiredIs
  <2>4. StoreOK(store') /\ store'.records = freed.records
    BY <2>1, <2>2, <2>3, TakenIs
  <2>5. /\ DOMAIN store'.records = DOMAIN store.records \ {i}
        /\ \A j \in DOMAIN store'.records : store'.records[j] = store.records[j]
    BY <2>2, <2>4
  <2>6. "empty" \in Avoid /\ ~TRUE /\ (spilt \/ ExactOK(store)) => ExactOK(store')
    OBVIOUS
  <2>7. Sane(store', [j \in DOMAIN told \ {i} |-> told[j]], loads, TRUE)
    BY <1>1, <2>4, <2>5, <2>6, DroppedSane
  <2> QED
    BY <2>1, <2>7 DEF IInv
<1>15. ASSUME NEW i \in Inodes, NEW c \in Data, NEW off \in 0..MaxSize, DoWriteRange(i, off, c) PROVE IInv'
  <2> DEFINE e == Overlay(Told(i), off, c)
  <2>1. /\ store' = WriteRange(store, i, off, c)
        /\ told' = Bind(told, i, e) /\ loads' = loads /\ spilt' = (spilt \/ e = <<>>)
    BY <1>15 DEF DoWriteRange, Holds
  <2>2. off \in Nat
    OBVIOUS
  <2>3. \/ off = SizeOf(store, i)
        \/ off + Len(c) <= SizeOf(store, i) /\ ~(off = 0 /\ Len(c) >= SizeOf(store, i))
        \/ Whole(store, i)
    BY <1>3, <1>15 DEF DoWriteRange, WithinFile
  <2>4. Sound(store, store', i)
    BY <1>1, <1>5, <2>1, <2>2, <2>3, WriteRangeIs
  <2>5. e \in Seq(Cells) /\ e # <<>>
    BY <1>2, <1>5, <2>2, EditedCells
  <2> HIDE DEF e
  <2> QED
    BY <1>7, <2>1, <2>4, <2>5
<1>16. ASSUME NEW i \in Inodes, NEW c \in Data, NEW off \in 0..MaxSize, DoWriteAt(i, off, c) PROVE IInv'
  <2> DEFINE e == Overlay(Told(i), off, c)
  <2>1. /\ store' = WriteAt(store, i, off, c) /\ (off = SizeOf(store, i) \/ Whole(store, i))
        /\ told' = Bind(told, i, e) /\ loads' = loads /\ spilt' = (spilt \/ e = <<>>)
    BY <1>3, <1>16 DEF DoWriteAt, Holds
  <2>2. off \in Nat
    OBVIOUS
  <2>3. Sound(store, store', i)
    BY <1>1, <1>5, <2>1, <2>2, WriteAtIs
  <2>4. e \in Seq(Cells) /\ e # <<>>
    BY <1>2, <1>5, <2>2, EditedCells
  <2> HIDE DEF e
  <2> QED
    BY <1>7, <2>1, <2>3, <2>4
<1>17. ASSUME NEW i \in Inodes, DoRemove(i) PROVE IInv'
  <2>1. /\ store' = RemoveInode(store, i) /\ Whole(store, i) /\ i \in DOMAIN store.records
        /\ told' = [j \in DOMAIN told \ {i} |-> told[j]] /\ loads' = loads /\ spilt' = spilt
    BY <1>3, <1>17 DEF DoRemove, Known
  <2>2. /\ StoreOK(store') /\ DOMAIN store'.records = DOMAIN store.records \ {i}
        /\ \A j \in DOMAIN store'.records : store'.records[j] = store.records[j]
        /\ ExactOK(store) => ExactOK(store')
    BY <1>1, <2>1, RemoveInodeIs
  <2>3. "empty" \in Avoid /\ ~spilt /\ (spilt \/ ExactOK(store)) => ExactOK(store')
    BY <2>2, Zenon
  <2>4. Sane(store', [j \in DOMAIN told \ {i} |-> told[j]], loads, spilt)
    BY <1>1, <2>2, <2>3, DroppedSane
  <2> QED
    BY <2>1, <2>4 DEF IInv
<1>18. ASSUME NEW i \in Inodes, NEW n \in 0..MaxSize, DoResize(i, n) PROVE IInv'
  <2> DEFINE e == Resized(Told(i), n)
  <2>1. /\ store' = ResizeInode(store, i, n) /\ i \in DOMAIN store.records
        /\ n < SizeOf(store, i) => Whole(store, i)
        /\ told' = Bind(told, i, e) /\ loads' = loads /\ spilt' = (spilt \/ e = <<>>)
    BY <1>3, <1>18 DEF DoResize, Holds, Known
  <2>2. n \in Nat
    OBVIOUS
  <2>3. e \in Seq(Cells) /\ Len(e) = n
    BY <1>2, <2>2, EditedCells
  <2> HIDE DEF e
  <2>4. Settles(store, store', i, Len(e))
    BY <1>1, <2>1, <2>2, <2>3, ResizeIs
  <2> QED
    BY <1>6, <2>1, <2>3, <2>4
<1>19. ASSUME NEW i \in Inodes, NEW n \in 0..MaxSize, DoTruncate(i, n) PROVE IInv'
  <2> DEFINE e == Resized(Told(i), n)
  <2>1. /\ store' = Truncate(store, i, n) /\ Whole(store, i)
        /\ told' = Bind(told, i, e) /\ loads' = loads /\ spilt' = (spilt \/ e = <<>>)
    BY <1>3, <1>19 DEF DoTruncate, Holds
  <2>2. n \in Nat
    OBVIOUS
  <2>3. e \in Seq(Cells) /\ Len(e) = n
    BY <1>2, <2>2, EditedCells
  <2> HIDE DEF e
  <2>4. Settles(store, store', i, Len(e))
    BY <1>1, <2>1, <2>2, <2>3, TruncateIs
  <2> QED
    BY <1>6, <2>1, <2>3, <2>4
<1>20. ASSUME NEW i \in Inodes, NEW j \in Inodes, DoClone(i, j) PROVE IInv'
  <2> DEFINE e == Told(i)
  <2>1. /\ store' = CloneForInode(store, i, j) /\ i \in DOMAIN store.records /\ j \notin DOMAIN store.records
        /\ told' = Bind(told, j, e) /\ loads' = loads /\ spilt' = (spilt \/ e = <<>>)
    BY <1>20 DEF DoClone, Holds, Known
  <2>2. e \in Seq(Cells) /\ (e = <<>> <=> store.records[i].size = 0)
    BY <1>2, <2>1 DEF Known
  <2> HIDE DEF e
  <2>3. Settles(store, store', j, store.records[i].size)
    BY <1>1, <2>1, CloneIs
  <2>4. Len(e) = 0 <=> store.records[i].size = 0
    BY <2>2
  <2>5. Settles(store, store', j, Len(e))
    BY <2>3, <2>4 DEF Settles
  <2> QED
    BY <1>6, <2>1, <2>2, <2>5
<1>21. CASE DoDefragment
  <2>1. store' = Defragment(store) /\ SparesAll /\ told' = told /\ loads' = loads /\ spilt' = FALSE
    BY <1>21 DEF DoDefragment
  <2>2. AllWhole(store) /\ ("empty" \in Avoid => NoneEmpty(store))
    BY <1>4, <2>1
  <2>3. StoreOK(store') /\ SameSizes(store, store') /\ (NoneEmpty(store) => ExactOK(store'))
    BY <1>1, <2>1, <2>2, DefragmentIs
  <2>4. Sane(store', told, loads, FALSE)
    BY <1>1, <2>2, <2>3, KeptSane
  <2> QED
    BY <2>1, <2>4 DEF IInv
<1>22. ASSUME NEW hot \in HotLists, DoOptimize(hot) PROVE IInv'
  <2>1. /\ store' = OptimizeWithPriorities(store, hot) /\ SparesAll
        /\ told' = told /\ loads' = loads /\ spilt' = spilt
    BY <1>22 DEF DoOptimize, Keeps
  <2>2. AllWhole(store) /\ ("empty" \in Avoid => NoneEmpty(store))
    BY <1>4, <2>1
  <2>3. hot \in Seq(Inodes)
    <3>1. CASE hot = <<>>
      BY <3>1
    <3>2. ASSUME NEW i \in Inodes, hot = <<i>> PROVE hot \in Seq(Inodes)
      BY <3>2
    <3> QED
      BY <3>1, <3>2 DEF HotLists
  <2>4. StoreOK(store') /\ SameSizes(store, store') /\ (NoneEmpty(store) /\ ExactOK(store) => ExactOK(store'))
    BY <1>1, <2>1, <2>2, <2>3, OptimizeIs
  <2> QED
    BY <1>8, <2>1, <2>2, <2>4
<1>23. ASSUME DoDedupPass \/ DoDrain PROVE IInv'
  <2>1. /\ store' \in {DedupPass(store), [store EXCEPT !.trims = {}]}
        /\ told' = told /\ loads' = loads /\ spilt' = spilt
    BY <1>23 DEF DoDedupPass, DoDrain, Keeps
  <2>2. StoreOK(store') /\ store'.records = store.records /\ (ExactOK(store) => ExactOK(store'))
    BY <1>1, <2>1, BookkeepingIs
  <2>3. SameSizes(store, store')
    BY <2>2 DEF SameSizes
  <2> QED
    BY <1>8, <2>1, <2>2, <2>3
<1>24. ASSUME NEW p \in Policies, DoSetPolicy(p) PROVE IInv'
  <2>1. store' = SetAllocatorPolicy(store, p) /\ told' = told /\ loads' = loads /\ spilt' = spilt
    BY <1>24 DEF DoSetPolicy, Keeps
  <2>2. StoreOK(store') /\ store'.records = store.records /\ (ExactOK(store) => ExactOK(store'))
    BY <1>1, <2>1, SetPolicyIs
  <2>3. SameSizes(store, store')
    BY <2>2 DEF SameSizes
  <2> QED
    BY <1>8, <2>1, <2>2, <2>3
<1>25. ASSUME NEW order \in SetToSeqs({i \in Known : Read(store, i) # <<>>}), DoReload(order) PROVE IInv'
  <2>1. SparesAll
    BY <1>25 DEF DoReload
  <2>2. AllWhole(store) /\ ("empty" \in Avoid => NoneEmpty(store))
    BY <1>4, <2>1
  <2>3. ImageAccepted(store)
    BY <1>1, <2>2, AcceptedIs
  <2>4. store' = LoadImage(store, order) /\ told' = told /\ loads' = loads /\ spilt' = spilt
    BY <1>25, <2>3 DEF DoReload, Keeps
  <2> DEFINE W == {i \in Known : Read(store, i) # <<>>}
  <2>5. IsFiniteSet(W)
    <3>1. IsFiniteSet(DOMAIN store.records)
      BY <1>1, KnownIs
    <3> QED
      BY <3>1, FS_Subset DEF Known
  <2>6. Cardinality(W) \in Nat
    BY <2>5, FS_CardinalityType
  <2>7. order \in [1..Cardinality(W) -> W]
    BY DEF SetToSeqs
  <2> HIDE DEF W
  <2>8. Len(order) \in Nat /\ \A k \in 1..Len(order) : order[k] \in W
    BY <2>6, <2>7
  <2>9. \A k \in 1..Len(order) : order[k] \in DOMAIN store.records /\ Read(store, order[k]) # <<>>
    BY <2>8 DEF W, Known
  <2>10. Loaded(store, store')
    BY <1>1, <2>2, <2>4, <2>8, <2>9, LoadImageIs
  <2> QED
    BY <1>8, <2>2, <2>4, <2>10 DEF Loaded
<1>26. CASE UNCHANGED vars
  BY <1>26 DEF vars, IInv
<1>27. CASE Next
  BY <1>9, <1>10, <1>11, <1>12, <1>13, <1>14, <1>15, <1>16, <1>17, <1>18, <1>19, <1>20, <1>21, <1>22, <1>23,
     <1>24, <1>25, <1>27 DEF Next
<1> QED
  BY <1>26, <1>27

\* A new store is sound, and has no file and no free extent.
LEMMA EmptySane ==
  ASSUME NEW p \in Policies
  PROVE  Sane(EmptyStore(p), <<>>, TRUE, FALSE)
<1> DEFINE s == EmptyStore(p)
<1>1. /\ DOMAIN s = Keys /\ s.next = 0 /\ s.free = <<>> /\ s.policy = p /\ s.records = <<>>
  BY DEF EmptyStore, Keys
<1> HIDE DEF s
<1>2. Free(s.free) = {} /\ s.free \in Seq(FreeExts) /\ Ordered(s.free) /\ Spaced(s.free)
  BY <1>1 DEF Free, Ordered, Spaced
<1>3. SpaceOK(s) /\ Tight(s) /\ Used(s) = {}
  BY <1>1, <1>2 DEF SpaceOK, Tight, Used, Numbers
<1>4. DOMAIN s.records = {}
  BY <1>1
<1>5. FilesOK(s.records, Used(s))
  BY <1>4 DEF FilesOK
<1>6. StoreOK(s) /\ ExactOK(s)
  BY <1>1, <1>3, <1>4, <1>5 DEF StoreOK, ExactOK
<1>7. DOMAIN <<>> = {}
  OBVIOUS
<1> QED
  BY <1>4, <1>6, <1>7 DEF Sane, s

\* The invariant holds at the start.
LEMMA InitSane ==
  ASSUME Init
  PROVE  IInv
<1>1. PICK p \in Policies : store = EmptyStore(p)
  BY DEF Init
<1>2. told = <<>> /\ (loads = TRUE) /\ (spilt = FALSE)
  BY DEF Init
<1>3. Sane(EmptyStore(p), <<>>, TRUE, FALSE)
  BY EmptySane
<1> QED
  BY <1>1, <1>2, <1>3 DEF IInv

\* The blocks of the properties are those of the invariant.
LEMMA BlocksAre ==
  ASSUME StoreOK(store)
  PROVE  /\ FreeBlocksNow = Free(store.free)
         /\ \A i \in Known : Owned(i) = Held(store.records[i])
         /\ \A b : b \in 0..store.next - 1 <=> b \in Numbers(store.next)
<1>1. store.free \in Seq(FreeExts) /\ store.next \in Nat /\ FilesOK(store.records, Used(store))
  BY DEF StoreOK, SpaceOK
<1>2. FreeBlocksNow = Free(store.free)
  <2> DEFINE f == store.free
  <2>1. Len(f) \in Nat /\ DOMAIN f = 1..Len(f) /\ \A k \in 1..Len(f) : f[k] \in FreeExts
    BY <1>1
  <2>2. FreeBlocksNow = UNION {Span(e) : e \in {f[k] : k \in 1..Len(f)}}
    BY <2>1 DEF FreeBlocksNow, ToSet
  <2> HIDE DEF f
  <2>3. \A k \in 1..Len(f) : Span(f[k]) \subseteq Nat
    BY <2>1 DEF Span, FreeExts, End
  <2>4. Free(f) = UNION {Span(e) : e \in {f[k] : k \in 1..Len(f)}}
    BY <2>3, Zenon DEF Free
  <2> QED
    BY <2>2, <2>4 DEF f
<1>3. ASSUME NEW i \in Known PROVE Owned(i) = Held(store.records[i])
  <2> DEFINE x == store.records[i].extents
  <2>1. x \in Seq(FileExts)
    BY <1>1 DEF FilesOK, RecordOK, Known
  <2>2. Len(x) \in Nat /\ DOMAIN x = 1..Len(x) /\ \A k \in 1..Len(x) : x[k] \in FileExts
    BY <2>1
  <2>3. Owned(i) = UNION {e.start .. e.start + e.blocks - 1 : e \in {x[k] : k \in 1..Len(x)}}
    BY <2>2 DEF Owned, ToSet
  <2>4. Held(store.records[i]) = {b \in Nat : \E k \in 1..Len(x) : b \in Blocks(x[k])}
    BY DEF Held
  <2> HIDE DEF x
  <2>5. ASSUME NEW k \in 1..Len(x)
        PROVE  Blocks(x[k]) = x[k].start .. x[k].start + x[k].blocks - 1 /\ Blocks(x[k]) \subseteq Nat
    BY <2>2 DEF Blocks, Area, FileExts
  <2>6. UNION {e.start .. e.start + e.blocks - 1 : e \in {x[k] : k \in 1..Len(x)}}
            = {b \in Nat : \E k \in 1..Len(x) : b \in Blocks(x[k])}
    BY <2>5, Zenon
  <2> QED
    BY <2>3, <2>4, <2>6
<1>4. \A b : b \in 0..store.next - 1 <=> b \in Numbers(store.next)
  BY <1>1 DEF Numbers
<1> QED
  BY <1>2, <1>3, <1>4

\* No block is taken twice: the blocks of the files are disjoint, off the free list and
\* below the bump pointer, whatever is written, grown, cut, moved, removed, cloned,
\* compacted, saved and loaded, as long as a file with several extents, whose blocks
\* total_blocks() counts from the first one on, is not given up or moved.
THEOREM BlocksOwnedOnce ==
  ASSUME "appended" \in Avoid
  PROVE  Spec => []NoBlockTakenTwice
<1>1. ASSUME IInv PROVE NoBlockTakenTwice
  <2>1. StoreOK(store)
    BY <1>1 DEF IInv, Sane
  <2>2. /\ FreeBlocksNow = Free(store.free)
        /\ \A i \in Known : Owned(i) = Held(store.records[i])
        /\ \A b : b \in 0..store.next - 1 <=> b \in Numbers(store.next)
    BY <2>1, BlocksAre
  <2>3. FilesOK(store.records, Used(store))
    BY <2>1 DEF StoreOK
  <2>4. \A i, j \in Known : i # j => Owned(i) \cap Owned(j) = {}
    BY <2>2, <2>3 DEF FilesOK, Known
  <2>5. ASSUME NEW i \in Known
        PROVE  /\ Owned(i) \cap FreeBlocksNow = {}
               /\ Owned(i) \subseteq 0..store.next - 1
               /\ Cardinality(Owned(i)) = TotalBlocks(store.records[i])
    <3>1. Held(store.records[i]) \subseteq Used(store) /\ RecordOK(store.records[i])
      BY <2>3 DEF FilesOK, Known
    <3>2. Cardinality(Held(store.records[i])) = TotalBlocks(store.records[i])
      BY <3>1, TotalIs
    <3>3. Used(store) \cap Free(store.free) = {} /\ Used(store) \subseteq Numbers(store.next)
      BY DEF Used
    <3>4. Owned(i) = Held(store.records[i])
      BY <2>2
    <3> QED
      BY <2>2, <3>1, <3>2, <3>3, <3>4, Zenon
  <2> QED
    BY <2>4, <2>5 DEF NoBlockTakenTwice
<1> QED
  BY <1>1, InitSane, StepSane, PTL DEF Spec

\* An image the store saved is accepted when it is loaded again, under the same condition.
THEOREM SavedLoads ==
  ASSUME "appended" \in Avoid
  PROVE  Spec => []ImageLoads
<1>1. IInv => ImageLoads
  BY Zenon DEF IInv, Sane, ImageLoads
<1> QED
  BY <1>1, InitSane, StepSane, PTL DEF Spec

\* The free space is known exactly: with coalescing and trimming on, the free list is in
\* order, merged and below the bump pointer, and no block is lost unless one was spilt;
\* also when no store with an empty file is compacted, saved or loaded.
THEOREM FreeSpaceKnown ==
  ASSUME "appended" \in Avoid, "empty" \in Avoid
  PROVE  Spec => []FreeSpaceExact
<1>1. ASSUME IInv PROVE FreeSpaceExact
  <2>1. StoreOK(store) /\ (~spilt => ExactOK(store))
    BY <1>1, Zenon DEF IInv, Sane
  <2>2. /\ FreeBlocksNow = Free(store.free)
        /\ \A i \in Known : Owned(i) = Held(store.records[i])
        /\ \A b : b \in 0..store.next - 1 <=> b \in Numbers(store.next)
    BY <2>1, BlocksAre
  <2>3. /\ store.next \in Nat /\ store.free \in Seq(FreeExts)
        /\ store.policy.coalesce => Spaced(store.free)
        /\ Free(store.free) \subseteq Numbers(store.next)
    BY <2>1 DEF StoreOK, SpaceOK
  <2>4. FreeListCanonical
    <3> SUFFICES ASSUME store.policy.coalesce, store.policy.trim, NEW k \in DOMAIN store.free
                 PROVE  /\ store.free[k].len > 0
                        /\ k < Len(store.free) => End(store.free[k]) < store.free[k + 1].start
                        /\ End(store.free[k]) < store.next \/ (spilt /\ End(store.free[k]) = store.next)
      BY DEF FreeListCanonical
    <3> DEFINE f == store.free
    <3>1. Len(f) \in Nat /\ k \in 1..Len(f) /\ f[k] \in FreeExts /\ End(f[k]) \in Nat
      <4>1. Len(f) \in Nat /\ k \in 1..Len(f) /\ f[k] \in FreeExts
        BY <2>3
      <4>2. End(f[k]) \in Nat
        BY <2>3, <4>1, ListNumbers
      <4> QED
        BY <4>1, <4>2
    <3>2. f[k].len > 0
      BY <3>1 DEF FreeExts
    <3>3. k < Len(f) => End(f[k]) < f[k + 1].start
      <4>1. Spaced(f)
        BY <2>3
      <4> QED
        BY <3>1, <4>1 DEF Spaced
    <3>4. End(f[k]) <= store.next
      <4>1. store.next \in Int
        BY <2>3
      <4>2. \A j \in 1..Len(f) : End(f[j]) <= store.next
        BY <2>3, <4>1, FreeBelow
      <4> QED
        BY <3>1, <4>2
    <3>5. ASSUME ~spilt PROVE End(f[k]) < store.next
      <4>1. Free(f) \subseteq Numbers(store.next - 1)
        BY <2>1, <3>5 DEF ExactOK, Tight
      <4>2. store.next - 1 \in Int
        BY <2>3
      <4>3. End(f[k]) <= store.next - 1
        BY <2>3, <3>1, <4>1, <4>2, FreeBelow
      <4> QED
        BY <2>3, <3>1, <4>3
    <3>6. End(f[k]) < store.next \/ End(f[k]) = store.next
      BY <2>3, <3>1, <3>4
    <3> QED
      BY <3>2, <3>3, <3>5, <3>6, Zenon
  <2>5. NoBlockLost
    <3> SUFFICES ASSUME ~spilt, NEW b \in 0..store.next - 1
                 PROVE  b \in FreeBlocksNow \cup UNION {Owned(i) : i \in Known}
      BY DEF NoBlockLost
    <3>1. b \in Numbers(store.next)
      BY <2>2
    <3>2. Used(store) \subseteq AllHeld(store.records)
      BY <2>1 DEF ExactOK
    <3>3. b \in Free(store.free) \/ b \in Used(store)
      BY <3>1 DEF Used
    <3>4. ASSUME b \in AllHeld(store.records) PROVE \E i \in Known : b \in Owned(i)
      BY <2>2, <3>4 DEF AllHeld, Known
    <3> QED
      BY <2>2, <3>2, <3>3, <3>4
  <2> QED
    BY <2>4, <2>5 DEF FreeSpaceExact
<1> QED
  BY <1>1, InitSane, StepSane, PTL DEF Spec
=============================================================================
