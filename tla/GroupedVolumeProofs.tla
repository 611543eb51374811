------------------------- MODULE GroupedVolumeProofs -------------------------
(* Proofs about the block groups of an ODF volume, for every geometry, every *)
(* set of files and every sequence of saves, failed saves and damages.       *)
EXTENDS GroupedVolume, FiniteSetTheorems, WellFoundedInduction, TLAPS

-----------------------------------------------------------------------------
(* Numbers.                                                                  *)

Less == {p \in Nat \X Nat : p[1] < p[2]}

\* There is no infinite descent in the natural numbers.
LEMMA LessWellFounded == IsWellFoundedOn(Less, Nat)
  BY NatLessThanWellFounded DEF OpToRel, Less

\* A non-empty set of numbers has a least one.
LEMMA LeastNat ==
  ASSUME NEW T \in SUBSET Nat, T # {}
  PROVE  \E x \in T : \A y \in T : x <= y
<1>1. PICK x \in T : \A y \in T : ~(<<y, x>> \in Less)
  BY LessWellFounded, WFMin
<1>2. \A y \in T : <<y, x>> \in Nat \X Nat
  OBVIOUS
<1>3. \A y \in T : ~(y < x)
  BY <1>1, <1>2 DEF Less
<1> QED
  BY <1>3

\* Bitmap::allocate_first and the search in a group take the least candidate.
LEMMA MinNat ==
  ASSUME NEW T \in SUBSET Nat, T # {}
  PROVE  Min(T) \in T /\ \A y \in T : Min(T) <= y
<1>1. \E x \in T : \A y \in T : x =< y
  BY LeastNat
<1> QED
  BY <1>1 DEF Min

\* A bounded set of numbers has a greatest one.
LEMMA MaxNat ==
  ASSUME NEW N \in Nat, NEW T \in SUBSET (0 .. N), T # {}
  PROVE  Max(T) \in T
<1> DEFINE D == {N - x : x \in T}
<1>0. \A x \in T : x \in Nat /\ N - x \in Nat
  OBVIOUS
<1>1. D \subseteq Nat /\ D # {}
  BY <1>0
<1>2. PICK m \in D : \A y \in D : m <= y
  BY <1>1, LeastNat
<1>3. PICK x \in T : m = N - x
  BY <1>2
<1>4. \A y \in T : x >= y
  <2> SUFFICES ASSUME NEW y \in T PROVE x >= y
    OBVIOUS
  <2>1. N - y \in D
    OBVIOUS
  <2> QED
    BY <1>0, <1>2, <1>3, <2>1
<1> QED
  BY <1>4 DEF Max

-----------------------------------------------------------------------------
(* Geometry.                                                                 *)

\* Multiplication by a number keeps the order.
LEMMA TimesMonotone ==
  ASSUME NEW a \in Nat, NEW b \in Nat, NEW c \in Nat, a <= b
  PROVE  a * c <= b * c /\ a * c \in Nat
  OBVIOUS

\* A quotient times its divisor is not above the dividend.
LEMMA Quotient ==
  ASSUME NEW a \in Nat, NEW b \in Nat \ {0}
  PROVE  (a \div b) \in Nat /\ b * (a \div b) <= a
  OBVIOUS


\* The control blocks lie below the data region, the groups one after the other
\* in it, and two blocks are left at the end of the device.
LEMMA Geometry ==
  /\ Total \in Nat /\ GroupCount \in Nat \ {0} /\ PerGroup \in Nat /\ PerGroup >= 4
  /\ JournalBlocks \in Nat /\ DataRegion \in Nat /\ DataRegion = 5 + JournalBlocks /\ InodeTable = 4
  /\ DataRegion + GroupCount * PerGroup + 2 <= Total
<1>1. Total \in Nat /\ GroupCount \in Nat \ {0} /\ JournalBlocks \in Nat /\ PerGroup >= 4 /\ DataRegion + 2 < Total
  BY GroupsFit
<1>2. DataRegion = 5 + JournalBlocks /\ InodeTable = 4 /\ DataRegion \in Nat
  BY <1>1 DEF DataRegion, Journal, InodeTable, InodeBitmap, GroupTable
<1>3. Total - (DataRegion + 2) \in Nat
  BY <1>1, <1>2
<1>4. PerGroup \in Nat /\ GroupCount * PerGroup <= Total - (DataRegion + 2)
  BY <1>1, <1>3, Quotient DEF PerGroup
<1> HIDE DEF DataRegion, PerGroup
<1>5. GroupCount * PerGroup \in Nat
  BY <1>1, <1>4
<1> QED
  BY <1>1, <1>2, <1>4, <1>5

\* Where a group begins and ends.
LEMMA GroupPlace ==
  ASSUME NEW g \in Groups
  PROVE  /\ g \in Nat /\ BitmapBlock(g) \in Nat /\ DataRegion <= BitmapBlock(g)
         /\ BitmapBlock(g) + PerGroup + 2 <= Total
<1>1. g \in Nat /\ g + 1 \in Nat /\ g + 1 <= GroupCount
  BY Geometry DEF Groups
<1>2. (g + 1) * PerGroup <= GroupCount * PerGroup /\ GroupCount * PerGroup \in Nat
  BY <1>1, Geometry, TimesMonotone
<1>3. g * PerGroup \in Nat /\ (g + 1) * PerGroup = g * PerGroup + PerGroup
  BY <1>1, Geometry
<1>4. BitmapBlock(g) = DataRegion + g * PerGroup
  BY DEF BitmapBlock
<1> DEFINE x == g * PerGroup
<1> DEFINE y == GroupCount * PerGroup
<1>5. x \in Nat /\ y \in Nat /\ x + PerGroup <= y /\ DataRegion + y + 2 <= Total /\ BitmapBlock(g) = DataRegion + x
  BY <1>2, <1>3, <1>4, Geometry
<1> HIDE DEF x, y
<1> QED
  BY <1>1, <1>5, Geometry

\* Two groups do not overlap.
LEMMA GroupsApart ==
  ASSUME NEW g \in Groups, NEW h \in Groups, g < h
  PROVE  BitmapBlock(g) + PerGroup <= BitmapBlock(h)
<1>1. g \in Nat /\ h \in Nat /\ g + 1 <= h
  BY GroupPlace
<1>2. (g + 1) * PerGroup <= h * PerGroup
  BY <1>1, Geometry, TimesMonotone
<1>3. g * PerGroup \in Nat /\ h * PerGroup \in Nat /\ (g + 1) * PerGroup = g * PerGroup + PerGroup
  BY <1>1, Geometry
<1> DEFINE x == g * PerGroup
<1> DEFINE y == h * PerGroup
<1>4. x \in Nat /\ y \in Nat /\ x + PerGroup <= y /\ BitmapBlock(g) = DataRegion + x /\ BitmapBlock(h) = DataRegion + y
  BY <1>2, <1>3 DEF BitmapBlock
<1> HIDE DEF x, y
<1> QED
  BY <1>4, Geometry

\* A block is the bitmap or a data block of one group only, and no group holds
\* a control block.
LEMMA DataPlace ==
  ASSUME NEW g \in Groups
  PROVE  /\ GroupData(g) \subseteq 6 .. (Total - 3) /\ GroupData(g) \subseteq Nat
         /\ BitmapBlock(g) \in 5 .. (Total - 3)
         /\ \A h \in Groups : BitmapBlock(h) \notin GroupData(g)
         /\ \A h \in Groups : h # g => BitmapBlock(h) # BitmapBlock(g) /\ GroupData(g) \cap GroupData(h) = {}
<1>1. /\ g \in Nat /\ BitmapBlock(g) \in Nat /\ 5 <= BitmapBlock(g)
      /\ BitmapBlock(g) + PerGroup + 2 <= Total /\ Total \in Nat /\ PerGroup \in Nat /\ PerGroup >= 4
  BY GroupPlace, Geometry
<1>2. /\ GroupData(g) \subseteq 6 .. (Total - 3) /\ GroupData(g) \subseteq Nat
      /\ BitmapBlock(g) \in 5 .. (Total - 3)
  BY <1>1 DEF GroupData
<1>3. ASSUME NEW h \in Groups
      PROVE  /\ BitmapBlock(h) \notin GroupData(g)
             /\ h # g => BitmapBlock(h) # BitmapBlock(g) /\ GroupData(g) \cap GroupData(h) = {}
  <2>1. h \in Nat /\ BitmapBlock(h) \in Nat
    BY GroupPlace
  <2>2. CASE h = g
    BY <1>1, <2>2 DEF GroupData
  <2>3. CASE h < g
    <3>1. BitmapBlock(h) + PerGroup <= BitmapBlock(g)
      BY <2>3, GroupsApart
    <3> QED
      BY <1>1, <2>1, <2>3, <3>1 DEF GroupData
  <2>4. CASE g < h
    <3>1. BitmapBlock(g) + PerGroup <= BitmapBlock(h)
      BY <2>4, GroupsApart
    <3> QED
      BY <1>1, <2>1, <2>4, <3>1 DEF GroupData
  <2> QED
    BY <1>1, <2>1, <2>2, <2>3, <2>4
<1> QED
  BY <1>2, <1>3

\* The copies of the superblock lie behind the control blocks and apart.
LEMMA CopyPlace ==
  /\ Total \in Nat /\ Total > 10 /\ Total \div 2 \in Nat /\ Total \div 2 >= 5 /\ Total \div 2 < Total - 1
  /\ Primary \notin Copies /\ GroupTable \notin Copies /\ InodeBitmap \notin Copies /\ InodeTable \notin Copies
  /\ Copies \subseteq 0 .. (Total - 1) /\ Copies = {Total \div 2, Total - 1}
<1>1. Total \in Nat /\ Total >= 11
  <2>1. PerGroup <= GroupCount * PerGroup /\ GroupCount * PerGroup \in Nat
    BY Geometry, TimesMonotone
  <2> QED
    BY <2>1, Geometry
<1> QED
  BY <1>1 DEF Copies, Primary, GroupTable, InodeBitmap, InodeTable

-----------------------------------------------------------------------------
(* Home groups.                                                              *)

\* No slot is at home in two groups.
LEMMA OneHome ==
  ASSUME NEW g \in Groups, NEW h \in Groups, NEW s \in InodeRange(g), s \in InodeRange(h)
  PROVE  g = h
<1>1. InodesPerGroup \in Nat /\ FirstUser \in Nat /\ InodeCount \in Nat /\ FirstUser <= InodeCount
  <2>1. InodeCount - FirstUser \in Nat /\ FirstUser \in Nat /\ InodeCount \in Nat /\ FirstUser <= InodeCount
    BY GroupsFit
  <2> QED
    BY <2>1, Geometry, Quotient DEF InodesPerGroup
<1>2. ASSUME NEW x \in Groups, NEW y \in Groups, x < y, s \in InodeRange(x), s \in InodeRange(y)
      PROVE  FALSE
  <2>1. x \in Nat /\ y \in Nat /\ x + 1 <= y /\ x + 1 # GroupCount
    BY <1>2, GroupPlace, Geometry DEF Groups
  <2> DEFINE m == InodesPerGroup
  <2> DEFINE a == x * m
  <2> DEFINE b == y * m
  <2>2. (x + 1) * m <= y * m /\ a \in Nat /\ b \in Nat /\ (x + 1) * m = a + m
    BY <1>1, <2>1, TimesMonotone
  <2>3. a + m <= b
    BY <2>2
  <2>4. s \in (FirstUser + a) .. (FirstUser + a + m - 1)
    BY <1>2, <2>1 DEF InodeRange
  <2>5. s >= FirstUser + b
    <3>1. \A e : s \in (FirstUser + b) .. e => s >= FirstUser + b
      BY <1>1, <2>2, <2>4
    <3> QED
      BY <1>2, <3>1 DEF InodeRange
  <2>6. a \in Nat /\ b \in Nat /\ m \in Nat
    BY <1>1, <2>2
  <2> HIDE DEF a, b, m
  <2> QED
    BY <1>1, <2>3, <2>4, <2>5, <2>6
<1>3. g \in Nat /\ h \in Nat
  BY GroupPlace
<1> QED
  BY <1>2, <1>3

-----------------------------------------------------------------------------
(* The allocator.                                                            *)

\* The blocks given out so far.
Given(used) == UNION {used[g] : g \in Groups}

\* Every group's bits stand for its data blocks.
UsedOK(used) == used = [g \in Groups |-> used[g]] /\ \A g \in Groups : used[g] \subseteq GroupData(g)

\* A run is what its blocks are.
LEMMA RunBlocks ==
  ASSUME NEW b \in Nat, NEW n \in Nat \ {0}
  PROVE  /\ Run(b, n) # <<>> /\ ToSet(Run(b, n)) = b .. (b + n - 1) /\ Len(Run(b, n)) = n
         /\ \A i \in 1 .. n : Run(b, n)[i] \in b .. (b + n - 1)
         /\ Run(b, n)[1] = b
<1>1. Run(b, n) = [i \in 1 .. n |-> b + i - 1] /\ Run(b, n) \in Seq(Nat) /\ Len(Run(b, n)) = n
  BY DEF Run
<1>2. \A x \in b .. (b + n - 1) : x - b + 1 \in 1 .. n /\ x = b + (x - b + 1) - 1
  OBVIOUS
<1> DEFINE r == Run(b, n)
<1>3. ToSet(r) = b .. (b + n - 1)
  <2>1. DOMAIN r = 1 .. n /\ \A i \in 1 .. n : r[i] = b + i - 1
    BY <1>1
  <2> HIDE DEF r
  <2>2. ToSet(r) = {r[i] : i \in 1 .. n}
    BY <2>1 DEF ToSet
  <2>3. \A i \in 1 .. n : r[i] \in b .. (b + n - 1)
    BY <2>1
  <2>4. \A x \in b .. (b + n - 1) : r[x - b + 1] = x
    BY <1>2, <2>1
  <2> QED
    BY <1>2, <2>2, <2>3, <2>4
<1> QED
  BY <1>1, <1>3

\* The ring of a home group visits groups, the home group first.
LEMMA RingVisits ==
  ASSUME NEW home \in Groups
  PROVE  (\A i \in 1 .. GroupCount : Ring(home)[i] \in Groups) /\ Ring(home)[1] = home
  BY Geometry DEF Ring, Groups

\* ext is a free run of n blocks in one group, away from home only if no home
\* group of the slot s has such a run.
NearRun(ext, used, n, s) ==
  \E g \in Groups, b \in Nat :
    /\ ext = Run(b, n) /\ b .. (b + n - 1) \subseteq GroupData(g) \ used[g]
    /\ \A h \in Groups : s \in InodeRange(h) /\ h # g => TryAllocateInGroup(used[h], h, n) = {}

\* MultiGroupAllocator::allocate_near gives out free blocks of one group, and
\* leaves the home group of the slot only when it has no such run.
LEMMA NearGives ==
  ASSUME NEW used, NEW n \in Nat \ {0}, NEW s, AllocateNear(used, n, s) # <<>>
  PROVE  NearRun(AllocateNear(used, n, s), used, n, s)
<1> DEFINE home == IF GroupForInode(s) = {} THEN 0 ELSE Min(GroupForInode(s))
<1> DEFINE fits == {i \in 1 .. GroupCount : TryAllocateInGroup(used[Ring(home)[i]], Ring(home)[i], n) # {}}
<1> DEFINE g == Ring(home)[Min(fits)]
<1> DEFINE T == TryAllocateInGroup(used[g], g, n)
<1>1. home \in Groups /\ \A h \in Groups : s \in InodeRange(h) => home = h
  <2>1. 0 \in Groups
    BY Geometry DEF Groups
  <2>2. CASE GroupForInode(s) = {}
    BY <2>1, <2>2 DEF GroupForInode
  <2>3. CASE GroupForInode(s) # {}
    <3>1. GroupForInode(s) \in SUBSET Nat
      BY GroupPlace DEF GroupForInode
    <3>2. Min(GroupForInode(s)) \in GroupForInode(s)
      BY <2>3, <3>1, MinNat
    <3>3. home \in Groups /\ s \in InodeRange(home)
      BY <2>3, <3>2 DEF GroupForInode
    <3> QED
      BY <3>3, OneHome
  <2> QED
    BY <2>2, <2>3
<1> HIDE DEF home
<1>2. fits # {} /\ AllocateNear(used, n, s) = Run(Min(T), n)
  BY DEF AllocateNear, home
<1>3. Min(fits) \in fits /\ \A i \in fits : Min(fits) <= i
  <2>1. fits \in SUBSET Nat
    BY Geometry
  <2> QED
    BY <1>2, <2>1, MinNat
<1>4. g \in Groups /\ T # {}
  BY <1>1, <1>3, RingVisits
<1> HIDE DEF g
<1>5. T \in SUBSET Nat
  BY <1>4, DataPlace DEF TryAllocateInGroup
<1>6. Min(T) \in T /\ Min(T) \in Nat
  BY <1>4, <1>5, MinNat
<1>7. Min(T) .. (Min(T) + n - 1) \subseteq GroupData(g) \ used[g]
  BY <1>6 DEF TryAllocateInGroup
<1>8. ASSUME NEW h \in Groups, s \in InodeRange(h), h # g PROVE TryAllocateInGroup(used[h], h, n) = {}
  <2>1. Ring(home)[1] = h
    BY <1>1, <1>8, RingVisits
  <2>2. Min(fits) # 1 /\ 1 \in 1 .. GroupCount
    BY <1>8, <2>1, Geometry DEF g
  <2>3. 1 \notin fits
    <3>1. Min(fits) \in 1 .. GroupCount
      BY <1>3
    <3>2. ~(Min(fits) <= 1)
      BY <2>2, <3>1, Geometry
    <3> QED
      BY <1>3, <3>2
  <2> QED
    BY <2>1, <2>2, <2>3
<1> QED
  BY <1>2, <1>4, <1>6, <1>7, <1>8 DEF NearRun

\* Marking blocks of one group adds those and no others.
LEMMA Marks ==
  ASSUME NEW used, UsedOK(used), NEW g \in Groups, NEW ext, ToSet(ext) \subseteq GroupData(g)
  PROVE  /\ UsedOK(Mark(used, ext)) /\ Given(Mark(used, ext)) = Given(used) \cup ToSet(ext)
         /\ \A h \in Groups : used[h] \subseteq Mark(used, ext)[h]
<1> DEFINE new == Mark(used, ext)
<1>1. new = [h \in Groups |-> used[h] \cup (GroupData(h) \cap ToSet(ext))]
  BY DEF Mark
<1>2. new = [h \in Groups |-> new[h]] /\ \A h \in Groups : new[h] = used[h] \cup (GroupData(h) \cap ToSet(ext))
  BY <1>1
<1> HIDE DEF new
<1>3. UsedOK(new) /\ \A h \in Groups : used[h] \subseteq new[h]
  BY <1>2 DEF UsedOK
<1>4. Given(new) = Given(used) \cup ToSet(ext)
  BY <1>2 DEF Given
<1> QED
  BY <1>3, <1>4 DEF new

\* A run that is free where it lies is free everywhere.
LEMMA RunFresh ==
  ASSUME NEW used, UsedOK(used), NEW g \in Groups, NEW S \in SUBSET (GroupData(g) \ used[g])
  PROVE  S \cap Given(used) = {}
  BY DataPlace DEF UsedOK, Given

-----------------------------------------------------------------------------
(* The work of a save is a chain of works, one for each inode written.       *)

\* w[0] is the work after the ancillary blocks, w[k] the work after the first k inodes.
SaveSteps(w, d, files, ids, cnt, n, v) ==
  /\ w[0] = WriteAncillary(Work(d), n, v)
  /\ \A k \in 1 .. Len(ids) : w[k] = WriteUserInode(w[k - 1], ids[k], files[ids[k]], k > cnt)

\* save_state_native_grouped: the recursion yields such a chain, by induction
\* over the number of inodes written.
LEMMA SaveChain ==
  ASSUME NEW d, NEW files, NEW active, NEW deleted, NEW n, NEW v,
         Len(active \o deleted) \in Nat
  PROVE  \E w : /\ SaveSteps(w, d, files, active \o deleted, Len(active), n, v)
                /\ SaveNativeGrouped(d, files, active, deleted, n, v) = w[Len(active \o deleted)]
<1> DEFINE ids == active \o deleted
<1> DEFINE First == WriteAncillary(Work(d), n, v)
<1> DEFINE Step(x, k) == WriteUserInode(x, ids[k], files[ids[k]], k > Len(active))
<1> DEFINE IsChain(w, m) == w = [k \in 0 .. m |-> IF k = 0 THEN First ELSE Step(w[k - 1], k)]
<1> DEFINE L == Len(ids)
<1>0. L \in Nat
  OBVIOUS
<1>1. SaveNativeGrouped(d, files, active, deleted, n, v) = (CHOOSE w : IsChain(w, L))[L]
  BY DEF SaveNativeGrouped
<1> HIDE DEF First, Step, L
<1>2. \E w : IsChain(w, 0)
  <2> DEFINE w == [k \in 0 .. 0 |-> First]
  <2>1. IsChain(w, 0)
    OBVIOUS
  <2> QED
    BY <2>1
<1>3. ASSUME NEW m \in Nat, NEW u, IsChain(u, m) PROVE \E w : IsChain(w, m + 1)
  <2> DEFINE w == [k \in 0 .. m + 1 |-> IF k = m + 1 THEN Step(u[m], m + 1) ELSE u[k]]
  <2>1. \A k \in 0 .. m : u[k] = IF k = 0 THEN First ELSE Step(u[k - 1], k)
    BY <1>3
  <2>2. /\ \A k \in 0 .. m : w[k] = u[k]
        /\ w[m + 1] = Step(u[m], m + 1)
        /\ \A k \in 1 .. m + 1 : w[k - 1] = u[k - 1]
    OBVIOUS
  <2>4. ASSUME NEW k \in 0 .. m + 1
        PROVE  w[k] = IF k = 0 THEN First ELSE Step(w[k - 1], k)
    <3> HIDE DEF w
    <3>1. CASE k = m + 1
      BY <2>2, <3>1
    <3>2. CASE k \in 0 .. m
      BY <2>1, <2>2, <3>2
    <3> QED
      BY <3>1, <3>2
  <2>3. IsChain(w, m + 1)
    BY <2>4
  <2> QED
    BY <2>3
<1>4. \E w : IsChain(w, L)
  <2> DEFINE B == {m \in Nat : ~\E w : IsChain(w, m)}
  <2>1. SUFFICES ASSUME L \in B PROVE FALSE
    BY <1>0
  <2>2. PICK m \in B : \A y \in B : m <= y
    BY <2>1, LeastNat
  <2>3. m # 0
    BY <1>2
  <2>4. m - 1 \in Nat /\ m - 1 \notin B
    BY SMTT(20), <2>2, <2>3
  <2>5. \E w : IsChain(w, m - 1)
    BY <2>4
  <2>6. \E w : IsChain(w, (m - 1) + 1)
    BY <1>3, <2>4, <2>5
  <2> QED
    BY <2>2, <2>6
<1> DEFINE F == CHOOSE w : IsChain(w, L)
<1>5. IsChain(F, L)
  BY <1>4
<1> HIDE DEF F
<1>6. F[0] = First /\ \A k \in 1 .. L : F[k] = Step(F[k - 1], k)
  BY <1>0, <1>5
<1>7. SaveNativeGrouped(d, files, active, deleted, n, v) = F[L]
  BY <1>1 DEF F
<1>8. SaveSteps(F, d, files, ids, Len(active), n, v)
  BY <1>6 DEF SaveSteps, First, Step, L
<1> QED
  BY <1>7, <1>8 DEF L

-----------------------------------------------------------------------------
(* The device.                                                               *)

Table(d) == d[InodeTable][2]

\* The blocks above the inode table.
Area == 5 .. (Total - 1)

IsDevice(d) == d = [b \in 0 .. (Total - 1) |-> d[b]]

\* A device of Total blocks with an inode table.
Formed(d) ==
  /\ IsDevice(d)
  /\ d[InodeTable][1] = "table" /\ Table(d) = [s \in Slots |-> Table(d)[s]]

\* BlockDevice::write_at changes the blocks it names and no others.
LEMMA PutCells ==
  ASSUME NEW d, IsDevice(d), NEW S, NEW c
  PROVE  /\ IsDevice(Put(d, S, c))
         /\ \A b \in 0 .. (Total - 1) : Put(d, S, c)[b] = IF b \in S THEN c ELSE d[b]
<1>1. DOMAIN d = 0 .. (Total - 1)
  BY DEF IsDevice
<1> QED
  BY <1>1 DEF Put, IsDevice

\* The bitmap of every group is where the descriptors say, and nothing else is.
LEMMA BitmapCells ==
  ASSUME NEW d, IsDevice(d), NEW used
  PROVE  /\ IsDevice(WithBitmaps(d, used))
         /\ \A g \in Groups : WithBitmaps(d, used)[BitmapBlock(g)] = <<"bits", used[g]>>
         /\ \A b \in 0 .. (Total - 1) :
              (\A g \in Groups : b # BitmapBlock(g)) => WithBitmaps(d, used)[b] = d[b]
<1>1. DOMAIN d = 0 .. (Total - 1)
  BY DEF IsDevice
<1>2. ASSUME NEW g \in Groups PROVE WithBitmaps(d, used)[BitmapBlock(g)] = <<"bits", used[g]>>
  <2>1. BitmapBlock(g) \in 0 .. (Total - 1)
    BY DataPlace, Geometry
  <2>2. (CHOOSE h \in Groups : BitmapBlock(g) = BitmapBlock(h)) = g
    BY DataPlace
  <2> QED
    BY <1>1, <2>1, <2>2 DEF WithBitmaps
<1> QED
  BY <1>1, <1>2 DEF WithBitmaps, IsDevice

\* e is d with the record rec in slot s and the cell c in the blocks of S.
Recorded(e, d, S, c, s, rec) ==
  /\ Formed(e) /\ Table(e)[s] = rec
  /\ \A x \in Slots \ {s} : Table(e)[x] = Table(d)[x]
  /\ \A b \in S : e[b] = c
  /\ \A b \in 0 .. (Total - 1) : b \notin S \cup {InodeTable} => e[b] = d[b]

\* write_inode_at_slot leaves the other records alone.
LEMMA RecordCells ==
  ASSUME NEW d, Formed(d), NEW S \in SUBSET Area, NEW c, NEW s \in Slots, NEW rec
  PROVE  Recorded(WithRecord(Put(d, S, c), s, rec), d, S, c, s, rec)
<1> DEFINE p == Put(d, S, c)
<1>1. InodeTable = 4 /\ InodeTable \in 0 .. (Total - 1) /\ InodeTable \notin S
      /\ S \subseteq 0 .. (Total - 1)
  <2>1. DataRegion + 2 < Total
    BY GroupsFit
  <2> QED
    BY <2>1, Geometry DEF Area
<1>2. /\ IsDevice(p)
      /\ \A b \in 0 .. (Total - 1) : p[b] = IF b \in S THEN c ELSE d[b]
  BY PutCells DEF Formed
<1> HIDE DEF p
<1>3. p[InodeTable] = d[InodeTable]
  BY <1>1, <1>2
<1> DEFINE cell == <<"table", [p[InodeTable][2] EXCEPT ![s] = rec]>>
<1> DEFINE e == WithRecord(p, s, rec)
<1>4. e = Put(p, {InodeTable}, cell)
  BY DEF WithRecord
<1>9. cell[1] = "table" /\ cell[2] = [Table(d) EXCEPT ![s] = rec]
  BY <1>3 DEF Table
<1> HIDE DEF cell, e
<1>5. /\ IsDevice(e)
      /\ \A b \in 0 .. (Total - 1) : e[b] = IF b \in {InodeTable} THEN cell ELSE p[b]
  BY <1>2, <1>4, PutCells
<1>6. e[InodeTable][1] = "table" /\ Table(e) = [Table(d) EXCEPT ![s] = rec]
  BY <1>1, <1>5, <1>9 DEF Table
<1>7. Table(e) = [x \in Slots |-> Table(e)[x]] /\ Table(e)[s] = rec /\ \A x \in Slots \ {s} : Table(e)[x] = Table(d)[x]
  BY <1>6 DEF Formed
<1>8. (\A b \in S : e[b] = c) /\ \A b \in 0 .. (Total - 1) : b \notin S \cup {InodeTable} => e[b] = d[b]
  BY <1>1, <1>2, <1>5
<1> QED
  BY <1>5, <1>6, <1>7, <1>8 DEF Formed, p, e, Recorded

-----------------------------------------------------------------------------
(* What the work of a save holds once k inodes of ids are written, the first *)
(* cnt of them active, with the ancillary state v in n blocks.               *)

Slot(j) == FirstUser + j - 1

\* The table has the ancillary record and the records of the inodes.
TableHolds(T, k, ids, cnt, files, n, v) ==
  /\ T[Ancillary].kind = "system" /\ T[Ancillary].crc = <<"anc", v, n>>
  /\ DOMAIN T[Ancillary].ext = 1 .. n /\ Len(T[Ancillary].ext) = n
  /\ \A j \in 1 .. k :
       T[Slot(j)] = [kind |-> "file", id |-> ids[j], ext |-> files[ids[j]].ext,
                     attr |-> T[Slot(j)].attr, del |-> j > cnt, crc |-> files[ids[j]].crc]

\* The marked blocks are those the records name, each by one.
MarksMatch(T, marked, k, n) ==
  /\ marked = ToSet(T[Ancillary].ext) \cup {T[Slot(j)].attr : j \in 1 .. k}
  /\ IsFiniteSet(marked) /\ Cardinality(marked) = n + k

\* An attribute block away from home means a full home.
HomesFull(T, used, k) ==
  \A j \in 1 .. k, g \in Groups :
    Slot(j) \in InodeRange(g) /\ T[Slot(j)].attr \notin GroupData(g) => used[g] = GroupData(g)

\* The blocks hold what their owners wrote.
BlocksHold(d, k, ids, n, v) ==
  /\ \A x \in ToSet(Table(d)[Ancillary].ext) : d[x] = <<"anc", v, n>>
  /\ \A j \in 1 .. k : d[Table(d)[Slot(j)].attr] = <<"attr", ids[j]>>

\* The shape of the work, also of one that has failed: outside the table and
\* the blocks given out the device d0 is as it was.
WorkShape(d0, w) ==
  /\ w = [d |-> w.d, used |-> w.used, ib |-> w.ib, hint |-> w.hint, ok |-> w.ok] /\ w.ok \in BOOLEAN
  /\ Formed(w.d) /\ UsedOK(w.used)
  /\ \A b \in 0 .. (Total - 1) : b \notin Given(w.used) \cup {InodeTable} => w.d[b] = d0[b]

WorkHolds(w, k, ids, cnt, files, n, v) ==
  /\ w.hint = FirstUser + k /\ FirstUser + k <= InodeCount
  /\ w.ib = {0, Ancillary} \cup FirstUser .. (FirstUser + k - 1)
  /\ TableHolds(Table(w.d), k, ids, cnt, files, n, v)
  /\ MarksMatch(Table(w.d), Given(w.used), k, n)
  /\ HomesFull(Table(w.d), w.used, k)
  /\ BlocksHold(w.d, k, ids, n, v)

\* Blocks of the groups lie between the control blocks and the end.
LEMMA GivenPlace ==
  ASSUME NEW used, UsedOK(used)
  PROVE  Given(used) \subseteq Area
<1>1. \A g \in Groups : GroupData(g) \subseteq Area
  <2> SUFFICES ASSUME NEW g \in Groups, NEW x \in GroupData(g) PROVE x \in Area
    OBVIOUS
  <2>1. x \in 6 .. (Total - 3)
    BY DataPlace
  <2> QED
    BY <2>1, Geometry DEF Area
<1> QED
  BY <1>1 DEF Given, UsedOK

\* A save that fails for want of a slot or a block stops with what it has.
LEMMA StoppedShape ==
  ASSUME NEW d0, NEW w, WorkShape(d0, w)
  PROVE  WorkShape(d0, Stopped(w)) /\ Stopped(w).ok = FALSE
<1> DEFINE u == [d |-> w.d, used |-> w.used, ib |-> w.ib, hint |-> w.hint, ok |-> FALSE]
<1>1. Stopped(w) = u
  BY DEF Stopped
<1>2. u.d = w.d /\ u.used = w.used /\ u.ok = FALSE /\ u.ib = w.ib /\ u.hint = w.hint
  OBVIOUS
<1>3. u = [d |-> u.d, used |-> u.used, ib |-> u.ib, hint |-> u.hint, ok |-> u.ok]
  OBVIOUS
<1> HIDE DEF u
<1> QED
  BY <1>1, <1>2, <1>3 DEF WorkShape

\* The constants of the inode table.
LEMMA SlotRange ==
  /\ FirstUser \in Nat /\ InodeCount \in Nat /\ Ancillary = 1 /\ Ancillary < FirstUser /\ FirstUser <= InodeCount
  /\ Slots = 0 .. (InodeCount - 1) /\ Ancillary \in Slots
  BY GroupsFit DEF Slots, Ancillary

\* The ancillary state is written first: a record and its run of blocks.
LEMMA AncillaryStep ==
  ASSUME NEW d, Formed(d), NEW n \in Nat \ {0}, NEW v, NEW ids, NEW cnt, NEW files
  PROVE  LET w == WriteAncillary(Work(d), n, v)
         IN  WorkShape(d, w) /\ (w.ok => WorkHolds(w, 0, ids, cnt, files, n, v))
<1> DEFINE w0 == Work(d)
<1> DEFINE ext == AllocateNear(w0.used, n, Ancillary)
<1> DEFINE w == WriteAncillary(w0, n, v)
<1>1. /\ w0 = [d |-> w0.d, used |-> w0.used, ib |-> w0.ib, hint |-> w0.hint, ok |-> w0.ok]
      /\ w0.d = d /\ w0.used = [g \in Groups |-> {}] /\ w0.ib = {0, Ancillary} /\ w0.hint = FirstUser /\ w0.ok = TRUE
  BY DEF Work
<1> HIDE DEF w0
<1>2. UsedOK(w0.used) /\ Given(w0.used) = {}
  BY <1>1 DEF UsedOK, Given
<1>3. WorkShape(d, w0)
  BY <1>1, <1>2 DEF WorkShape
<1>4. CASE ext = <<>>
  <2>1. w = Stopped(w0)
    BY <1>4 DEF WriteAncillary
  <2> QED
    BY <1>3, <2>1, StoppedShape DEF w0
<1>5. CASE ext # <<>>
  <2>1. PICK g \in Groups, b \in Nat : ext = Run(b, n) /\ b .. (b + n - 1) \subseteq GroupData(g) \ w0.used[g]
    BY <1>5, NearGives DEF NearRun
  <2> DEFINE S == b .. (b + n - 1)
  <2>2. ToSet(ext) = S /\ DOMAIN ext = 1 .. n /\ Len(ext) = n
    BY <2>1, RunBlocks DEF Run
  <2> DEFINE rec == [kind |-> "system", id |-> 0, ext |-> ext, attr |-> 0, del |-> FALSE, crc |-> <<"anc", v, n>>]
  <2> DEFINE cell == <<"anc", v, n>>
  <2> DEFINE e == WithRecord(Put(d, S, cell), Ancillary, rec)
  <2> DEFINE used == Mark(w0.used, ext)
  <2>3. w = [d |-> e, used |-> used, ib |-> w0.ib, hint |-> w0.hint, ok |-> TRUE]
    BY <1>1, <1>5, <2>2 DEF WriteAncillary
  <2> HIDE DEF w
  <2>4. UsedOK(used) /\ Given(used) = S
    <3>1. ToSet(ext) \subseteq GroupData(g)
      BY <2>1, <2>2
    <3>2. UsedOK(used) /\ Given(used) = Given(w0.used) \cup ToSet(ext)
      BY <1>2, <3>1, Marks
    <3> QED
      BY <1>2, <2>2, <3>2
  <2> HIDE DEF used
  <2>5. S \subseteq Area
    BY <2>4, GivenPlace
  <2>6. rec.kind = "system" /\ rec.crc = <<"anc", v, n>> /\ rec.ext = ext
    OBVIOUS
  <2> HIDE DEF rec, cell, S
  <2>7. /\ Formed(e) /\ Table(e)[Ancillary] = rec
        /\ \A x \in S : e[x] = cell
        /\ \A x \in 0 .. (Total - 1) : x \notin S \cup {InodeTable} => e[x] = d[x]
    <3>1. Recorded(e, d, S, cell, Ancillary, rec)
      BY <2>5, RecordCells, SlotRange
    <3> QED
      BY <3>1 DEF Recorded
  <2> HIDE DEF ext, e
  <2>8. w.d = e /\ w.used = used /\ w.ib = {0, Ancillary} /\ w.hint = FirstUser /\ w.ok = TRUE
        /\ w = [d |-> w.d, used |-> w.used, ib |-> w.ib, hint |-> w.hint, ok |-> w.ok]
    BY <1>1, <2>3
  <2>9. WorkShape(d, w)
    BY <2>4, <2>7, <2>8 DEF WorkShape
  <2>10. TableHolds(Table(e), 0, ids, cnt, files, n, v)
    BY <2>2, <2>6, <2>7 DEF TableHolds
  <2>11. MarksMatch(Table(e), Given(used), 0, n)
    <3>1. IsFiniteSet(S) /\ Cardinality(S) = n
      <4>1. b \in Int /\ b + n - 1 \in Int /\ b <= b + n - 1
        OBVIOUS
      <4>2. IsFiniteSet(S) /\ Cardinality(S) = (b + n - 1) - b + 1
        BY <4>1, FS_Interval DEF S
      <4> QED
        BY <4>2
    <3> QED
      BY <2>2, <2>4, <2>6, <2>7, <3>1 DEF MarksMatch
  <2>12. HomesFull(Table(e), used, 0) /\ BlocksHold(e, 0, ids, n, v)
    BY <2>2, <2>6, <2>7 DEF HomesFull, BlocksHold, cell
  <2>13. FirstUser .. (FirstUser + 0 - 1) = {} /\ FirstUser + 0 = FirstUser
    BY SlotRange
  <2>14. WorkHolds(w, 0, ids, cnt, files, n, v)
    BY <2>8, <2>10, <2>11, <2>12, <2>13, SlotRange DEF WorkHolds
  <2> QED
    BY <2>9, <2>14 DEF w, w0
<1> QED
  BY <1>4, <1>5

\* The search for a slot finds the one after those in use.
LEMMA NextSlot ==
  ASSUME NEW w, NEW k \in Nat, w.hint = FirstUser + k, FirstUser + k <= InodeCount,
         w.ib = {0, Ancillary} \cup FirstUser .. (FirstUser + k - 1), FreeSlots(w) # {}
  PROVE  Min(FreeSlots(w)) = Slot(k + 1) /\ Slot(k + 1) \in Slots /\ FirstUser + (k + 1) <= InodeCount
<1> DEFINE F == FreeSlots(w)
<1>1. F = (FirstUser + k) .. (InodeCount - 1)
  BY SlotRange DEF FreeSlots
<1>2. F \in SUBSET Nat
  BY <1>1, SlotRange
<1>3. Min(F) \in F /\ \A y \in F : Min(F) <= y
  BY <1>2, MinNat
<1> HIDE DEF F
<1>4. FirstUser + k \in F /\ Min(F) \in Nat /\ Min(F) >= FirstUser + k /\ FirstUser + k <= InodeCount - 1
  BY <1>1, <1>3, SlotRange
<1>5. Min(F) = FirstUser + k
  BY <1>3, <1>4, SlotRange
<1> QED
  BY <1>4, <1>5, SlotRange DEF F, Slot

\* Slots of inodes already written.
LEMMA SlotsBelow ==
  ASSUME NEW k \in Nat, FirstUser + k <= InodeCount, NEW j \in 1 .. k
  PROVE  Slot(j) \in Slots /\ Slot(j) # Ancillary /\ Slot(j) # Slot(k + 1) /\ Slot(k + 1) # Ancillary
  BY SlotRange DEF Slot

\* One more inode: its record, its attribute block, and its mark.
LEMMA UserStep ==
  ASSUME NEW d0, NEW w, WorkShape(d0, w), NEW k \in Nat, NEW n \in Nat \ {0}, NEW v,
         NEW ids, NEW cnt, NEW files, w.ok => WorkHolds(w, k, ids, cnt, files, n, v)
  PROVE  LET u == WriteUserInode(w, ids[k + 1], files[ids[k + 1]], k + 1 > cnt)
         IN  WorkShape(d0, u) /\ (u.ok => WorkHolds(u, k + 1, ids, cnt, files, n, v))
<1> DEFINE u == WriteUserInode(w, ids[k + 1], files[ids[k + 1]], k + 1 > cnt)
<1> DEFINE s == Min(FreeSlots(w))
<1> DEFINE ext == AllocateNear(w.used, 1, s)
<1>1. CASE ~w.ok
  <2>1. u = w
    BY <1>1 DEF WriteUserInode
  <2> QED
    BY <1>1, <2>1
<1>2. CASE w.ok /\ (FreeSlots(w) = {} \/ ext = <<>>)
  <2>1. u = Stopped(w)
    BY <1>2 DEF WriteUserInode
  <2> QED
    BY <2>1, StoppedShape
<1>3. CASE w.ok /\ FreeSlots(w) # {} /\ ext # <<>>
  <2>1. WorkHolds(w, k, ids, cnt, files, n, v) /\ Formed(w.d) /\ UsedOK(w.used)
    BY <1>3 DEF WorkShape
  <2> DEFINE rec == [kind |-> "file", id |-> ids[k + 1], ext |-> files[ids[k + 1]].ext,
                     attr |-> ext[1], del |-> k + 1 > cnt, crc |-> files[ids[k + 1]].crc]
  <2> DEFINE cell == <<"attr", ids[k + 1]>>
  <2> DEFINE e == WithRecord(Put(w.d, ToSet(ext), cell), s, rec)
  <2> DEFINE used == Mark(w.used, ext)
  <2>2. u = [d |-> e, used |-> used, ib |-> w.ib \cup {s}, hint |-> s + 1, ok |-> TRUE]
    BY <1>3 DEF WriteUserInode
  <2> HIDE DEF u
  <2>3. s = Slot(k + 1) /\ s \in Slots /\ FirstUser + (k + 1) <= InodeCount
    BY <1>3, <2>1, NextSlot DEF WorkHolds
  <2>4. PICK g \in Groups, b \in Nat :
          /\ ext = Run(b, 1) /\ b .. (b + 1 - 1) \subseteq GroupData(g) \ w.used[g]
          /\ \A h \in Groups : s \in InodeRange(h) /\ h # g => TryAllocateInGroup(w.used[h], h, 1) = {}
    <3>1. NearRun(ext, w.used, 1, s)
      BY <1>3, NearGives
    <3> QED
      BY <3>1 DEF NearRun
  <2>5. b .. (b + 1 - 1) = {b} /\ b \in GroupData(g) \ w.used[g]
    BY <2>4
  <2>6. ToSet(ext) = {b} /\ ext[1] = b
    BY <2>4, <2>5, RunBlocks
  <2> HIDE DEF ext
  <2>7. UsedOK(used) /\ Given(used) = Given(w.used) \cup {b} /\ \A h \in Groups : w.used[h] \subseteq used[h]
    BY <2>1, <2>5, <2>6, Marks
  <2>8. b \notin Given(w.used)
    BY <2>1, <2>5, RunFresh
  <2> HIDE DEF used
  <2>9. b \in Area /\ Given(w.used) \subseteq Area
    BY <2>1, <2>7, GivenPlace
  <2>10. /\ rec.attr = b
         /\ rec = [kind |-> "file", id |-> ids[k + 1], ext |-> files[ids[k + 1]].ext,
                   attr |-> rec.attr, del |-> k + 1 > cnt, crc |-> files[ids[k + 1]].crc]
    BY <2>6
  <2> HIDE DEF s, rec, cell
  <2>11. Recorded(e, w.d, {b}, cell, s, rec)
    BY <2>1, <2>3, <2>6, <2>9, RecordCells
  <2> HIDE DEF e
  <2>12. u.d = e /\ u.used = used /\ u.ib = w.ib \cup {s} /\ u.hint = s + 1 /\ u.ok = TRUE
         /\ u = [d |-> u.d, used |-> u.used, ib |-> u.ib, hint |-> u.hint, ok |-> u.ok]
    BY <2>2
  <2>13. WorkShape(d0, u)
    <3>1. \A x \in 0 .. (Total - 1) : x \notin Given(used) \cup {InodeTable} => e[x] = d0[x]
      BY <2>7, <2>11 DEF WorkShape, Recorded
    <3> QED
      BY <2>7, <2>11, <2>12, <3>1 DEF WorkShape, Recorded
  <2>14. \A j \in 1 .. k : Slot(j) \in Slots \ {s}
    BY <2>1, <2>3, SlotsBelow DEF WorkHolds
  <2>15. Ancillary \in Slots \ {s}
    BY <2>3, SlotRange DEF Slot
  <2>16. /\ Table(e)[Ancillary] = Table(w.d)[Ancillary]
         /\ \A j \in 1 .. k : Table(e)[Slot(j)] = Table(w.d)[Slot(j)]
         /\ Table(e)[Slot(k + 1)] = rec
    BY <2>3, <2>11, <2>14, <2>15 DEF Recorded
  <2>17. \A j \in 1 .. (k + 1) : j \in 1 .. k \/ j = k + 1
    OBVIOUS
  <2>18. TableHolds(Table(e), k + 1, ids, cnt, files, n, v)
    <3>1. TableHolds(Table(w.d), k, ids, cnt, files, n, v)
      BY <2>1 DEF WorkHolds
    <3> QED
      BY <2>10, <2>16, <2>17, <3>1 DEF TableHolds
  <2>19. MarksMatch(Table(e), Given(used), k + 1, n)
    <3>1. MarksMatch(Table(w.d), Given(w.used), k, n)
      BY <2>1 DEF WorkHolds
    <3>2. {Table(e)[Slot(j)].attr : j \in 1 .. (k + 1)} = {Table(w.d)[Slot(j)].attr : j \in 1 .. k} \cup {b}
      <4>1. Table(e)[Slot(k + 1)].attr = b /\ k + 1 \in 1 .. (k + 1) /\ \A j \in 1 .. k : j \in 1 .. (k + 1)
        BY <2>10, <2>16
      <4> QED
        BY <2>16, <2>17, <4>1
    <3>3. IsFiniteSet(Given(used)) /\ Cardinality(Given(used)) = Cardinality(Given(w.used)) + 1
      <4>1. IsFiniteSet(Given(w.used))
        BY <3>1 DEF MarksMatch
      <4>2. /\ IsFiniteSet(Given(w.used) \cup {b})
            /\ Cardinality(Given(w.used) \cup {b}) = Cardinality(Given(w.used)) + 1
        BY <2>8, <4>1, FS_AddElement
      <4> QED
        BY <2>7, <4>2
    <3>4. Cardinality(Given(used)) = n + (k + 1)
      BY <3>1, <3>3 DEF MarksMatch
    <3> QED
      BY <2>7, <2>16, <3>1, <3>2, <3>3, <3>4 DEF MarksMatch
  <2>20. HomesFull(Table(e), used, k + 1)
    <3> SUFFICES ASSUME NEW j \in 1 .. (k + 1), NEW h \in Groups, Slot(j) \in InodeRange(h),
                        Table(e)[Slot(j)].attr \notin GroupData(h)
                 PROVE  used[h] = GroupData(h)
      BY DEF HomesFull
    <3>1. w.used[h] = GroupData(h)
      <4>1. CASE j \in 1 .. k
        BY <2>1, <2>16, <4>1 DEF WorkHolds, HomesFull
      <4>2. CASE j = k + 1
        <5>1. s \in InodeRange(h) /\ h # g
          BY <2>3, <2>5, <2>10, <2>16, <4>2
        <5>2. TryAllocateInGroup(w.used[h], h, 1) = {}
          BY <2>4, <5>1
        <5>3. \A x \in GroupData(h) : x \in w.used[h]
          <6> SUFFICES ASSUME NEW x \in GroupData(h), x \notin w.used[h] PROVE FALSE
            OBVIOUS
          <6>1. x \in Nat
            BY DataPlace
          <6>2. x .. (x + 1 - 1) = {x}
            BY <6>1
          <6> QED
            BY <5>2, <6>2 DEF TryAllocateInGroup
        <5> QED
          BY <2>1, <5>3 DEF UsedOK
      <4> QED
        BY <2>17, <4>1, <4>2
    <3> QED
      BY <2>7, <3>1 DEF UsedOK
  <2>21. BlocksHold(e, k + 1, ids, n, v)
    <3>1. BlocksHold(w.d, k, ids, n, v) /\ MarksMatch(Table(w.d), Given(w.used), k, n)
      BY <2>1 DEF WorkHolds
    <3>2. ASSUME NEW x \in Given(w.used) PROVE e[x] = w.d[x]
      <4>1. x \in 0 .. (Total - 1) /\ x # InodeTable /\ x # b
        BY <2>8, <2>9, Geometry DEF Area
      <4> QED
        BY <2>11, <4>1 DEF Recorded
    <3>3. \A x \in ToSet(Table(e)[Ancillary].ext) : e[x] = <<"anc", v, n>>
      BY <2>16, <3>1, <3>2 DEF BlocksHold, MarksMatch
    <3>4. \A j \in 1 .. k : e[Table(e)[Slot(j)].attr] = <<"attr", ids[j]>>
      BY <2>16, <3>1, <3>2 DEF BlocksHold, MarksMatch
    <3>5. e[Table(e)[Slot(k + 1)].attr] = <<"attr", ids[k + 1]>>
      BY <2>10, <2>11, <2>16 DEF Recorded, cell
    <3> QED
      BY <2>17, <3>3, <3>4, <3>5 DEF BlocksHold
  <2>22. s + 1 = FirstUser + (k + 1) /\ w.ib \cup {s} = {0, Ancillary} \cup FirstUser .. (FirstUser + (k + 1) - 1)
    BY <2>1, <2>3, SlotRange DEF WorkHolds, Slot
  <2>23. WorkHolds(u, k + 1, ids, cnt, files, n, v)
    BY <2>3, <2>12, <2>18, <2>19, <2>20, <2>21, <2>22 DEF WorkHolds
  <2> QED
    BY <2>13, <2>23 DEF u
<1> QED
  <2>1. w.ok \in BOOLEAN
    BY DEF WorkShape
  <2> QED
    BY <1>1, <1>2, <1>3, <2>1

\* The work of a whole save, whether it failed or not.
SaveDone(d, w, ids, cnt, files, n, v) ==
  WorkShape(d, w) /\ (w.ok => WorkHolds(w, Len(ids), ids, cnt, files, n, v))

\* save_state_native_grouped, up to the writing of the maps.
LEMMA SaveWork ==
  ASSUME NEW d, Formed(d), NEW files, NEW active, NEW deleted, NEW n \in Nat \ {0}, NEW v,
         Len(active \o deleted) \in Nat
  PROVE  SaveDone(d, SaveNativeGrouped(d, files, active, deleted, n, v),
                  active \o deleted, Len(active), files, n, v)
<1> DEFINE ids == active \o deleted
<1> DEFINE cnt == Len(active)
<1>0. PICK w : /\ SaveSteps(w, d, files, active \o deleted, Len(active), n, v)
               /\ SaveNativeGrouped(d, files, active, deleted, n, v) = w[Len(active \o deleted)]
  BY SaveChain
<1>1. /\ w[0] = WriteAncillary(Work(d), n, v)
      /\ \A k \in 1 .. Len(ids) : w[k] = WriteUserInode(w[k - 1], ids[k], files[ids[k]], k > cnt)
      /\ SaveNativeGrouped(d, files, active, deleted, n, v) = w[Len(ids)]
  BY <1>0 DEF SaveSteps
<1> DEFINE Good(k) == WorkShape(d, w[k]) /\ (w[k].ok => WorkHolds(w[k], k, ids, cnt, files, n, v))
<1> HIDE DEF ids, cnt
<1>2. Good(0)
  BY <1>1, AncillaryStep
<1>3. ASSUME NEW k \in Nat, k + 1 <= Len(ids), Good(k) PROVE Good(k + 1)
  <2>1. k + 1 \in 1 .. Len(ids) /\ (k + 1) - 1 = k
    BY <1>3 DEF ids
  <2>2. w[k + 1] = WriteUserInode(w[k], ids[k + 1], files[ids[k + 1]], k + 1 > cnt)
    BY <1>1, <2>1
  <2> QED
    BY <1>3, <2>2, UserStep
<1>4. Len(ids) \in Nat
  BY DEF ids
<1>5. Good(Len(ids))
  <2> DEFINE B == {k \in Nat : k <= Len(ids) /\ ~Good(k)}
  <2> HIDE DEF Good
  <2>1. SUFFICES ASSUME B # {} PROVE FALSE
    BY <1>4
  <2>2. PICK m \in B : \A y \in B : m <= y
    BY <2>1, LeastNat
  <2>3. m # 0
    BY <1>2
  <2>4. m - 1 \in Nat /\ m - 1 <= Len(ids) /\ (m - 1) + 1 = m
    BY <1>4, <2>3
  <2>5. Good(m - 1)
    BY <2>2, <2>4
  <2>6. Good((m - 1) + 1)
    BY <1>3, <2>4, <2>5
  <2> QED
    BY <2>4, <2>6
<1> QED
  BY <1>1, <1>5 DEF SaveDone, ids, cnt

-----------------------------------------------------------------------------
(* The end of a save: the maps and the superblocks.                          *)

Supers == {Primary} \cup Copies

\* What Finish leaves of the work w on the device e.
Finished(e, w, gen) ==
  LET c == RefreshDescriptors(w.used)
  IN  /\ Formed(e) /\ Table(e) = Table(w.d)
      /\ \A g \in Groups : e[BitmapBlock(g)] = <<"bits", w.used[g]>>
      /\ e[GroupTable] = c /\ e[InodeBitmap] = <<"bits", w.ib>>
      /\ \A b \in Supers : e[b] = Super(gen, SumFunction(c[2].free), InodeCount - Cardinality(w.ib))
      /\ \A b \in Area : b \notin Copies /\ (\A g \in Groups : b # BitmapBlock(g)) => e[b] = w.d[b]

\* The control blocks, the copies and the bitmaps are different blocks.
LEMMA ControlPlace ==
  /\ Primary = 1 /\ GroupTable = 2 /\ InodeBitmap = 3 /\ InodeTable = 4
  /\ {Primary, GroupTable, InodeBitmap, InodeTable} \subseteq 0 .. (Total - 1)
  /\ Area \subseteq 0 .. (Total - 1) /\ {1, 2, 3, 4} \cap Area = {} /\ Copies \subseteq Area
  /\ \A g \in Groups : BitmapBlock(g) \in Area \ Copies
<1>1. Total \in Nat /\ Total > 10
  BY CopyPlace
<1>2. Primary = 1 /\ GroupTable = 2 /\ InodeBitmap = 3 /\ InodeTable = 4
  BY DEF Primary, GroupTable, InodeBitmap, InodeTable
<1>3. Copies \subseteq Area
  BY CopyPlace, <1>1 DEF Area
<1>4. \A g \in Groups : BitmapBlock(g) \in Area \ Copies
  <2> SUFFICES ASSUME NEW g \in Groups PROVE BitmapBlock(g) \in Area \ Copies
    OBVIOUS
  <2>1. BitmapBlock(g) \in 5 .. (Total - 3) /\ BitmapBlock(g) \notin Copies
    BY DataPlace, GroupsFit
  <2> QED
    BY <1>1, <2>1 DEF Area
<1> QED
  BY <1>1, <1>2, <1>3, <1>4 DEF Area

\* Finish writes the maps and the superblocks over nothing else.
LEMMA FinishCells ==
  ASSUME NEW d0, NEW w, WorkShape(d0, w), NEW gen
  PROVE  Finished(Finish(w, gen), w, gen)
<1> DEFINE c == RefreshDescriptors(w.used)
<1> DEFINE sb == Super(gen, SumFunction(c[2].free), InodeCount - Cardinality(w.ib))
<1> DEFINE m == WithBitmaps(w.d, w.used)
<1> DEFINE p == Put(m, {GroupTable}, c)
<1> DEFINE q == Put(p, {InodeBitmap}, <<"bits", w.ib>>)
<1> DEFINE e == Put(q, Supers, sb)
<1>1. Finish(w, gen) = e
  BY DEF Finish, Written, Supers
<1> HIDE DEF c, sb
<1>2. /\ IsDevice(m) /\ \A g \in Groups : m[BitmapBlock(g)] = <<"bits", w.used[g]>>
      /\ \A b \in 0 .. (Total - 1) : (\A g \in Groups : b # BitmapBlock(g)) => m[b] = w.d[b]
  BY BitmapCells DEF WorkShape, Formed
<1> HIDE DEF m
<1>3. IsDevice(p) /\ \A b \in 0 .. (Total - 1) : p[b] = IF b \in {GroupTable} THEN c ELSE m[b]
  BY <1>2, PutCells
<1> HIDE DEF p
<1> DEFINE ib == <<"bits", w.ib>>
<1> HIDE DEF ib
<1>4. q = Put(p, {InodeBitmap}, ib)
  BY DEF ib
<1> HIDE DEF q
<1>5. IsDevice(q) /\ \A b \in 0 .. (Total - 1) : q[b] = IF b \in {InodeBitmap} THEN ib ELSE p[b]
  BY <1>3, <1>4, PutCells
<1>6. IsDevice(e) /\ \A b \in 0 .. (Total - 1) : e[b] = IF b \in Supers THEN sb ELSE q[b]
  BY <1>5, PutCells
<1> HIDE DEF e
<1>7. Supers \subseteq 0 .. (Total - 1) /\ {GroupTable, InodeBitmap, InodeTable} \cap Supers = {}
  BY ControlPlace DEF Supers
<1>8. e[InodeTable] = w.d[InodeTable] /\ e[GroupTable] = c /\ e[InodeBitmap] = ib
  BY <1>2, <1>3, <1>5, <1>6, <1>7, ControlPlace
<1>9. ASSUME NEW g \in Groups PROVE e[BitmapBlock(g)] = <<"bits", w.used[g]>>
  <2>1. BitmapBlock(g) \in 0 .. (Total - 1) /\ BitmapBlock(g) \notin Supers \cup {GroupTable, InodeBitmap}
    BY ControlPlace DEF Supers
  <2> QED
    BY <1>2, <1>3, <1>5, <1>6, <2>1
<1>10. ASSUME NEW b \in Area, b \notin Copies, \A g \in Groups : b # BitmapBlock(g)
       PROVE  e[b] = w.d[b]
  <2>1. b \in 0 .. (Total - 1) /\ b \notin Supers \cup {GroupTable, InodeBitmap}
    BY <1>10, ControlPlace DEF Supers
  <2> QED
    BY <1>2, <1>3, <1>5, <1>6, <1>10, <2>1
<1>11. Formed(e) /\ Table(e) = Table(w.d)
  BY <1>6, <1>8 DEF Formed, Table, WorkShape
<1>12. \A b \in Supers : e[b] = sb
  BY <1>6, <1>7
<1> QED
  BY <1>1, <1>8, <1>9, <1>10, <1>11, <1>12 DEF Finished, c, sb, ib

-----------------------------------------------------------------------------
(* The caller's files on the device.                                         *)

\* A block the caller's block store may use for contents.
IsPlace(b) == \E g \in Groups : b \in GroupData(g) \ Copies

\* Every file is empty or has one such block.
PlacesOK(files) ==
  \A id \in DOMAIN files : files[id].ext = <<>> \/ \E b \in Nat : IsPlace(b) /\ files[id].ext = <<b>>

\* The cells a volume has besides the table: bits of each group for its own
\* blocks or damage, descriptors or damage, and bits for slots.
MapsFormed(d) ==
  /\ \A g \in Groups : d[BitmapBlock(g)][1] \in {"bits", "junk"} /\ Bits(d, BitmapBlock(g)) \subseteq GroupData(g)
  /\ d[GroupTable][1] \in {"groups", "junk"} /\ Bits(d, InodeBitmap) \subseteq Slots

Volume(d) == Formed(d) /\ MapsFormed(d)

\* The cells of the volume outside the blocks of the groups decide its maps.
LEMMA SameMaps ==
  ASSUME NEW d, NEW e, MapsFormed(d),
         \A g \in Groups : e[BitmapBlock(g)] = d[BitmapBlock(g)],
         e[GroupTable] = d[GroupTable], e[InodeBitmap] = d[InodeBitmap]
  PROVE  MapsFormed(e)
  BY DEF MapsFormed, Bits

\* Where contents may lie there is no control block and no bitmap.
LEMMA PlaceApart ==
  ASSUME NEW b, IsPlace(b)
  PROVE  /\ b \in Area /\ b \in 0 .. (Total - 1) /\ b \notin Copies /\ b \notin {1, 2, 3, 4}
         /\ \A g \in Groups : b # BitmapBlock(g)
<1>1. PICK g \in Groups : b \in GroupData(g) \ Copies
  BY DEF IsPlace
<1>2. b \in 6 .. (Total - 3) /\ Total \in Nat /\ Total > 10
  BY <1>1, DataPlace, CopyPlace
<1>3. \A h \in Groups : b # BitmapBlock(h)
  BY <1>1, DataPlace
<1> QED
  BY <1>1, <1>2, <1>3 DEF Area

\* BlockStore writes contents into the blocks of its files only.
LEMMA DataCells ==
  ASSUME NEW d, IsDevice(d), NEW files, PlacesOK(files), NEW v
  PROVE  /\ IsDevice(WithData(d, files, v))
         /\ \A b \in 0 .. (Total - 1) : ~IsPlace(b) => WithData(d, files, v)[b] = d[b]
<1> DEFINE Owner(b) == {id \in DOMAIN files : files[id].ext = <<b>> /\ files[id].crc = <<"data", id, v>>}
<1> DEFINE e == WithData(d, files, v)
<1>1. DOMAIN d = 0 .. (Total - 1)
  BY DEF IsDevice
<1>2. e = [b \in 0 .. (Total - 1) |-> IF Owner(b) = {} THEN d[b] ELSE <<"data", CHOOSE id \in Owner(b) : TRUE, v>>]
  BY <1>1 DEF WithData
<1>3. ASSUME NEW b \in 0 .. (Total - 1), ~IsPlace(b) PROVE Owner(b) = {}
  <2> SUFFICES ASSUME NEW id \in Owner(b) PROVE FALSE
    OBVIOUS
  <2>1. id \in DOMAIN files /\ files[id].ext = <<b>>
    OBVIOUS
  <2>2. PICK x \in Nat : IsPlace(x) /\ files[id].ext = <<x>>
    BY <2>1 DEF PlacesOK
  <2>3. x = b
    BY <2>1, <2>2
  <2> QED
    BY <1>3, <2>2, <2>3
<1> HIDE DEF e, Owner
<1>4. \A b \in 0 .. (Total - 1) : ~IsPlace(b) => e[b] = d[b]
  BY <1>2, <1>3
<1>5. IsDevice(e)
  BY <1>2 DEF IsDevice
<1> QED
  BY <1>4, <1>5 DEF e

\* ... so that the volume stays one.
LEMMA DataKeepsVolume ==
  ASSUME NEW d, Volume(d), NEW files, PlacesOK(files), NEW v
  PROVE  Volume(WithData(d, files, v))
<1> DEFINE e == WithData(d, files, v)
<1>1. IsDevice(e) /\ \A b \in 0 .. (Total - 1) : ~IsPlace(b) => e[b] = d[b]
  BY DataCells DEF Volume, Formed
<1> HIDE DEF e
<1>2. \A b \in {InodeTable, GroupTable, InodeBitmap} : b \in 0 .. (Total - 1) /\ ~IsPlace(b)
  BY PlaceApart, ControlPlace
<1>3. \A g \in Groups : BitmapBlock(g) \in 0 .. (Total - 1) /\ ~IsPlace(BitmapBlock(g))
  BY PlaceApart, ControlPlace
<1>4. MapsFormed(e)
  BY <1>1, <1>2, <1>3, SameMaps DEF Volume
<1>5. Formed(e)
  BY <1>1, <1>2 DEF Formed, Volume, Table
<1> QED
  BY <1>4, <1>5 DEF Volume, e

\* A save that fails leaves a volume.
LEMMA WorkKeepsVolume ==
  ASSUME NEW d, Volume(d), NEW w, WorkShape(d, w)
  PROVE  Volume(w.d)
<1>1. Given(w.used) \subseteq UNION {GroupData(g) : g \in Groups}
  BY DEF WorkShape, UsedOK, Given
<1>2. \A b \in {GroupTable, InodeBitmap} : b \in 0 .. (Total - 1) /\ b \notin Given(w.used) \cup {InodeTable}
  BY <1>1, ControlPlace, DataPlace
<1>3. \A g \in Groups : BitmapBlock(g) \in 0 .. (Total - 1) /\ BitmapBlock(g) \notin Given(w.used) \cup {InodeTable}
  BY <1>1, ControlPlace, DataPlace
<1>4. MapsFormed(w.d)
  BY <1>2, <1>3, SameMaps DEF Volume, WorkShape
<1> QED
  BY <1>4 DEF Volume, WorkShape

\* A save that is finished leaves a volume.
LEMMA FinishKeepsVolume ==
  ASSUME NEW d, NEW w, WorkShape(d, w), NEW k \in Nat, FirstUser + k <= InodeCount,
         w.ib = {0, Ancillary} \cup FirstUser .. (FirstUser + k - 1), NEW gen, NEW e, Finished(e, w, gen)
  PROVE  Volume(e)
<1>1. \A g \in Groups : Bits(e, BitmapBlock(g)) = w.used[g] /\ e[BitmapBlock(g)][1] = "bits"
  BY DEF Finished, Bits
<1>2. Bits(e, InodeBitmap) = w.ib
  BY DEF Finished, Bits
<1>3. w.ib \subseteq Slots
  BY SlotRange
<1>4. e[GroupTable][1] = "groups"
  BY DEF Finished, RefreshDescriptors, Descriptors
<1> QED
  BY <1>1, <1>2, <1>3, <1>4 DEF Volume, MapsFormed, Finished, WorkShape, UsedOK

-----------------------------------------------------------------------------
(* A call of save_state_native_grouped.                                      *)

\* What the caller passes: its files, the contents it gives them (<<0>> keeps
\* the old ones), and the work w and the generation of the save.
Request(ids, ext, files, active, deleted) ==
  /\ ids = ToSet(active) \cup ToSet(deleted)
  /\ ext \in [ids -> Places(records) \cup {<<0>>}]
  /\ \A i, j \in ids : i # j /\ ext[i] \notin {<<>>, <<0>>} => ext[i] # ext[j]
  /\ \A i \in ids \ DOMAIN records : ext[i] # <<0>>
  /\ files = Changed(records, ids, ext, saves + 1)

Result(files, w, gen, active, deleted, n, ends) ==
  /\ w = SaveNativeGrouped(WithData(disk, files, saves + 1), files, active, deleted, n, saves + 1)
  /\ w.ok = ends /\ ~Overrun(w, files)
  /\ disk' = IF w.ok THEN Finish(w, gen) ELSE w.d
  /\ records' = files

\* What the caller saved.
Contents(ids, deleted, files) == {<<id, id \in ToSet(deleted), files[id].crc>> : id \in ids}

\* The parts of a save.
LEMMA SaveParts ==
  ASSUME NEW active, NEW deleted, NEW n, NEW ends, SaveWith(active, deleted, n, ends)
  PROVE  \E ids, ext, files, w, gen :
           /\ Request(ids, ext, files, active, deleted)
           /\ Result(files, w, gen, active, deleted, n, ends)
           /\ saved' = Contents(ids, deleted, files)
<1>1. PICK ids \in {ToSet(active) \cup ToSet(deleted)} :
      \E ext \in {e \in [ids -> Places(records) \cup {<<0>>}] :
                    (Root \in ids => e[Root] = <<>>) /\ (\A i, j \in ids : i # j /\ e[i] \notin {<<>>, <<0>>} => e[i] # e[j]) /\ \A i \in ids \ DOMAIN records : e[i] # <<0>>} :
      \E files \in {Changed(records, ids, ext, saves + 1)} :
      \E w \in {SaveNativeGrouped(WithData(disk, files, saves + 1), files, active, deleted, n, saves + 1)} :
      \E sb \in ReadSb(disk) :
        /\ disk[GroupTable][1] = "groups" /\ w.ok = ends /\ ~Overrun(w, files)
        /\ disk' = IF w.ok THEN Finish(w, sb.gen + 1) ELSE w.d
        /\ records' = files
        /\ saved' = {<<id, id \in ToSet(deleted), files[id].crc>> : id \in ids}
  BY Zenon DEF SaveWith
<1>2. PICK ext \in {e \in [ids -> Places(records) \cup {<<0>>}] :
                    (Root \in ids => e[Root] = <<>>) /\ (\A i, j \in ids : i # j /\ e[i] \notin {<<>>, <<0>>} => e[i] # e[j]) /\ \A i \in ids \ DOMAIN records : e[i] # <<0>>} :
      \E files \in {Changed(records, ids, ext, saves + 1)} :
      \E w \in {SaveNativeGrouped(WithData(disk, files, saves + 1), files, active, deleted, n, saves + 1)} :
      \E sb \in ReadSb(disk) :
        /\ disk[GroupTable][1] = "groups" /\ w.ok = ends /\ ~Overrun(w, files)
        /\ disk' = IF w.ok THEN Finish(w, sb.gen + 1) ELSE w.d
        /\ records' = files
        /\ saved' = {<<id, id \in ToSet(deleted), files[id].crc>> : id \in ids}
  BY <1>1, Zenon
<1>3. PICK files \in {Changed(records, ids, ext, saves + 1)} :
      \E w \in {SaveNativeGrouped(WithData(disk, files, saves + 1), files, active, deleted, n, saves + 1)} :
      \E sb \in ReadSb(disk) :
        /\ disk[GroupTable][1] = "groups" /\ w.ok = ends /\ ~Overrun(w, files)
        /\ disk' = IF w.ok THEN Finish(w, sb.gen + 1) ELSE w.d
        /\ records' = files
        /\ saved' = {<<id, id \in ToSet(deleted), files[id].crc>> : id \in ids}
  BY <1>2, Zenon
<1>4. PICK w \in {SaveNativeGrouped(WithData(disk, files, saves + 1), files, active, deleted, n, saves + 1)} :
      \E sb \in ReadSb(disk) :
        /\ disk[GroupTable][1] = "groups" /\ w.ok = ends /\ ~Overrun(w, files)
        /\ disk' = IF w.ok THEN Finish(w, sb.gen + 1) ELSE w.d
        /\ records' = files
        /\ saved' = {<<id, id \in ToSet(deleted), files[id].crc>> : id \in ids}
  BY <1>3, Zenon
<1>5. PICK sb \in ReadSb(disk) :
        /\ disk[GroupTable][1] = "groups" /\ w.ok = ends /\ ~Overrun(w, files)
        /\ disk' = IF w.ok THEN Finish(w, sb.gen + 1) ELSE w.d
        /\ records' = files
        /\ saved' = {<<id, id \in ToSet(deleted), files[id].crc>> : id \in ids}
  BY <1>4, Zenon
<1>6. Request(ids, ext, files, active, deleted)
  BY <1>1, <1>2, <1>3 DEF Request
<1>7. Result(files, w, sb.gen + 1, active, deleted, n, ends)
  BY <1>4, <1>5 DEF Result
<1>8. saved' = Contents(ids, deleted, files)
  BY <1>5 DEF Contents
<1> QED
  BY <1>6, <1>7, <1>8

\* The orders in which inodes are saved are sequences of them.
LEMMA OrdersAreSeqs ==
  /\ Orders \subseteq Seq(Files)
  /\ \A active, deleted \in Orders, dirs \in {<<>>, <<Root>>} :
       /\ dirs \o active \in Seq(Files \cup {Root})
       /\ (dirs \o active) \o deleted \in Seq(Files \cup {Root})
       /\ Len((dirs \o active) \o deleted) \in Nat
<1>1. Orders \subseteq Seq(Files)
  <2> SUFFICES ASSUME NEW o \in Orders PROVE o \in Seq(Files)
    OBVIOUS
  <2>1. PICK m \in 0 .. Cardinality(Files) : o \in [1 .. m -> Files]
    BY DEF Orders
  <2>2. Cardinality(Files) \in Nat
    BY FilesAndBounds, FS_CardinalityType
  <2>3. m \in Nat
    BY <2>2
  <2> QED
    BY <2>1, <2>3 DEF Seq
<1>2. ASSUME NEW active \in Orders, NEW deleted \in Orders, NEW dirs \in {<<>>, <<Root>>}
      PROVE  /\ dirs \o active \in Seq(Files \cup {Root})
             /\ (dirs \o active) \o deleted \in Seq(Files \cup {Root})
  <2> DEFINE A == Files \cup {Root}
  <2>1. Seq(Files) \subseteq Seq(A)
    OBVIOUS
  <2>2. active \in Seq(A) /\ deleted \in Seq(A)
    BY <1>1, <2>1
  <2>3. dirs \in Seq(A)
    <3>1. <<>> \in Seq(A) /\ Root \in A
      OBVIOUS
    <3> HIDE DEF A
    <3>2. <<Root>> \in Seq(A)
      BY <3>1
    <3> QED
      BY <3>1, <3>2
  <2> HIDE DEF A
  <2>4. dirs \o active \in Seq(A)
    BY <2>2, <2>3
  <2>5. (dirs \o active) \o deleted \in Seq(A)
    BY <2>2, <2>4
  <2> QED
    BY <2>4, <2>5 DEF A
<1>3. \A s : s \in Seq(Files \cup {Root}) => Len(s) \in Nat
  OBVIOUS
<1> QED
  BY <1>1, <1>2, <1>3

\* The block store chooses free blocks of groups, apart from the superblocks.
LEMMA PlacesArePlaces ==
  ASSUME NEW old
  PROVE  \A p \in Places(old) :
           \/ p = <<>>
           \/ \E b \in Nat : /\ IsPlace(b) /\ p = <<b>>
                             /\ b \notin UNION {ToSet(old[id].ext) : id \in DOMAIN old}
<1> DEFINE taken == UNION {ToSet(old[id].ext) : id \in DOMAIN old}
<1> DEFINE free(g) == GroupData(g) \ (taken \cup Copies)
<1>1. Places(old) = {<<>>} \cup {<<Max(free(g))>> : g \in {x \in Groups : free(x) # {}}}
  BY DEF Places
<1> SUFFICES ASSUME NEW p \in Places(old), p # <<>>
             PROVE  \E b \in Nat : IsPlace(b) /\ p = <<b>> /\ b \notin taken
  BY <1>1
<1> HIDE DEF taken
<1>2. PICK g \in Groups : free(g) # {} /\ p = <<Max(free(g))>>
  BY <1>1
<1>3. free(g) \subseteq 0 .. Total /\ Total \in Nat
  <2>1. GroupData(g) \subseteq 6 .. (Total - 3) /\ Total \in Nat
    BY DataPlace, CopyPlace
  <2> QED
    BY <2>1
<1>4. Max(free(g)) \in free(g)
  <2> DEFINE T == free(g)
  <2>1. T \in SUBSET (0 .. Total) /\ T # {}
    BY <1>2, <1>3
  <2> HIDE DEF T
  <2>2. Max(T) \in T
    BY <1>3, <2>1, MaxNat
  <2> QED
    BY <2>2 DEF T
<1> DEFINE b == Max(free(g))
<1>5. b \in GroupData(g) /\ b \notin taken /\ b \notin Copies
  BY <1>4
<1>6. p = <<b>>
  BY <1>2
<1> HIDE DEF b
<1>7. b \in Nat /\ IsPlace(b)
  BY <1>5, DataPlace DEF IsPlace
<1> QED
  BY <1>5, <1>6, <1>7

\* ... so the files of every request lie in such blocks.
LEMMA RequestPlaces ==
  ASSUME PlacesOK(records), NEW ids, NEW ext, NEW files, NEW active, NEW deleted,
         Request(ids, ext, files, active, deleted)
  PROVE  PlacesOK(files)
<1>1. DOMAIN files = ids
  BY DEF Request, Changed
<1> SUFFICES ASSUME NEW id \in ids
             PROVE  files[id].ext = <<>> \/ \E b \in Nat : IsPlace(b) /\ files[id].ext = <<b>>
  BY <1>1 DEF PlacesOK
<1>2. CASE ext[id] = <<0>>
  <2>1. id \in DOMAIN records /\ files[id] = records[id]
    BY <1>2 DEF Request, Changed
  <2> QED
    BY <2>1 DEF PlacesOK
<1>3. CASE ext[id] # <<0>>
  <2>1. files[id].ext = ext[id]
    BY <1>3 DEF Request, Changed
  <2>2. ext[id] \in Places(records)
    BY <1>3 DEF Request
  <2> QED
    BY <2>1, <2>2, PlacesArePlaces
<1> QED
  BY <1>2, <1>3

\* The work of the save of a request, whatever its outcome.
LEMMA RequestWork ==
  ASSUME Volume(disk), PlacesOK(records), NEW active \in Seq(Files \cup {Root}), NEW deleted \in Orders,
         active \o deleted \in Seq(Files \cup {Root}), NEW n \in AncSizes, NEW ends,
         NEW ids, NEW ext, NEW files, NEW w, NEW gen,
         Request(ids, ext, files, active, deleted), Result(files, w, gen, active, deleted, n, ends)
  PROVE  /\ PlacesOK(files) /\ Volume(WithData(disk, files, saves + 1))
         /\ SaveDone(WithData(disk, files, saves + 1), w, active \o deleted, Len(active), files, n, saves + 1)
         /\ Len(active \o deleted) \in Nat
<1>1. PlacesOK(files)
  BY RequestPlaces
<1>2. Volume(WithData(disk, files, saves + 1))
  BY <1>1, DataKeepsVolume
<1>3. n \in Nat \ {0} /\ Len(active \o deleted) \in Nat
  BY FilesAndBounds
<1> DEFINE d == WithData(disk, files, saves + 1)
<1>4. Formed(d)
  BY <1>2 DEF Volume
<1>5. w = SaveNativeGrouped(d, files, active, deleted, n, saves + 1)
  BY DEF Result
<1> HIDE DEF d
<1>6. SaveDone(d, w, active \o deleted, Len(active), files, n, saves + 1)
  BY <1>3, <1>4, <1>5, SaveWork
<1> QED
  BY <1>1, <1>2, <1>3, <1>6 DEF d

-----------------------------------------------------------------------------
(* The shape of the volume.                                                  *)

VolumeInv == Volume(disk) /\ PlacesOK(records)

\* format_device_grouped makes a volume.
LEMMA FormattedVolume == Volume(FormatDeviceGrouped)
<1> DEFINE none == [g \in Groups |-> {}]
<1> DEFINE a == [b \in 0 .. (Total - 1) |-> <<"zero">>]
<1> DEFINE c == Descriptors([g \in Groups |-> Cardinality(GroupData(g))], none)
<1> DEFINE bits == <<"bits", {}>>
<1> DEFINE table == <<"table", [s \in Slots |-> Unused]>>
<1> DEFINE m == WithBitmaps(a, none)
<1> DEFINE p == Put(m, {GroupTable}, c)
<1> DEFINE q == Put(p, {InodeBitmap}, bits)
<1> DEFINE r == Put(q, {InodeTable}, table)
<1> DEFINE e == Put(r, {Primary} \cup Copies, Super(1, 0, InodeCount))
<1>1. FormatDeviceGrouped = e
  BY DEF FormatDeviceGrouped
<1>2. IsDevice(a) /\ (\A g \in Groups : none[g] = {}) /\ c[1] = "groups"
  BY DEF IsDevice, Descriptors
<1>3. bits[1] = "bits" /\ bits[2] = {} /\ table[1] = "table" /\ table[2] = [s \in Slots |-> Unused]
  OBVIOUS
<1> DEFINE super == Super(1, 0, InodeCount)
<1> HIDE DEF none, c, table, a, super
<1>4. IsDevice(m) /\ \A g \in Groups : m[BitmapBlock(g)] = bits
  BY <1>2, BitmapCells
<1> HIDE DEF bits, m
<1>5. IsDevice(p) /\ \A b \in 0 .. (Total - 1) : p[b] = IF b \in {GroupTable} THEN c ELSE m[b]
  BY <1>4, PutCells
<1> HIDE DEF p
<1>6. IsDevice(q) /\ \A b \in 0 .. (Total - 1) : q[b] = IF b \in {InodeBitmap} THEN bits ELSE p[b]
  BY <1>5, PutCells
<1> HIDE DEF q
<1>7. IsDevice(r) /\ \A b \in 0 .. (Total - 1) : r[b] = IF b \in {InodeTable} THEN table ELSE q[b]
  BY <1>6, PutCells
<1> HIDE DEF r
<1>8. e = Put(r, Supers, super)
  BY DEF super, Supers
<1> HIDE DEF e
<1>9. IsDevice(e) /\ \A b \in 0 .. (Total - 1) : e[b] = IF b \in Supers THEN super ELSE r[b]
  BY <1>7, <1>8, PutCells
<1>10. {GroupTable, InodeBitmap, InodeTable} \cap Supers = {}
  BY ControlPlace DEF Supers
<1>11. e[InodeTable] = table /\ e[GroupTable] = c /\ e[InodeBitmap] = bits
  BY <1>5, <1>6, <1>7, <1>9, <1>10, ControlPlace
<1>12. ASSUME NEW g \in Groups PROVE e[BitmapBlock(g)] = bits
  <2>1. BitmapBlock(g) \in 0 .. (Total - 1) /\ BitmapBlock(g) \notin Supers \cup {GroupTable, InodeBitmap, InodeTable}
    BY ControlPlace DEF Supers
  <2> QED
    BY <1>4, <1>5, <1>6, <1>7, <1>9, <2>1
<1>13. Formed(e)
  BY <1>3, <1>9, <1>11 DEF Formed, Table
<1>14. MapsFormed(e)
  BY <1>2, <1>3, <1>11, <1>12 DEF MapsFormed, Bits
<1> QED
  BY <1>1, <1>13, <1>14 DEF Volume

\* A save, whole or failed, leaves a volume and files in their places.
LEMMA SaveKeepsVolume ==
  ASSUME VolumeInv, NEW active \in Orders, NEW deleted \in Orders, NEW dirs \in {<<>>, <<Root>>},
         NEW n \in AncSizes, NEW ends \in BOOLEAN, SaveWith(dirs \o active, deleted, n, ends)
  PROVE  VolumeInv'
<1> DEFINE act == dirs \o active
<1>1. act \in Seq(Files \cup {Root}) /\ act \o deleted \in Seq(Files \cup {Root})
  BY OrdersAreSeqs
<1>2. SaveWith(act, deleted, n, ends)
  OBVIOUS
<1> HIDE DEF act
<1>3. PICK ids, ext, files, w, gen :
        Request(ids, ext, files, act, deleted) /\ Result(files, w, gen, act, deleted, n, ends)
  BY <1>2, SaveParts
<1> DEFINE d == WithData(disk, files, saves + 1)
<1>4. /\ PlacesOK(files) /\ Volume(d)
      /\ SaveDone(d, w, act \o deleted, Len(act), files, n, saves + 1) /\ Len(act \o deleted) \in Nat
  BY <1>1, <1>3, RequestWork DEF VolumeInv
<1> HIDE DEF d
<1>5. WorkShape(d, w)
  BY <1>4 DEF SaveDone
<1>6. Volume(disk')
  <2>1. CASE w.ok
    <3>1. WorkHolds(w, Len(act \o deleted), act \o deleted, Len(act), files, n, saves + 1)
      BY <1>4, <2>1 DEF SaveDone
    <3>2. Finished(Finish(w, gen), w, gen)
      BY <1>5, FinishCells
    <3>3. Volume(Finish(w, gen))
      BY <1>4, <1>5, <3>1, <3>2, FinishKeepsVolume DEF WorkHolds
    <3> QED
      BY <1>3, <2>1, <3>3 DEF Result
  <2>2. CASE ~w.ok
    BY <1>3, <1>4, <1>5, <2>2, WorkKeepsVolume DEF Result
  <2> QED
    BY <2>1, <2>2
<1> QED
  BY <1>3, <1>4, <1>6 DEF VolumeInv, Result, PlacesOK

\* A damaged block is none of the inode bitmap and the inode table.
LEMMA DamageKeepsVolume ==
  ASSUME VolumeInv, Damage
  PROVE  VolumeInv'
<1>1. PICK b \in DOMAIN disk :
        /\ disk[b][1] \notin {"zero", "table"} /\ b # InodeBitmap
        /\ disk' = [disk EXCEPT ![b] = <<"junk">>]
  BY DEF Damage
<1>2. DOMAIN disk = 0 .. (Total - 1) /\ disk[InodeTable][1] = "table"
  BY DEF VolumeInv, Volume, Formed, IsDevice
<1>3. /\ IsDevice(disk')
      /\ \A x \in 0 .. (Total - 1) : disk'[x] = IF x = b THEN <<"junk">> ELSE disk[x]
  BY <1>1, <1>2 DEF IsDevice
<1>4. b # InodeTable /\ disk'[InodeTable] = disk[InodeTable] /\ disk'[InodeBitmap] = disk[InodeBitmap]
  BY <1>1, <1>2, <1>3, ControlPlace
<1>5. Formed(disk')
  BY <1>3, <1>4 DEF VolumeInv, Volume, Formed, Table
<1>6. MapsFormed(disk')
  <2>1. disk'[GroupTable] \in {disk[GroupTable], <<"junk">>}
    BY <1>3, ControlPlace
  <2>2. \A g \in Groups : disk'[BitmapBlock(g)] \in {disk[BitmapBlock(g)], <<"junk">>}
    BY <1>3, ControlPlace
  <2> QED
    BY <1>4, <2>1, <2>2 DEF VolumeInv, Volume, MapsFormed, Bits
<1> QED
  BY <1>5, <1>6 DEF Damage, VolumeInv, Volume, PlacesOK

\* Nothing but a save or a damage changes the volume.
LEMMA VolumeStep == VolumeInv /\ [Next]_vars => VolumeInv'
<1> SUFFICES ASSUME VolumeInv, [Next]_vars PROVE VolumeInv'
  OBVIOUS
<1>1. CASE Save
  BY <1>1, SaveKeepsVolume DEF Save
<1>2. CASE SaveFails
  BY <1>2, SaveKeepsVolume DEF SaveFails
<1>3. CASE Damage
  BY <1>3, DamageKeepsVolume
<1>4. CASE UNCHANGED vars
  BY <1>4 DEF vars, VolumeInv, Volume, Formed, IsDevice, MapsFormed, Bits, PlacesOK, Table
<1> QED
  BY <1>1, <1>2, <1>3, <1>4 DEF Next

\* A new volume has no files.
LEMMA VolumeInit == Init => VolumeInv
<1> SUFFICES ASSUME Init PROVE VolumeInv
  OBVIOUS
<1>1. DOMAIN records = {}
  BY DEF Init
<1> QED
  BY <1>1, FormattedVolume DEF Init, VolumeInv, PlacesOK

\* Every volume the driver leaves behind, also after a save that failed and
\* under damage, decodes: each bitmap has bits of its own group only, and the
\* inode bitmap those of slots there are.
THEOREM TypeCorrect == Spec => []TypeOK
<1>1. VolumeInv => TypeOK
  BY DEF VolumeInv, Volume, Formed, IsDevice, MapsFormed, TypeOK
<1> QED
  BY <1>1, VolumeInit, VolumeStep, PTL DEF Spec

-----------------------------------------------------------------------------
(* What a finished save accounts for.                                        *)

\* read_primary_superblock_with_fallbacks takes a copy that decodes.
LEMMA ReadsSuper ==
  ASSUME NEW d, NEW c, c[1] = "super",
         \A b \in Supers : d[b] = c \/ d[b][1] # "super",
         \E b \in Supers : d[b] = c
  PROVE  ReadSb(d) = {c[2]}
<1> DEFINE copies == <<d[Primary], d[Total \div 2], d[Total - 1]>>
<1> DEFINE ok == {i \in 1 .. 3 : copies[i][1] = "super"}
<1>1. ReadSb(d) = IF ok = {} THEN {} ELSE {copies[Min(ok)][2]}
  BY DEF ReadSb
<1>2. copies[1] = d[Primary] /\ copies[2] = d[Total \div 2] /\ copies[3] = d[Total - 1]
  OBVIOUS
<1>3. Supers = {Primary, Total \div 2, Total - 1}
  BY DEF Supers, Copies
<1> HIDE DEF copies
<1>4. \A i \in 1 .. 3 : copies[i] = c \/ copies[i][1] # "super"
  <2> SUFFICES ASSUME NEW i \in 1 .. 3 PROVE copies[i] = c \/ copies[i][1] # "super"
    OBVIOUS
  <2>1. i = 1 \/ i = 2 \/ i = 3
    OBVIOUS
  <2> QED
    BY <1>2, <1>3, <2>1
<1>5. \E i \in 1 .. 3 : copies[i] = c
  BY <1>2, <1>3
<1>6. ok \in SUBSET Nat /\ ok # {} /\ \A i \in ok : copies[i] = c
  BY <1>4, <1>5
<1> HIDE DEF ok
<1>7. Min(ok) \in ok
  BY <1>6, MinNat
<1> QED
  BY <1>1, <1>6, <1>7

\* The fields of the record of an inode.
LEMMA RecordFields ==
  ASSUME NEW T, NEW k \in Nat, NEW ids, NEW cnt, NEW files, NEW n, NEW v,
         TableHolds(T, k, ids, cnt, files, n, v), NEW j \in 1 .. k
  PROVE  /\ T[Slot(j)].kind = "file" /\ T[Slot(j)].ext = files[ids[j]].ext
         /\ T[Slot(j)].del = (j > cnt) /\ T[Slot(j)].crc = files[ids[j]].crc
<1> DEFINE t == T[Slot(j)]
<1> DEFINE a == T[Slot(j)].attr
<1> DEFINE x == files[ids[j]].ext
<1> DEFINE c == files[ids[j]].crc
<1> DEFINE late == j > cnt
<1>1. t = [kind |-> "file", id |-> ids[j], ext |-> x, attr |-> a, del |-> late, crc |-> c]
  BY Zenon DEF TableHolds
<1> HIDE DEF t, a, x, c, late
<1>2. t.kind = "file" /\ t.ext = x /\ t.del = late /\ t.crc = c
  BY <1>1
<1> QED
  BY <1>2 DEF t, x, c, late

\* The user slots with a record are those the save gave out.
LEMMA SlotsInUse ==
  ASSUME NEW d, NEW k \in Nat, FirstUser + k <= InodeCount, NEW ids, NEW cnt, NEW files, NEW n, NEW v,
         TableHolds(Table(d), k, ids, cnt, files, n, v),
         Bits(d, InodeBitmap) = {0, Ancillary} \cup FirstUser .. (FirstUser + k - 1)
  PROVE  /\ UserSlots(d) = {Slot(j) : j \in 1 .. k}
         /\ Cardinality(UserSlots(d)) = k
<1>1. \A j \in 1 .. k : Table(d)[Slot(j)].kind = "file"
  BY RecordFields
<1>2. \A s \in FirstUser .. (FirstUser + k - 1) : s - FirstUser + 1 \in 1 .. k /\ s = Slot(s - FirstUser + 1)
  BY SlotRange DEF Slot
<1>3. \A j \in 1 .. k : Slot(j) \in FirstUser .. (FirstUser + k - 1)
  BY SlotRange DEF Slot
<1>4. \A s \in {0, Ancillary} : ~(s >= FirstUser)
  BY SlotRange
<1>5. \A s \in FirstUser .. (FirstUser + k - 1) : s >= FirstUser /\ Table(d)[s].kind # "unused"
  BY <1>1, <1>2, SlotRange
<1>6. UserSlots(d) = FirstUser .. (FirstUser + k - 1)
  BY <1>4, <1>5 DEF UserSlots, Table
<1>7. FirstUser .. (FirstUser + k - 1) = {Slot(j) : j \in 1 .. k}
  BY <1>2, <1>3
<1>8. Cardinality(FirstUser .. (FirstUser + k - 1)) = k
  <2>1. CASE k = 0
    <3>1. FirstUser .. (FirstUser + k - 1) = {}
      BY <2>1, SlotRange
    <3> QED
      BY <2>1, <3>1, FS_EmptySet
  <2>2. CASE k # 0
    <3>1. FirstUser \in Int /\ FirstUser + k - 1 \in Int /\ FirstUser <= FirstUser + k - 1
      BY <2>2, SlotRange
    <3>2. Cardinality(FirstUser .. (FirstUser + k - 1)) = (FirstUser + k - 1) - FirstUser + 1
      BY <3>1, FS_Interval
    <3> QED
      BY <3>1, <3>2, SlotRange
  <2> QED
    BY <2>1, <2>2
<1> QED
  BY <1>6, <1>7, <1>8

\* What Accounted says of a device.
AccountedOn(d) ==
  LET rec == d[InodeTable][2]
      slots == UserSlots(d)
      marked == UNION {Bits(d, BitmapBlock(g)) : g \in Groups}
      counts == d[GroupTable][2].free
  IN  /\ marked = ToSet(rec[Ancillary].ext) \cup {rec[s].attr : s \in slots}
      /\ Cardinality(marked) = Len(rec[Ancillary].ext) + Cardinality(slots)
      /\ \A g \in Groups : counts[g] + Cardinality(Bits(d, BitmapBlock(g))) = Cardinality(GroupData(g))
      /\ \A sb \in ReadSb(d) : sb.free = SumFunction(counts)
      /\ \A s \in slots, g \in Groups :
           s \in InodeRange(g) /\ d[InodeTable][2][s].attr \notin GroupData(g) => Bits(d, BitmapBlock(g)) = GroupData(g)

\* The blocks of a group are finitely many.
LEMMA GroupFinite ==
  ASSUME NEW g \in Groups, NEW S \in SUBSET GroupData(g)
  PROVE  IsFiniteSet(GroupData(g)) /\ Cardinality(GroupData(g)) \in Nat /\ Cardinality(S) \in Nat
<1>1. BitmapBlock(g) \in Nat /\ PerGroup \in Nat /\ PerGroup >= 4
  BY GroupPlace, Geometry
<1>2. IsFiniteSet(GroupData(g))
  BY <1>1, FS_Interval DEF GroupData
<1>3. IsFiniteSet(S)
  BY <1>2, FS_Subset
<1> QED
  BY <1>2, <1>3, FS_CardinalityType

\* save_state_native_grouped: bitmaps, descriptors and superblocks agree with
\* each other and with the records.
LEMMA FinishAccounts ==
  ASSUME NEW d0, NEW w, WorkShape(d0, w), NEW k \in Nat, NEW n \in Nat \ {0}, NEW v,
         NEW ids, NEW cnt, NEW files, WorkHolds(w, k, ids, cnt, files, n, v), NEW gen,
         NEW e, Finished(e, w, gen)
  PROVE  AccountedOn(e)
<1> DEFINE free == [g \in Groups |-> Cardinality(GroupData(g)) - Cardinality(w.used[g])]
<1> DEFINE T == Table(w.d)
<1>1. \A g \in Groups : Bits(e, BitmapBlock(g)) = w.used[g]
  BY DEF Finished, Bits
<1>2. Bits(e, InodeBitmap) = w.ib /\ Table(e) = T /\ e[InodeTable][2] = T
  BY DEF Finished, Bits, Table
<1>3. RefreshDescriptors(w.used)[2].free = free /\ e[GroupTable] = RefreshDescriptors(w.used)
  BY DEF Finished, RefreshDescriptors, Descriptors
<1>4. e[GroupTable][2].free = free
  BY <1>3
<1>5. ReadSb(e) = {[gen |-> gen, free |-> SumFunction(free), freeInodes |-> InodeCount - Cardinality(w.ib)]}
  <2> DEFINE c == Super(gen, SumFunction(free), InodeCount - Cardinality(w.ib))
  <2>1. \A b \in Supers : e[b] = c
    BY <1>3 DEF Finished
  <2>2. c[1] = "super" /\ c[2] = [gen |-> gen, free |-> SumFunction(free), freeInodes |-> InodeCount - Cardinality(w.ib)]
    BY DEF Super
  <2> HIDE DEF c
  <2>3. ReadSb(e) = {c[2]}
    BY <2>1, <2>2, ReadsSuper DEF Supers
  <2> QED
    BY <2>2, <2>3
<1>6. UserSlots(e) = {Slot(j) : j \in 1 .. k} /\ Cardinality(UserSlots(e)) = k
  BY <1>2, SlotsInUse DEF WorkHolds
<1>7. UNION {Bits(e, BitmapBlock(g)) : g \in Groups} = Given(w.used)
  BY <1>1 DEF Given
<1>8. MarksMatch(T, Given(w.used), k, n) /\ HomesFull(T, w.used, k) /\ Len(T[Ancillary].ext) = n
  BY DEF WorkHolds, TableHolds
<1>9. {T[s].attr : s \in UserSlots(e)} = {T[Slot(j)].attr : j \in 1 .. k}
  BY <1>6
<1>10. ASSUME NEW g \in Groups PROVE free[g] + Cardinality(w.used[g]) = Cardinality(GroupData(g))
  <2>1. w.used[g] \in SUBSET GroupData(g)
    BY DEF WorkShape, UsedOK
  <2> QED
    BY <2>1, GroupFinite
<1>11. \A sb \in ReadSb(e) : sb.free = SumFunction(free)
  BY <1>5
<1>12. \A s \in UserSlots(e), g \in Groups :
         s \in InodeRange(g) /\ T[s].attr \notin GroupData(g) => Bits(e, BitmapBlock(g)) = GroupData(g)
  BY <1>1, <1>6, <1>8 DEF HomesFull
<1> HIDE DEF free, T
<1>13. Given(w.used) = ToSet(T[Ancillary].ext) \cup {T[s].attr : s \in UserSlots(e)}
  BY <1>8, <1>9 DEF MarksMatch
<1>14. Cardinality(Given(w.used)) = Len(T[Ancillary].ext) + Cardinality(UserSlots(e))
  BY <1>6, <1>8 DEF MarksMatch
<1>15. \A g \in Groups : free[g] + Cardinality(Bits(e, BitmapBlock(g))) = Cardinality(GroupData(g))
  BY <1>1, <1>10
<1>16. Cardinality(Given(w.used)) = Len(T[Ancillary].ext) + Cardinality(UserSlots(e))
       /\ Given(w.used) = ToSet(T[Ancillary].ext) \cup {T[s].attr : s \in UserSlots(e)}
  BY <1>13, <1>14
<1> QED
  BY ZenonT(20), <1>2, <1>4, <1>7, <1>11, <1>12, <1>15, <1>16 DEF AccountedOn

\* A save that returns accounts for its blocks; a damage or a failed save only
\* takes the volume out of what the property is about.
LEMMA AccountedStep == VolumeInv /\ Accounted /\ [Next]_vars => Accounted'
<1> SUFFICES ASSUME VolumeInv, Accounted, [Next]_vars PROVE Accounted'
  OBVIOUS
<1>1. AccountedOn(disk)' => Accounted'
  BY DEF Accounted, AccountedOn, HomeFirst
<1>2. CASE Save
  <2>1. PICK active \in Orders, deleted \in Orders, dirs \in {<<>>, <<Root>>}, n \in AncSizes :
          SaveWith(dirs \o active, deleted, n, TRUE)
    BY <1>2 DEF Save
  <2> DEFINE act == dirs \o active
  <2>2. act \in Seq(Files \cup {Root}) /\ act \o deleted \in Seq(Files \cup {Root}) /\ SaveWith(act, deleted, n, TRUE)
    BY <2>1, OrdersAreSeqs
  <2> HIDE DEF act
  <2>3. PICK ids, ext, files, w, gen :
          Request(ids, ext, files, act, deleted) /\ Result(files, w, gen, act, deleted, n, TRUE)
    BY <2>2, SaveParts
  <2> DEFINE d == WithData(disk, files, saves + 1)
  <2>4. SaveDone(d, w, act \o deleted, Len(act), files, n, saves + 1) /\ Len(act \o deleted) \in Nat
    BY <2>2, <2>3, RequestWork DEF VolumeInv
  <2> HIDE DEF d
  <2>5. w.ok /\ disk' = Finish(w, gen)
    BY <2>3 DEF Result
  <2>6. WorkShape(d, w) /\ WorkHolds(w, Len(act \o deleted), act \o deleted, Len(act), files, n, saves + 1)
    BY <2>4, <2>5 DEF SaveDone
  <2>7. Finished(disk', w, gen)
    BY <2>5, <2>6, FinishCells
  <2>8. n \in Nat \ {0}
    BY FilesAndBounds
  <2>9. AccountedOn(disk')
    BY <2>4, <2>6, <2>7, <2>8, FinishAccounts
  <2> QED
    BY <1>1, <2>9
<1>3. CASE SaveFails
  BY <1>3 DEF SaveFails, Accounted
<1>4. CASE Damage
  BY <1>4 DEF Damage, Accounted
<1>5. CASE UNCHANGED vars
  <2>1. disk' = disk /\ broken' = broken /\ hurt' = hurt
    BY <1>5 DEF vars
  <2>2. ~broken /\ hurt = {} => AccountedOn(disk)
    BY DEF Accounted, AccountedOn, HomeFirst
  <2>3. CASE broken \/ hurt # {}
    BY <2>1, <2>3 DEF Accounted
  <2>4. CASE ~broken /\ hurt = {}
    BY <1>1, <2>1, <2>2, <2>4
  <2> QED
    BY <2>3, <2>4
<1> QED
  BY <1>2, <1>3, <1>4, <1>5 DEF Next

\* After every save the bitmaps mark the attribute and ancillary blocks and no
\* others, none twice, the counts agree with them, and an attribute block lies
\* outside the home group of its inode only when that is full.
THEOREM Accounting == Spec => []Accounted
<1>1. Init => Accounted
  BY DEF Init, Accounted
<1> QED
  BY <1>1, VolumeInit, VolumeStep, AccountedStep, PTL DEF Spec

-----------------------------------------------------------------------------
(* The caller's files, their contents and their blocks.                      *)

\* The checksums the caller keeps are those of the contents it wrote, the u-th
\* save being the one that wrote them.
FilesOK(files, m) ==
  \A id \in DOMAIN files :
    \/ files[id].ext = <<>> /\ files[id].crc = <<"none">>
    \/ \E b \in Nat, u \in 1 .. m : IsPlace(b) /\ files[id].ext = <<b>> /\ files[id].crc = <<"data", id, u>>

\* No block is in two files.
Distinct(files) ==
  \A i, j \in DOMAIN files : i # j /\ files[i].ext # <<>> => files[i].ext # files[j].ext

Hit(c, kinds) == c = <<"junk">> /\ "data" \in kinds

\* The device holds the contents, or damage where a block of contents was hit.
ContentsKept(d, files, kinds) ==
  \A id \in DOMAIN files :
    files[id].ext # <<>> => d[files[id].ext[1]] = files[id].crc \/ Hit(d[files[id].ext[1]], kinds)

\* A file of a request is an old one, or has new contents in its own place.
LEMMA RequestCases ==
  ASSUME NEW ids, NEW ext, NEW files, NEW active, NEW deleted, Request(ids, ext, files, active, deleted)
  PROVE  /\ DOMAIN files = ids
         /\ \A id \in ids :
              \/ ext[id] = <<0>> /\ id \in DOMAIN records /\ files[id] = records[id]
              \/ ext[id] = <<>> /\ files[id].ext = <<>> /\ files[id].crc = <<"none">>
              \/ /\ ext[id] \notin {<<>>, <<0>>} /\ files[id].crc = <<"data", id, saves + 1>> /\ files[id].ext = ext[id]
                 /\ \E b \in Nat : /\ IsPlace(b) /\ ext[id] = <<b>>
                                   /\ b \notin UNION {ToSet(records[x].ext) : x \in DOMAIN records}
<1>1. DOMAIN files = ids
  BY DEF Request, Changed
<1> SUFFICES ASSUME NEW id \in ids
             PROVE  \/ ext[id] = <<0>> /\ id \in DOMAIN records /\ files[id] = records[id]
                    \/ ext[id] = <<>> /\ files[id].ext = <<>> /\ files[id].crc = <<"none">>
                    \/ /\ ext[id] \notin {<<>>, <<0>>} /\ files[id].crc = <<"data", id, saves + 1>> /\ files[id].ext = ext[id]
                       /\ \E b \in Nat : /\ IsPlace(b) /\ ext[id] = <<b>>
                                         /\ b \notin UNION {ToSet(records[x].ext) : x \in DOMAIN records}
  BY <1>1
<1>2. CASE ext[id] = <<0>>
  BY <1>2 DEF Request, Changed
<1>3. CASE ext[id] # <<0>>
  <2>1. files[id] = [ext |-> ext[id], crc |-> IF ext[id] = <<>> THEN <<"none">> ELSE <<"data", id, saves + 1>>]
    BY <1>3 DEF Request, Changed
  <2>2. ext[id] \in Places(records)
    BY <1>3 DEF Request
  <2> DEFINE c == IF ext[id] = <<>> THEN <<"none">> ELSE <<"data", id, saves + 1>>
  <2>3. files[id] = [ext |-> ext[id], crc |-> c]
    BY <2>1
  <2>4. (ext[id] = <<>> => c = <<"none">>) /\ (ext[id] # <<>> => c = <<"data", id, saves + 1>>)
    OBVIOUS
  <2> HIDE DEF c
  <2>5. files[id].ext = ext[id] /\ files[id].crc = c
    BY <2>3
  <2>6. CASE ext[id] = <<>>
    BY <2>4, <2>5, <2>6
  <2>7. CASE ext[id] # <<>>
    BY <1>3, <2>2, <2>4, <2>5, <2>7, PlacesArePlaces
  <2> QED
    BY <2>6, <2>7
<1> QED
  BY <1>2, <1>3

\* A request leaves the files in order and in blocks of their own.
LEMMA RequestFiles ==
  ASSUME saves \in Nat, FilesOK(records, saves), Distinct(records),
         NEW ids, NEW ext, NEW files, NEW active, NEW deleted, Request(ids, ext, files, active, deleted)
  PROVE  FilesOK(files, saves + 1) /\ Distinct(files)
<1>1. DOMAIN files = ids
  BY RequestCases
<1>2. FilesOK(files, saves + 1)
  <2> SUFFICES ASSUME NEW id \in ids
               PROVE  \/ files[id].ext = <<>> /\ files[id].crc = <<"none">>
                      \/ \E b \in Nat, u \in 1 .. (saves + 1) :
                           IsPlace(b) /\ files[id].ext = <<b>> /\ files[id].crc = <<"data", id, u>>
    BY <1>1 DEF FilesOK
  <2>1. 1 .. saves \subseteq 1 .. (saves + 1) /\ saves + 1 \in 1 .. (saves + 1)
    OBVIOUS
  <2>2. CASE ext[id] = <<0>> /\ id \in DOMAIN records /\ files[id] = records[id]
    BY <2>1, <2>2 DEF FilesOK
  <2>3. CASE ext[id] = <<>> /\ files[id].ext = <<>> /\ files[id].crc = <<"none">>
    BY <2>3
  <2>4. CASE /\ files[id].crc = <<"data", id, saves + 1>> /\ files[id].ext = ext[id]
             /\ \E b \in Nat : IsPlace(b) /\ ext[id] = <<b>>
    BY <2>1, <2>4
  <2> QED
    BY <2>2, <2>3, <2>4, RequestCases
<1>3. Distinct(files)
  <2> SUFFICES ASSUME NEW i \in ids, NEW j \in ids, i # j, files[i].ext # <<>>, files[i].ext = files[j].ext
               PROVE  FALSE
    BY <1>1 DEF Distinct
  <2> DEFINE taken == UNION {ToSet(records[x].ext) : x \in DOMAIN records}
  <2> DEFINE Old(x) == ext[x] = <<0>> /\ x \in DOMAIN records /\ files[x] = records[x]
  <2> DEFINE New(x) == /\ ext[x] \notin {<<>>, <<0>>} /\ files[x].ext = ext[x]
                       /\ \E b \in Nat : ext[x] = <<b>> /\ b \notin taken
  <2>1. (Old(i) \/ New(i)) /\ (Old(j) \/ New(j))
    BY RequestCases
  <2>2. ASSUME NEW x \in ids, Old(x), files[x].ext # <<>> PROVE \E b \in taken : files[x].ext = <<b>>
    <3>1. PICK b \in Nat : records[x].ext = <<b>>
      BY <2>2 DEF FilesOK
    <3>2. b \in ToSet(records[x].ext)
      BY <3>1 DEF ToSet
    <3> QED
      BY <2>2, <3>1, <3>2
  <2> HIDE DEF taken
  <2>3. ASSUME NEW x \in ids, New(x) PROVE \E b : b \notin taken /\ files[x].ext = <<b>>
    BY <2>3
  <2>4. CASE Old(i) /\ Old(j)
    BY <2>4 DEF Distinct
  <2>5. CASE New(i) /\ New(j)
    BY <2>5 DEF Request
  <2>6. CASE Old(i) /\ New(j)
    <3>1. PICK a \in taken : files[i].ext = <<a>>
      BY <2>2, <2>6
    <3>2. PICK b : b \notin taken /\ files[j].ext = <<b>>
      BY <2>3, <2>6
    <3>3. <<a>> = <<b>> /\ a = <<a>>[1] /\ b = <<b>>[1]
      BY <3>1, <3>2
    <3>4. a = b
      BY <3>3
    <3> QED
      BY <3>2, <3>4
  <2>7. CASE New(i) /\ Old(j)
    <3>1. PICK a \in taken : files[j].ext = <<a>>
      BY <2>2, <2>7
    <3>2. PICK b : b \notin taken /\ files[i].ext = <<b>>
      BY <2>3, <2>7
    <3>3. <<a>> = <<b>> /\ a = <<a>>[1] /\ b = <<b>>[1]
      BY <3>1, <3>2
    <3>4. a = b
      BY <3>3
    <3> QED
      BY <3>2, <3>4
  <2> QED
    BY <2>1, <2>4, <2>5, <2>6, <2>7
<1> QED
  BY <1>2, <1>3

\* BlockStore::write puts the new contents where the files say, and what the
\* other files hold stays.
LEMMA ContentsWritten ==
  ASSUME IsDevice(disk), saves \in Nat, FilesOK(records, saves), Distinct(records),
         NEW kinds, ContentsKept(disk, records, kinds),
         NEW ids, NEW ext, NEW files, NEW active, NEW deleted, Request(ids, ext, files, active, deleted)
  PROVE  ContentsKept(WithData(disk, files, saves + 1), files, kinds)
<1> DEFINE d == WithData(disk, files, saves + 1)
<1> DEFINE Owner(b) == {id \in DOMAIN files : files[id].ext = <<b>> /\ files[id].crc = <<"data", id, saves + 1>>}
<1>1. DOMAIN files = ids /\ FilesOK(files, saves + 1) /\ Distinct(files)
  BY RequestCases, RequestFiles
<1> SUFFICES ASSUME NEW id \in ids, files[id].ext # <<>>
             PROVE  d[files[id].ext[1]] = files[id].crc \/ Hit(d[files[id].ext[1]], kinds)
  BY <1>1 DEF ContentsKept
<1>2. PICK b \in Nat : IsPlace(b) /\ files[id].ext = <<b>>
  BY <1>1 DEF FilesOK
<1>3. b \in DOMAIN disk
  BY <1>2, PlaceApart DEF IsDevice
<1>4. d[b] = IF Owner(b) = {} THEN disk[b] ELSE <<"data", CHOOSE x \in Owner(b) : TRUE, saves + 1>>
  BY <1>3 DEF WithData
<1>5. Owner(b) \subseteq {id}
  BY <1>1, <1>2 DEF Distinct
<1> HIDE DEF d
<1>6. CASE ext[id] # <<0>>
  <2>1. files[id].crc = <<"data", id, saves + 1>>
    BY <1>6, RequestCases
  <2>2. Owner(b) = {id}
    BY <1>1, <1>2, <1>5, <2>1
  <2>3. (CHOOSE x \in {id} : TRUE) = id
    OBVIOUS
  <2> QED
    BY <1>2, <1>4, <2>1, <2>2, <2>3
<1>7. CASE ext[id] = <<0>>
  <2>0. ext[id] # <<>> /\ ~(ext[id] \notin {<<>>, <<0>>})
    BY <1>7
  <2>1. id \in DOMAIN records /\ files[id] = records[id]
    BY <2>0, RequestCases
  <2>2. PICK u \in 1 .. saves : files[id].crc = <<"data", id, u>>
    BY <2>1 DEF FilesOK
  <2>3. <<"data", id, u>> # <<"data", id, saves + 1>>
    BY <2>2
  <2>4. Owner(b) = {}
    BY <1>5, <2>2, <2>3
  <2>5. d[b] = disk[b]
    BY <1>4, <2>4
  <2>6. disk[b] = files[id].crc \/ Hit(disk[b], kinds)
    <3>0. <<b>> # <<>> /\ <<b>>[1] = b
      OBVIOUS
    <3>1. records[id].ext # <<>> /\ records[id].ext[1] = b
      BY <1>2, <2>1, <3>0, Zenon
    <3>2. disk[records[id].ext[1]] = records[id].crc \/ Hit(disk[records[id].ext[1]], kinds)
      BY <2>1, <3>1 DEF ContentsKept
    <3> QED
      BY <2>1, <3>1, <3>2
  <2> QED
    BY <1>2, <2>5, <2>6
<1> QED
  BY <1>6, <1>7

\* The inodes of a request in the order they are saved: the deleted ones come
\* after the first cnt, and none comes twice.
InOrder(q, cnt, ids, deleted) ==
  /\ ids = {q[j] : j \in 1 .. Len(q)}
  /\ \A j \in 1 .. Len(q) : q[j] \in ToSet(deleted) <=> j > cnt

\* The directory goes before the active files, those before the deleted ones.
LEMMA SavedInOrder ==
  ASSUME NEW active \in Orders, NEW deleted \in Orders, NEW dirs \in {<<>>, <<Root>>},
         IsInjective(active \o deleted)
  PROVE  InOrder((dirs \o active) \o deleted, Len(dirs \o active), ToSet(dirs \o active) \cup ToSet(deleted), deleted)
<1> DEFINE A == Files \cup {Root}
<1> DEFINE act == dirs \o active
<1> DEFINE q == act \o deleted
<1>1. active \in Seq(Files) /\ deleted \in Seq(Files)
  BY OrdersAreSeqs
<1>2. act \in Seq(A) /\ deleted \in Seq(A) /\ q \in Seq(A)
  <2>1. Seq(Files) \subseteq Seq(A)
    OBVIOUS
  <2>2. act \in Seq(A) /\ q \in Seq(A)
    BY OrdersAreSeqs, Zenon
  <2> QED
    BY <1>1, <2>1, <2>2
<1>3. /\ Len(act) \in Nat /\ Len(deleted) \in Nat /\ Len(q) = Len(act) + Len(deleted)
      /\ \A j \in 1 .. Len(act) : q[j] = act[j]
      /\ \A j \in 1 .. Len(deleted) : q[Len(act) + j] = deleted[j]
  <2> HIDE DEF act
  <2> QED
    BY <1>2
<1>4. ToSet(act) = {act[j] : j \in 1 .. Len(act)} /\ ToSet(deleted) = {deleted[j] : j \in 1 .. Len(deleted)}
  <2>1. DOMAIN act = 1 .. Len(act) /\ DOMAIN deleted = 1 .. Len(deleted)
    <3> HIDE DEF act
    <3> QED
      BY <1>2
  <2> QED
    BY <2>1 DEF ToSet
<1>5. ASSUME NEW i \in 1 .. Len(act), NEW j \in 1 .. Len(deleted) PROVE act[i] # deleted[j]
  <2>1. deleted[j] \in Files
    BY <1>1
  <2>2. ASSUME NEW x \in 1 .. Len(active) PROVE active[x] # deleted[j]
    <3> DEFINE p == active \o deleted
    <3>1. /\ DOMAIN p = 1 .. (Len(active) + Len(deleted)) /\ Len(active) \in Nat /\ Len(deleted) \in Nat
          /\ p[x] = active[x] /\ p[Len(active) + j] = deleted[j]
      BY <1>1
    <3>2. x \in DOMAIN p /\ Len(active) + j \in DOMAIN p /\ x # Len(active) + j
      BY <3>1
    <3> HIDE DEF p
    <3>3. p[x] # p[Len(active) + j]
      BY <3>2 DEF IsInjective, p
    <3> QED
      BY <3>1, <3>3
  <2>3. CASE dirs = <<>>
    <3>1. act = active
      BY <1>1, <2>3
    <3> QED
      BY <2>2, <3>1
  <2>4. CASE dirs = <<Root>>
    <3>1. Len(act) = 1 + Len(active) /\ act[1] = Root /\ \A x \in 1 .. Len(active) : act[1 + x] = active[x]
      BY <1>1, <2>4
    <3>2. CASE i = 1
      BY <2>1, <3>1, <3>2, FilesAndBounds
    <3>3. CASE i # 1
      <4>1. i - 1 \in 1 .. Len(active) /\ i = 1 + (i - 1)
        BY <1>1, <3>1, <3>3
      <4> QED
        BY <2>2, <3>1, <4>1
    <3> QED
      BY <3>2, <3>3
  <2> QED
    BY <2>3, <2>4
<1> HIDE DEF act, q
<1>6. ASSUME NEW j \in 1 .. Len(q)
      PROVE  /\ q[j] \in ToSet(act) \cup ToSet(deleted)
             /\ q[j] \in ToSet(deleted) <=> j > Len(act)
  <2>1. CASE j \in 1 .. Len(act)
    <3>1. q[j] = act[j] /\ ~(j > Len(act))
      BY <1>3, <2>1
    <3>2. q[j] \in ToSet(act) /\ q[j] \notin ToSet(deleted)
      BY <1>4, <1>5, <2>1, <3>1
    <3> QED
      BY <3>1, <3>2
  <2>2. CASE j \notin 1 .. Len(act)
    <3>1. j - Len(act) \in 1 .. Len(deleted) /\ j = Len(act) + (j - Len(act)) /\ j > Len(act)
      BY <1>3, <2>2
    <3>2. q[j] = deleted[j - Len(act)]
      BY <1>3, <3>1
    <3> QED
      BY <1>4, <3>1, <3>2
  <2> QED
    BY <2>1, <2>2
<1>7. \A x \in ToSet(act) \cup ToSet(deleted) : \E j \in 1 .. Len(q) : x = q[j]
  <2>1. \A j \in 1 .. Len(act) : j \in 1 .. Len(q)
    BY <1>3
  <2>2. \A j \in 1 .. Len(deleted) : Len(act) + j \in 1 .. Len(q)
    BY <1>3
  <2> QED
    BY <1>3, <1>4, <2>1, <2>2
<1> QED
  BY <1>6, <1>7 DEF InOrder, q, act

-----------------------------------------------------------------------------
(* What stays true from one save to the next.                                *)

\* The allocator never gives out a block of contents, nor one of a copy of the
\* superblock: the sequences in which it does are left out, or do not exist.
Unshared == "unmarked" \in Avoid
CopiesClear == "copy_reached" \in Avoid \/ \A g \in Groups : GroupData(g) \cap Copies = {}

\* e is what the last save wrote, its work w being that for the inodes of q.
SavedAs(files, contents, e, w, q, cnt, n, v, gen) ==
  /\ Len(q) \in Nat /\ WorkHolds(w, Len(q), q, cnt, files, n, v)
  /\ UsedOK(w.used) /\ Finished(e, w, gen)
  /\ CopiesClear => Given(w.used) \cap Copies = {}
  /\ \A j \in 1 .. Len(q) : q[j] \in DOMAIN files
  /\ contents = {<<q[j], j > cnt, files[q[j]].crc>> : j \in 1 .. Len(q)}

\* What Damage calls the blocks of e.
KindOn(e, b) ==
  IF b \in Supers THEN "copy"
  ELSE IF b = GroupTable \/ b \in {BitmapBlock(g) : g \in Groups} THEN "bitmap" ELSE e[b][1]

Changes(d, e) == {b \in 0 .. (Total - 1) : d[b] # e[b]}

\* The device d is e but for at most m damaged blocks, whose kinds are known.
Traced(d, e, kinds, m) ==
  /\ \A b \in Changes(d, e) : d[b] = <<"junk">> /\ b \notin {InodeBitmap, InodeTable} /\ KindOn(e, b) \in kinds
  /\ Cardinality(Changes(d, e) \cap Supers) <= m

Remembers ==
  ~broken => \E e, w, q, cnt, n, v, gen :
               SavedAs(records, saved, e, w, q, cnt, n, v, gen) /\ Traced(disk, e, hurt, faults)

FilesInv ==
  /\ saves \in Nat /\ faults \in 0 .. MaxFaults
  /\ FilesOK(records, saves) /\ Distinct(records)
  /\ Unshared => ContentsKept(disk, records, hurt)

GroupedInv == VolumeInv /\ FilesInv /\ Remembers

\* A save writes over contents only where its allocator gave out their blocks.
LEMMA WorkKeepsContents ==
  ASSUME NEW d, NEW w, WorkShape(d, w), NEW files, NEW m, FilesOK(files, m), NEW kinds,
         ContentsKept(d, files, kinds), ~Overrun(w, files), Unshared
  PROVE  /\ ContentsKept(w.d, files, kinds)
         /\ \A e, gen : Finished(e, w, gen) => ContentsKept(e, files, kinds)
<1>1. ASSUME NEW id \in DOMAIN files, files[id].ext # <<>>
      PROVE  /\ w.d[files[id].ext[1]] = files[id].crc \/ Hit(w.d[files[id].ext[1]], kinds)
             /\ \A e, gen : Finished(e, w, gen) => e[files[id].ext[1]] = w.d[files[id].ext[1]]
  <2>1. PICK b \in Nat : IsPlace(b) /\ files[id].ext = <<b>>
    BY <1>1 DEF FilesOK
  <2>2. <<b>>[1] = b /\ b \in ToSet(<<b>>)
    BY DEF ToSet
  <2>3. files[id].ext[1] = b /\ b \in ToSet(files[id].ext)
    BY <2>1, <2>2, Zenon
  <2>4. b \notin Given(w.used)
    BY <2>3 DEF Overrun, Unshared, Given
  <2>5. b \in Area /\ b \in 0 .. (Total - 1) /\ b \notin Copies /\ b # InodeTable /\ \A g \in Groups : b # BitmapBlock(g)
    BY <2>1, PlaceApart, ControlPlace
  <2>6. w.d[b] = d[b]
    BY <2>4, <2>5 DEF WorkShape
  <2>7. d[b] = files[id].crc \/ Hit(d[b], kinds)
    BY <1>1, <2>3 DEF ContentsKept
  <2>8. \A e, gen : Finished(e, w, gen) => e[b] = w.d[b]
    BY <2>5 DEF Finished
  <2> QED
    BY <2>3, <2>6, <2>7, <2>8
<1> QED
  BY <1>1 DEF ContentsKept

\* A request keeps the files in order, whatever becomes of its save.
LEMMA SaveKeepsFiles ==
  ASSUME VolumeInv, FilesInv, NEW act, act \in Seq(Files \cup {Root}), NEW deleted \in Orders,
         act \o deleted \in Seq(Files \cup {Root}), NEW n \in AncSizes, NEW ends,
         NEW ids, NEW ext, NEW files, NEW w, NEW gen,
         Request(ids, ext, files, act, deleted), Result(files, w, gen, act, deleted, n, ends),
         saves' = saves + 1, faults' = faults, "data" \in hurt => "data" \in hurt'
  PROVE  FilesInv'
<1> DEFINE d == WithData(disk, files, saves + 1)
<1>1. FilesOK(files, saves + 1) /\ Distinct(files)
  BY RequestFiles DEF FilesInv
<1>2. SaveDone(d, w, act \o deleted, Len(act), files, n, saves + 1)
  BY RequestWork DEF VolumeInv
<1>3. Unshared => ContentsKept(d, files, hurt)
  BY ContentsWritten DEF FilesInv, VolumeInv, Volume, Formed
<1> HIDE DEF d
<1>4. WorkShape(d, w) /\ ~Overrun(w, files)
  BY <1>2 DEF SaveDone, Result
<1>5. Finished(Finish(w, gen), w, gen)
  BY <1>4, FinishCells
<1>6. ASSUME Unshared PROVE ContentsKept(disk', files, hurt)
  <2>1. ContentsKept(w.d, files, hurt) /\ ContentsKept(Finish(w, gen), files, hurt)
    BY <1>1, <1>3, <1>4, <1>5, <1>6, WorkKeepsContents
  <2> QED
    BY <2>1 DEF Result
<1>7. ASSUME Unshared PROVE ContentsKept(disk', files, hurt')
  BY <1>6, <1>7 DEF ContentsKept, Hit
<1>8. records' = files
  BY DEF Result
<1>9. FilesOK(records', saves') /\ Distinct(records')
  BY <1>1, <1>8
<1>10. Unshared' <=> Unshared
  BY DEF Unshared
<1>11. saves' \in Nat /\ faults' \in 0 .. MaxFaults
  BY DEF FilesInv
<1> QED
  BY <1>7, <1>8, <1>9, <1>10, <1>11 DEF FilesInv, ContentsKept, FilesOK, Distinct

\* After a save the device is what it wrote.
LEMMA SaveRemembers ==
  ASSUME VolumeInv, FilesInv, NEW active \in Orders, NEW deleted \in Orders, NEW dirs \in {<<>>, <<Root>>},
         IsInjective(active \o deleted), NEW n \in AncSizes, NEW act, act = dirs \o active,
         NEW ids, NEW ext, NEW files, NEW w, NEW gen,
         Request(ids, ext, files, act, deleted), Result(files, w, gen, act, deleted, n, TRUE),
         saved' = Contents(ids, deleted, files), faults' = faults
  PROVE  Remembers'
<1> DEFINE q == act \o deleted
<1> DEFINE d == WithData(disk, files, saves + 1)
<1>1. act \in Seq(Files \cup {Root}) /\ q \in Seq(Files \cup {Root})
  <2>1. dirs \o active \in Seq(Files \cup {Root}) /\ (dirs \o active) \o deleted \in Seq(Files \cup {Root})
    BY OrdersAreSeqs
  <2> QED
    BY <2>1, Zenon
<1>2. ids = ToSet(act) \cup ToSet(deleted)
  BY DEF Request
<1>3. InOrder(q, Len(act), ids, deleted)
  <2>1. InOrder((dirs \o active) \o deleted, Len(dirs \o active), ToSet(dirs \o active) \cup ToSet(deleted), deleted)
    BY SavedInOrder
  <2> QED
    BY <1>2, <2>1, Zenon
<1>4. Request(ids, ext, files, act, deleted) /\ Result(files, w, gen, act, deleted, n, TRUE)
  OBVIOUS
<1> DEFINE cnt == Len(act)
<1>5. SaveDone(d, w, q, cnt, files, n, saves + 1) /\ Len(q) \in Nat
  BY <1>1, <1>4, RequestWork DEF VolumeInv
<1> HIDE DEF d, q, cnt
<1>6. w.ok /\ disk' = Finish(w, gen) /\ ~Overrun(w, files) /\ records' = files
  BY <1>4 DEF Result
<1>7. WorkShape(d, w) /\ WorkHolds(w, Len(q), q, cnt, files, n, saves + 1)
  BY <1>5, <1>6 DEF SaveDone
<1>8. Finished(disk', w, gen)
  BY <1>6, <1>7, FinishCells
<1>9. \A j \in 1 .. Len(q) : q[j] \in ids /\ (q[j] \in ToSet(deleted) <=> j > cnt)
  BY <1>3 DEF InOrder, cnt
<1>10. saved' = {<<q[j], j > cnt, files[q[j]].crc>> : j \in 1 .. Len(q)}
  <2>1. \A j \in 1 .. Len(q) : <<q[j], q[j] \in ToSet(deleted), files[q[j]].crc>> = <<q[j], j > cnt, files[q[j]].crc>>
    BY <1>9
  <2>2. ids = {q[j] : j \in 1 .. Len(q)}
    BY <1>3 DEF InOrder
  <2>3. saved' = {<<q[j], q[j] \in ToSet(deleted), files[q[j]].crc>> : j \in 1 .. Len(q)}
    BY <2>2 DEF Contents
  <2> QED
    BY <2>1, <2>3
<1>11. CopiesClear => Given(w.used) \cap Copies = {}
  <2>1. ASSUME "copy_reached" \in Avoid PROVE Given(w.used) \cap Copies = {}
    BY <1>6, <2>1 DEF Overrun, Given
  <2>2. ASSUME \A g \in Groups : GroupData(g) \cap Copies = {} PROVE Given(w.used) \cap Copies = {}
    BY <1>7, <2>2 DEF Given, WorkShape, UsedOK
  <2> QED
    BY <2>1, <2>2 DEF CopiesClear
<1>12. \A j \in 1 .. Len(q) : q[j] \in DOMAIN files
  BY <1>4, <1>9, RequestCases
<1>13. SavedAs(records', saved', disk', w, q, cnt, n, saves + 1, gen)
  BY <1>5, <1>6, <1>7, <1>8, <1>10, <1>11, <1>12 DEF SavedAs, WorkShape
<1>14. Traced(disk', disk', hurt', faults')
  <2>1. Changes(disk', disk') = {}
    BY DEF Changes
  <2>2. Cardinality(Changes(disk', disk') \cap Supers) = 0
    BY <2>1, FS_EmptySet
  <2>3. faults' \in Nat
    BY FilesAndBounds DEF FilesInv
  <2> QED
    BY <2>1, <2>2, <2>3 DEF Traced
<1> QED
  BY <1>13, <1>14 DEF Remembers

\* One more block is at most one more.
LEMMA OneMore ==
  ASSUME NEW S, IsFiniteSet(S), NEW x
  PROVE  /\ IsFiniteSet(S \cup {x}) /\ Cardinality(S \cup {x}) \in Nat
         /\ Cardinality(S \cup {x}) <= Cardinality(S) + 1
<1>1. Cardinality(S) \in Nat
  BY FS_CardinalityType
<1>2. IsFiniteSet(S \cup {x}) /\ Cardinality(S \cup {x}) = IF x \in S THEN Cardinality(S) ELSE Cardinality(S) + 1
  BY FS_AddElement
<1> QED
  BY <1>1, <1>2

\* A damage is counted, and its kind is known.
LEMMA DamageTraced ==
  ASSUME VolumeInv, FilesInv, Remembers, Damage
  PROVE  FilesInv' /\ Remembers'
<1>1. PICK b \in DOMAIN disk :
        /\ disk[b][1] \notin {"zero", "table"} /\ b # InodeBitmap
        /\ disk' = [disk EXCEPT ![b] = <<"junk">>] /\ hurt' = hurt \cup {Kind(b)}
  BY DEF Damage
<1>2. DOMAIN disk = 0 .. (Total - 1) /\ disk[InodeTable][1] = "table"
  BY DEF VolumeInv, Volume, Formed, IsDevice
<1>3. \A x \in 0 .. (Total - 1) : disk'[x] = IF x = b THEN <<"junk">> ELSE disk[x]
  BY <1>1, <1>2
<1>4. /\ ~broken /\ broken' = broken /\ saved' = saved /\ records' = records /\ saves' = saves
      /\ faults' = faults + 1 /\ faults < MaxFaults
  BY DEF Damage
<1>5. b # InodeTable /\ b # InodeBitmap
  BY <1>1, <1>2
<1>6. faults \in Nat /\ faults' \in 0 .. MaxFaults
  BY <1>4, FilesAndBounds DEF FilesInv
<1>7. ASSUME Unshared PROVE ContentsKept(disk', records, hurt')
  <2> SUFFICES ASSUME NEW id \in DOMAIN records, records[id].ext # <<>>
               PROVE  disk'[records[id].ext[1]] = records[id].crc \/ Hit(disk'[records[id].ext[1]], hurt')
    BY DEF ContentsKept
  <2>1. PICK x \in Nat, u \in 1 .. saves : /\ IsPlace(x) /\ records[id].ext = <<x>>
                                         /\ records[id].crc = <<"data", id, u>>
    BY DEF FilesInv, FilesOK
  <2>2. <<x>>[1] = x /\ <<"data", id, u>>[1] = "data"
    OBVIOUS
  <2>3. records[id].ext[1] = x /\ records[id].crc[1] = "data"
    BY <2>1, <2>2, Zenon
  <2>4. disk[x] = records[id].crc \/ Hit(disk[x], hurt)
    BY <1>7, <2>3 DEF FilesInv, ContentsKept
  <2>5. /\ x \in 0 .. (Total - 1) /\ x \notin Copies \cup {Primary} /\ x # GroupTable
        /\ x \notin {BitmapBlock(g) : g \in Groups}
    BY <2>1, PlaceApart, ControlPlace
  <2>6. CASE x = b /\ "data" \notin hurt
    <3>1. Kind(b) = "data"
      BY <2>3, <2>4, <2>5, <2>6 DEF Kind, Hit
    <3> QED
      BY <1>1, <1>2, <1>3, <2>3, <2>6, <3>1 DEF Hit
  <2>7. CASE x = b /\ "data" \in hurt
    BY <1>1, <1>2, <1>3, <2>3, <2>7 DEF Hit
  <2>8. CASE x # b
    BY <1>1, <1>3, <2>3, <2>4, <2>5, <2>8 DEF Hit
  <2> QED
    BY <2>6, <2>7, <2>8
<1>8. FilesInv'
  <2>1. Unshared' <=> Unshared
    BY DEF Unshared
  <2> QED
    BY <1>4, <1>6, <1>7, <2>1 DEF FilesInv, FilesOK, Distinct, ContentsKept
<1>9. PICK e, w, q, cnt, n, v, gen : SavedAs(records, saved, e, w, q, cnt, n, v, gen) /\ Traced(disk, e, hurt, faults)
  BY <1>4 DEF Remembers
<1>10. Changes(disk', e) \subseteq Changes(disk, e) \cup {b}
  BY <1>3 DEF Changes
<1>11. ASSUME NEW x \in Changes(disk', e)
       PROVE  disk'[x] = <<"junk">> /\ x \notin {InodeBitmap, InodeTable} /\ KindOn(e, x) \in hurt'
  <2>1. CASE x # b
    <3>1. x \in Changes(disk, e) /\ disk'[x] = disk[x]
      BY <1>3, <1>10, <2>1 DEF Changes
    <3> QED
      BY <1>1, <1>9, <3>1 DEF Traced
  <2>2. CASE x = b /\ disk[b] # e[b]
    <3>1. b \in Changes(disk, e)
      BY <1>2, <2>2 DEF Changes
    <3> QED
      BY <1>1, <1>2, <1>3, <1>5, <1>9, <2>2, <3>1 DEF Traced
  <2>3. CASE x = b /\ disk[b] = e[b]
    <3>1. KindOn(e, b) = Kind(b)
      BY <2>3 DEF KindOn, Kind, Supers
    <3> QED
      BY <1>1, <1>2, <1>3, <1>5, <2>3, <3>1
  <2> QED
    BY <2>1, <2>2, <2>3
<1>12. Cardinality(Changes(disk', e) \cap Supers) <= faults'
  <2> DEFINE C == Changes(disk, e) \cap Supers
  <2>1. IsFiniteSet(Supers) /\ IsFiniteSet(C)
    <3>1. IsFiniteSet({Primary}) /\ IsFiniteSet({Total \div 2}) /\ IsFiniteSet({Total - 1})
      BY FS_Singleton
    <3>2. Supers = ({Primary} \cup {Total \div 2}) \cup {Total - 1}
      BY DEF Supers, Copies
    <3>3. IsFiniteSet(Supers)
      BY <3>1, <3>2, FS_Union
    <3> QED
      BY <3>3, FS_Subset
  <2>2. Cardinality(C) \in Nat /\ Cardinality(C) <= faults
    BY <1>9, <2>1, FS_CardinalityType DEF Traced
  <2>4. Changes(disk', e) \cap Supers \subseteq C \cup {b}
    BY <1>10
  <2> HIDE DEF C
  <2>3. IsFiniteSet(C \cup {b}) /\ Cardinality(C \cup {b}) <= Cardinality(C) + 1
    BY <2>1, OneMore
  <2>5. Cardinality(Changes(disk', e) \cap Supers) <= Cardinality(C \cup {b})
    BY <2>3, <2>4, FS_Subset
  <2>6. Cardinality(C \cup {b}) \in Nat /\ Cardinality(Changes(disk', e) \cap Supers) \in Nat
    <3>1. IsFiniteSet(Changes(disk', e) \cap Supers)
      BY <2>3, <2>4, FS_Subset
    <3> QED
      BY <2>3, <3>1, FS_CardinalityType
  <2> QED
    BY <1>4, <1>6, <2>2, <2>3, <2>5, <2>6
<1>13. Traced(disk', e, hurt', faults')
  BY <1>11, <1>12 DEF Traced
<1>14. SavedAs(records', saved', e, w, q, cnt, n, v, gen)
  BY <1>4, <1>9
<1> QED
  BY <1>8, <1>13, <1>14 DEF Remembers

\* Every step keeps the invariant.
LEMMA GroupedStep == GroupedInv /\ [Next]_vars => GroupedInv'
<1> SUFFICES ASSUME GroupedInv, [Next]_vars PROVE GroupedInv'
  OBVIOUS
<1>0. VolumeInv' /\ VolumeInv /\ FilesInv /\ Remembers
  BY VolumeStep DEF GroupedInv
<1>1. ASSUME NEW active \in Orders, NEW deleted \in Orders, NEW dirs \in {<<>>, <<Root>>}, NEW n \in AncSizes,
             NEW ends \in BOOLEAN, IsInjective(active \o deleted), SaveWith(dirs \o active, deleted, n, ends),
             saves' = saves + 1, faults' = faults, "data" \in hurt => "data" \in hurt', broken' = ~ends
      PROVE  FilesInv' /\ Remembers'
  <2> DEFINE act == dirs \o active
  <2>1. PICK ids, ext, files, w, gen :
          /\ Request(ids, ext, files, act, deleted) /\ Result(files, w, gen, act, deleted, n, ends)
          /\ saved' = Contents(ids, deleted, files)
    BY <1>1, SaveParts
  <2>2. act \in Seq(Files \cup {Root}) /\ act \o deleted \in Seq(Files \cup {Root})
    BY OrdersAreSeqs
  <2>3. CASE ends
    <3>1. Result(files, w, gen, act, deleted, n, TRUE)
      BY <2>1, <2>3
    <3>2. act = dirs \o active
      OBVIOUS
    <3> HIDE DEF act
    <3>3. Remembers'
      <4>1. VolumeInv /\ FilesInv /\ IsInjective(active \o deleted) /\ faults' = faults
        BY <1>0, <1>1
      <4>2. /\ Request(ids, ext, files, act, deleted)
            /\ saved' = Contents(ids, deleted, files)
        BY <2>1
      <4> QED
        BY <3>1, <3>2, <4>1, <4>2, SaveRemembers
    <3> QED
      BY <1>0, <1>1, <2>1, <2>2, <3>3, SaveKeepsFiles
  <2>4. CASE ~ends
    <3>1. Remembers'
      BY <1>1, <2>4 DEF Remembers
    <3> HIDE DEF act
    <3> QED
      BY <1>0, <1>1, <2>1, <2>2, <3>1, SaveKeepsFiles
  <2> QED
    BY <2>3, <2>4
<1>2. CASE Save
  BY <1>0, <1>1, <1>2 DEF Save, GroupedInv
<1>3. CASE SaveFails
  BY <1>0, <1>1, <1>3 DEF SaveFails, GroupedInv
<1>4. CASE Damage
  BY <1>0, <1>4, DamageTraced DEF GroupedInv
<1>5. CASE UNCHANGED vars
  <2>1. /\ disk' = disk /\ saved' = saved /\ records' = records /\ broken' = broken
        /\ hurt' = hurt /\ saves' = saves /\ faults' = faults
    BY <1>5 DEF vars
  <2>2. Remembers'
    BY <1>0, <2>1 DEF Remembers
  <2>3. Unshared' <=> Unshared
    BY DEF Unshared
  <2>4. FilesInv'
    BY <1>0, <2>1, <2>3 DEF FilesInv, FilesOK, Distinct, ContentsKept
  <2> QED
    BY <1>0, <2>2, <2>4 DEF GroupedInv
<1> QED
  BY <1>2, <1>3, <1>4, <1>5 DEF Next

\* A new volume has not saved anything yet.
LEMMA GroupedInit == Init => GroupedInv
<1> SUFFICES ASSUME Init PROVE GroupedInv
  OBVIOUS
<1>1. DOMAIN records = {} /\ saves = 0 /\ faults = 0 /\ broken
  BY DEF Init
<1>2. FilesInv
  BY <1>1, FilesAndBounds DEF FilesInv, FilesOK, Distinct, ContentsKept
<1>3. Remembers
  BY <1>1 DEF Remembers
<1> QED
  BY <1>2, <1>3, VolumeInit DEF GroupedInv

-----------------------------------------------------------------------------
(* What a load finds.                                                        *)

SlotsOf(d, k) == UserSlots(d) = {Slot(j) : j \in 1 .. k}

\* The inode table and the inode bitmap are those of the last save, so the
\* load looks at the slots of the inodes of q.
LEMMA TracedTable ==
  ASSUME NEW e, NEW w, NEW q, NEW cnt, NEW n, NEW v, NEW gen,
         SavedAs(records, saved, e, w, q, cnt, n, v, gen), Traced(disk, e, hurt, faults)
  PROVE  /\ Table(disk) = Table(w.d) /\ SlotsOf(disk, Len(q))
         /\ \A b \in 0 .. (Total - 1) : disk[b] = e[b] \/ (disk[b] = <<"junk">> /\ KindOn(e, b) \in hurt)
<1>1. \A b \in 0 .. (Total - 1) :
        \/ disk[b] = e[b]
        \/ disk[b] = <<"junk">> /\ b \notin {InodeBitmap, InodeTable} /\ KindOn(e, b) \in hurt
  BY DEF Traced, Changes
<1>2. disk[InodeTable] = e[InodeTable] /\ disk[InodeBitmap] = e[InodeBitmap]
  BY <1>1, ControlPlace
<1>3. Table(disk) = Table(w.d) /\ Bits(disk, InodeBitmap) = w.ib
  BY <1>2 DEF SavedAs, Finished, Table, Bits
<1>4. SlotsOf(disk, Len(q))
  BY <1>3, SlotsInUse DEF SavedAs, WorkHolds, SlotsOf
<1>5. \A b \in 0 .. (Total - 1) : disk[b] = e[b] \/ (disk[b] = <<"junk">> /\ KindOn(e, b) \in hurt)
  BY <1>1
<1> QED
  BY <1>3, <1>4, <1>5, Zenon

\* A block the save gave out holds what its owner wrote, a copy of the
\* superblock, or damage.
LEMMA GivenCells ==
  ASSUME NEW e, NEW w, NEW q, NEW cnt, NEW n, NEW v, NEW gen,
         SavedAs(records, saved, e, w, q, cnt, n, v, gen), NEW b \in Given(w.used)
  PROVE  /\ b \in 0 .. (Total - 1) /\ b # GroupTable /\ b # Primary /\ b \notin {BitmapBlock(g) : g \in Groups}
         /\ b \notin Copies => e[b] = w.d[b] /\ b \notin Supers
         /\ b \in Copies => e[b][1] = "super"
<1>1. b \in Area /\ b \in 0 .. (Total - 1) /\ b \notin {1, 2, 3, 4}
  BY GivenPlace, ControlPlace DEF SavedAs
<1>2. \A g \in Groups : b # BitmapBlock(g)
  BY DataPlace DEF SavedAs, UsedOK, Given
<1>3. b \in Copies => e[b][1] = "super"
  BY DEF SavedAs, Finished, Supers, Super
<1>4. b \notin Copies => e[b] = w.d[b]
  BY <1>1, <1>2 DEF SavedAs, Finished
<1> QED
  BY <1>1, <1>2, <1>3, <1>4, ControlPlace DEF Supers

\* An attribute block that decodes is the one the save wrote for its inode.
LEMMA AttributeReads ==
  ASSUME NEW e, NEW w, NEW q, NEW cnt, NEW n, NEW v, NEW gen,
         SavedAs(records, saved, e, w, q, cnt, n, v, gen), Traced(disk, e, hurt, faults),
         NEW j \in 1 .. Len(q)
  PROVE  LET a == Table(disk)[Slot(j)].attr
         IN  /\ a \in Given(w.used) /\ w.d[a] = <<"attr", q[j]>>
             /\ disk[a][1] = "attr" => disk[a][2] = q[j]
<1> DEFINE a == Table(disk)[Slot(j)].attr
<1>0. Table(disk) = Table(w.d)
  BY TracedTable
<1>1. a \in Given(w.used)
  <2>1. MarksMatch(Table(w.d), Given(w.used), Len(q), n)
    BY DEF SavedAs, WorkHolds
  <2>2. Table(w.d)[Slot(j)].attr \in Given(w.used)
    BY <2>1 DEF MarksMatch
  <2> QED
    BY <1>0, <2>2
<1>2. w.d[a] = <<"attr", q[j]>>
  <2>1. BlocksHold(w.d, Len(q), q, n, v)
    BY DEF SavedAs, WorkHolds
  <2>2. w.d[Table(w.d)[Slot(j)].attr] = <<"attr", q[j]>>
    BY <2>1 DEF BlocksHold
  <2> QED
    BY <1>0, <2>2
<1> HIDE DEF a
<1>3. a \in 0 .. (Total - 1) /\ (a \notin Copies => e[a] = w.d[a]) /\ (a \in Copies => e[a][1] = "super")
  BY <1>1, GivenCells
<1>4. disk[a] = e[a] \/ disk[a] = <<"junk">>
  BY <1>3, TracedTable
<1>5. ASSUME disk[a][1] = "attr" PROVE disk[a] = <<"attr", q[j]>>
  BY <1>2, <1>3, <1>4, <1>5
<1> QED
  BY <1>1, <1>2, <1>5 DEF a

\* Reading a file yields the contents saved for it, or the damage to them.
LEMMA ContentReads ==
  ASSUME FilesInv, NEW e, NEW w, NEW q, NEW cnt, NEW n, NEW v, NEW gen,
         SavedAs(records, saved, e, w, q, cnt, n, v, gen), Traced(disk, e, hurt, faults),
         NEW j \in 1 .. Len(q)
  PROVE  LET rec == Table(disk)[Slot(j)]
         IN  /\ rec.del = (j > cnt)
             /\ Unshared => Content(disk, rec) = records[q[j]].crc \/ Hit(Content(disk, rec), hurt)
<1> DEFINE rec == Table(disk)[Slot(j)]
<1>1. rec.ext = records[q[j]].ext /\ rec.crc = records[q[j]].crc /\ rec.del = (j > cnt)
  <2>1. Table(disk) = Table(w.d)
    BY TracedTable
  <2>2. TableHolds(Table(w.d), Len(q), q, cnt, records, n, v) /\ Len(q) \in Nat
    BY DEF SavedAs, WorkHolds
  <2>3. /\ Table(w.d)[Slot(j)].ext = records[q[j]].ext /\ Table(w.d)[Slot(j)].crc = records[q[j]].crc
        /\ Table(w.d)[Slot(j)].del = (j > cnt)
    BY <2>2, RecordFields
  <2> QED
    BY <2>1, <2>3
<1>2. q[j] \in DOMAIN records
  BY DEF SavedAs
<1>3. records[q[j]].ext = <<>> => records[q[j]].crc = <<"none">>
  <2>1. ASSUME NEW b, records[q[j]].ext = <<b>> PROVE records[q[j]].ext # <<>>
    BY <2>1
  <2>2. \/ records[q[j]].ext = <<>> /\ records[q[j]].crc = <<"none">>
        \/ \E b \in Nat : records[q[j]].ext = <<b>>
    BY <1>2 DEF FilesInv, FilesOK
  <2> QED
    BY <2>1, <2>2
<1>4. ASSUME Unshared, records[q[j]].ext # <<>>
      PROVE  LET x == disk[records[q[j]].ext[1]] IN x = records[q[j]].crc \/ Hit(x, hurt)
  BY <1>2, <1>4 DEF FilesInv, ContentsKept
<1> HIDE DEF rec
<1>5. Unshared => Content(disk, rec) = rec.crc \/ Hit(Content(disk, rec), hurt)
  BY <1>1, <1>3, <1>4 DEF Content
<1> QED
  BY <1>1, <1>5 DEF rec

\* What a load returns for one inode slot: the inode, its mark and its contents.
Entry(d, s) == <<d[Table(d)[s].attr][2], Table(d)[s].del, Content(d, Table(d)[s])>>

\* load_state_native_grouped: a load that succeeds returns the entry of every
\* inode slot in use, and each of them has its attributes.
LEMMA LoadReturns ==
  ASSUME NEW found \in LoadNativeGrouped(disk)
  PROVE  /\ found = {Entry(disk, s) : s \in UserSlots(disk)}
         /\ \A s \in UserSlots(disk) : disk[Table(disk)[s].attr][1] = "attr"
  BY DEF LoadNativeGrouped, Entry, Table

\* load_state_native_grouped: whatever blocks were damaged, inode bitmap and
\* table excepted, and however earlier saves failed, a volume that loads has
\* exactly the inodes that were saved, and its readers give each file its own
\* contents or the damage to them, provided the allocator kept off the contents.
THEOREM Confined == Unshared /\ Spec => []DamageConfined
<1> SUFFICES ASSUME Unshared PROVE Spec => []DamageConfined
  OBVIOUS
<1>1. GroupedInv => DamageConfined
  <2> SUFFICES ASSUME GroupedInv, ~broken, NEW found \in LoadNativeGrouped(disk)
               PROVE  /\ {<<t[1], t[2]>> : t \in found} = {<<u[1], u[2]>> : u \in saved}
                      /\ \A t \in found \ saved : t[3] = <<"junk">> /\ "data" \in hurt
    BY DEF DamageConfined
  <2>1. PICK e, w, q, cnt, n, v, gen : SavedAs(records, saved, e, w, q, cnt, n, v, gen) /\ Traced(disk, e, hurt, faults)
    BY DEF GroupedInv, Remembers
  <2> DEFINE E(j) == Entry(disk, Slot(j))
  <2> DEFINE U(j) == <<q[j], j > cnt, records[q[j]].crc>>
  <2>2. found = {Entry(disk, s) : s \in UserSlots(disk)} /\ \A s \in UserSlots(disk) : disk[Table(disk)[s].attr][1] = "attr"
    BY LoadReturns
  <2>3. UserSlots(disk) = {Slot(j) : j \in 1 .. Len(q)}
    BY <2>1, TracedTable DEF SlotsOf
  <2>4. found = {E(j) : j \in 1 .. Len(q)}
    BY <2>2, <2>3
  <2>5. saved = {U(j) : j \in 1 .. Len(q)}
    BY <2>1 DEF SavedAs
  <2>6. ASSUME NEW j \in 1 .. Len(q)
        PROVE  /\ E(j)[1] = U(j)[1] /\ E(j)[2] = U(j)[2]
               /\ E(j) = U(j) \/ Hit(E(j)[3], hurt)
    <3> DEFINE rec == Table(disk)[Slot(j)]
    <3>1. disk[rec.attr][2] = q[j]
      BY <2>1, <2>2, <2>3, AttributeReads
    <3>2. rec.del = (j > cnt) /\ (Content(disk, rec) = records[q[j]].crc \/ Hit(Content(disk, rec), hurt))
      BY <2>1, ContentReads DEF GroupedInv
    <3>3. E(j) = <<disk[rec.attr][2], rec.del, Content(disk, rec)>>
      BY DEF Entry
    <3> DEFINE c == Content(disk, rec)
    <3> DEFINE r == records[q[j]].crc
    <3> DEFINE i == disk[rec.attr][2]
    <3> DEFINE f == rec.del
    <3> DEFINE late == j > cnt
    <3>4. E(j) = <<i, f, c>> /\ U(j) = <<q[j], late, r>> /\ i = q[j] /\ f = late /\ (c = r \/ Hit(c, hurt))
      BY <3>1, <3>2, <3>3
    <3> HIDE DEF rec, c, r, i, f, late, E, U
    <3>5. E(j)[1] = i /\ E(j)[2] = f /\ E(j)[3] = c /\ U(j)[1] = q[j] /\ U(j)[2] = late /\ U(j)[3] = r
      BY <3>4
    <3> QED
      BY <3>4, <3>5
  <2> HIDE DEF E, U
  <2>7. \A j \in 1 .. Len(q) : <<E(j)[1], E(j)[2]>> = <<U(j)[1], U(j)[2]>>
    BY <2>6
  <2>8. /\ {<<t[1], t[2]>> : t \in found} = {<<E(j)[1], E(j)[2]>> : j \in 1 .. Len(q)}
        /\ {<<u[1], u[2]>> : u \in saved} = {<<U(j)[1], U(j)[2]>> : j \in 1 .. Len(q)}
    BY <2>4, <2>5
  <2>9. {<<t[1], t[2]>> : t \in found} = {<<u[1], u[2]>> : u \in saved}
    BY <2>7, <2>8
  <2>10. \A t \in found \ saved : t[3] = <<"junk">> /\ "data" \in hurt
    BY <2>4, <2>5, <2>6 DEF Hit
  <2> QED
    BY <2>9, <2>10
<1> QED
  BY <1>1, GroupedInit, GroupedStep, PTL DEF Spec

\* With fewer than three damages one copy of the superblock is left.
LEMMA CopyLeft ==
  ASSUME NEW d, NEW e, NEW kinds, NEW m \in Nat, m <= 2, Traced(d, e, kinds, m)
  PROVE  \E b \in Supers : d[b] = e[b]
<1> SUFFICES ASSUME \A b \in Supers : d[b] # e[b] PROVE FALSE
  OBVIOUS
<1>1. Supers \subseteq 0 .. (Total - 1)
  BY ControlPlace DEF Supers
<1>2. Changes(d, e) \cap Supers = Supers
  BY <1>1 DEF Changes
<1>3. Cardinality(Supers) = 3
  <2>1. Supers = ({Primary} \cup {Total \div 2}) \cup {Total - 1}
    BY DEF Supers, Copies
  <2>2. Total \div 2 \notin {Primary} /\ Total - 1 \notin {Primary} \cup {Total \div 2}
    BY CopyPlace, ControlPlace
  <2>3. IsFiniteSet({Primary}) /\ Cardinality({Primary}) = 1
    BY FS_Singleton
  <2> DEFINE O == {Primary}
  <2> DEFINE P == O \cup {Total \div 2}
  <2>4. IsFiniteSet(P) /\ Cardinality(P) = 2
    <3>1. IsFiniteSet(O) /\ Cardinality(O) = 1 /\ Total \div 2 \notin O
      BY <2>2, <2>3
    <3> HIDE DEF O
    <3> QED
      BY <3>1, FS_AddElement
  <2>5. Supers = P \cup {Total - 1} /\ Total - 1 \notin P
    BY <2>1, <2>2
  <2> HIDE DEF P
  <2>6. Cardinality(Supers) = Cardinality(P) + 1
    BY <2>4, <2>5, FS_AddElement
  <2> QED
    BY <2>4, <2>6
<1>4. Cardinality(Changes(d, e) \cap Supers) = 3
  BY <1>2, <1>3, Zenon
<1> QED
  BY <1>4 DEF Traced

\* Where only copies of the superblock are damaged, what the save gave out is
\* as it was written.
LEMMA GivenIntact ==
  ASSUME CopiesClear, hurt \subseteq {"copy"}, NEW e, NEW w, NEW q, NEW cnt, NEW n, NEW v, NEW gen,
         SavedAs(records, saved, e, w, q, cnt, n, v, gen), Traced(disk, e, hurt, faults),
         NEW b \in Given(w.used), w.d[b][1] # "copy"
  PROVE  disk[b] = w.d[b]
<1>1. b \notin Copies
  BY DEF SavedAs
<1>2. /\ b \in 0 .. (Total - 1) /\ b # GroupTable /\ b \notin {BitmapBlock(g) : g \in Groups}
      /\ e[b] = w.d[b] /\ b \notin Supers
  BY <1>1, GivenCells
<1>3. KindOn(e, b) \notin hurt
  BY <1>2 DEF KindOn
<1> QED
  BY <1>2, <1>3, TracedTable

\* ... and so are the maps.
LEMMA MapsIntact ==
  ASSUME hurt \subseteq {"copy"}, NEW e, NEW w, NEW q, NEW cnt, NEW n, NEW v, NEW gen,
         SavedAs(records, saved, e, w, q, cnt, n, v, gen), Traced(disk, e, hurt, faults)
  PROVE  BitmapsMatch(disk)
<1>1. \A b \in 0 .. (Total - 1) : KindOn(e, b) = "bitmap" => disk[b] = e[b]
  BY TracedTable
<1>2. GroupTable \in 0 .. (Total - 1) /\ KindOn(e, GroupTable) = "bitmap"
  BY ControlPlace DEF KindOn, Supers
<1>3. ASSUME NEW g \in Groups PROVE BitmapBlock(g) \in 0 .. (Total - 1) /\ KindOn(e, BitmapBlock(g)) = "bitmap"
  BY ControlPlace DEF KindOn, Supers
<1>4. disk[GroupTable] = RefreshDescriptors(w.used) /\ \A g \in Groups : disk[BitmapBlock(g)] = <<"bits", w.used[g]>>
  BY <1>1, <1>2, <1>3 DEF SavedAs, Finished
<1> DEFINE free == [g \in Groups |-> Cardinality(GroupData(g)) - Cardinality(w.used[g])]
<1> DEFINE x == [free |-> free, crc |-> w.used]
<1>5. RefreshDescriptors(w.used) = <<"groups", x>> /\ x.crc = w.used
  BY DEF RefreshDescriptors, Descriptors
<1> HIDE DEF x
<1>6. disk[GroupTable][1] = "groups" /\ disk[GroupTable][2].crc = w.used
  BY <1>4, <1>5
<1> QED
  BY <1>4, <1>6 DEF BitmapsMatch

\* A save that returned is what a load returns, with every file's contents,
\* also when a copy of the superblock is damaged, and whatever an earlier save
\* that failed half-way had left: provided the allocator kept off the contents
\* of files and the superblocks, and fewer blocks are damaged than there are
\* copies of the superblock.
THEOREM SavedReturns == Unshared /\ CopiesClear /\ MaxFaults <= 2 /\ Spec => []SavedLoads
<1> SUFFICES ASSUME Unshared /\ CopiesClear /\ MaxFaults <= 2 PROVE Spec => []SavedLoads
  OBVIOUS
<1>1. GroupedInv => SavedLoads
  <2> SUFFICES ASSUME GroupedInv, ~broken, hurt \subseteq {"copy"} PROVE LoadNativeGrouped(disk) = {saved}
    BY DEF SavedLoads
  <2>1. PICK e, w, q, cnt, n, v, gen : SavedAs(records, saved, e, w, q, cnt, n, v, gen) /\ Traced(disk, e, hurt, faults)
    BY DEF GroupedInv, Remembers
  <2>2. Table(disk) = Table(w.d) /\ UserSlots(disk) = {Slot(j) : j \in 1 .. Len(q)}
    BY <2>1, TracedTable DEF SlotsOf
  <2>3. \E x : ReadSb(disk) = {x}
    <3> DEFINE c == Super(gen, SumFunction(RefreshDescriptors(w.used)[2].free), InodeCount - Cardinality(w.ib))
    <3>1. c[1] = "super"
      BY DEF Super
    <3>2. \A b \in Supers : e[b] = c
      BY <2>1 DEF SavedAs, Finished
    <3> HIDE DEF c
    <3>3. Supers \subseteq 0 .. (Total - 1)
      BY ControlPlace DEF Supers
    <3>4. \A b \in Supers : disk[b] = c \/ disk[b][1] # "super"
      BY <2>1, <3>2, <3>3, TracedTable
    <3>5. faults \in Nat /\ faults <= 2
      BY FilesAndBounds DEF GroupedInv, FilesInv
    <3>6. \E b \in Supers : disk[b] = c
      BY <2>1, <3>2, <3>5, CopyLeft
    <3>7. ReadSb(disk) = {c[2]}
      BY <3>1, <3>4, <3>6, ReadsSuper
    <3> QED
      BY <3>7
  <2>4. BitmapsMatch(disk)
    BY <2>1, MapsIntact
  <2>5. AncillaryReads(disk)
    <3> DEFINE anc == Table(w.d)[Ancillary]
    <3>1. anc.kind = "system" /\ anc.crc = <<"anc", v, n>>
      BY <2>1 DEF SavedAs, WorkHolds, TableHolds
    <3>2. \A b \in ToSet(anc.ext) : b \in Given(w.used) /\ w.d[b] = <<"anc", v, n>>
      BY <2>1 DEF SavedAs, WorkHolds, MarksMatch, BlocksHold
    <3>3. \A b \in ToSet(anc.ext) : disk[b] = <<"anc", v, n>>
      BY <2>1, <3>2, GivenIntact
    <3> HIDE DEF anc
    <3>4. \A i \in DOMAIN anc.ext : anc.ext[i] \in ToSet(anc.ext)
      BY DEF ToSet
    <3>5. anc = disk[InodeTable][2][Ancillary]
      BY <2>2 DEF anc, Table
    <3> QED
      BY <3>1, <3>3, <3>4, <3>5 DEF AncillaryReads
  <2>6. \A j \in 1 .. Len(q) : /\ disk[Table(disk)[Slot(j)].attr][1] = "attr"
                               /\ disk[Table(disk)[Slot(j)].attr][2] = q[j]
    <3> SUFFICES ASSUME NEW j \in 1 .. Len(q)
                 PROVE  disk[Table(disk)[Slot(j)].attr][1] = "attr" /\ disk[Table(disk)[Slot(j)].attr][2] = q[j]
      OBVIOUS
    <3> DEFINE a == Table(disk)[Slot(j)].attr
    <3>1. a \in Given(w.used) /\ w.d[a] = <<"attr", q[j]>>
      BY <2>1, AttributeReads
    <3> HIDE DEF a
    <3>2. disk[a] = <<"attr", q[j]>>
      BY <2>1, <3>1, GivenIntact
    <3> QED
      BY <3>2 DEF a
  <2>7. \A s \in UserSlots(disk) : disk[Table(disk)[s].attr][1] = "attr"
    BY <2>2, <2>6
  <2>8. LoadNativeGrouped(disk) = {{Entry(disk, s) : s \in UserSlots(disk)}}
    BY <2>3, <2>4, <2>5, <2>7 DEF LoadNativeGrouped, Entry, Table
  <2>9. ASSUME NEW j \in 1 .. Len(q) PROVE Entry(disk, Slot(j)) = <<q[j], j > cnt, records[q[j]].crc>>
    <3>1. "data" \notin hurt
      OBVIOUS
    <3>2. Table(disk)[Slot(j)].del = (j > cnt) /\ Content(disk, Table(disk)[Slot(j)]) = records[q[j]].crc
      BY <2>1, <3>1, ContentReads DEF GroupedInv, Hit
    <3> QED
      BY <2>6, <3>2, Zenon DEF Entry
  <2>10. {Entry(disk, s) : s \in UserSlots(disk)} = saved
    <3>1. saved = {<<q[j], j > cnt, records[q[j]].crc>> : j \in 1 .. Len(q)}
      BY <2>1 DEF SavedAs
    <3>2. {Entry(disk, s) : s \in UserSlots(disk)} = {Entry(disk, Slot(j)) : j \in 1 .. Len(q)}
      BY <2>2
    <3> QED
      BY <2>9, <3>1, <3>2
  <2> QED
    BY <2>8, <2>10
<1> QED
  BY <1>1, GroupedInit, GroupedStep, PTL DEF Spec

=============================================================================
