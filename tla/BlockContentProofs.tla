-------------------------- MODULE BlockContentProofs --------------------------
(***************************************************************************)
(* Proofs about what the extent store holds: every file reads back what    *)
(* its last writer stored, and the dedup table counts no reference twice,  *)
(* for every set of inodes, contents, block size and allocator policy.     *)
(***************************************************************************)
EXTENDS BlockStoreProofs

-----------------------------------------------------------------------------
(* The dedup table *)

\* The files of D whose content is c.
Owners(R, D, c) == {i \in D : R[i].crc = c}

\* The table d counts no more references than the files of D hold.
Covers(d, R, D) ==
    \A c \in DOMAIN d : d[c] \in Nat \ {0} /\ d[c] <= Cardinality(Owners(R, D, c))

\* The files of a finite set with a content are finitely many.
LEMMA OwnersFinite ==
  ASSUME NEW R, NEW D, IsFiniteSet(D), NEW c
  PROVE  IsFiniteSet(Owners(R, D, c)) /\ Cardinality(Owners(R, D, c)) \in Nat
<1>1. Owners(R, D, c) \subseteq D
  BY DEF Owners
<1>2. IsFiniteSet(Owners(R, D, c))
  BY <1>1, FS_Subset
<1> QED
  BY <1>2, FS_CardinalityType

\* dedup_release: without the file that gives up its content the table still
\* counts no more than there is.
LEMMA ReleaseCovers ==
  ASSUME NEW d, NEW R, NEW D, IsFiniteSet(D), Covers(d, R, D), NEW i \in D
  PROVE  Covers(DedupRelease(d, R[i].crc), R, D \ {i})
<1> DEFINE c == R[i].crc
<1> DEFINE e == DedupRelease(d, c)
<1> SUFFICES ASSUME NEW x \in DOMAIN e
             PROVE  e[x] \in Nat \ {0} /\ e[x] <= Cardinality(Owners(R, D \ {i}, x))
  BY DEF Covers
<1>1. DOMAIN e \subseteq DOMAIN d
  BY DEF DedupRelease
<1>2. d[x] \in Nat \ {0} /\ d[x] <= Cardinality(Owners(R, D, x))
  BY <1>1 DEF Covers
<1>3. CASE x # c
  <2>1. e[x] = d[x]
    BY <1>1, <1>3 DEF DedupRelease
  <2>2. Owners(R, D \ {i}, x) = Owners(R, D, x)
    BY <1>3 DEF Owners
  <2> QED
    BY <1>2, <2>1, <2>2
<1>4. CASE x = c
  <2>1. e[x] = d[x] - 1 /\ d[x] > 1
    BY <1>1, <1>2, <1>4 DEF DedupRelease
  <2>2. Owners(R, D \ {i}, x) = Owners(R, D, x) \ {i} /\ i \in Owners(R, D, x)
    BY <1>4 DEF Owners
  <2>3. Cardinality(Owners(R, D \ {i}, x)) = Cardinality(Owners(R, D, x)) - 1
    BY <2>2, OwnersFinite, FS_RemoveElement
  <2>4. Cardinality(Owners(R, D, x)) \in Nat
    BY OwnersFinite
  <2> QED
    BY <1>2, <2>1, <2>3, <2>4
<1> QED
  BY <1>3, <1>4

\* dedup_insert: a file more, counted or not.
LEMMA InsertCovers ==
  ASSUME NEW d, NEW R, NEW D, IsFiniteSet(D), NEW i, i \notin D, Covers(d, R, D),
         NEW Q, \A j \in D : Q[j].crc = R[j].crc
  PROVE  Covers(d, Q, D \cup {i}) /\ Covers(DedupInsert(d, Q[i].crc), Q, D \cup {i})
<1> DEFINE c == Q[i].crc
<1> DEFINE e == DedupInsert(d, c)
<1>1. \A x : /\ Owners(R, D, x) \subseteq Owners(Q, D \cup {i}, x)
             /\ x = c => Owners(Q, D \cup {i}, x) = Owners(R, D, x) \cup {i} /\ i \notin Owners(R, D, x)
  BY DEF Owners
<1>2. \A x : /\ IsFiniteSet(Owners(Q, D \cup {i}, x)) /\ Cardinality(Owners(Q, D \cup {i}, x)) \in Nat
             /\ IsFiniteSet(Owners(R, D, x)) /\ Cardinality(Owners(R, D, x)) \in Nat
  <2>1. IsFiniteSet(D \cup {i})
    BY FS_AddElement
  <2> QED
    BY <2>1, OwnersFinite
<1>3. \A x : /\ Cardinality(Owners(R, D, x)) <= Cardinality(Owners(Q, D \cup {i}, x))
             /\ x = c => Cardinality(Owners(Q, D \cup {i}, x)) = Cardinality(Owners(R, D, x)) + 1
  <2> SUFFICES ASSUME NEW x
               PROVE  /\ Cardinality(Owners(R, D, x)) <= Cardinality(Owners(Q, D \cup {i}, x))
                      /\ x = c => Cardinality(Owners(Q, D \cup {i}, x)) = Cardinality(Owners(R, D, x)) + 1
    OBVIOUS
  <2>1. Cardinality(Owners(R, D, x)) <= Cardinality(Owners(Q, D \cup {i}, x))
    BY <1>1, <1>2, FS_Subset
  <2>2. ASSUME x = c PROVE Cardinality(Owners(Q, D \cup {i}, x)) = Cardinality(Owners(R, D, x)) + 1
    <3>1. Owners(Q, D \cup {i}, x) = Owners(R, D, x) \cup {i} /\ i \notin Owners(R, D, x)
      BY <1>1, <2>2
    <3> QED
      BY <1>2, <3>1, FS_AddElement
  <2> QED
    BY <2>1, <2>2
<1>4. Covers(d, Q, D \cup {i})
  <2> SUFFICES ASSUME NEW x \in DOMAIN d
               PROVE  d[x] \in Nat \ {0} /\ d[x] <= Cardinality(Owners(Q, D \cup {i}, x))
    BY DEF Covers
  <2>1. d[x] \in Nat \ {0} /\ d[x] <= Cardinality(Owners(R, D, x))
    BY DEF Covers
  <2>2. /\ Cardinality(Owners(R, D, x)) <= Cardinality(Owners(Q, D \cup {i}, x))
        /\ Cardinality(Owners(R, D, x)) \in Nat /\ Cardinality(Owners(Q, D \cup {i}, x)) \in Nat
    BY <1>2, <1>3
  <2> QED
    BY <2>1, <2>2
<1>5. ASSUME NEW x \in DOMAIN e
      PROVE  e[x] \in Nat \ {0} /\ e[x] <= Cardinality(Owners(Q, D \cup {i}, x))
  <2>1. CASE x # c
    <3>1. x \in DOMAIN d /\ e[x] = d[x]
      BY <2>1 DEF DedupInsert, Bind
    <3> QED
      BY <1>4, <3>1 DEF Covers
  <2>2. CASE x = c
    <3>1. e[x] = IF c \in DOMAIN d THEN d[c] + 1 ELSE 1
      BY <2>2 DEF DedupInsert, Bind
    <3>2. c \in DOMAIN d => d[c] \in Nat \ {0} /\ d[c] <= Cardinality(Owners(R, D, c))
      BY DEF Covers
    <3>3. Cardinality(Owners(Q, D \cup {i}, c)) = Cardinality(Owners(R, D, c)) + 1
          /\ Cardinality(Owners(R, D, c)) \in Nat
      BY <1>2, <1>3
    <3> HIDE DEF c, e
    <3> QED
      BY <2>2, <3>1, <3>2, <3>3
  <2> QED
    BY <2>1, <2>2
<1> QED
  BY <1>4, <1>5 DEF Covers

\* Changes of the free space leave records, device and dedup table alone.
LEMMA SpaceKeeps ==
  ASSUME NEW s, DOMAIN s = Keys
  PROVE  /\ SameButSpace(s, TrimFreeTail(s)) /\ SameButSpace(s, NormalizeFreeExtents(s))
         /\ \A e : SameButSpace(s, InsertFreeExtent(s, e))
         /\ \A n : SameButSpace(s, AllocateExtent(s, n).store)
<1>1. \A n, f : SameButSpace(s, WithFree(s, n, f))
  BY WithFreeIs DEF SameButSpace
<1>2. \A u : DOMAIN u = Keys => SameButSpace(u, TrimFreeTail(u))
  <2>1. \A u : DOMAIN u = Keys => SameButSpace(u, u)
    BY DEF SameButSpace
  <2>2. \A u, n, f : SameButSpace(u, WithFree(u, n, f))
    BY WithFreeIs DEF SameButSpace
  <2> QED
    BY <2>1, <2>2 DEF TrimFreeTail
<1>3. \A u : SameButSpace(s, u) => SameButSpace(s, NormalizeFreeExtents(u))
  <2> SUFFICES ASSUME NEW u, SameButSpace(s, u) PROVE SameButSpace(s, NormalizeFreeExtents(u))
    OBVIOUS
  <2> DEFINE f == IF u.policy.coalesce THEN Merge(SortedByStart(u.free)) ELSE SortedByStart(u.free)
  <2> DEFINE v == WithFree(u, u.next, f)
  <2>1. NormalizeFreeExtents(u) = TrimFreeTail(v)
    BY DEF NormalizeFreeExtents
  <2>2. SameButSpace(u, v) /\ DOMAIN v = Keys
    BY WithFreeIs DEF SameButSpace
  <2> HIDE DEF v
  <2>3. SameButSpace(v, TrimFreeTail(v))
    BY <1>2, <2>2
  <2> QED
    BY <2>1, <2>2, <2>3 DEF SameButSpace
<1>4. SameButSpace(s, s)
  BY DEF SameButSpace
<1>5. \A u, e : SameButSpace(s, u) => SameButSpace(s, InsertFreeExtent(u, e))
  <2> SUFFICES ASSUME NEW u, NEW e, SameButSpace(s, u) PROVE SameButSpace(s, InsertFreeExtent(u, e))
    OBVIOUS
  <2> DEFINE v == WithFree(u, u.next, Append(u.free, e))
  <2>1. InsertFreeExtent(u, e) \in {u, NormalizeFreeExtents(v)}
    BY DEF InsertFreeExtent
  <2>2. SameButSpace(s, v)
    BY WithFreeIs DEF SameButSpace
  <2> HIDE DEF v
  <2>3. SameButSpace(s, NormalizeFreeExtents(v))
    BY <1>3, <2>2
  <2> QED
    BY <2>1, <2>3
<1>6. \A n : SameButSpace(s, AllocateExtent(s, n).store)
  <2> SUFFICES ASSUME NEW n PROVE SameButSpace(s, AllocateExtent(s, n).store)
    OBVIOUS
  <2> DEFINE k == PickExtent(s, n)
  <2> DEFINE e == s.free[k]
  <2> DEFINE rest == WithFree(s, s.next, RemoveAt(s.free, k))
  <2>1. AllocateExtent(s, n).store \in
           {WithFree(s, s.next + n, s.free), InsertFreeExtent(rest, Extent(e.start + n, e.len - n)), rest}
    BY DEF AllocateExtent
  <2>2. SameButSpace(s, rest)
    BY <1>1
  <2> HIDE DEF rest
  <2> QED
    BY <1>1, <1>5, <2>1, <2>2
<1> QED
  BY <1>2, <1>3, <1>4, <1>5, <1>6

\* The fields of a record.
IsRecord(r) == DOMAIN r = {"size", "crc", "extents"}

\* The table of a store counts no more references than there are files.
TableOK(s) ==
    /\ DOMAIN s = Keys
    /\ IsFiniteSet(DOMAIN s.records)
    /\ \A j \in DOMAIN s.records : IsRecord(s.records[j])
    /\ Covers(s.dedup, s.records, DOMAIN s.records)

\* The table without file i.
TableWithout(s, i, t) ==
    /\ DOMAIN t = Keys /\ t.records = s.records /\ t.dev = s.dev /\ t.policy = s.policy
    /\ Covers(t.dedup, s.records, DOMAIN s.records \ {i})

\* Blocks given back to the free list and to the pending TRIM list.
LEMMA FreeKeeps ==
  ASSUME NEW s, DOMAIN s = Keys, NEW e, NEW d
  PROVE  LET t == FreeBlocks([s EXCEPT !.dedup = d], e)
         IN  /\ DOMAIN t = Keys /\ t.records = s.records /\ t.dev = s.dev /\ t.policy = s.policy
             /\ t.dedup = d
<1> DEFINE u == [[s EXCEPT !.dedup = d] EXCEPT !.trims = IF TrackTrims THEN @ \cup Span(e) ELSE @]
<1>1. FreeBlocks([s EXCEPT !.dedup = d], e) = InsertFreeExtent(u, e)
  BY DEF FreeBlocks
<1>2. DOMAIN u = Keys /\ u.records = s.records /\ u.dev = s.dev /\ u.policy = s.policy /\ u.dedup = d
  BY DEF Keys
<1> HIDE DEF u
<1>3. SameButSpace(u, InsertFreeExtent(u, e))
  BY <1>2, SpaceKeeps
<1> QED
  BY <1>1, <1>2, <1>3 DEF SameButSpace

\* Release, or what stands for it: the record's reference is given up.
LEMMA ReleaseTable ==
  ASSUME NEW s, TableOK(s), NEW i \in DOMAIN s.records, NEW e
  PROVE  TableWithout(s, i, FreeBlocks([s EXCEPT !.dedup = DedupRelease(@, s.records[i].crc)], e))
<1> DEFINE d == DedupRelease(s.dedup, s.records[i].crc)
<1>1. Covers(d, s.records, DOMAIN s.records \ {i})
  BY ReleaseCovers DEF TableOK
<1>2. [s EXCEPT !.dedup = DedupRelease(@, s.records[i].crc)] = [s EXCEPT !.dedup = d]
  OBVIOUS
<1> HIDE DEF d
<1> QED
  BY <1>1, <1>2, FreeKeeps DEF TableOK, TableWithout

\* A file that is not there has no reference to give up.
LEMMA NoneTable ==
  ASSUME NEW s, TableOK(s), NEW i, i \notin DOMAIN s.records
  PROVE  TableWithout(s, i, s)
<1>1. DOMAIN s.records \ {i} = DOMAIN s.records
  OBVIOUS
<1> QED
  BY <1>1 DEF TableOK, TableWithout

\* Freed, with blocks allocated afterwards or not.
LEMMA FreedTable ==
  ASSUME NEW s, TableOK(s), NEW i
  PROVE  TableWithout(s, i, Freed(s, i)) /\ \A n : TableWithout(s, i, AllocateExtent(Freed(s, i), n).store)
<1>1. TableWithout(s, i, Freed(s, i))
  <2>1. CASE i \in DOMAIN s.records
    BY <2>1, ReleaseTable DEF Freed, Release
  <2>2. CASE i \notin DOMAIN s.records
    BY <2>2, NoneTable DEF Freed
  <2> QED
    BY <2>1, <2>2
<1>2. \A n : SameButSpace(Freed(s, i), AllocateExtent(Freed(s, i), n).store)
  BY <1>1, SpaceKeeps DEF TableWithout
<1> QED
  BY <1>1, <1>2 DEF TableWithout, SameButSpace

\* A record for file i, with a reference for its content or without.
LEMMA RecordTable ==
  ASSUME NEW s, TableOK(s), NEW i, NEW d, Covers(d, s.records, DOMAIN s.records \ {i}),
         NEW t, DOMAIN t = Keys, Puts(s.records, t.records, i, t.records[i]),
         t.dedup \in {d, DedupInsert(d, t.records[i].crc)}, IsRecord(t.records[i])
  PROVE  TableOK(t)
<1> DEFINE D == DOMAIN s.records \ {i}
<1>1. IsFiniteSet(D) /\ IsFiniteSet(D \cup {i}) /\ D \cup {i} = DOMAIN t.records /\ i \notin D
  <2>1. IsFiniteSet(D)
    BY FS_Subset DEF TableOK
  <2>2. IsFiniteSet(D \cup {i})
    BY <2>1, FS_AddElement
  <2> QED
    BY <2>1, <2>2 DEF Puts
<1>2. \A j \in D : t.records[j].crc = s.records[j].crc
  BY DEF Puts
<1> HIDE DEF D
<1>3. Covers(d, s.records, D)
  BY DEF D
<1>4. Covers(t.dedup, t.records, D \cup {i})
  <2> DEFINE Q == t.records
  <2>1. \A j \in D : Q[j].crc = s.records[j].crc
    BY <1>2
  <2>2. t.dedup \in {d, DedupInsert(d, Q[i].crc)}
    OBVIOUS
  <2> HIDE DEF Q
  <2>3. Covers(d, Q, D \cup {i}) /\ Covers(DedupInsert(d, Q[i].crc), Q, D \cup {i})
    BY <1>1, <1>3, <2>1, InsertCovers
  <2>4. Covers(t.dedup, Q, D \cup {i})
    BY <2>2, <2>3
  <2> QED
    BY <2>4 DEF Q
<1>5. \A j \in DOMAIN t.records : IsRecord(t.records[j])
  BY DEF Puts, TableOK
<1> QED
  BY <1>1, <1>4, <1>5 DEF TableOK

\* Records that change without their contents leave the table true.
LEMMA SameTable ==
  ASSUME NEW s, TableOK(s), NEW t, DOMAIN t = Keys, t.dedup = s.dedup, DOMAIN t.records = DOMAIN s.records,
         \A j \in DOMAIN s.records : IsRecord(t.records[j]) /\ t.records[j].crc = s.records[j].crc
  PROVE  TableOK(t)
<1>1. \A c : Owners(t.records, DOMAIN t.records, c) = Owners(s.records, DOMAIN s.records, c)
  BY DEF Owners
<1> QED
  BY <1>1 DEF TableOK, Covers

\* The record put by write, write_device and clone_for_inode.
LEMMA PutTable ==
  ASSUME NEW s, TableOK(s), NEW i, NEW spot, TableWithout(s, i, spot.store), NEW c, NEW d,
         d \in {spot.store.dedup, DedupInsert(spot.store.dedup, c)}
  PROVE  LET t == PutRecord(spot, i, c, d)
         IN  TableOK(t) /\ Puts(s.records, t.records, i, t.records[i]) /\ t.records[i].crc = c
<1> DEFINE r == [size |-> Len(c), crc |-> c,
                 extents |-> IF c = <<>> THEN <<>>
                             ELSE <<[start |-> spot.start, blocks |-> spot.blocks, len |-> Len(c)]>>]
<1> DEFINE v == WriteAtBlock(spot.store.dev, spot.start, spot.blocks, c)
<1> DEFINE t == PutRecord(spot, i, c, d)
<1>1. t = WithFiles(spot.store, Bind(s.records, i, r), d, v)
  BY DEF PutRecord, TableWithout
<1>2. r.crc = c /\ IsRecord(r)
  BY DEF IsRecord
<1> HIDE DEF r, v
<1>3. DOMAIN t = Keys /\ t.records = Bind(s.records, i, r) /\ t.dedup = d
  BY <1>1, WithFilesIs
<1> HIDE DEF t
<1>4. Puts(s.records, t.records, i, r) /\ t.records[i] = r
  <2>1. Puts(s.records, Bind(s.records, i, r), i, r)
    BY BindIs
  <2> QED
    BY <1>3, <2>1 DEF Puts
<1>5. TableOK(t)
  BY <1>2, <1>3, <1>4, RecordTable DEF TableWithout
<1> QED
  BY <1>2, <1>4, <1>5 DEF t

\* write and write_device.
LEMMA WriteTable ==
  ASSUME NEW s, TableOK(s), NEW i, NEW c
  PROVE  TableOK(Write(s, i, c)) /\ TableOK(WriteDevice(s, i, c))
<1> DEFINE n == RequiredBlocks(Len(c))
<1>1. \A spot : TableWithout(s, i, spot.store) => TableOK(PutRecord(spot, i, c, DedupInsert(spot.store.dedup, c)))
  BY PutTable
<1>2. TableWithout(s, i, AllocateExtent(Freed(s, i), n).store)
  BY FreedTable
<1>3. TableOK(Write(s, i, c))
  <2>1. CASE i \in DOMAIN s.records /\ TotalBlocks(s.records[i]) >= n
    <3> DEFINE spot == ReuseBlocks(s, s.records[i], n)
    <3>1. Write(s, i, c) = PutRecord(spot, i, c, DedupInsert(spot.store.dedup, c))
      BY <2>1 DEF Write
    <3>2. TableWithout(s, i, spot.store)
      BY <2>1, ReleaseTable DEF ReuseBlocks
    <3> HIDE DEF spot
    <3> QED
      BY <1>1, <3>1, <3>2
  <2>2. CASE ~(i \in DOMAIN s.records /\ TotalBlocks(s.records[i]) >= n)
    <3> DEFINE spot == AllocateExtent(Freed(s, i), n)
    <3>1. Write(s, i, c) = PutRecord(spot, i, c, DedupInsert(spot.store.dedup, c))
      BY <2>2 DEF Write, Freed
    <3>2. TableWithout(s, i, spot.store)
      BY <1>2
    <3> HIDE DEF spot
    <3> QED
      BY <1>1, <3>1, <3>2
  <2> QED
    BY <2>1, <2>2
<1>4. TableOK(WriteDevice(s, i, c))
  <2> DEFINE spot == AllocateExtent(Freed(s, i), n)
  <2> DEFINE put == PutRecord(spot, i, c, DedupInsert(spot.store.dedup, c))
  <2>1. WriteDevice(s, i, c) = IF c = <<>> THEN [put EXCEPT !.dev = s.dev] ELSE put
    BY DEF WriteDevice, Freed
  <2>2. TableOK(put)
    BY <1>1, <1>2
  <2> HIDE DEF put
  <2>3. LET t == [put EXCEPT !.dev = s.dev]
        IN  DOMAIN t = DOMAIN put /\ t.records = put.records /\ t.dedup = put.dedup
    BY <2>2 DEF TableOK, Keys
  <2>4. TableOK([put EXCEPT !.dev = s.dev])
    BY <2>2, <2>3 DEF TableOK
  <2> QED
    BY <2>1, <2>2, <2>4
<1> QED
  BY <1>3, <1>4

\* A new extent, or more cells in an old one: the content is not counted yet.
LEMMA WithRecordTable ==
  ASSUME NEW s, TableOK(s), NEW i \in DOMAIN s.records,
         NEW r, IsRecord(r), r.crc = s.records[i].crc, NEW v
  PROVE  LET t == WithRecord(s, i, r, v)
         IN  TableOK(t) /\ DOMAIN t.records = DOMAIN s.records /\ t.records[i] = r
<1> DEFINE t == WithRecord(s, i, r, v)
<1>1. DOMAIN t = Keys /\ t.records = [s.records EXCEPT ![i] = r] /\ t.dedup = s.dedup
  BY WithFilesIs DEF WithRecord
<1> HIDE DEF t
<1>2. DOMAIN t.records = DOMAIN s.records /\ t.records[i] = r
      /\ \A j \in DOMAIN s.records : IsRecord(t.records[j]) /\ t.records[j].crc = s.records[j].crc
  BY <1>1 DEF TableOK
<1>3. TableOK(t)
  BY <1>1, <1>2, SameTable
<1> QED
  BY <1>2, <1>3 DEF t

\* add_extent: the content the record is counted for stays.
LEMMA AddTable ==
  ASSUME NEW s, TableOK(s), NEW i \in DOMAIN s.records, NEW c
  PROVE  LET t == AddExtent(s, i, c) IN TableOK(t) /\ DOMAIN t.records = DOMAIN s.records
<1> DEFINE spot == AllocateExtent(s, RequiredBlocks(Len(c)))
<1> DEFINE e == [start |-> spot.start, blocks |-> spot.blocks, len |-> Len(c)]
<1> DEFINE r == [s.records[i] EXCEPT !.extents = Append(s.records[i].extents, e)]
<1> DEFINE v == WriteAtBlock(spot.store.dev, spot.start, spot.blocks, c)
<1>1. AddExtent(s, i, c) = WithRecord(spot.store, i, r, v)
  BY DEF AddExtent
<1>2. SameButSpace(s, spot.store)
  BY SpaceKeeps DEF TableOK
<1>3. TableOK(spot.store) /\ spot.store.records = s.records
  BY <1>2 DEF SameButSpace, TableOK
<1>4. IsRecord(r) /\ r.crc = s.records[i].crc
  BY DEF TableOK, IsRecord
<1> HIDE DEF r, v, spot
<1> QED
  BY <1>1, <1>3, <1>4, WithRecordTable

\* The bookkeeping of a fast-path append gives up the old content's reference.
LEMMA GrownTable ==
  ASSUME NEW s, TableOK(s), NEW i \in DOMAIN s.records, NEW c
  PROVE  TableOK(Grown(s, i, c))
<1> DEFINE t == Grown(s, i, c)
<1> DEFINE d == DedupRelease(s.dedup, s.records[i].crc)
<1>1. DOMAIN t = Keys /\ t.records = [s.records EXCEPT ![i] = GrownRecord(s.records[i], c)] /\ t.dedup = d
  BY WithFilesIs DEF Grown
<1>2. Covers(d, s.records, DOMAIN s.records \ {i})
  BY ReleaseCovers DEF TableOK
<1> HIDE DEF t, d
<1>3. Puts(s.records, t.records, i, t.records[i]) /\ IsRecord(t.records[i])
  BY <1>1 DEF Puts, IsRecord, GrownRecord
<1>4. TableOK(t)
  BY <1>1, <1>2, <1>3, RecordTable
<1> QED
  BY <1>4 DEF t

\* append_to_inode and append_device.
LEMMA AppendTable ==
  ASSUME NEW s, TableOK(s), NEW i, NEW c
  PROVE  TableOK(AppendToInode(s, i, c)) /\ TableOK(AppendDevice(s, i, c))
<1>1. TableOK(AppendToInode(s, i, c))
  <2>1. CASE HasContent(s, i) /\ c # <<>>
    <3>1. AppendToInode(s, i, c) = Grown(AddExtent(s, i, c), i, c) /\ i \in DOMAIN s.records
      BY <2>1 DEF AppendToInode, HasContent
    <3> QED
      BY <3>1, AddTable, GrownTable
  <2>2. CASE ~(HasContent(s, i) /\ c # <<>>)
    BY <2>2, WriteTable DEF AppendToInode
  <2> QED
    BY <2>1, <2>2
<1>2. TableOK(AppendDevice(s, i, c))
  <2>1. CASE HasContent(s, i) /\ c # <<>>
    <3> DEFINE k == Len(s.records[i].extents)
               e == s.records[i].extents[k]
               fill == Least(Len(c), e.blocks * BlockSize - e.len)
               base == e.start * BlockSize + e.len
               tail == FillSlack(s, i, k, fill, base, c)
               rest == SubSeq(c, fill + 1, Len(c))
    <3>1. AppendDevice(s, i, c) = Grown(IF rest = <<>> THEN tail ELSE AddExtent(tail, i, rest), i, c)
      BY <2>1 DEF AppendDevice
    <3>2. i \in DOMAIN s.records
      BY <2>1 DEF HasContent
    <3> HIDE DEF k, e, fill, base, rest
    <3>3. TableOK(tail) /\ DOMAIN tail.records = DOMAIN s.records
      <4> DEFINE q == [s.records[i] EXCEPT !.extents[k].len = s.records[i].extents[k].len + fill]
      <4>1. IsRecord(q) /\ q.crc = s.records[i].crc
        BY <3>2 DEF TableOK, IsRecord
      <4>2. \E v : tail = WithRecord(s, i, q, v)
        BY DEF FillSlack
      <4> HIDE DEF q, tail
      <4> QED
        BY <3>2, <4>1, <4>2, WithRecordTable
    <3> HIDE DEF tail
    <3>4. LET u == IF rest = <<>> THEN tail ELSE AddExtent(tail, i, rest)
          IN  TableOK(u) /\ DOMAIN u.records = DOMAIN s.records
      BY <3>2, <3>3, AddTable
    <3> QED
      BY <3>1, <3>2, <3>4, GrownTable
  <2>2. CASE ~(HasContent(s, i) /\ c # <<>>)
    BY <2>2, WriteTable DEF AppendDevice
  <2> QED
    BY <2>1, <2>2
<1> QED
  BY <1>1, <1>2

\* write_range_report, and write_at of the device variant.
LEMMA RangeTable ==
  ASSUME NEW s, TableOK(s), NEW i, NEW off, NEW c
  PROVE  TableOK(WriteRange(s, i, off, c)) /\ TableOK(WriteAt(s, i, off, c))
<1>1. TableOK(WriteRangeFallback(s, i, off, c))
  BY WriteTable DEF WriteRangeFallback
<1>2. ASSUME i \in DOMAIN s.records PROVE TableOK(OverwriteInPlace(s, i, off, c))
  <2> DEFINE t == OverwriteInPlace(s, i, off, c)
             rel == DedupRelease(s.dedup, s.records[i].crc)
  <2>1. t = s \/ \E crc, v, d : /\ d \in {rel, DedupInsert(rel, crc)}
                                /\ t = WithFiles(s, [s.records EXCEPT ![i] = [s.records[i] EXCEPT !.crc = crc]], d, v)
    BY DEF OverwriteInPlace
  <2> HIDE DEF t
  <2>2. ASSUME NEW crc, NEW v, NEW d, d \in {rel, DedupInsert(rel, crc)},
               IsRecord(s.records[i]),
               t = WithFiles(s, [s.records EXCEPT ![i] = [s.records[i] EXCEPT !.crc = crc]], d, v)
        PROVE  TableOK(t)
    <3>1. DOMAIN t = Keys /\ t.dedup = d /\ t.records = [s.records EXCEPT ![i] = [s.records[i] EXCEPT !.crc = crc]]
      BY <2>2, WithFilesIs
    <3>2. /\ t.records[i].crc = crc /\ IsRecord(t.records[i])
          /\ Puts(s.records, t.records, i, t.records[i])
      BY <1>2, <2>2, <3>1 DEF Puts, IsRecord
    <3>3. Covers(rel, s.records, DOMAIN s.records \ {i})
      BY <1>2, ReleaseCovers DEF TableOK
    <3> HIDE DEF rel
    <3> QED
      BY <2>2, <3>1, <3>2, <3>3, RecordTable
  <2>3. IsRecord(s.records[i])
    BY <1>2 DEF TableOK
  <2> HIDE DEF rel
  <2>4. TableOK(t)
    BY <2>1, <2>2, <2>3
  <2> QED
    BY <2>4 DEF t
<1>3. TableOK(WriteRange(s, i, off, c))
  BY <1>1, <1>2, WriteTable, AppendTable DEF WriteRange
<1>4. TableOK(WriteAt(s, i, off, c))
  BY WriteTable, AppendTable DEF WriteAt
<1> QED
  BY <1>3, <1>4

\* resize_inode and truncate.
LEMMA ResizeTable ==
  ASSUME NEW s, TableOK(s), NEW i, NEW n
  PROVE  TableOK(ResizeInode(s, i, n)) /\ TableOK(Truncate(s, i, n))
<1>1. TableOK(ResizeInode(s, i, n))
  BY WriteTable, AppendTable DEF ResizeInode
<1>2. TableOK(Truncate(s, i, n))
  BY WriteTable DEF Truncate
<1> QED
  BY <1>1, <1>2

\* remove and remove_inode.
LEMMA RemoveTable ==
  ASSUME NEW s, TableOK(s), NEW i \in DOMAIN s.records
  PROVE  TableOK(RemoveInode(s, i))
<1> DEFINE D == DOMAIN s.records \ {i}
           R == [j \in D |-> s.records[j]]
           u == [s EXCEPT !.records = R]
           d == DedupRelease(u.dedup, s.records[i].crc)
           e == Extent(FirstPhysicalBlock(s.records[i]), TotalBlocks(s.records[i]))
           t == RemoveInode(s, i)
<1>1. t = FreeBlocks([u EXCEPT !.dedup = d], e)
  BY DEF RemoveInode, Release
<1>2. DOMAIN u = Keys /\ u.records = R /\ u.dedup = s.dedup
  BY DEF TableOK, Keys
<1>3. Covers(DedupRelease(s.dedup, s.records[i].crc), s.records, D)
  BY ReleaseCovers DEF TableOK
<1>4. d = DedupRelease(s.dedup, s.records[i].crc)
  BY <1>2
<1>5. Covers(d, s.records, D)
  BY <1>3, <1>4
<1> HIDE DEF u, d, e
<1>6. DOMAIN t = Keys /\ t.records = R /\ t.dedup = d
  BY <1>1, <1>2, FreeKeeps
<1>7. \A c : Owners(R, DOMAIN R, c) = Owners(s.records, D, c)
  BY DEF Owners
<1>8. Covers(d, R, DOMAIN R)
  BY <1>5, <1>7 DEF Covers
<1>9. IsFiniteSet(D)
  BY FS_Subset DEF TableOK
<1>10. DOMAIN R = D /\ \A j \in D : IsRecord(R[j])
  BY DEF TableOK
<1> HIDE DEF t, D, R
<1>11. TableOK(t)
  BY <1>6, <1>8, <1>9, <1>10 DEF TableOK
<1> QED
  BY <1>11 DEF t

\* clone_for_inode: the content has two files at least.
LEMMA CloneTable ==
  ASSUME NEW s, TableOK(s), NEW i \in DOMAIN s.records, NEW j, j \notin DOMAIN s.records
  PROVE  TableOK(CloneForInode(s, i, j))
<1> DEFINE D == DOMAIN s.records
           c == s.records[i].crc
           d == Bind(s.dedup, c, IF c \in DOMAIN s.dedup THEN s.dedup[c] + 1 ELSE 2)
           spot == AllocateExtent(s, RequiredBlocks(Len(Read(s, i))))
           put == PutRecord(spot, j, Read(s, i), d)
           r == [put.records[j] EXCEPT !.crc = c]
           t == CloneForInode(s, i, j)
<1>1. \E v : t = WithRecord(put, j, r, v)
  BY DEF CloneForInode
<1>2. SameButSpace(s, spot.store)
  BY SpaceKeeps DEF TableOK
<1> HIDE DEF spot
<1>3. \E q, v : /\ IsRecord(q) /\ put = WithFiles(spot.store, Bind(s.records, j, q), d, v)
  <2> DEFINE c1 == Read(s, i)
             q == [size |-> Len(c1), crc |-> c1,
                   extents |-> IF c1 = <<>> THEN <<>>
                               ELSE <<[start |-> spot.start, blocks |-> spot.blocks, len |-> Len(c1)]>>]
             v == WriteAtBlock(spot.store.dev, spot.start, spot.blocks, c1)
  <2> HIDE DEF c1
  <2>1. put = WithFiles(spot.store, Bind(spot.store.records, j, q), d, v)
    BY DEF PutRecord, c1
  <2>2. IsRecord(q)
    BY DEF IsRecord
  <2> HIDE DEF q, v
  <2> QED
    BY <1>2, <2>1, <2>2 DEF SameButSpace
<1> HIDE DEF put, d
<1>4. PICK q : IsRecord(q) /\ put.records = Bind(s.records, j, q) /\ put.dedup = d /\ DOMAIN put = Keys
  BY <1>3, WithFilesIs
<1>5. Puts(s.records, put.records, j, q)
  BY <1>4, BindIs
<1>6. IsRecord(r) /\ r.crc = c
  BY <1>4, <1>5 DEF IsRecord, Puts
<1> HIDE DEF r
<1>7. DOMAIN t = Keys /\ t.records = [put.records EXCEPT ![j] = r] /\ t.dedup = d
  BY <1>1, <1>4, WithFilesIs DEF WithRecord
<1> HIDE DEF t
<1> DEFINE Q == t.records
<1>8. DOMAIN Q = D \cup {j} /\ Q[j] = r /\ \A k \in D : Q[k] = s.records[k]
  BY <1>5, <1>7 DEF Puts
<1>9. \A k \in DOMAIN Q : IsRecord(Q[k])
  BY <1>6, <1>8 DEF TableOK
<1>10. IsFiniteSet(D) /\ IsFiniteSet(D \cup {j}) /\ Covers(s.dedup, s.records, D) /\ j \notin D /\ i \in D
  BY FS_AddElement DEF TableOK
<1> HIDE DEF Q, D
<1>11. Covers(DedupInsert(s.dedup, c), Q, D \cup {j})
  BY <1>6, <1>8, <1>10, InsertCovers
<1>12. Cardinality(Owners(Q, D \cup {j}, c)) >= 2
  <2>1. {i, j} \subseteq Owners(Q, D \cup {j}, c)
    BY <1>6, <1>8, <1>10 DEF Owners
  <2>2. IsFiniteSet(Owners(Q, D \cup {j}, c)) /\ Cardinality(Owners(Q, D \cup {j}, c)) \in Nat
    BY <1>10, OwnersFinite
  <2>3. Cardinality({i}) = 1 /\ IsFiniteSet({i})
    BY FS_Singleton
  <2>4. {i, j} = {i} \cup {j} /\ j \notin {i}
    BY <1>10
  <2>5. Cardinality({i, j}) = 2
    BY <2>3, <2>4, FS_AddElement, SMTT(30)
  <2>6. Cardinality({i, j}) <= Cardinality(Owners(Q, D \cup {j}, c))
    BY <2>1, <2>2, FS_Subset
  <2> QED
    BY <2>2, <2>5, <2>6
<1>13. ASSUME NEW x \in DOMAIN d
       PROVE  d[x] \in Nat \ {0} /\ d[x] <= Cardinality(Owners(Q, D \cup {j}, x))
  <2>1. DOMAIN d = DOMAIN DedupInsert(s.dedup, c)
    BY DEF d, DedupInsert, Bind
  <2>2. d[x] = DedupInsert(s.dedup, c)[x] \/ (x = c /\ d[x] = 2)
    BY DEF d, DedupInsert, Bind
  <2>3. CASE d[x] = DedupInsert(s.dedup, c)[x]
    BY <1>11, <2>1, <2>3 DEF Covers
  <2>4. CASE x = c /\ d[x] = 2
    BY <1>12, <2>4
  <2> QED
    BY <2>2, <2>3, <2>4
<1>14. Covers(d, Q, D \cup {j})
  BY <1>13 DEF Covers
<1>15. TableOK(t)
  BY <1>7, <1>8, <1>9, <1>10, <1>14 DEF TableOK, Q
<1> QED
  BY <1>15 DEF t

\* dedup_pass counts the references anew; the pending TRIM list and the policy
\* have nothing to do with them.
LEMMA BookkeepingTable ==
  ASSUME NEW s, TableOK(s)
  PROVE  /\ TableOK(DedupPass(s)) /\ TableOK([s EXCEPT !.trims = {}])
         /\ \A p : TableOK(SetAllocatorPolicy(s, p))
         /\ \A n : TableOK(AllocateExtent(s, n).store)
<1>1. \A t : SameButSpace(s, t) => TableOK(t)
  BY DEF SameButSpace, TableOK
<1>2. \A n : TableOK(AllocateExtent(s, n).store)
  BY <1>1, SpaceKeeps DEF TableOK
<1>3. \A u : DOMAIN u = Keys /\ u.records = s.records /\ u.dedup = s.dedup => TableOK(u)
  BY DEF TableOK
<1>4. TableOK([s EXCEPT !.trims = {}])
  BY <1>3 DEF TableOK, Keys
<1>5. ASSUME NEW p PROVE TableOK(SetAllocatorPolicy(s, p))
  <2> DEFINE u == [s EXCEPT !.policy = p]
  <2>1. DOMAIN u = Keys /\ u.records = s.records /\ u.dedup = s.dedup
    BY DEF TableOK, Keys
  <2>2. SetAllocatorPolicy(s, p) = NormalizeFreeExtents(u)
    BY DEF SetAllocatorPolicy
  <2> HIDE DEF u
  <2>3. SameButSpace(u, NormalizeFreeExtents(u))
    BY <2>1, SpaceKeeps
  <2> QED
    BY <1>3, <2>1, <2>2, <2>3 DEF SameButSpace
<1>6. TableOK(DedupPass(s))
  <2> DEFINE D == DOMAIN s.records
             d == [c \in {x \in DOMAIN s.dedup : Cardinality(Owners(s.records, D, x)) > 0}
                       |-> Cardinality(Owners(s.records, D, c))]
             t == DedupPass(s)
  <2>1. t = [s EXCEPT !.dedup = d]
    BY DEF DedupPass, Owners
  <2>2. DOMAIN t = Keys /\ t.records = s.records /\ t.dedup = d
    BY <2>1 DEF TableOK, Keys
  <2>3. \A c : Cardinality(Owners(s.records, D, c)) \in Nat
    BY OwnersFinite DEF TableOK
  <2>4. Covers(d, s.records, D)
    BY <2>3 DEF Covers
  <2> HIDE DEF t, d
  <2>5. TableOK(t)
    BY <2>2, <2>4 DEF TableOK
  <2> QED
    BY <2>5 DEF t
<1> QED
  BY <1>2, <1>4, <1>5, <1>6

\* defragment and optimize_with_priorities: records move, contents stay.
LEMMA RelocateTable ==
  ASSUME NEW s, TableOK(s), NEW order, Len(order) \in Nat, NEW floor
  PROVE  TableOK(Relocate(s, order, floor))
<1> DEFINE Same(t) == /\ DOMAIN t = Keys /\ t.dedup = s.dedup /\ DOMAIN t.records = DOMAIN s.records
                      /\ \A j \in DOMAIN s.records : IsRecord(t.records[j]) /\ t.records[j].crc = s.records[j].crc
<1>1. PICK w : /\ w[0] = WithFree(s, 0, <<>>)
               /\ \A k \in 1..Len(order) : w[k] = MoveToCursor(s, w[k - 1], order[k], floor)
               /\ Relocate(s, order, floor) = w[Len(order)]
  BY RelocateChain
<1> DEFINE T == {m \in 0..Len(order) : Same(w[m])}
<1>2. 0 \in T
  BY <1>1, WithFreeIs DEF TableOK
<1>3. ASSUME NEW acc, Same(acc), NEW i PROVE Same(MoveToCursor(s, acc, i, floor))
  <2> DEFINE r == s.records[i]
             t == MoveToCursor(s, acc, i, floor)
             q == [r EXCEPT !.extents = [k \in DOMAIN r.extents |-> [r.extents[k] EXCEPT !.start = acc.next]]]
  <2>1. \E n, v : t = WithFree(acc, n, <<>>) \/ t = WithRecord(WithFree(acc, n, <<>>), i, q, v)
    BY DEF MoveToCursor
  <2> HIDE DEF t
  <2>2. ASSUME NEW n, t = WithFree(acc, n, <<>>) PROVE Same(t)
    BY <1>3, <2>2, WithFreeIs
  <2>3. ASSUME NEW n, NEW v, t = WithRecord(WithFree(acc, n, <<>>), i, q, v) PROVE Same(t)
    <3>1. i \in DOMAIN s.records => IsRecord(q) /\ q.crc = s.records[i].crc
      BY DEF TableOK, IsRecord
    <3> HIDE DEF q
    <3> DEFINE u == WithFree(acc, n, <<>>)
    <3>2. u.records = acc.records /\ u.dedup = acc.dedup
      BY WithFreeIs
    <3> HIDE DEF u
    <3>3. DOMAIN t = Keys /\ t.dedup = acc.dedup /\ t.records = [acc.records EXCEPT ![i] = q]
      BY <2>3, <3>2, WithFilesIs DEF WithRecord, u
    <3> QED
      BY <1>3, <3>1, <3>3
  <2>4. Same(t)
    BY <2>1, <2>2, <2>3
  <2> QED
    BY <2>4 DEF t
<1>4. ASSUME NEW m \in 1..Len(order), m - 1 \in T PROVE m \in T
  <2>1. Same(w[m - 1])
    BY <1>4
  <2>2. w[m] = MoveToCursor(s, w[m - 1], order[m], floor)
    BY <1>1
  <2> HIDE DEF Same
  <2>3. Same(w[m])
    BY <1>3, <2>1, <2>2
  <2> QED
    BY <1>4, <2>3
<1> HIDE DEF T
<1>5. \A m \in 0..Len(order) : m \in T
  BY <1>2, <1>4, UpTo
<1>6. Same(Relocate(s, order, floor))
  BY <1>1, <1>5 DEF T
<1> QED
  BY <1>6, SameTable

\* optimize_with_priorities lays the files out in another order, or not at all.
LEMMA OptimizeTable ==
  ASSUME NEW s, TableOK(s), NEW hot
  PROVE  TableOK(Defragment(s)) /\ TableOK(OptimizeWithPriorities(s, hot))
<1>1. \A R, floor : TableOK(Relocate(s, Arranged(DOMAIN s.records, R), floor))
  <2> SUFFICES ASSUME NEW R, NEW floor
               PROVE  TableOK(Relocate(s, Arranged(DOMAIN s.records, R), floor))
    OBVIOUS
  <2>1. Cardinality(DOMAIN s.records) \in Nat
    BY FS_CardinalityType DEF TableOK
  <2>2. Len(Arranged(DOMAIN s.records, R)) \in Nat
    BY <2>1 DEF Arranged
  <2> QED
    BY <2>2, RelocateTable
<1>2. TableOK(Defragment(s))
  BY <1>1 DEF Defragment, LaidOut
<1>3. TableOK(ReallocatePrioritizedExtents(s, hot))
  BY <1>1 DEF ReallocatePrioritizedExtents
<1> QED
  BY <1>2, <1>3 DEF OptimizeWithPriorities

\* from_records_with_allocator takes the records, counts one reference for every one,
\* and leaves the device of the new store.
LEMMA RestoredFields ==
  ASSUME NEW E, NEW R, NEW f
  PROVE  LET t == FromRecordsWithAllocator(E, R, f)
         IN  /\ DOMAIN t = Keys /\ t.records = R /\ t.dev = E.dev
             /\ t.dedup = [c \in {R[i].crc : i \in DOMAIN R} |-> Cardinality(Owners(R, DOMAIN R, c))]
<1> DEFINE occ == {Occupied(R[i]) : i \in DOMAIN R}
           gaps == Gaps(occ)
           d == [c \in {R[i].crc : i \in DOMAIN R} |-> Cardinality(Owners(R, DOMAIN R, c))]
           u == WithFiles(E, R, d, E.dev)
           v == WithFree(u, gaps.top, gaps.free)
           base == Ingest(E, R)
           adopted == NormalizeFreeExtents(WithFree(base, base.next, f))
           t == FromRecordsWithAllocator(E, R, f)
           Same(x) == DOMAIN x = Keys /\ x.records = R /\ x.dev = E.dev /\ x.dedup = d
<1>1. base = TrimFreeTail(v)
  BY DEF Ingest, Owners
<1>2. t \in {WithFree(adopted, n, g) : n \in {Max({adopted.next, gaps.top} \cup {End(e) : e \in ToSet(adopted.free)})},
                                       g \in {adopted.free}}
      \/ t = TrimFreeTail(WithFree(adopted, Greatest(adopted.next, gaps.top), gaps.free))
  BY DEF FromRecordsWithAllocator
<1> HIDE DEF gaps, d
<1>4. Same(u)
  BY WithFilesIs
<1> HIDE DEF u
<1>5. Same(v)
  BY <1>4, WithFreeIs
<1> HIDE DEF v
<1>6. Same(base)
  BY <1>1, <1>5, SpaceKeeps DEF SameButSpace
<1> HIDE DEF base
<1>7. Same(adopted)
  <2> DEFINE x == WithFree(base, base.next, f)
  <2>1. Same(x)
    BY <1>6, WithFreeIs
  <2> HIDE DEF x
  <2>2. SameButSpace(x, NormalizeFreeExtents(x))
    BY <2>1, SpaceKeeps
  <2> QED
    BY <2>1, <2>2 DEF SameButSpace, x
<1> HIDE DEF adopted, t
<1>8. \A n, g : Same(WithFree(adopted, n, g)) /\ Same(TrimFreeTail(WithFree(adopted, n, g)))
  <2> SUFFICES ASSUME NEW n, NEW g
               PROVE  Same(WithFree(adopted, n, g)) /\ Same(TrimFreeTail(WithFree(adopted, n, g)))
    OBVIOUS
  <2> DEFINE x == WithFree(adopted, n, g)
  <2>1. Same(x)
    BY <1>7, WithFreeIs
  <2> HIDE DEF x
  <2>2. SameButSpace(x, TrimFreeTail(x))
    BY <2>1, SpaceKeeps
  <2> QED
    BY <2>1, <2>2 DEF SameButSpace, x
<1>9. Same(t)
  <2> HIDE DEF Same
  <2> QED
    BY <1>2, <1>8
<1> QED
  BY <1>9 DEF t, d

\* from_records_with_allocator counts the references of the files it is given.
LEMMA RestoredTable ==
  ASSUME NEW s, TableOK(s), NEW f
  PROVE  TableOK(FromRecordsWithAllocator(EmptyStore(s.policy), SavedRecords(s), f))
<1> DEFINE R == SavedRecords(s)
           E == EmptyStore(s.policy)
           d == [c \in {R[i].crc : i \in DOMAIN R} |-> Cardinality(Owners(R, DOMAIN R, c))]
           t == FromRecordsWithAllocator(E, R, f)
<1>1. DOMAIN t = Keys /\ t.records = R /\ t.dedup = d
  BY RestoredFields
<1>2. DOMAIN R = DOMAIN s.records /\ \A i \in DOMAIN R : IsRecord(R[i])
  BY DEF SavedRecords, SavedRecord, IsRecord
<1> HIDE DEF R, E, d, t
<1>10. IsFiniteSet(DOMAIN R)
  BY <1>2 DEF TableOK
<1>11. Covers(d, R, DOMAIN R)
  <2> SUFFICES ASSUME NEW c \in DOMAIN d
               PROVE  d[c] \in Nat \ {0} /\ d[c] <= Cardinality(Owners(R, DOMAIN R, c))
    BY DEF Covers
  <2>1. d[c] = Cardinality(Owners(R, DOMAIN R, c))
    BY DEF d
  <2>2. Owners(R, DOMAIN R, c) # {}
    BY DEF d, Owners
  <2>3. IsFiniteSet(Owners(R, DOMAIN R, c)) /\ Cardinality(Owners(R, DOMAIN R, c)) \in Nat
    BY <1>10, OwnersFinite
  <2>4. Cardinality(Owners(R, DOMAIN R, c)) # 0
    BY <2>2, <2>3, FS_EmptySet
  <2> QED
    BY <2>1, <2>3, <2>4
<1>12. TableOK(t)
  BY <1>1, <1>2, <1>10, <1>11 DEF TableOK
<1> QED
  BY <1>12 DEF t, R, E

\* load_image_from_path: the records, then the bytes of one file after the other.
LEMMA LoadTable ==
  ASSUME NEW s, TableOK(s), NEW order, Len(order) \in Nat
  PROVE  TableOK(LoadImage(s, order))
<1>1. PICK w : /\ w[0] = FromRecordsWithAllocator(EmptyStore(s.policy), SavedRecords(s), SavedFree(s))
               /\ \A k \in 1..Len(order) : w[k] = Write(w[k - 1], order[k], Read(s, order[k]))
               /\ LoadImage(s, order) = w[Len(order)]
  BY LoadChain
<1> DEFINE T == {m \in 0..Len(order) : TableOK(w[m])}
<1>2. 0 \in T
  BY <1>1, RestoredTable
<1>3. ASSUME NEW m \in 1..Len(order), m - 1 \in T PROVE m \in T
  <2>1. TableOK(w[m - 1])
    BY <1>3
  <2>2. TableOK(Write(w[m - 1], order[m], Read(s, order[m])))
    BY <2>1, WriteTable
  <2>3. TableOK(w[m])
    BY <1>1, <1>3, <2>2
  <2> QED
    BY <1>3, <2>3
<1> HIDE DEF T
<1>4. \A m \in 0..Len(order) : m \in T
  BY <1>2, <1>3, UpTo
<1> QED
  BY <1>1, <1>4 DEF T

\* A refused append only gives up the reference of the content it was to extend.
LEMMA RefusedTable ==
  ASSUME NEW s, TableOK(s), NEW i, NEW n, NEW c
  PROVE  TableOK(Refused(s, i, n, c))
<1> DEFINE t == Refused(s, i, n, c)
           d == DedupRelease(s.dedup, s.records[i].crc)
           D == DOMAIN s.records
<1>1. DOMAIN t = Keys /\ t.records = s.records /\ t.dedup = d
  <2> DEFINE x == s.records[i].extents
             e == x[Len(x)]
             v == FillSlack(s, i, Len(x), n, e.start * BlockSize + e.len, c).dev
  <2>1. t = WithFiles(s, s.records, d, v)
    BY DEF Refused
  <2> HIDE DEF t, v, d
  <2> QED
    BY <2>1, WithFilesIs
<1>2. ASSUME NEW x \in DOMAIN d PROVE d[x] \in Nat \ {0} /\ d[x] <= Cardinality(Owners(s.records, D, x))
  <2>1. x \in DOMAIN s.dedup /\ (d[x] = s.dedup[x] \/ (d[x] = s.dedup[x] - 1 /\ s.dedup[x] > 1))
    BY DEF DedupRelease
  <2>2. s.dedup[x] \in Nat \ {0} /\ s.dedup[x] <= Cardinality(Owners(s.records, D, x))
    BY <2>1 DEF TableOK, Covers
  <2>3. Cardinality(Owners(s.records, D, x)) \in Nat
    BY OwnersFinite DEF TableOK
  <2> HIDE DEF d
  <2> QED
    BY <2>1, <2>2, <2>3
<1> HIDE DEF t, d
<1>3. TableOK(t)
  BY <1>1, <1>2 DEF TableOK, Covers
<1> QED
  BY <1>3 DEF t

\* Every action keeps the table true, whatever the callers do.
LEMMA StepTable ==
  ASSUME TableOK(store), [Next]_vars
  PROVE  TableOK(store')
<1>1. \A i, c : TableOK(Write(store, i, c)) /\ TableOK(WriteDevice(store, i, c))
  BY WriteTable
<1>2. \A i, c : TableOK(AppendToInode(store, i, c))
  BY AppendTable
<1>3. \A i, n, c : TableOK(WriteRange(store, i, n, c)) /\ TableOK(WriteAt(store, i, n, c))
  BY RangeTable
<1>4. \A i, n : TableOK(ResizeInode(store, i, n)) /\ TableOK(Truncate(store, i, n))
  BY ResizeTable
<1>5. \A hot : TableOK(Defragment(store)) /\ TableOK(OptimizeWithPriorities(store, hot))
  BY OptimizeTable
<1>6. /\ TableOK(DedupPass(store)) /\ TableOK([store EXCEPT !.trims = {}])
      /\ \A p : TableOK(SetAllocatorPolicy(store, p))
  BY BookkeepingTable
<1>7. ASSUME NEW i, NEW c,
             \/ DoWrite(i, c) \/ DoWriteEmpty(i) \/ DoWriteDevice(i, c)
      PROVE  TableOK(store')
  BY <1>1, <1>7 DEF DoWrite, DoWriteEmpty, DoWriteDevice, Holds
<1>8. ASSUME NEW i, NEW c, DoAppend(i, c) PROVE TableOK(store')
  BY <1>2, <1>8 DEF DoAppend, Holds
<1>9. ASSUME NEW i, NEW n, NEW c, DoWriteRange(i, n, c) \/ DoWriteAt(i, n, c) PROVE TableOK(store')
  BY <1>3, <1>9 DEF DoWriteRange, DoWriteAt, Holds
<1>10. ASSUME NEW i, NEW n, DoResize(i, n) \/ DoTruncate(i, n) PROVE TableOK(store')
  BY <1>4, <1>10 DEF DoResize, DoTruncate, Holds
<1>11. ASSUME NEW i, NEW c, DoWriteDeviceFails(i, c) PROVE TableOK(store')
  <2> DEFINE freed == IF i \in Known THEN RemoveInode(store, i) ELSE store
  <2>1. store' = AllocateExtent(freed, RequiredBlocks(Len(c))).store
    BY <1>11 DEF DoWriteDeviceFails
  <2>2. TableOK(freed)
    BY RemoveTable DEF Known
  <2> HIDE DEF freed
  <2> QED
    BY <2>1, <2>2, BookkeepingTable
<1>19. ASSUME NEW i, NEW c, DoAppendDeviceFails(i, c) PROVE TableOK(store')
  <2>1. \E n : \/ store' = Refused(store, i, n, c)
               \/ \E m : store' = AllocateExtent(Refused(store, i, n, c), m).store
    BY <1>19 DEF DoAppendDeviceFails, Refused
  <2> QED
    BY <2>1, RefusedTable, BookkeepingTable
<1>12. ASSUME NEW i, DoRemove(i) PROVE TableOK(store')
  BY <1>12, RemoveTable DEF DoRemove, Known
<1>13. ASSUME NEW i, NEW j, DoClone(i, j) PROVE TableOK(store')
  <2>1. store' = CloneForInode(store, i, j) /\ i \in DOMAIN store.records /\ j \notin DOMAIN store.records
    BY <1>13 DEF DoClone, Holds, Known
  <2> QED
    BY <2>1, CloneTable
<1>14. ASSUME NEW hot, DoDefragment \/ DoOptimize(hot) PROVE TableOK(store')
  BY <1>5, <1>14 DEF DoDefragment, DoOptimize, Keeps
<1>15. ASSUME NEW p, DoDedupPass \/ DoDrain \/ DoSetPolicy(p) PROVE TableOK(store')
  BY <1>6, <1>15 DEF DoDedupPass, DoDrain, DoSetPolicy, Keeps
<1>16. ASSUME NEW order \in SetToSeqs({i \in Known : Read(store, i) # <<>>}), DoReload(order)
       PROVE  TableOK(store')
  <2> DEFINE W == {i \in Known : Read(store, i) # <<>>}
  <2>1. store' = LoadImage(store, order) \/ store' = store
    BY <1>16 DEF DoReload, Keeps
  <2>2. IsFiniteSet(W)
    BY FS_Subset DEF Known, TableOK
  <2>3. Cardinality(W) \in Nat
    BY <2>2, FS_CardinalityType
  <2>4. order \in [1..Cardinality(W) -> W]
    BY DEF SetToSeqs
  <2> HIDE DEF W
  <2>5. Len(order) \in Nat
    BY <2>3, <2>4
  <2> QED
    BY <2>1, <2>5, LoadTable
<1>17. CASE UNCHANGED vars
  BY <1>17 DEF vars
<1>18. CASE Next
  BY <1>7, <1>8, <1>9, <1>10, <1>11, <1>12, <1>13, <1>14, <1>15, <1>16, <1>18, <1>19 DEF Next
<1> QED
  BY <1>17, <1>18

\* The dedup table never counts more references than there are files with the
\* content, whatever the callers do: is_shared never reports a sole owner as shared
\* (dedup_insert, dedup_release, dedup_pass).
THEOREM NotOvercounted ==
  Spec => []NeverOvercounted
<1>1. Init => TableOK(store)
  <2> SUFFICES ASSUME Init PROVE TableOK(store)
    OBVIOUS
  <2>1. PICK p \in Policies : store = EmptyStore(p)
    BY DEF Init
  <2>2. DOMAIN store = Keys /\ store.records = <<>> /\ store.dedup = <<>>
    BY <2>1 DEF EmptyStore, Keys
  <2>3. DOMAIN store.records = {} /\ DOMAIN store.dedup = {}
    BY <2>2
  <2> QED
    BY <2>2, <2>3, FS_EmptySet DEF TableOK, Covers
<1>2. TableOK(store) /\ [Next]_vars => TableOK(store)'
  BY StepTable
<1>3. TableOK(store) => NeverOvercounted
  BY DEF TableOK, Covers, Owners, NeverOvercounted, Known
<1> QED
  BY <1>1, <1>2, <1>3, PTL DEF Spec

-----------------------------------------------------------------------------
(* The cells of the device *)

\* The cells of the device (EmptyStore).
Device == 0..(MaxBlocks + RequiredBlocks(MaxSize)) * BlockSize - 1

\* The cells of n blocks from block a on.
Region(a, n) == {c \in Nat : a * BlockSize <= c /\ c < a * BlockSize + n * BlockSize}

\* Products with the block size keep the order.
LEMMA Scaled ==
  ASSUME NEW p \in Nat, NEW q \in Nat, NEW n \in Nat, NEW b \in Nat
  PROVE  /\ p * b \in Nat /\ (p + n) * b = p * b + n * b
         /\ p + n <= q => p * b + n * b <= q * b
<1>1. p * b \in Nat /\ n * b \in Nat /\ q * b \in Nat
  OBVIOUS
<1>2. (p + n) * b = p * b + n * b
  OBVIOUS
<1>3. ASSUME p + n <= q PROVE p * b + n * b <= q * b
  <2> DEFINE k == q - (p + n)
  <2>1. k \in Nat /\ q = (p + n) + k
    BY <1>3
  <2> HIDE DEF k
  <2>2. q * b = (p + n) * b + k * b
    BY <2>1
  <2>3. k * b \in Nat
    BY <2>1
  <2> QED
    BY <1>1, <1>2, <2>2, <2>3
<1> QED
  BY <1>1, <1>2, <1>3

\* Blocks apart have cells apart.
LEMMA RegionsApart ==
  ASSUME NEW a \in Nat, NEW n \in Nat, NEW b \in Nat, NEW m \in Nat, Area(a, n) \cap Area(b, m) = {}
  PROVE  Region(a, n) \cap Region(b, m) = {}
<1>1. BlockSize \in Nat
  BY BlockStoreAssumption DEF BlockStoreAssumption
<1>2. CASE n = 0 \/ m = 0
  BY <1>1, <1>2 DEF Region
<1>3. CASE n # 0 /\ m # 0
  <2>1. a + n <= b \/ b + m <= a
    <3>1. a \notin Area(b, m) \/ a \notin Area(a, n)
      OBVIOUS
    <3>2. b \notin Area(b, m) \/ b \notin Area(a, n)
      OBVIOUS
    <3> QED
      BY <1>3, <3>1, <3>2 DEF Area
  <2>2. a * BlockSize \in Nat /\ b * BlockSize \in Nat /\ n * BlockSize \in Nat /\ m * BlockSize \in Nat
    BY <1>1, Scaled
  <2>3. a + n <= b => a * BlockSize + n * BlockSize <= b * BlockSize
    BY <1>1, Scaled
  <2>4. b + m <= a => b * BlockSize + m * BlockSize <= a * BlockSize
    BY <1>1, Scaled
  <2>5. \/ a * BlockSize + n * BlockSize <= b * BlockSize
        \/ b * BlockSize + m * BlockSize <= a * BlockSize
    BY <2>1, <2>3, <2>4
  <2> QED
    BY <2>2, <2>5 DEF Region
<1> QED
  BY <1>2, <1>3

\* Blocks below the device's bound have their cells on it.
LEMMA RegionOn ==
  ASSUME NEW a \in Nat, NEW n \in Nat, Area(a, n) \subseteq Numbers(MaxBlocks)
  PROVE  Region(a, n) \subseteq Device
<1>1. BlockSize \in Nat /\ MaxBlocks \in Nat /\ MaxSize \in Nat
  BY BlockStoreAssumption DEF BlockStoreAssumption
<1>2. CASE n = 0
  BY <1>1, <1>2 DEF Region
<1>3. CASE n # 0
  <2> DEFINE R == RequiredBlocks(MaxSize)
  <2>1. R \in Nat
    BY <1>1, RequiredIs
  <2> HIDE DEF R
  <2>2. a + n <= MaxBlocks + R
    <3>1. a + (n - 1) \in Area(a, n)
      BY <1>3 DEF Area
    <3>2. a + (n - 1) < MaxBlocks
      BY <3>1 DEF Numbers
    <3> QED
      BY <1>1, <2>1, <3>2
  <2>3. a * BlockSize + n * BlockSize <= (MaxBlocks + R) * BlockSize
    BY <1>1, <2>1, <2>2, Scaled
  <2>4. (MaxBlocks + R) * BlockSize \in Nat
    BY <1>1, <2>1, Scaled
  <2>5. a * BlockSize \in Nat /\ n * BlockSize \in Nat
    BY <1>1, Scaled
  <2> DEFINE N == (MaxBlocks + R) * BlockSize
  <2>6. Device = 0..N - 1
    BY DEF Device, R
  <2>7. a * BlockSize + n * BlockSize <= N /\ N \in Nat
    BY <2>3, <2>4
  <2> HIDE DEF N
  <2> QED
    BY <2>5, <2>6, <2>7 DEF Region
<1> QED
  BY <1>2, <1>3

\* The number of cells before each extent of x.
Offsets(x, w) == w[1] = 0 /\ \A k \in 1..Len(x) : w[k] \in Nat /\ w[k + 1] = w[k] + x[k].len

\* The device v holds the content c in the extents x, whose lengths add up to its length.
Holding(v, x, c) ==
    \E w : /\ Offsets(x, w) /\ w[Len(x) + 1] = Len(c)
           /\ \A k \in 1..Len(x) : \A m \in 1..x[k].len : v[x[k].start * BlockSize + m - 1] = c[w[k] + m]

\* A cell of the extents x.
Within(x, c) == \E k \in 1..Len(x) : c \in Region(x[k].start, x[k].blocks)

\* Extents with room for their bytes.
Roomy(x) == x \in Seq(FileExts) /\ \A k \in 1..Len(x) : x[k].len <= x[k].blocks * BlockSize

\* The offsets grow by the lengths, and every position lies in an extent.
LEMMA OffsetsIs ==
  ASSUME NEW x \in Seq(FileExts), NEW w, Offsets(x, w)
  PROVE  /\ \A k \in 1..Len(x) + 1 : w[k] \in Nat
         /\ \A j \in 1..Len(x) : \A k \in 1..Len(x) + 1 : j < k => w[j] + x[j].len <= w[k]
         /\ \A p \in 1..w[Len(x) + 1] : \E k \in 1..Len(x) : p - w[k] \in 1..x[k].len
<1> DEFINE L == Len(x)
<1>1. /\ L \in Nat /\ w[1] = 0
      /\ \A k \in 1..L : w[k] \in Nat /\ w[k + 1] = w[k] + x[k].len /\ x[k].len \in Nat
  <2>1. \A k \in 1..L : x[k] \in FileExts
    OBVIOUS
  <2>2. \A k \in 1..L : x[k].len \in Nat
    BY <2>1 DEF FileExts
  <2>3. L \in Nat
    OBVIOUS
  <2> QED
    BY <2>2, <2>3 DEF Offsets
<1> HIDE DEF L
<1>2. \A k \in 1..L + 1 : w[k] \in Nat
  <2> SUFFICES ASSUME NEW k \in 1..L + 1 PROVE w[k] \in Nat
    OBVIOUS
  <2>1. CASE k = 1
    BY <1>1, <2>1
  <2>2. CASE k # 1
    <3>1. k - 1 \in 1..L /\ (k - 1) + 1 = k
      BY <1>1, <2>2
    <3>2. w[(k - 1) + 1] = w[k - 1] + x[k - 1].len /\ w[k - 1] \in Nat /\ x[k - 1].len \in Nat
      BY <1>1, <3>1
    <3>3. w[k - 1] + x[k - 1].len \in Nat
      BY <3>2
    <3> QED
      BY <3>1, <3>2, <3>3
  <2> QED
    BY <2>1, <2>2
<1> DEFINE T == {m \in 0..L : /\ \A j \in 1..m : w[j] + x[j].len <= w[m + 1]
                              /\ \A p \in 1..w[m + 1] : \E k \in 1..m : p - w[k] \in 1..x[k].len}
<1>3. 0 \in T
  BY <1>1
<1>4. ASSUME NEW m \in 1..L, m - 1 \in T PROVE m \in T
  <2>1. /\ \A j \in 1..m - 1 : w[j] + x[j].len <= w[m]
        /\ \A p \in 1..w[m] : \E k \in 1..m - 1 : p - w[k] \in 1..x[k].len
    BY <1>4
  <2>2. w[m + 1] = w[m] + x[m].len /\ w[m] \in Nat /\ x[m].len \in Nat /\ w[m + 1] \in Nat
    BY <1>1
  <2>3. ASSUME NEW j \in 1..m PROVE w[j] + x[j].len <= w[m + 1]
    <3>1. CASE j = m
      BY <2>2, <3>1
    <3>2. CASE j \in 1..m - 1
      <4>1. w[j] \in Nat /\ x[j].len \in Nat
        BY <1>1
      <4>2. w[j] + x[j].len <= w[m]
        BY <2>1, <3>2
      <4> QED
        BY <2>2, <4>1, <4>2, SMTT(30)
    <3> QED
      BY <3>1, <3>2
  <2>4. ASSUME NEW p \in 1..w[m + 1] PROVE \E k \in 1..m : p - w[k] \in 1..x[k].len
    <3>1. CASE p <= w[m]
      <4>1. p \in 1..w[m]
        BY <2>2, <3>1
      <4>2. PICK k \in 1..m - 1 : p - w[k] \in 1..x[k].len
        BY <2>1, <4>1
      <4> QED
        BY <4>2
    <3>2. CASE ~(p <= w[m])
      <4>1. p - w[m] \in 1..x[m].len
        BY <2>2, <3>2
      <4> QED
        BY <4>1
    <3> QED
      BY <3>1, <3>2
  <2> QED
    BY <2>3, <2>4
<1> HIDE DEF T
<1>5. \A m \in 0..L : m \in T
  BY <1>1, <1>3, <1>4, UpTo
<1>6. ASSUME NEW j \in 1..L, NEW k \in 1..L + 1, j < k PROVE w[j] + x[j].len <= w[k]
  <2>1. k - 1 \in 0..L /\ j \in 1..k - 1 /\ (k - 1) + 1 = k
    BY <1>1, <1>6
  <2> QED
    BY <1>5, <2>1 DEF T
<1>7. \A p \in 1..w[L + 1] : \E k \in 1..L : p - w[k] \in 1..x[k].len
  BY <1>1, <1>5 DEF T
<1> QED
  BY <1>2, <1>6, <1>7 DEF L

\* The cell of a position is found in its extent.
LEMMA CellAt ==
  ASSUME NEW r, Roomy(r.extents), NEW w, Offsets(r.extents, w), w[Len(r.extents) + 1] = r.size,
         NEW k \in 1..Len(r.extents), NEW m \in 1..r.extents[k].len
  PROVE  w[k] + m \in 1..r.size /\ CellsOf(r)[w[k] + m] = r.extents[k].start * BlockSize + m - 1
<1> DEFINE x == r.extents
           L == Len(x)
           n == r.size
           IsBefore(f) == f = [j \in DOMAIN x |-> IF j = 1 THEN 0 ELSE f[j - 1] + Stored(x[j - 1])]
           B == CHOOSE f : IsBefore(f)
           At(p) == CHOOSE j \in DOMAIN x : p - B[j] \in 1..Stored(x[j])
<1>1. CellsOf(r) = [p \in 1..n |-> x[At(p)].start * BlockSize + p - B[At(p)] - 1]
  BY DEF CellsOf
<1>2. /\ x \in Seq(FileExts) /\ L \in Nat /\ DOMAIN x = 1..L /\ k \in 1..L
      /\ \A j \in 1..L : x[j].len \in Nat /\ x[j].start \in Nat /\ x[j].blocks \in Nat
  <2>1. x \in Seq(FileExts)
    BY DEF Roomy
  <2>2. \A j \in 1..L : x[j] \in FileExts
    BY <2>1
  <2>3. \A j \in 1..L : x[j].len \in Nat /\ x[j].start \in Nat /\ x[j].blocks \in Nat
    BY <2>2 DEF FileExts
  <2>4. L \in Nat /\ DOMAIN x = 1..L /\ k \in 1..L
    BY <2>1
  <2> QED
    BY <2>1, <2>3, <2>4
<1>3. Offsets(x, w) /\ w[L + 1] = n /\ m \in 1..x[k].len
  OBVIOUS
<1>4. \A j \in 1..L : Stored(x[j]) = x[j].len
  <2>1. \A j \in 1..L : x[j].len <= x[j].blocks * BlockSize
    BY DEF Roomy
  <2> QED
    BY <2>1 DEF Stored, Least
<1> HIDE DEF x, L, n, At, B
<1>5. /\ \A j \in 1..L + 1 : w[j] \in Nat
      /\ \A j \in 1..L : \A i \in 1..L + 1 : j < i => w[j] + x[j].len <= w[i]
  BY <1>2, <1>3, OffsetsIs DEF L
<1>6. w[1] = 0 /\ \A j \in 1..L : w[j + 1] = w[j] + x[j].len
  BY <1>3 DEF Offsets, L
<1>7. IsBefore(B)
  <2> DEFINE f == [j \in 1..L |-> w[j]]
  <2>1. ASSUME NEW j \in 1..L PROVE f[j] = IF j = 1 THEN 0 ELSE f[j - 1] + Stored(x[j - 1])
    <3>1. CASE j = 1
      BY <1>6, <3>1
    <3>2. CASE j # 1
      <4>1. j - 1 \in 1..L /\ (j - 1) + 1 = j
        BY <1>2, <3>2
      <4> QED
        BY <1>4, <1>6, <3>2, <4>1
    <3> QED
      BY <3>1, <3>2
  <2>2. IsBefore(f)
    BY <1>2, <2>1
  <2> HIDE DEF f, IsBefore
  <2> QED
    BY <2>2 DEF B
<1>8. \A j \in 1..L : B[j] = w[j]
  <2> DEFINE T == {j \in 0..L : j # 0 => B[j] = w[j]}
  <2>1. 0 \in T
    BY <1>2
  <2>2. ASSUME NEW j \in 1..L, j - 1 \in T PROVE j \in T
    <3>1. B[j] = IF j = 1 THEN 0 ELSE B[j - 1] + Stored(x[j - 1])
      BY <1>2, <1>7
    <3>2. CASE j = 1
      BY <1>6, <3>1, <3>2
    <3>3. CASE j # 1
      <4>1. j - 1 \in 1..L /\ (j - 1) + 1 = j
        BY <1>2, <3>3
      <4>2. B[j - 1] = w[j - 1]
        BY <2>2, <4>1
      <4> QED
        BY <1>4, <1>6, <3>1, <3>3, <4>1, <4>2
    <3> QED
      BY <3>2, <3>3
  <2> HIDE DEF T
  <2>3. \A j \in 0..L : j \in T
    BY <1>2, <2>1, <2>2, UpTo
  <2> QED
    BY <2>3 DEF T
<1> DEFINE p == w[k] + m
<1>9. p \in 1..n
  <2>1. w[k] + x[k].len <= w[L + 1] /\ w[L + 1] \in Nat /\ w[k] \in Nat /\ x[k].len \in Nat
    BY <1>2, <1>5
  <2> QED
    BY <1>3, <2>1
<1>10. At(p) = k
  <2> DEFINE F(j) == p - B[j] \in 1..Stored(x[j])
  <2>1. F(k)
    BY <1>2, <1>3, <1>4, <1>5, <1>8
  <2>2. ASSUME NEW j \in 1..L, F(j) PROVE j = k
    <3>1. p - w[j] \in 1..x[j].len
      BY <1>4, <1>8, <2>2
    <3>2. w[j] \in Nat /\ w[k] \in Nat /\ x[j].len \in Nat /\ x[k].len \in Nat
      BY <1>2, <1>5
    <3>3. j < k => w[j] + x[j].len <= w[k]
      BY <1>2, <1>5
    <3>4. k < j => w[k] + x[k].len <= w[j]
      BY <1>2, <1>5
    <3> QED
      <4>1. k \in Nat /\ j \in Nat
        BY <1>2
      <4>2. m \in Nat /\ 1 <= m /\ m <= x[k].len
        BY <1>2, <1>3
      <4>3. 1 <= p - w[j] /\ p - w[j] <= x[j].len
        BY <3>1, <3>2
      <4>4. ~(j < k)
        BY <3>2, <3>3, <4>2, <4>3
      <4>5. ~(k < j)
        BY <3>2, <3>4, <4>2, <4>3
      <4> QED
        BY <4>1, <4>4, <4>5
  <2>3. At(p) = CHOOSE j \in 1..L : F(j)
    BY <1>2 DEF At
  <2> HIDE DEF F
  <2> QED
    BY <1>2, <2>1, <2>2, <2>3
<1>11. CellsOf(r)[p] = x[k].start * BlockSize + p - w[k] - 1
  <2>1. CellsOf(r)[p] = x[At(p)].start * BlockSize + p - B[At(p)] - 1
    BY <1>1, <1>9
  <2> QED
    BY <1>2, <1>8, <1>10, <2>1
<1>12. x[k].start * BlockSize \in Nat
  BY <1>2, BlockStoreAssumption DEF BlockStoreAssumption
<1>13. CellsOf(r)[p] = x[k].start * BlockSize + m - 1
  BY <1>2, <1>3, <1>5, <1>11, <1>12
<1> QED
  BY <1>9, <1>13 DEF p, n, x

\* The numbers of roomy extents.
LEMMA RoomyIs ==
  ASSUME NEW x, Roomy(x)
  PROVE  /\ x \in Seq(FileExts) /\ Len(x) \in Nat /\ DOMAIN x = 1..Len(x)
         /\ \A k \in 1..Len(x) : /\ x[k].start \in Nat /\ x[k].blocks \in Nat /\ x[k].len \in Nat
                                 /\ x[k].start * BlockSize \in Nat /\ x[k].blocks * BlockSize \in Nat
                                 /\ x[k].len <= x[k].blocks * BlockSize
                                 /\ \A m \in 1..x[k].len :
                                        x[k].start * BlockSize + m - 1 \in Region(x[k].start, x[k].blocks)
<1>1. x \in Seq(FileExts)
  BY DEF Roomy
<1>2. Len(x) \in Nat /\ DOMAIN x = 1..Len(x) /\ \A k \in 1..Len(x) : x[k] \in FileExts
  BY <1>1
<1>3. \A k \in 1..Len(x) : x[k].start \in Nat /\ x[k].blocks \in Nat /\ x[k].len \in Nat
  BY <1>2 DEF FileExts
<1>4. BlockSize \in Nat
  BY BlockStoreAssumption DEF BlockStoreAssumption
<1>5. \A k \in 1..Len(x) : x[k].start * BlockSize \in Nat /\ x[k].blocks * BlockSize \in Nat
  BY <1>3, <1>4
<1>6. \A k \in 1..Len(x) : x[k].len <= x[k].blocks * BlockSize
  BY DEF Roomy
<1>7. ASSUME NEW k \in 1..Len(x), NEW m \in 1..x[k].len
      PROVE  x[k].start * BlockSize + m - 1 \in Region(x[k].start, x[k].blocks)
  <2> DEFINE a == x[k].start * BlockSize
             n == x[k].blocks * BlockSize
  <2>1. a \in Nat /\ n \in Nat /\ x[k].len <= n /\ x[k].len \in Nat
    BY <1>3, <1>5, <1>6
  <2>2. Region(x[k].start, x[k].blocks) = {c \in Nat : a <= c /\ c < a + n}
    BY DEF Region
  <2> HIDE DEF a, n
  <2>3. a + m - 1 \in {c \in Nat : a <= c /\ c < a + n}
    BY <2>1
  <2> QED
    BY <2>2, <2>3 DEF a
<1> QED
  BY <1>1, <1>2, <1>3, <1>5, <1>6, <1>7

\* A record has room for its bytes.
LEMMA RecordRoomy ==
  ASSUME NEW r, RecordOK(r)
  PROVE  Roomy(r.extents)
BY DEF RecordOK, Roomy

\* What a device holds in a record's extents is what is read from the record.
LEMMA ReadHolding ==
  ASSUME NEW s, NEW i, RecordOK(s.records[i]), NEW c \in Seq(Cells), s.records[i].size = Len(c),
         Holding(s.dev, s.records[i].extents, c)
  PROVE  Read(s, i) = c
<1> DEFINE r == s.records[i]
           x == r.extents
           at == CellsOf(r)
           n == r.size
           v == [k \in 1..n |-> s.dev[at[k]]]
<1>1. Read(s, i) = IF x = <<>> \/ n = 0 THEN <<>> ELSE v
  BY DEF Read
<1>2. Roomy(x) /\ n \in Nat /\ (n = 0 <=> Len(x) = 0)
  BY RecordRoomy DEF RecordOK
<1>3. n = Len(c) /\ Holding(s.dev, x, c)
  OBVIOUS
<1> HIDE DEF r, v, at
<1>4. PICK w : /\ Offsets(x, w) /\ w[Len(x) + 1] = n
               /\ \A k \in 1..Len(x) : \A m \in 1..x[k].len : s.dev[x[k].start * BlockSize + m - 1] = c[w[k] + m]
  BY <1>3 DEF Holding
<1>5. ASSUME NEW p \in 1..n PROVE s.dev[at[p]] = c[p]
  <2>1. x \in Seq(FileExts)
    BY <1>2 DEF Roomy
  <2>2. PICK k \in 1..Len(x) : p - w[k] \in 1..x[k].len
    BY <1>4, <2>1, OffsetsIs
  <2>3. w[k] \in Nat
    BY <1>4 DEF Offsets
  <2> DEFINE m == p - w[k]
  <2>4. w[k] + m = p /\ m \in 1..x[k].len
    BY <2>2, <2>3
  <2> HIDE DEF m
  <2>5. at[w[k] + m] = x[k].start * BlockSize + m - 1
    BY <1>2, <1>4, <2>4, CellAt DEF at
  <2> QED
    BY <1>4, <2>4, <2>5
<1>6. v = c
  <2>1. v = [k \in 1..n |-> c[k]]
    BY <1>5 DEF v
  <2> QED
    BY <1>3, <2>1
<1>7. CASE n = 0
  <2>1. Len(c) = 0 /\ c \in Seq(Cells)
    BY <1>3, <1>7
  <2>2. c = <<>>
    BY <2>1
  <2> QED
    BY <1>1, <1>7, <2>2
<1>8. CASE n # 0
  BY <1>1, <1>2, <1>6, <1>8
<1> QED
  BY <1>7, <1>8

\* The cells from block a on hold the content c.
Lies(v, a, c) == \A m \in 1..Len(c) : v[a * BlockSize + m - 1] = c[m]

\* A file of one extent holds what lies from its first block on.
LEMMA HoldingOne ==
  ASSUME NEW v, NEW x, Len(x) = 1, x[1].len \in Nat, NEW c, Len(c) = x[1].len
  PROVE  Holding(v, x, c) <=> Lies(v, x[1].start, c)
<1>1. ASSUME Holding(v, x, c)
      PROVE  \A m \in 1..Len(c) : v[x[1].start * BlockSize + m - 1] = c[m]
  <2>1. PICK w : /\ Offsets(x, w)
                 /\ \A k \in 1..Len(x) : \A m \in 1..x[k].len : v[x[k].start * BlockSize + m - 1] = c[w[k] + m]
    BY <1>1 DEF Holding
  <2>2. w[1] = 0 /\ 1 \in 1..Len(x)
    BY <2>1 DEF Offsets
  <2>3. ASSUME NEW m \in 1..Len(c) PROVE v[x[1].start * BlockSize + m - 1] = c[m]
    <3>1. w[1] + m = m
      BY <2>2
    <3> QED
      BY <2>1, <2>2, <3>1
  <2> QED
    BY <2>3
<1>2. ASSUME \A m \in 1..Len(c) : v[x[1].start * BlockSize + m - 1] = c[m]
      PROVE  Holding(v, x, c)
  <2> DEFINE w == [k \in {1, 2} |-> IF k = 1 THEN 0 ELSE x[1].len]
  <2>1. w[1] = 0 /\ w[2] = x[1].len /\ w[1 + 1] = w[1] + x[1].len
    OBVIOUS
  <2> HIDE DEF w
  <2>2. \A k \in 1..Len(x) : k = 1
    OBVIOUS
  <2>3. Offsets(x, w)
    BY <2>1, <2>2 DEF Offsets
  <2>4. w[Len(x) + 1] = Len(c)
    BY <2>1
  <2>5. \A m \in 1..x[1].len : v[x[1].start * BlockSize + m - 1] = c[w[1] + m]
    BY <1>2, <2>1
  <2> QED
    BY <2>2, <2>3, <2>4, <2>5 DEF Holding
<1> QED
  BY <1>1, <1>2 DEF Lies

\* An empty file.
LEMMA HoldingNone ==
  ASSUME NEW v
  PROVE  Holding(v, <<>>, <<>>)
<1> DEFINE w == [k \in {1} |-> 0]
<1>1. w[1] = 0 /\ Len(<<>>) = 0 /\ w[Len(<<>>) + 1] = Len(<<>>)
  OBVIOUS
<1> HIDE DEF w
<1>2. \A k \in 1..Len(<<>>) : FALSE
  OBVIOUS
<1>3. Offsets(<<>>, w)
  BY <1>1, <1>2 DEF Offsets
<1> QED
  BY <1>1, <1>2, <1>3 DEF Holding

\* A device that has the same cells where a file lies holds it too.
LEMMA HoldingSame ==
  ASSUME NEW x, Roomy(x), NEW v, NEW c, Holding(v, x, c), NEW u, \A b : Within(x, b) => u[b] = v[b]
  PROVE  Holding(u, x, c)
<1>1. ASSUME NEW k \in 1..Len(x), NEW m \in 1..x[k].len
      PROVE  u[x[k].start * BlockSize + m - 1] = v[x[k].start * BlockSize + m - 1]
  <2>1. Within(x, x[k].start * BlockSize + m - 1)
    BY RoomyIs DEF Within
  <2> QED
    BY <2>1
<1> QED
  BY <1>1 DEF Holding

\* Sums in another grouping.
LEMMA Sums ==
  \A a, b, d \in Nat : a + b + d - 1 = a + (b + d) - 1 /\ (a + b) + d = a + (b + d)
OBVIOUS

\* The cells of two contents one after the other.
LEMMA JoinedIs ==
  ASSUME NEW c \in Seq(Cells), NEW b \in Seq(Cells)
  PROVE  /\ c \o b \in Seq(Cells) /\ Len(c) \in Nat /\ Len(b) \in Nat /\ Len(c \o b) = Len(c) + Len(b)
         /\ \A p \in 1..Len(c) : (c \o b)[p] = c[p]
         /\ \A q \in 1..Len(b) : (c \o b)[Len(c) + q] = b[q]
OBVIOUS

\* What follows a file's content in a new extent.
LEMMA HoldingAppend ==
  ASSUME NEW x, Roomy(x), NEW v, NEW c \in Seq(Cells), Holding(v, x, c),
         NEW b \in Seq(Cells), NEW e \in FileExts, e.len = Len(b),
         \A m \in 1..Len(b) : v[e.start * BlockSize + m - 1] = b[m]
  PROVE  Holding(v, Append(x, e), c \o b)
<1> DEFINE L == Len(x)
           y == Append(x, e)
           g == c \o b
<1>1. PICK w : /\ Offsets(x, w) /\ w[L + 1] = Len(c)
               /\ \A k \in 1..L : \A m \in 1..x[k].len : v[x[k].start * BlockSize + m - 1] = c[w[k] + m]
  BY DEF Holding
<1>2. /\ L \in Nat /\ Len(y) = L + 1 /\ y[L + 1] = e /\ \A k \in 1..L : y[k] = x[k]
  <2>1. x \in Seq(FileExts)
    BY DEF Roomy
  <2> QED
    BY <2>1
<1>3. /\ Len(c) \in Nat /\ Len(b) \in Nat /\ Len(g) = Len(c) + Len(b)
      /\ \A p \in 1..Len(c) : g[p] = c[p]
      /\ \A q \in 1..Len(b) : g[Len(c) + q] = b[q]
  BY JoinedIs
<1>4. /\ \A k \in 1..L + 1 : w[k] \in Nat
      /\ \A j \in 1..L : \A k \in 1..L + 1 : j < k => w[j] + x[j].len <= w[k]
  <2>1. x \in Seq(FileExts)
    BY DEF Roomy
  <2> QED
    BY <1>1, <2>1, OffsetsIs
<1> DEFINE z == [k \in 1..L + 2 |-> IF k = L + 2 THEN Len(g) ELSE w[k]]
<1>5. z[L + 2] = Len(g) /\ \A k \in 1..L + 1 : z[k] = w[k]
  BY <1>2
<1>6. (L + 1) + 1 = L + 2 /\ \A k \in 1..L : k + 1 \in 1..L + 1 /\ k \in 1..L + 1
  BY <1>2
<1> HIDE DEF L, y, g, z
<1>7. Offsets(y, z)
  <2>1. z[1] = 0
    BY <1>1, <1>2, <1>5 DEF Offsets
  <2>2. ASSUME NEW k \in 1..L + 1 PROVE z[k] \in Nat /\ z[k + 1] = z[k] + y[k].len
    <3>1. CASE k = L + 1
      <4>1. z[k] = Len(c) /\ z[k + 1] = Len(g) /\ y[k].len = Len(b)
        BY <1>1, <1>2, <1>5, <1>6, <3>1
      <4> QED
        BY <1>3, <4>1
    <3>2. CASE k \in 1..L
      <4>1. w[k + 1] = w[k] + x[k].len /\ w[k] \in Nat
        BY <1>1, <3>2 DEF Offsets, L
      <4>2. z[k] = w[k] /\ z[k + 1] = w[k + 1] /\ y[k] = x[k]
        BY <1>2, <1>5, <1>6, <3>2
      <4> QED
        BY <4>1, <4>2
    <3> QED
      BY <1>2, <3>1, <3>2
  <2> QED
    BY <1>2, <2>1, <2>2 DEF Offsets
<1>8. z[Len(y) + 1] = Len(g)
  BY <1>2, <1>5, <1>6
<1>9. ASSUME NEW k \in 1..L + 1, NEW m \in 1..y[k].len
      PROVE  v[y[k].start * BlockSize + m - 1] = g[z[k] + m]
  <2>1. CASE k = L + 1
    <3>1. y[k] = e /\ z[k] = Len(c)
      BY <1>1, <1>2, <1>5, <2>1
    <3>2. m \in 1..Len(b)
      BY <1>9, <3>1
    <3> QED
      BY <1>3, <3>1, <3>2
  <2>2. CASE k \in 1..L
    <3>1. y[k] = x[k] /\ z[k] = w[k] /\ m \in 1..x[k].len
      BY <1>2, <1>5, <1>6, <1>9, <2>2
    <3>2. v[x[k].start * BlockSize + m - 1] = c[w[k] + m]
      BY <1>1, <2>2, <3>1
    <3>3. w[k] \in Nat /\ w[k] + x[k].len <= Len(c)
      <4>1. k < L + 1 /\ L + 1 \in 1..L + 1
        BY <1>2, <2>2
      <4> QED
        BY <1>1, <1>4, <1>6, <2>2, <4>1
    <3>4. x[k].len \in Nat
      BY <2>2, RoomyIs DEF L
    <3>5. w[k] + m \in 1..Len(c)
      BY <1>3, <3>1, <3>3, <3>4, SMTT(30)
    <3> QED
      BY <1>3, <3>1, <3>2, <3>5
  <2> QED
    BY <1>2, <2>1, <2>2
<1>10. Holding(v, y, g)
  <2>1. \A k \in 1..Len(y) : \A m \in 1..y[k].len : v[y[k].start * BlockSize + m - 1] = g[z[k] + m]
    BY <1>2, <1>9
  <2> QED
    BY <1>7, <1>8, <2>1 DEF Holding
<1> QED
  BY <1>10 DEF y, g

\* What follows a file's content in its last extent.
LEMMA HoldingGrow ==
  ASSUME NEW x, Roomy(x), NEW L, L = Len(x), L # 0, NEW v, NEW c \in Seq(Cells), Holding(v, x, c),
         NEW b \in Seq(Cells),
         \A m \in 1..Len(b) : v[x[L].start * BlockSize + x[L].len + m - 1] = b[m],
         NEW y, Len(y) = L, \A k \in 1..L - 1 : y[k] = x[k],
         y[L].start = x[L].start, y[L].len = x[L].len + Len(b)
  PROVE  Holding(v, y, c \o b)
<1> DEFINE g == c \o b
<1>0. PICK w : /\ Offsets(x, w) /\ w[Len(x) + 1] = Len(c)
               /\ \A k \in 1..Len(x) : \A m \in 1..x[k].len : v[x[k].start * BlockSize + m - 1] = c[w[k] + m]
  BY DEF Holding
<1>1. /\ Offsets(x, w) /\ w[L + 1] = Len(c)
      /\ \A k \in 1..L : \A m \in 1..x[k].len : v[x[k].start * BlockSize + m - 1] = c[w[k] + m]
  BY <1>0
<1>2. /\ L \in Nat /\ L \in 1..L /\ \A k \in 1..L : x[k].len \in Nat /\ x[k].start * BlockSize \in Nat
      /\ x[L].len \in Nat /\ x[L].start * BlockSize \in Nat
  <2>1. L \in Nat /\ \A k \in 1..L : x[k].len \in Nat /\ x[k].start * BlockSize \in Nat
    BY RoomyIs
  <2>2. L \in 1..L
    BY <2>1
  <2> QED
    BY <2>1, <2>2
<1>3. /\ Len(c) \in Nat /\ Len(b) \in Nat /\ Len(g) = Len(c) + Len(b)
      /\ \A p \in 1..Len(c) : g[p] = c[p]
      /\ \A q \in 1..Len(b) : g[Len(c) + q] = b[q]
  BY JoinedIs
<1>4. /\ \A k \in 1..L + 1 : w[k] \in Nat
      /\ \A j \in 1..L : \A k \in 1..L + 1 : j < k => w[j] + x[j].len <= w[k]
  <2>1. x \in Seq(FileExts)
    BY DEF Roomy
  <2> QED
    BY <1>1, <2>1, OffsetsIs
<1> DEFINE z == [k \in 1..L + 1 |-> IF k = L + 1 THEN Len(g) ELSE w[k]]
<1>5. z[L + 1] = Len(g) /\ \A k \in 1..L : z[k] = w[k]
  BY <1>2
<1>6. w[L] + x[L].len = Len(c) /\ w[L] \in Nat
  BY <1>1, <1>2 DEF Offsets
<1> HIDE DEF g, z
<1>7. Offsets(y, z)
  <2>1. z[1] = 0
    BY <1>1, <1>2, <1>5 DEF Offsets
  <2>2. ASSUME NEW k \in 1..L PROVE z[k] \in Nat /\ z[k + 1] = z[k] + y[k].len
    <3>1. CASE k = L
      <4>1. z[k] = w[L] /\ z[k + 1] = Len(g) /\ y[k].len = x[L].len + Len(b)
        BY <1>5, <3>1
      <4> QED
        <5>1. x[L].len \in Nat /\ w[L] \in Nat /\ Len(b) \in Nat
          BY <1>2, <1>3, <1>6
        <5>2. (w[L] + x[L].len) + Len(b) = w[L] + (x[L].len + Len(b))
          BY <5>1, Sums
        <5> QED
          BY <1>3, <1>6, <4>1, <5>1, <5>2
    <3>2. CASE k \in 1..L - 1
      <4>1. w[k + 1] = w[k] + x[k].len /\ w[k] \in Nat
        BY <1>1 DEF Offsets
      <4>2. k + 1 \in 1..L
        BY <1>2, <3>2
      <4>3. z[k] = w[k] /\ z[k + 1] = w[k + 1] /\ y[k] = x[k]
        BY <1>5, <3>2, <4>2
      <4> QED
        BY <4>1, <4>3
    <3> QED
      BY <1>2, <3>1, <3>2
  <2> QED
    BY <2>1, <2>2 DEF Offsets
<1>8. z[Len(y) + 1] = Len(g)
  BY <1>5
<1>9. ASSUME NEW k \in 1..L, NEW m \in 1..x[k].len, y[k].start = x[k].start
      PROVE  v[y[k].start * BlockSize + m - 1] = g[z[k] + m]
  <2>1. v[x[k].start * BlockSize + m - 1] = c[w[k] + m] /\ z[k] = w[k]
    BY <1>1, <1>5
  <2>2. w[k] \in Nat /\ w[k] + x[k].len <= Len(c)
    <3>1. k < L + 1 /\ L + 1 \in 1..L + 1 /\ k \in 1..L + 1
      BY <1>2
    <3> QED
      BY <1>1, <1>4, <3>1
  <2>3. w[k] + m \in 1..Len(c)
    <3> DEFINE a == w[k]
               l == x[k].len
               n == Len(c)
    <3>1. l \in Nat /\ m \in 1..l
      BY <1>2
    <3>2. a \in Nat /\ n \in Nat /\ a + l <= n
      BY <1>3, <2>2
    <3> HIDE DEF a, l, n
    <3>3. a + m \in 1..n
      BY <3>1, <3>2
    <3> QED
      BY <3>3 DEF a, n
  <2> QED
    BY <1>3, <1>9, <2>1, <2>3
<1>10. ASSUME NEW k \in 1..L, NEW m \in 1..y[k].len
       PROVE  v[y[k].start * BlockSize + m - 1] = g[z[k] + m]
  <2>1. CASE k # L \/ m <= x[k].len
    <3>1. y[k].start = x[k].start /\ m \in 1..x[k].len
      <4>1. CASE k # L
        <5>1. k \in 1..L - 1
          BY <1>2, <4>1
        <5> QED
          BY <1>10, <5>1
      <4>2. CASE k = L /\ m <= x[k].len
        BY <1>2, <1>3, <1>10, <4>2
      <4> QED
        BY <2>1, <4>1, <4>2
    <3> QED
      BY <1>9, <3>1
  <2>2. CASE k = L /\ ~(m <= x[k].len)
    <3> DEFINE q == m - x[L].len
    <3>1. m \in 1..x[L].len + Len(b)
      BY <1>10, <2>2
    <3>2. q \in 1..Len(b) /\ m = x[L].len + q
      BY <1>2, <1>3, <2>2, <3>1
    <3> HIDE DEF q
    <3>3. v[x[L].start * BlockSize + x[L].len + q - 1] = b[q]
      BY <3>2
    <3>4. x[L].start * BlockSize + x[L].len + q - 1 = x[L].start * BlockSize + m - 1
      <4> DEFINE p == x[L].start * BlockSize
      <4>1. p \in Nat /\ x[L].len \in Nat /\ q \in Nat
        BY <1>2, <1>3, <3>2
      <4> HIDE DEF p
      <4>2. p + x[L].len + q - 1 = p + (x[L].len + q) - 1
        BY <4>1, Sums
      <4> QED
        BY <3>2, <4>2 DEF p
    <3>5. z[L] + m = Len(c) + q
      <4>1. z[L] = w[L] /\ q \in Nat /\ x[L].len \in Nat
        BY <1>2, <1>3, <1>5, <3>2
      <4>2. w[L] + (x[L].len + q) = (w[L] + x[L].len) + q
        BY <1>6, <4>1
      <4> QED
        BY <1>6, <3>2, <4>1, <4>2
    <3>6. g[Len(c) + q] = b[q]
      BY <1>3, <3>2
    <3> QED
      BY <2>2, <3>3, <3>4, <3>5, <3>6
  <2> QED
    BY <2>1, <2>2
<1>11. Holding(v, y, g)
  BY <1>7, <1>8, <1>10 DEF Holding
<1> QED
  BY <1>11 DEF g

\* The cells of a record's blocks are on the device, and apart from those of other blocks.
LEMMA WithinIs ==
  ASSUME NEW r, RecordOK(r)
  PROVE  /\ Held(r) \subseteq Numbers(MaxBlocks) => \A b : Within(r.extents, b) => b \in Device
         /\ \A a, n \in Nat : Held(r) \cap Area(a, n) = {} =>
                \A b : Within(r.extents, b) => b \notin Region(a, n)
<1> DEFINE x == r.extents
<1>1. \A k \in 1..Len(x) : x[k].start \in Nat /\ x[k].blocks \in Nat
  BY RecordRoomy, RoomyIs
<1>2. \A k \in 1..Len(x) : Area(x[k].start, x[k].blocks) \subseteq Held(r)
  <2>1. \A k \in 1..Len(x) : Area(x[k].start, x[k].blocks) \subseteq Nat
    BY DEF Area
  <2> QED
    BY <2>1 DEF Held, Blocks
<1> HIDE DEF x
<1>3. ASSUME Held(r) \subseteq Numbers(MaxBlocks), NEW b, Within(x, b) PROVE b \in Device
  <2>1. PICK k \in 1..Len(x) : b \in Region(x[k].start, x[k].blocks)
    BY <1>3 DEF Within
  <2>2. Area(x[k].start, x[k].blocks) \subseteq Numbers(MaxBlocks)
    BY <1>2, <1>3
  <2> QED
    BY <1>1, <2>1, <2>2, RegionOn
<1>4. ASSUME NEW a \in Nat, NEW n \in Nat, Held(r) \cap Area(a, n) = {}, NEW b, Within(x, b)
      PROVE  b \notin Region(a, n)
  <2>1. PICK k \in 1..Len(x) : b \in Region(x[k].start, x[k].blocks)
    BY <1>4 DEF Within
  <2>2. Area(x[k].start, x[k].blocks) \cap Area(a, n) = {}
    BY <1>2, <1>4
  <2>3. Region(x[k].start, x[k].blocks) \cap Region(a, n) = {}
    BY <1>1, <2>2, RegionsApart
  <2> QED
    BY <2>1, <2>3
<1> QED
  BY <1>3, <1>4 DEF x

\* Content stored in whole blocks.
LEMMA WrittenIs ==
  ASSUME NEW v, DOMAIN v = Device, NEW a \in Nat, NEW n \in Nat, Area(a, n) \subseteq Numbers(MaxBlocks),
         NEW c \in Seq(Cells), Len(c) <= n * BlockSize
  PROVE  LET u == WriteAtBlock(v, a, n, c)
         IN  /\ DOMAIN u = Device
             /\ \A m \in 1..Len(c) : u[a * BlockSize + m - 1] = c[m]
             /\ \A b \in Device : b \notin Region(a, n) => u[b] = v[b]
<1> DEFINE u == WriteAtBlock(v, a, n, c)
           p == a * BlockSize
           z == n * BlockSize
<1>1. BlockSize \in Nat
  BY BlockStoreAssumption DEF BlockStoreAssumption
<1>2. p \in Nat /\ z \in Nat /\ Len(c) \in Nat /\ Len(c) <= z
  BY <1>1
<1>3. u = [b \in Device |-> IF b - p + 1 \notin 1..z THEN v[b]
                            ELSE IF b - p + 1 <= Len(c) THEN c[b - p + 1] ELSE Zero]
  BY DEF WriteAtBlock
<1>4. Region(a, n) = {b \in Nat : p <= b /\ b < p + z}
  BY DEF Region
<1>5. Region(a, n) \subseteq Device
  BY RegionOn
<1>6. \A b \in Device : b \in Int /\ b >= 0
  BY DEF Device
<1> HIDE DEF u, p, z
<1>7. ASSUME NEW m \in 1..Len(c) PROVE u[p + m - 1] = c[m]
  <2> DEFINE b == p + m - 1
  <2>1. b \in Nat /\ p <= b /\ b < p + z /\ b - p + 1 = m /\ m \in 1..z
    BY <1>2
  <2>2. b \in Device
    BY <1>4, <1>5, <2>1
  <2> HIDE DEF b
  <2>3. u[b] = c[m]
    BY <1>3, <2>1, <2>2
  <2> QED
    BY <2>3 DEF b
<1>8. ASSUME NEW b \in Device, b \notin Region(a, n) PROVE u[b] = v[b]
  <2>1. b - p + 1 \notin 1..z
    BY <1>2, <1>4, <1>6, <1>8
  <2> QED
    BY <1>3, <2>1
<1>9. DOMAIN u = Device
  BY <1>3
<1> QED
  BY <1>7, <1>8, <1>9 DEF u, p

\* From s to t the cells of the files other than i stay.
Keeping(s, t, i) ==
    \A j \in DOMAIN s.records \ {i} : \A b \in Device :
        Within(s.records[j].extents, b) => t.dev[b] = s.dev[b]

\* The store t holds c in file i and what s holds in the others.
Delivers(s, t, i, c) ==
    /\ DOMAIN t.dev = Device
    /\ Keeping(s, t, i)
    /\ t.records[i].size = Len(c)
    /\ Holding(t.dev, t.records[i].extents, c)

\* Blocks that only file i used have no cell of another file.
LEMMA OthersApart ==
  ASSUME NEW s, StoreOK(s), NEW i, NEW a \in Nat, NEW n \in Nat,
         (Used(s) \ HeldBy(s.records, i)) \cap Area(a, n) = {},
         NEW j \in DOMAIN s.records, j # i, NEW b, Within(s.records[j].extents, b)
  PROVE  b \notin Region(a, n)
<1>1. RecordOK(s.records[j]) /\ Held(s.records[j]) \subseteq Used(s)
  BY DEF StoreOK, FilesOK
<1>2. Held(s.records[j]) \cap HeldBy(s.records, i) = {}
  BY DEF StoreOK, FilesOK, HeldBy
<1>3. Held(s.records[j]) \cap Area(a, n) = {}
  BY <1>1, <1>2
<1> QED
  BY <1>1, <1>3, WithinIs

\* As many blocks as required, or more, have room for the content.
LEMMA Enough ==
  ASSUME NEW c, Len(c) \in Nat, NEW n \in Nat, n >= RequiredBlocks(Len(c))
  PROVE  Len(c) <= n * BlockSize
<1>1. BlockSize \in Nat
  BY BlockStoreAssumption DEF BlockStoreAssumption
<1> DEFINE q == RequiredBlocks(Len(c))
<1>2. q \in Nat /\ q + 0 <= n /\ Len(c) <= q * BlockSize
  BY RequiredIs
<1> HIDE DEF q
<1>3. q * BlockSize + 0 * BlockSize <= n * BlockSize
  BY <1>1, <1>2, Scaled
<1>4. 0 * BlockSize = 0 /\ q * BlockSize \in Nat /\ n * BlockSize \in Nat
  BY <1>1, <1>2
<1> QED
  BY <1>2, <1>3, <1>4

\* The content put at a free place.
LEMMA PutDelivers ==
  ASSUME NEW s, StoreOK(s), DOMAIN s.dev = Device, NEW i, NEW c \in Seq(Cells),
         NEW spot, SpotOK(s, i, spot, RequiredBlocks(Len(c))), spot.store.dev = s.dev,
         Given(spot) \subseteq Numbers(MaxBlocks), NEW d
  PROVE  Delivers(s, PutRecord(spot, i, c, d), i, c)
<1> DEFINE a == spot.start
           n == spot.blocks
           e == [start |-> a, blocks |-> n, len |-> Len(c)]
           r == [size |-> Len(c), crc |-> c, extents |-> IF c = <<>> THEN <<>> ELSE <<e>>]
           v == WriteAtBlock(s.dev, a, n, c)
           t == PutRecord(spot, i, c, d)
<1>1. t = WithFiles(spot.store, Bind(s.records, i, r), d, v)
  BY DEF PutRecord, SpotOK
<1>2. a \in Nat /\ n \in Nat /\ n >= RequiredBlocks(Len(c)) /\ Len(c) \in Nat
      /\ (Used(s) \ HeldBy(s.records, i)) \cap Area(a, n) = {} /\ Area(a, n) \subseteq Numbers(MaxBlocks)
  BY DEF SpotOK, Given
<1>3. Len(c) <= n * BlockSize
  BY <1>2, Enough
<1> HIDE DEF a, n
<1>4. /\ DOMAIN v = Device
      /\ \A m \in 1..Len(c) : v[a * BlockSize + m - 1] = c[m]
      /\ \A b \in Device : b \notin Region(a, n) => v[b] = s.dev[b]
  BY <1>2, <1>3, WrittenIs
<1> HIDE DEF v
<1>5. Holding(v, r.extents, c)
  <2>1. CASE c = <<>>
    BY <2>1, HoldingNone
  <2>2. CASE c # <<>>
    <3> DEFINE x == <<e>>
    <3>1. Len(x) = 1 /\ x[1].len = Len(c) /\ x[1].start = a /\ r.extents = x
      BY <2>2
    <3> HIDE DEF x, r
    <3> QED
      BY <1>2, <1>4, <3>1, HoldingOne DEF Lies
  <2> QED
    BY <2>1, <2>2
<1>6. r.size = Len(c)
  OBVIOUS
<1> HIDE DEF r
<1>7. t.dev = v /\ t.records[i] = r
  <2>1. t.dev = v /\ t.records = Bind(s.records, i, r)
    BY <1>1, WithFilesIs
  <2>2. Puts(s.records, Bind(s.records, i, r), i, r)
    BY BindIs
  <2> HIDE DEF t
  <2> QED
    BY <2>1, <2>2 DEF Puts
<1> HIDE DEF t
<1>8. Keeping(s, t, i)
  BY <1>2, <1>4, <1>7, OthersApart DEF Keeping
<1>9. Delivers(s, t, i, c)
  BY <1>4, <1>5, <1>6, <1>7, <1>8 DEF Delivers
<1> QED
  BY <1>9 DEF t

\* Freeing and allocating leaves the cells alone.
LEMMA FreedDevice ==
  ASSUME NEW s, DOMAIN s = Keys, NEW i
  PROVE  /\ Freed(s, i).dev = s.dev /\ DOMAIN Freed(s, i) = Keys
         /\ \A n : AllocateExtent(Freed(s, i), n).store.dev = s.dev
         /\ \A n : AllocateExtent(s, n).store.dev = s.dev
         /\ \A r, n : ReuseBlocks(s, r, n).store.dev = s.dev
<1>1. \A d, e : LET t == FreeBlocks([s EXCEPT !.dedup = d], e) IN DOMAIN t = Keys /\ t.dev = s.dev
  BY FreeKeeps
<1>2. \A r : \E d, e : Release(s, r) = FreeBlocks([s EXCEPT !.dedup = d], e)
  BY DEF Release
<1>3. Freed(s, i).dev = s.dev /\ DOMAIN Freed(s, i) = Keys
  <2>1. CASE i \in DOMAIN s.records
    <3>1. PICK d, e : Release(s, s.records[i]) = FreeBlocks([s EXCEPT !.dedup = d], e)
      BY <1>2
    <3>2. Freed(s, i) = FreeBlocks([s EXCEPT !.dedup = d], e)
      BY <2>1, <3>1 DEF Freed
    <3> QED
      BY <1>1, <3>2
  <2>2. CASE i \notin DOMAIN s.records
    BY <2>2 DEF Freed
  <2> QED
    BY <2>1, <2>2
<1>4. \A n : AllocateExtent(Freed(s, i), n).store.dev = s.dev
  BY <1>3, SpaceKeeps DEF SameButSpace
<1>5. \A n : AllocateExtent(s, n).store.dev = s.dev
  BY SpaceKeeps DEF SameButSpace
<1>6. \A r, n : ReuseBlocks(s, r, n).store.dev = s.dev
  BY <1>1 DEF ReuseBlocks
<1> QED
  BY <1>3, <1>4, <1>5, <1>6

\* The place of a new record lies below the bump pointer.
LEMMA SpotBelow ==
  ASSUME NEW s, NEW i, NEW n, NEW spot, SpotOK(s, i, spot, n), spot.store.next <= MaxBlocks
  PROVE  Given(spot) \subseteq Numbers(MaxBlocks)
<1>1. Given(spot) \subseteq Used(spot.store) /\ spot.store.next \in Nat
  BY DEF SpotOK, SpaceOK
<1>2. MaxBlocks \in Nat
  BY BlockStoreAssumption DEF BlockStoreAssumption
<1> QED
  BY <1>1, <1>2 DEF Used, Numbers

\* The numbers of a content.
LEMMA ContentLength ==
  ASSUME NEW c \in Seq(Cells)
  PROVE  /\ Len(c) \in Nat /\ IsContent(c) /\ (c = <<>> <=> Len(c) = 0)
         /\ RequiredBlocks(Len(c)) \in Nat /\ RequiredBlocks(Len(c)) # 0
<1>1. Len(c) \in Nat /\ (c = <<>> <=> Len(c) = 0)
  OBVIOUS
<1>2. RequiredBlocks(Len(c)) \in Nat /\ RequiredBlocks(Len(c)) # 0
  BY <1>1, RequiredIs
<1> QED
  BY <1>1, <1>2 DEF IsContent

\* write
LEMMA WriteDelivers ==
  ASSUME NEW s, StoreOK(s), DOMAIN s.dev = Device, NEW i, Whole(s, i), NEW c \in Seq(Cells),
         Write(s, i, c).next <= MaxBlocks
  PROVE  Delivers(s, Write(s, i, c), i, c)
<1> DEFINE n == RequiredBlocks(Len(c))
<1>1. n \in Nat /\ n # 0 /\ DOMAIN s = Keys
  BY ContentLength DEF StoreOK
<1>2. ASSUME NEW spot, SpotOK(s, i, spot, n), spot.store.dev = s.dev,
             Write(s, i, c) = PutRecord(spot, i, c, DedupInsert(spot.store.dedup, c))
      PROVE  Delivers(s, Write(s, i, c), i, c)
  <2>1. Write(s, i, c).next = spot.store.next
    BY <1>2, WithFilesIs DEF PutRecord
  <2>2. Given(spot) \subseteq Numbers(MaxBlocks)
    BY <1>2, <2>1, SpotBelow
  <2> QED
    BY <1>2, <2>2, PutDelivers
<1>3. CASE i \in DOMAIN s.records /\ TotalBlocks(s.records[i]) >= n
  <2> DEFINE spot == ReuseBlocks(s, s.records[i], n)
  <2>1. Write(s, i, c) = PutRecord(spot, i, c, DedupInsert(spot.store.dedup, c))
    BY <1>3 DEF Write
  <2>2. SpotOK(s, i, spot, n)
    BY <1>1, <1>3, ReusedSpot DEF Whole
  <2>3. spot.store.dev = s.dev
    BY <1>1, FreedDevice
  <2> HIDE DEF spot, n
  <2> QED
    BY <1>2, <2>1, <2>2, <2>3
<1>4. CASE ~(i \in DOMAIN s.records /\ TotalBlocks(s.records[i]) >= n)
  <2> DEFINE spot == AllocateExtent(Freed(s, i), n)
  <2>1. Write(s, i, c) = PutRecord(spot, i, c, DedupInsert(spot.store.dedup, c))
    BY <1>4 DEF Write, Freed
  <2>2. SpotOK(s, i, spot, n)
    BY <1>1, MovedSpot DEF Whole
  <2>3. spot.store.dev = s.dev
    BY <1>1, FreedDevice
  <2> HIDE DEF spot, n
  <2> QED
    BY <1>2, <2>1, <2>2, <2>3
<1> QED
  BY <1>3, <1>4

\* write_device: an empty file writes no cell.
LEMMA WriteDeviceDelivers ==
  ASSUME NEW s, StoreOK(s), DOMAIN s.dev = Device, NEW i, Whole(s, i), NEW c \in Seq(Cells),
         WriteDevice(s, i, c).next <= MaxBlocks
  PROVE  Delivers(s, WriteDevice(s, i, c), i, c)
<1> DEFINE n == RequiredBlocks(Len(c))
           spot == AllocateExtent(Freed(s, i), n)
           put == PutRecord(spot, i, c, DedupInsert(spot.store.dedup, c))
           t == WriteDevice(s, i, c)
<1>1. n \in Nat /\ n # 0 /\ DOMAIN s = Keys
  BY ContentLength DEF StoreOK
<1>2. t = IF c = <<>> THEN [put EXCEPT !.dev = s.dev] ELSE put
  BY DEF WriteDevice, Freed
<1>3. SpotOK(s, i, spot, n) /\ spot.store.dev = s.dev
  BY <1>1, MovedSpot, FreedDevice DEF Whole
<1> HIDE DEF spot
<1>4. DOMAIN put = Keys /\ put.next = spot.store.next
  BY WithFilesIs DEF PutRecord
<1> HIDE DEF put
<1>5. t.next = put.next /\ t.records = put.records
  BY <1>2, <1>4 DEF Keys
<1>6. Given(spot) \subseteq Numbers(MaxBlocks)
  BY <1>3, <1>4, <1>5, SpotBelow
<1>7. Delivers(s, put, i, c)
  BY <1>3, <1>6, PutDelivers DEF put
<1>8. CASE c = <<>>
  <2>1. t.dev = s.dev
    BY <1>2, <1>4, <1>8 DEF Keys
  <2>2. t.records[i].extents = <<>> /\ t.records[i].size = Len(c)
    <3> DEFINE r == [size |-> Len(c), crc |-> c, extents |-> <<>>]
    <3>1. put.records = Bind(spot.store.records, i, r)
      BY <1>8, WithFilesIs DEF PutRecord, put
    <3> HIDE DEF r
    <3>2. Puts(spot.store.records, Bind(spot.store.records, i, r), i, r)
      BY BindIs
    <3>3. t.records[i] = r
      BY <1>5, <3>1, <3>2 DEF Puts
    <3> QED
      BY <3>3 DEF r
  <2>3. Keeping(s, t, i)
    BY <2>1 DEF Keeping
  <2>4. Holding(t.dev, t.records[i].extents, c)
    BY <1>8, <2>2, HoldingNone
  <2> QED
    BY <2>1, <2>2, <2>3, <2>4 DEF Delivers
<1>9. CASE c # <<>>
  <2>1. t = put
    BY <1>2, <1>9
  <2> QED
    BY <1>7, <2>1
<1> QED
  BY <1>8, <1>9

\* File i of s has the content c, or is not there and c is empty.
Has(s, i, c) ==
    IF i \in DOMAIN s.records
    THEN /\ s.records[i].size = Len(c)
         /\ Holding(s.dev, s.records[i].extents, c)
         /\ Held(s.records[i]) \subseteq Numbers(MaxBlocks)
    ELSE c = <<>>

\* A file without content has none to keep.
LEMMA HasNone ==
  ASSUME NEW s, StoreOK(s), NEW i, NEW c \in Seq(Cells), Has(s, i, c)
  PROVE  /\ ~HasContent(s, i) => c = <<>>
         /\ Len(c) = SizeOf(s, i)
         /\ i \in DOMAIN s.records => Read(s, i) = c
<1>1. Len(c) = SizeOf(s, i)
  BY DEF Has, SizeOf
<1>2. ASSUME ~HasContent(s, i) PROVE c = <<>>
  <2>1. i \in DOMAIN s.records => RecordOK(s.records[i])
    BY DEF StoreOK, FilesOK
  <2>2. SizeOf(s, i) = 0
    BY <1>2, <2>1 DEF HasContent, SizeOf, RecordOK
  <2> QED
    BY <1>1, <2>2
<1>3. ASSUME i \in DOMAIN s.records PROVE Read(s, i) = c
  <2>1. RecordOK(s.records[i])
    BY <1>3 DEF StoreOK, FilesOK
  <2> QED
    BY <1>3, <2>1, ReadHolding DEF Has
<1> QED
  BY <1>1, <1>2, <1>3

\* add_extent: the new bytes follow what the extents held.
LEMMA AddHolds ==
  ASSUME NEW s, StoreOK(s), DOMAIN s.dev = Device, NEW i \in DOMAIN s.records,
         Held(s.records[i]) \subseteq Numbers(MaxBlocks),
         NEW c \in Seq(Cells), Holding(s.dev, s.records[i].extents, c),
         NEW b \in Seq(Cells), AddExtent(s, i, b).next <= MaxBlocks
  PROVE  LET t == AddExtent(s, i, b)
         IN  DOMAIN t.dev = Device /\ Keeping(s, t, i) /\ Holding(t.dev, t.records[i].extents, c \o b)
<1> DEFINE n == RequiredBlocks(Len(b))
           spot == AllocateExtent(s, n)
           e == [start |-> spot.start, blocks |-> spot.blocks, len |-> Len(b)]
           r == s.records[i]
           x == r.extents
           q == [r EXCEPT !.extents = Append(x, e)]
           v == WriteAtBlock(s.dev, spot.start, spot.blocks, b)
           t == AddExtent(s, i, b)
<1>1. n \in Nat /\ n # 0 /\ Len(b) \in Nat
  BY ContentLength
<1> HIDE DEF n
<1>2. DOMAIN s = Keys /\ s.policy \in Policies /\ SpaceOK(s) /\ RecordOK(r) /\ Held(r) \subseteq Used(s)
  BY DEF StoreOK, FilesOK
<1>3. /\ spot.start \in Nat /\ spot.blocks \in Nat /\ spot.blocks >= n
      /\ SameButSpace(s, spot.store) /\ SpaceOK(spot.store)
      /\ Used(spot.store) = Used(s) \cup Given(spot) /\ Used(s) \cap Given(spot) = {}
  BY <1>1, <1>2, AllocateIs
<1>4. t = WithFiles(spot.store, [s.records EXCEPT ![i] = q], spot.store.dedup, v)
  BY <1>3 DEF AddExtent, WithRecord, n, SameButSpace
<1> HIDE DEF spot
<1>5. q.extents = Append(x, e)
  BY <1>2 DEF RecordOK
<1> HIDE DEF q
<1>6. t.next = spot.store.next /\ t.dev = v /\ t.records[i] = q
  <2>1. t.next = spot.store.next /\ t.dev = v /\ t.records = [s.records EXCEPT ![i] = q]
    BY <1>4, WithFilesIs
  <2> QED
    BY <2>1
<1> HIDE DEF t
<1>7. Given(spot) \subseteq Numbers(MaxBlocks)
  <2>1. spot.store.next <= MaxBlocks /\ spot.store.next \in Nat
    BY <1>3, <1>6 DEF SpaceOK, t
  <2>2. MaxBlocks \in Nat
    BY BlockStoreAssumption DEF BlockStoreAssumption
  <2> QED
    BY <1>3, <2>1, <2>2 DEF Used, Numbers
<1>8. Len(b) <= spot.blocks * BlockSize
  BY <1>1, <1>3, Enough DEF n
<1>9. /\ DOMAIN v = Device
      /\ \A m \in 1..Len(b) : v[spot.start * BlockSize + m - 1] = b[m]
      /\ \A p \in Device : p \notin Region(spot.start, spot.blocks) => v[p] = s.dev[p]
  BY <1>3, <1>7, <1>8, WrittenIs, SMTT(30) DEF Given
<1> HIDE DEF v
<1>10. Keeping(s, t, i)
  <2>1. (Used(s) \ HeldBy(s.records, i)) \cap Area(spot.start, spot.blocks) = {}
    BY <1>3 DEF Given
  <2> QED
    BY <1>3, <1>6, <1>9, <2>1, OthersApart DEF Keeping
<1>11. Holding(v, x, c)
  <2>1. Held(r) \cap Area(spot.start, spot.blocks) = {}
    BY <1>2, <1>3 DEF Given
  <2>2. \A p : Within(x, p) => p \in Device /\ p \notin Region(spot.start, spot.blocks)
    BY <1>2, <1>3, <2>1, WithinIs
  <2>3. Roomy(x)
    BY <1>2, RecordRoomy
  <2>4. \A p : Within(x, p) => v[p] = s.dev[p]
    BY <1>9, <2>2
  <2> QED
    BY <2>3, <2>4, HoldingSame
<1>12. Holding(v, Append(x, e), c \o b)
  <2>1. Roomy(x)
    BY <1>2, RecordRoomy
  <2>2. e \in FileExts
    <3>1. spot.blocks # 0
      BY <1>1, <1>3
    <3> QED
      BY <1>1, <1>3, <3>1 DEF FileExts
  <2>3. e.len = Len(b) /\ e.start = spot.start
    OBVIOUS
  <2> HIDE DEF e, x
  <2> QED
    BY <1>9, <1>11, <2>1, <2>2, <2>3, HoldingAppend
<1>13. Holding(t.dev, t.records[i].extents, c \o b)
  BY <1>5, <1>6, <1>12
<1> QED
  BY <1>6, <1>9, <1>10, <1>13 DEF t

\* The size catches up with what was appended to the extents.
LEMMA GrownDelivers ==
  ASSUME NEW s, NEW i \in DOMAIN s.records, NEW b, NEW c, s.records[i].size + Len(b) = Len(c),
         Holding(s.dev, s.records[i].extents, c),
         NEW o, DOMAIN s.dev = Device, Keeping(o, s, i)
  PROVE  Delivers(o, Grown(s, i, b), i, c) /\ Grown(s, i, b).next = s.next
<1> DEFINE t == Grown(s, i, b)
           q == GrownRecord(s.records[i], b)
<1>1. t.dev = s.dev /\ t.next = s.next /\ t.records = [s.records EXCEPT ![i] = q]
  BY WithFilesIs DEF Grown
<1> HIDE DEF t
<1>2. t.records[i] = q
  BY <1>1
<1>3. q.size = Len(c) /\ q.extents = s.records[i].extents
  BY DEF GrownRecord
<1> HIDE DEF q
<1>4. Delivers(o, t, i, c)
  BY <1>1, <1>2, <1>3 DEF Delivers, Keeping
<1> QED
  BY <1>1, <1>4 DEF t

\* append_to_inode
LEMMA AppendDelivers ==
  ASSUME NEW s, StoreOK(s), DOMAIN s.dev = Device, NEW i, NEW c \in Seq(Cells), Has(s, i, c),
         NEW b \in Seq(Cells), b # <<>>, AppendToInode(s, i, b).next <= MaxBlocks
  PROVE  Delivers(s, AppendToInode(s, i, b), i, c \o b)
<1> DEFINE t == AppendToInode(s, i, b)
<1>1. CASE ~HasContent(s, i)
  <2>1. t = Write(s, i, b)
    BY <1>1 DEF AppendToInode
  <2>2. Whole(s, i)
    BY <1>1, NoContent
  <2>3. c = <<>>
    BY <1>1, HasNone
  <2>4. c \o b = b
    BY <2>3
  <2>5. Delivers(s, Write(s, i, b), i, b)
    BY <2>1, <2>2, WriteDelivers
  <2> QED
    BY <2>1, <2>4, <2>5
<1>2. CASE HasContent(s, i)
  <2> DEFINE u == AddExtent(s, i, b)
  <2>1. t = Grown(u, i, b)
    BY <1>2 DEF AppendToInode
  <2>2. i \in DOMAIN s.records /\ s.records[i].size # 0
    BY <1>2, NoContent
  <2>3. s.records[i].size = Len(c) /\ Holding(s.dev, s.records[i].extents, c)
        /\ Held(s.records[i]) \subseteq Numbers(MaxBlocks)
    BY <2>2 DEF Has
  <2>4. Stores(s, u, i) /\ u.records[i].size = s.records[i].size
    BY <2>2, ContentLength, AddExtentIs
  <2>5. t.next = u.next
    BY <2>1, WithFilesIs DEF Grown
  <2>6. DOMAIN u.dev = Device /\ Keeping(s, u, i) /\ Holding(u.dev, u.records[i].extents, c \o b)
    BY <2>2, <2>3, <2>5, AddHolds
  <2> HIDE DEF u
  <2>7. i \in DOMAIN u.records /\ u.records[i].size + Len(b) = Len(c \o b)
    BY <2>2, <2>3, <2>4, JoinedIs DEF Stores, Puts
  <2>8. Delivers(s, Grown(u, i, b), i, c \o b)
    BY <2>6, <2>7, GrownDelivers
  <2> QED
    BY <2>1, <2>8
<1> QED
  BY <1>1, <1>2

\* Two extents of a record have no cell in common.
LEMMA ExtentsApart ==
  ASSUME NEW r, RecordOK(r), NEW j \in 1..Len(r.extents), NEW k \in 1..Len(r.extents), j # k
  PROVE  Region(r.extents[j].start, r.extents[j].blocks) \cap Region(r.extents[k].start, r.extents[k].blocks) = {}
<1> DEFINE x == r.extents
<1>1. \A l \in 1..Len(x) : x[l].start \in Nat /\ x[l].blocks \in Nat
  BY RecordRoomy, RoomyIs
<1>2. Area(x[j].start, x[j].blocks) \cap Area(x[k].start, x[k].blocks) = {}
  BY DEF RecordOK, Blocks
<1>3. x[j].start \in Nat /\ x[j].blocks \in Nat /\ x[k].start \in Nat /\ x[k].blocks \in Nat
  BY <1>1
<1> QED
  BY <1>2, <1>3, RegionsApart

\* The cells from a base on, n of them, by their distance from the base.
LEMMA Distance ==
  ASSUME NEW base \in Nat, NEW n \in Nat
  PROVE  /\ \A a \in Nat : a < base \/ base + n <= a => a - base \notin 0..n - 1
         /\ \A m \in 1..n : /\ base + m - 1 \in Nat /\ (base + m - 1) - base \in 0..n - 1
                           /\ (base + m - 1) - base + 1 = m
                           /\ base <= base + m - 1 /\ base + m - 1 < base + n
OBVIOUS

\* Cells added behind the first ones of a region stay in it.
LEMMA Inside ==
  ASSUME NEW p \in Nat, NEW l \in Nat, NEW z \in Nat, NEW n \in Nat, NEW base \in Nat,
         base = p + l, base + n <= p + z
  PROVE  \A a \in Nat : base <= a /\ a < base + n => p <= a /\ a < p + z
OBVIOUS

\* The store t is the store s with the content c in the blocks file i has.
Filled(s, t, i, c) ==
    /\ DOMAIN t.dev = Device /\ Keeping(s, t, i) /\ t.next = s.next
    /\ Held(t.records[i]) = Held(s.records[i])
    /\ Holding(t.dev, t.records[i].extents, c)

\* append_device fills the slack of the last extent.
LEMMA FillHolds ==
  ASSUME NEW s, StoreOK(s), DOMAIN s.dev = Device, NEW i \in DOMAIN s.records,
         NEW c \in Seq(Cells), Has(s, i, c), NEW k, k = Len(s.records[i].extents), k # 0,
         NEW n \in Nat, s.records[i].extents[k].len + n <= s.records[i].extents[k].blocks * BlockSize,
         NEW b \in Seq(Cells), n <= Len(b)
  PROVE  LET e == s.records[i].extents[k]
             t == FillSlack(s, i, k, n, e.start * BlockSize + e.len, b)
         IN  /\ Filled(s, t, i, c \o SubSeq(b, 1, n))
             /\ Holding(t.dev, s.records[i].extents, c)
<1> DEFINE r == s.records[i]
           x == r.extents
           e == x[k]
           p == e.start * BlockSize
           base == p + e.len
           v == [a \in DOMAIN s.dev |-> IF a - base \in 0..n - 1 THEN b[a - base + 1] ELSE s.dev[a]]
           q == [r EXCEPT !.extents[k].len = e.len + n]
           y == q.extents
           d == SubSeq(b, 1, n)
           t == FillSlack(s, i, k, n, base, b)
<1>1. t = WithFiles(s, [s.records EXCEPT ![i] = q], s.dedup, v)
  BY DEF FillSlack, WithRecord
<1>2. RecordOK(r) /\ Roomy(x) /\ Held(r) \subseteq Numbers(MaxBlocks) /\ Holding(s.dev, x, c)
  BY RecordRoomy DEF StoreOK, FilesOK, Has
<1>3. /\ x \in Seq(FileExts) /\ Len(x) \in Nat /\ k = Len(x) /\ k \in 1..k
      /\ \A j \in 1..k : /\ x[j].start \in Nat /\ x[j].blocks \in Nat /\ x[j].len \in Nat
                         /\ x[j].start * BlockSize \in Nat /\ x[j].blocks * BlockSize \in Nat
                         /\ x[j].len <= x[j].blocks * BlockSize
                         /\ \A m \in 1..x[j].len :
                                x[j].start * BlockSize + m - 1 \in Region(x[j].start, x[j].blocks)
  <2>1. k \in Nat /\ k = Len(x)
    BY <1>2, RoomyIs
  <2>2. k \in 1..k
    BY <2>1
  <2> QED
    BY <1>2, <2>1, <2>2, RoomyIs
<1>4. /\ e.start \in Nat /\ e.blocks \in Nat /\ e.len \in Nat /\ p \in Nat /\ e.blocks * BlockSize \in Nat
      /\ base \in Nat /\ base = p + e.len /\ base + n <= p + e.blocks * BlockSize
  <2> DEFINE z == e.blocks * BlockSize
  <2>1. e.start \in Nat /\ e.blocks \in Nat /\ e.len \in Nat /\ p \in Nat /\ z \in Nat
    BY <1>3
  <2>2. e.len + n <= z
    OBVIOUS
  <2> HIDE DEF p, z, e
  <2>3. base \in Nat /\ base = p + e.len /\ base + n <= p + z
    BY <2>1, <2>2, SMTT(30)
  <2> QED
    BY <2>1, <2>3 DEF z
<1>5. Region(e.start, e.blocks) = {a \in Nat : p <= a /\ a < p + e.blocks * BlockSize}
  BY DEF Region
<1>6. DOMAIN q = DOMAIN r /\ Len(y) = k /\ y[k] = [e EXCEPT !.len = e.len + n] /\ \A j \in 1..k : j # k => y[j] = x[j]
  <2> DEFINE f == [e EXCEPT !.len = e.len + n]
             z == [x EXCEPT ![k] = f]
  <2>1. DOMAIN r = {"size", "crc", "extents"}
    BY <1>2 DEF RecordOK
  <2>2. q = [r EXCEPT !.extents = z]
    OBVIOUS
  <2>3. Len(x) \in Nat /\ DOMAIN x = 1..Len(x) /\ k = Len(x) /\ k \in 1..k
    BY <1>3
  <2> HIDE DEF f
  <2>4. Len(z) = k /\ z[k] = f /\ \A j \in 1..k : j # k => z[j] = x[j]
    BY <1>3, <2>3
  <2> HIDE DEF z
  <2>5. DOMAIN q = DOMAIN r /\ y = z
    BY <2>1, <2>2
  <2> HIDE DEF q, y, e, x
  <2> QED
    BY <2>4, <2>5 DEF f
<1>7. y[k].start = e.start /\ y[k].blocks = e.blocks /\ y[k].len = e.len + n
  <2>1. e \in FileExts
    BY <1>3
  <2> QED
    BY <1>6, <2>1, LongerExtent
<1>8. t.dev = v /\ t.records[i] = q /\ t.next = s.next
  <2> DEFINE rs == [s.records EXCEPT ![i] = q]
  <2>1. rs[i] = q
    OBVIOUS
  <2> HIDE DEF t, rs, v, q
  <2>2. t = WithFiles(s, rs, s.dedup, v)
    BY <1>1 DEF rs
  <2>3. t.dev = v /\ t.records = rs /\ t.next = s.next
    BY <2>2, WithFilesIs
  <2> QED
    BY <2>1, <2>3
<1> HIDE DEF t, q, y
<1>9. d \in Seq(Cells) /\ Len(d) = n /\ \A m \in 1..n : d[m] = b[m]
  BY DEF d
<1>10. \A a \in Device : a \in Nat
  BY DEF Device
<1>11. Region(e.start, e.blocks) \subseteq Device
  <2>1. Area(e.start, e.blocks) \subseteq Held(r)
    <3>1. Area(e.start, e.blocks) \subseteq Nat
      BY DEF Area
    <3> QED
      BY <1>3, <3>1 DEF Held, Blocks
  <2> QED
    BY <1>2, <1>4, <2>1, RegionOn
<1> HIDE DEF d, r, e, p, base
<1>12. DOMAIN v = Device /\ \A a \in Device : v[a] = IF a - base \in 0..n - 1 THEN b[a - base + 1] ELSE s.dev[a]
  OBVIOUS
<1> HIDE DEF v
<1>13. \A a \in Device : a \notin Region(e.start, e.blocks) \/ a < base => v[a] = s.dev[a]
  <2> SUFFICES ASSUME NEW a \in Device, a \notin Region(e.start, e.blocks) \/ a < base PROVE v[a] = s.dev[a]
    OBVIOUS
  <2> DEFINE z == e.blocks * BlockSize
  <2>1. /\ a \in Nat /\ base \in Nat /\ p \in Nat /\ e.len \in Nat /\ z \in Nat
        /\ base = p + e.len /\ base + n <= p + z /\ (~(p <= a /\ a < p + z) \/ a < base)
    BY <1>4, <1>5, <1>10
  <2> HIDE DEF z
  <2>2. n \in Nat /\ (a < base \/ base + n <= a)
    BY <2>1, SMTT(30)
  <2>3. a - base \notin 0..n - 1
    BY <2>1, <2>2, Distance
  <2> QED
    BY <1>12, <2>3
<1>14. Keeping(s, t, i)
  <2> SUFFICES ASSUME NEW j \in DOMAIN s.records \ {i}, NEW a \in Device, Within(s.records[j].extents, a)
               PROVE  v[a] = s.dev[a]
    BY <1>8 DEF Keeping
  <2>1. Held(s.records[j]) \cap Area(e.start, e.blocks) = {} /\ RecordOK(s.records[j])
    <3>1. Held(s.records[j]) \cap Held(r) = {} /\ RecordOK(s.records[j])
      BY DEF StoreOK, FilesOK, r
    <3>2. Area(e.start, e.blocks) \subseteq Nat
      BY DEF Area
    <3>3. Area(e.start, e.blocks) \subseteq Held(r)
      BY <1>3, <3>2 DEF Held, Blocks, e
    <3> QED
      BY <3>1, <3>3
  <2>2. a \notin Region(e.start, e.blocks)
    BY <1>4, <2>1, WithinIs
  <2> QED
    BY <1>13, <2>2
<1>15. Holding(v, x, c)
  <2>1. ASSUME NEW j \in 1..k, NEW m \in 1..x[j].len
        PROVE  v[x[j].start * BlockSize + m - 1] = s.dev[x[j].start * BlockSize + m - 1]
    <3> DEFINE a == x[j].start * BlockSize + m - 1
    <3>1. a \in Region(x[j].start, x[j].blocks)
      BY <1>3
    <3>2. a \in Device
      <4>1. Within(x, a)
        BY <1>3, <3>1 DEF Within
      <4> QED
        BY <1>2, <4>1, WithinIs
    <3>3. CASE j # k
      <4>1. Region(x[j].start, x[j].blocks) \cap Region(e.start, e.blocks) = {}
        BY <1>2, <1>3, <3>3, ExtentsApart DEF e
      <4> HIDE DEF a
      <4> QED
        BY <1>13, <3>1, <3>2, <4>1 DEF a
    <3>4. CASE j = k
      <4>1. a = p + m - 1 /\ m \in 1..e.len
        BY <3>4 DEF e, p
      <4> HIDE DEF a
      <4>2. a < base
        BY <1>4, <4>1
      <4> QED
        BY <1>13, <3>2, <4>2 DEF a
    <3> QED
      BY <3>3, <3>4
  <2>2. PICK w : /\ Offsets(x, w) /\ w[Len(x) + 1] = Len(c)
                 /\ \A j \in 1..Len(x) : \A m \in 1..x[j].len : s.dev[x[j].start * BlockSize + m - 1] = c[w[j] + m]
    BY <1>2 DEF Holding
  <2> HIDE DEF x
  <2>3. \A j \in 1..Len(x) : \A m \in 1..x[j].len : v[x[j].start * BlockSize + m - 1] = c[w[j] + m]
    BY <1>3, <2>1, <2>2
  <2> QED
    BY <2>2, <2>3 DEF Holding
<1>16. \A m \in 1..Len(d) : v[x[k].start * BlockSize + x[k].len + m - 1] = d[m]
  <2> SUFFICES ASSUME NEW m \in 1..n PROVE v[base + m - 1] = b[m]
    BY <1>4, <1>9 DEF e, p
  <2> DEFINE z == e.blocks * BlockSize
             a == base + m - 1
  <2>1. /\ base \in Nat /\ p \in Nat /\ e.len \in Nat /\ z \in Nat
        /\ base = p + e.len /\ base + n <= p + z
        /\ Region(e.start, e.blocks) = {g \in Nat : p <= g /\ g < p + z}
    BY <1>4, <1>5
  <2> HIDE DEF z
  <2>2. a \in Nat /\ p <= a /\ a < p + z /\ a - base \in 0..n - 1 /\ a - base + 1 = m
    <3>1. a \in Nat /\ a - base \in 0..n - 1 /\ a - base + 1 = m /\ base <= a /\ a < base + n
      BY <2>1, Distance, ZenonT(60)
    <3> HIDE DEF a
    <3>2. n \in Nat /\ m \in Nat
      OBVIOUS
    <3>4. \A g \in Nat : base <= g /\ g < base + n => p <= g /\ g < p + z
      <4> DEFINE l == e.len
      <4>1. l \in Nat /\ base = p + l
        BY <2>1
      <4> HIDE DEF l
      <4> QED
        BY <2>1, <3>2, <4>1, Inside
    <3>3. p <= a /\ a < p + z
      BY <3>1, <3>4
    <3> QED
      BY <3>1, <3>3
  <2>3. a \in Device
    BY <1>11, <2>1, <2>2
  <2> HIDE DEF a
  <2>4. v[a] = b[m]
    BY <1>12, <2>2, <2>3
  <2> QED
    BY <2>4 DEF a
<1>17. Holding(v, y, c \o d)
  <2>1. /\ Len(y) = k /\ \A j \in 1..k - 1 : y[j] = x[j]
    BY <1>3, <1>6
  <2>2. y[k].start = x[k].start /\ y[k].len = x[k].len + Len(d)
    BY <1>7, <1>9 DEF e
  <2> HIDE DEF x
  <2> QED
    BY <1>2, <1>3, <1>9, <1>15, <1>16, <2>1, <2>2, HoldingGrow
<1>18. Held(q) = Held(r)
  <2>1. Len(y) = Len(x) /\ \A j \in 1..k : Blocks(y[j]) = Blocks(x[j])
    BY <1>3, <1>6, <1>7 DEF Blocks, e
  <2> QED
    BY <1>3, <2>1 DEF Held, y, x
<1>19. /\ DOMAIN t.dev = Device /\ Keeping(s, t, i) /\ t.next = s.next
       /\ Held(t.records[i]) = Held(r) /\ Holding(t.dev, t.records[i].extents, c \o d)
  BY <1>8, <1>12, <1>14, <1>17, <1>18 DEF y
<1>20. Filled(s, t, i, c \o d) /\ Holding(t.dev, s.records[i].extents, c)
  BY <1>8, <1>15, <1>19 DEF Filled, r
<1> QED
  BY <1>20 DEF t, base, p, e, r, d

\* A sequence put behind another in two parts.
LEMMA SplitIs ==
  ASSUME NEW c \in Seq(Cells), NEW b \in Seq(Cells), NEW n \in Nat, n <= Len(b)
  PROVE  LET d == SubSeq(b, 1, n)
             e == SubSeq(b, n + 1, Len(b))
         IN  /\ d \in Seq(Cells) /\ Len(d) = n
             /\ e \in Seq(Cells) /\ Len(e) = Len(b) - n
             /\ (c \o d) \o e = c \o b
<1> DEFINE d == SubSeq(b, 1, n)
           e == SubSeq(b, n + 1, Len(b))
<1>1. Len(b) \in Nat /\ Len(c) \in Nat
  OBVIOUS
<1>2. d \in Seq(Cells) /\ Len(d) = n /\ \A m \in 1..n : d[m] = b[m]
  OBVIOUS
<1>3. n + 1 \in 1..Len(b) + 1
  BY <1>1
<1>4. e \in Seq(Cells) /\ Len(e) = Len(b) - n /\ \A m \in 1..Len(b) - n : e[m] = b[n + m]
  <2>1. Len(e) = IF n + 1 <= Len(b) THEN Len(b) - (n + 1) + 1 ELSE 0
    BY <1>1
  <2>2. Len(e) = Len(b) - n
    BY <1>1, <2>1
  <2>3. e \in Seq(Cells)
    BY <1>1, <1>3
  <2>4. \A m \in 1..Len(e) : e[m] = b[n + m]
    BY <1>1
  <2> HIDE DEF e
  <2> QED
    BY <2>2, <2>3, <2>4
<1> HIDE DEF d, e
<1>5. /\ c \o d \in Seq(Cells) /\ Len(c \o d) = Len(c) + n
      /\ \A p \in 1..Len(c) : (c \o d)[p] = c[p]
      /\ \A q \in 1..n : (c \o d)[Len(c) + q] = b[q]
  BY <1>2, JoinedIs
<1> DEFINE f == c \o d
<1> HIDE DEF f
<1>6. /\ f \o e \in Seq(Cells) /\ Len(f \o e) = Len(f) + (Len(b) - n)
      /\ \A p \in 1..Len(f) : (f \o e)[p] = f[p]
      /\ \A q \in 1..Len(b) - n : (f \o e)[Len(f) + q] = b[n + q]
  <2>1. f \in Seq(Cells)
    BY <1>5 DEF f
  <2> QED
    BY <1>4, <2>1, JoinedIs
<1>7. /\ c \o b \in Seq(Cells) /\ Len(c \o b) = Len(c) + Len(b)
      /\ \A p \in 1..Len(c) : (c \o b)[p] = c[p]
      /\ \A q \in 1..Len(b) : (c \o b)[Len(c) + q] = b[q]
  BY JoinedIs
<1> DEFINE g == f \o e
           h == c \o b
<1> HIDE DEF g, h
<1>8. Len(f) = Len(c) + n
  BY <1>5 DEF f
<1>9. Len(g) = Len(h)
  <2>1. Len(g) = Len(f) + (Len(b) - n)
    BY <1>6 DEF g
  <2>2. Len(h) = Len(c) + Len(b)
    BY <1>7 DEF h
  <2> QED
    BY <1>1, <1>8, <2>1, <2>2
<1>10. \A p \in 1..Len(h) : g[p] = h[p]
  <2> SUFFICES ASSUME NEW p \in 1..Len(h) PROVE g[p] = h[p]
    OBVIOUS
  <2>0. p \in Nat /\ 1 <= p /\ p <= Len(c) + Len(b)
    BY <1>1, <1>7 DEF h
  <2>1. CASE p \in 1..Len(c)
    <3>1. p \in 1..Len(f) /\ f[p] = c[p]
      BY <1>1, <1>5, <1>8, <2>1 DEF f
    <3>2. g[p] = f[p]
      BY <1>6, <3>1 DEF g
    <3>3. h[p] = c[p]
      BY <1>7, <2>1 DEF h
    <3> QED
      BY <3>1, <3>2, <3>3
  <2>2. CASE p \notin 1..Len(c) /\ p <= Len(c) + n
    <3> DEFINE q == p - Len(c)
    <3>1. q \in 1..n /\ p = Len(c) + q
      BY <1>1, <2>0, <2>2
    <3>2. q \in 1..Len(b) /\ p \in 1..Len(f)
      BY <1>1, <1>8, <2>0, <2>2, <3>1
    <3> HIDE DEF q
    <3>3. f[p] = b[q]
      BY <1>5, <3>1 DEF f
    <3>4. g[p] = f[p]
      BY <1>6, <3>2 DEF g
    <3>5. h[p] = b[q]
      BY <1>7, <3>1, <3>2 DEF h
    <3> QED
      BY <3>3, <3>4, <3>5
  <2>3. CASE p > Len(c) + n
    <3> DEFINE q == p - (Len(c) + n)
    <3>1. q \in 1..Len(b) - n /\ p = Len(f) + q
      BY <1>1, <1>8, <2>0, <2>3
    <3>2. n + q \in 1..Len(b) /\ p = Len(c) + (n + q)
      BY <1>1, <2>0, <2>3
    <3> HIDE DEF q
    <3>3. g[p] = b[n + q]
      BY <1>6, <3>1 DEF g
    <3>4. h[p] = b[n + q]
      BY <1>7, <3>2 DEF h
    <3> QED
      BY <3>3, <3>4
  <2> QED
    BY <1>1, <2>0, <2>1, <2>2, <2>3
<1>11. g \in Seq(Cells) /\ h \in Seq(Cells)
  BY <1>6, <1>7 DEF g, h
<1>12. g = h
  BY <1>9, <1>10, <1>11, SMTT(30)
<1> QED
  BY <1>2, <1>4, <1>12 DEF g, h, f, d, e

\* What two steps that leave the other files alone do together.
LEMMA KeepingTwice ==
  ASSUME NEW s, NEW u, NEW t, NEW i, Keeping(s, u, i), Stores(s, u, i), Keeping(u, t, i)
  PROVE  Keeping(s, t, i)
BY DEF Keeping, Stores, Puts

\* append_device
LEMMA AppendDeviceDelivers ==
  ASSUME NEW s, StoreOK(s), DOMAIN s.dev = Device, NEW i, NEW c \in Seq(Cells), Has(s, i, c),
         NEW b \in Seq(Cells), b # <<>>, AppendDevice(s, i, b).next <= MaxBlocks
  PROVE  Delivers(s, AppendDevice(s, i, b), i, c \o b)
<1> DEFINE t == AppendDevice(s, i, b)
           k == Len(s.records[i].extents)
           e == s.records[i].extents[k]
           fill == Least(Len(b), e.blocks * BlockSize - e.len)
           u == FillSlack(s, i, k, fill, e.start * BlockSize + e.len, b)
           rest == SubSeq(b, fill + 1, Len(b))
           w == IF rest = <<>> THEN u ELSE AddExtent(u, i, rest)
<1>1. CASE ~HasContent(s, i)
  <2>1. t = WriteDevice(s, i, b)
    BY <1>1 DEF AppendDevice
  <2>2. Whole(s, i)
    BY <1>1, NoContent
  <2>3. c = <<>>
    BY <1>1, HasNone
  <2>4. c \o b = b
    BY <2>3
  <2>5. Delivers(s, WriteDevice(s, i, b), i, b)
    BY <2>1, <2>2, WriteDeviceDelivers
  <2> QED
    BY <2>1, <2>4, <2>5
<1>2. CASE HasContent(s, i)
  <2>1. t = Grown(w, i, b)
    BY <1>2 DEF AppendDevice
  <2>2. i \in DOMAIN s.records /\ s.records[i].size # 0 /\ k > 0
    BY <1>2, NoContent
  <2>3. RecordOK(s.records[i]) /\ Roomy(s.records[i].extents)
    BY <2>2, RecordRoomy DEF StoreOK, FilesOK
  <2>4. k \in Nat /\ k \in 1..k /\ k # 0 /\ e.blocks \in Nat /\ e.len \in Nat
        /\ e.blocks * BlockSize \in Nat /\ e.len <= e.blocks * BlockSize
    <3>1. k \in Nat
      BY <2>3, RoomyIs
    <3>2. k \in 1..k
      BY <2>2, <3>1
    <3> QED
      BY <2>2, <2>3, <3>1, <3>2, RoomyIs
  <2>5. Len(b) \in Nat /\ IsContent(b)
    BY ContentLength
  <2>6. fill \in Nat /\ fill <= Len(b) /\ e.len + fill <= e.blocks * BlockSize
    <3> DEFINE room == e.blocks * BlockSize
    <3>1. room \in Nat /\ e.len \in Nat /\ e.len <= room
      BY <2>4
    <3>2. fill = Least(Len(b), room - e.len)
      OBVIOUS
    <3> HIDE DEF e, fill, room
    <3>3. fill \in Nat /\ fill <= Len(b) /\ e.len + fill <= room
      BY <2>5, <3>1, <3>2 DEF Least
    <3> QED
      BY <3>3 DEF room
  <2>7. Stores(s, u, i) /\ u.records[i].size = s.records[i].size
    <3>1. s.records[i].extents[k].len + fill <= s.records[i].extents[k].blocks * BlockSize
      BY <2>6
    <3>2. k \in 1..Len(s.records[i].extents)
      BY <2>4
    <3> DEFINE g == e.start * BlockSize + e.len
               z == FillSlack(s, i, k, fill, g, b)
    <3>3. fill \in Nat
      BY <2>6
    <3> HIDE DEF fill, g, k
    <3>4. Stores(s, z, i) /\ z.records[i].size = s.records[i].size
      BY <2>2, <3>1, <3>2, <3>3, FillSlackIs, SMTT(30)
    <3> HIDE DEF z
    <3> QED
      BY <3>4 DEF z, g
  <2> DEFINE d == SubSeq(b, 1, fill)
  <2>8. /\ DOMAIN u.dev = Device /\ Keeping(s, u, i) /\ u.next = s.next
        /\ Held(u.records[i]) = Held(s.records[i])
        /\ Holding(u.dev, u.records[i].extents, c \o d)
    <3>1. s.records[i].extents[k].len + fill <= s.records[i].extents[k].blocks * BlockSize
      BY <2>6
    <3> HIDE DEF fill
    <3>2. Filled(s, u, i, c \o SubSeq(b, 1, fill))
      BY <2>2, <2>4, <2>6, <3>1, FillHolds
    <3> HIDE DEF u
    <3> QED
      BY <3>2 DEF Filled
  <2>9. d \in Seq(Cells) /\ Len(d) = fill /\ rest \in Seq(Cells) /\ Len(rest) = Len(b) - fill
        /\ (c \o d) \o rest = c \o b
    <3> HIDE DEF fill
    <3> QED
      BY <2>6, SplitIs
  <2> HIDE DEF u, fill, rest, d
  <2>10. StoreOK(u) /\ i \in DOMAIN u.records /\ u.records[i].size # 0
    BY <2>2, <2>7 DEF Stores, Puts
  <2>11. s.records[i].size = Len(c) /\ Held(u.records[i]) \subseteq Numbers(MaxBlocks)
    BY <2>2, <2>8 DEF Has
  <2>12. c \o d \in Seq(Cells)
    BY <2>9, JoinedIs
  <2>13. /\ DOMAIN w.dev = Device /\ Keeping(s, w, i) /\ Holding(w.dev, w.records[i].extents, c \o b)
         /\ Stores(s, w, i) /\ w.records[i].size = s.records[i].size
    <3>1. CASE rest = <<>>
      <4>1. Len(rest) = 0
        BY <3>1
      <4>2. (c \o d) \o <<>> = c \o d
        BY <2>12
      <4>3. c \o b = c \o d
        BY <2>9, <3>1, <4>2
      <4>4. w = u
        BY <3>1
      <4> QED
        BY <2>7, <2>8, <4>3, <4>4
    <3>2. CASE rest # <<>>
      <4> DEFINE a == AddExtent(u, i, rest)
      <4>1. w = a
        BY <3>2
      <4>2. IsContent(rest)
        BY <2>9, ContentLength
      <4>3. Stores(u, a, i) /\ a.records[i].size = u.records[i].size
        BY <2>10, <4>2, AddExtentIs
      <4>4. a.next <= MaxBlocks
        <5>1. t.next = a.next
          BY <2>1, <4>1, WithFilesIs DEF Grown
        <5> QED
          BY <5>1
      <4>5. DOMAIN a.dev = Device /\ Keeping(u, a, i) /\ Holding(a.dev, a.records[i].extents, (c \o d) \o rest)
        BY <2>8, <2>9, <2>10, <2>11, <2>12, <4>4, AddHolds
      <4> HIDE DEF a, w
      <4>6. Keeping(s, a, i) /\ Stores(s, a, i)
        BY <2>7, <2>8, <4>3, <4>5, KeepingTwice, StoresTwice
      <4> QED
        BY <2>7, <2>9, <4>1, <4>3, <4>5, <4>6
    <3> QED
      BY <3>1, <3>2
  <2> HIDE DEF w
  <2>14. i \in DOMAIN w.records /\ w.records[i].size + Len(b) = Len(c \o b)
    BY <2>11, <2>13, JoinedIs DEF Stores, Puts
  <2>15. Delivers(s, Grown(w, i, b), i, c \o b)
    BY <2>13, <2>14, GrownDelivers
  <2> QED
    BY <2>1, <2>15
<1> QED
  BY <1>1, <1>2

\* The cells of a record are pairwise different, lie in its blocks, and are those
\* of its extents one after the other.
CellsOK(r, w) ==
    /\ \A p \in 1..r.size : Within(r.extents, CellsOf(r)[p])
    /\ \A p, q \in 1..r.size : CellsOf(r)[p] = CellsOf(r)[q] => p = q
    /\ \A k \in 1..Len(r.extents) : \A m \in 1..r.extents[k].len :
           w[k] + m \in 1..r.size /\ CellsOf(r)[w[k] + m] = r.extents[k].start * BlockSize + m - 1

\* Every sound record has such cells.
LEMMA CellsDistinct ==
  ASSUME NEW r, RecordOK(r), NEW w, Offsets(r.extents, w), w[Len(r.extents) + 1] = r.size
  PROVE  CellsOK(r, w)
<1> DEFINE x == r.extents
           L == Len(x)
           at == CellsOf(r)
<1>1. Roomy(x) /\ L \in Nat /\ r.size \in Nat
  BY RecordRoomy, RoomyIs DEF RecordOK
<1>2. \A k \in 1..L : /\ x[k].start * BlockSize \in Nat
                      /\ \A m \in 1..x[k].len :
                             x[k].start * BlockSize + m - 1 \in Region(x[k].start, x[k].blocks)
  BY <1>1, RoomyIs
<1>3. /\ \A k \in 1..L + 1 : w[k] \in Nat
      /\ \A p \in 1..r.size : \E k \in 1..L : p - w[k] \in 1..x[k].len
  BY <1>1, OffsetsIs DEF Roomy
<1>4. \A k \in 1..L : \A m \in 1..x[k].len :
          w[k] + m \in 1..r.size /\ at[w[k] + m] = x[k].start * BlockSize + m - 1
  BY <1>1, CellAt
<1>5. \A k \in 1..L : x[k].len \in Nat /\ w[k] \in Nat
  <2>1. \A k \in 1..L : k \in 1..L + 1
    BY <1>1
  <2> QED
    BY <1>1, <1>3, <2>1, RoomyIs
<1>6. \A j, k \in 1..L : j # k => Region(x[j].start, x[j].blocks) \cap Region(x[k].start, x[k].blocks) = {}
  BY ExtentsApart
<1> HIDE DEF at, L, x
<1>7. ASSUME NEW p \in 1..r.size
      PROVE  \E k \in 1..L : \E m \in 1..x[k].len : p = w[k] + m
  <2>1. PICK k \in 1..L : p - w[k] \in 1..x[k].len
    BY <1>3
  <2> DEFINE m == p - w[k]
  <2>2. p = w[k] + m
    BY <1>1, <1>5
  <2> HIDE DEF m
  <2>3. m \in 1..x[k].len
    BY <2>1 DEF m
  <2> QED
    BY <2>2, <2>3
<1>8. ASSUME NEW p \in 1..r.size
      PROVE  Within(x, at[p])
  <2>1. PICK k \in 1..L : \E m \in 1..x[k].len : p = w[k] + m
    BY <1>7
  <2>2. at[p] \in Region(x[k].start, x[k].blocks)
    BY <1>2, <1>4, <2>1
  <2> QED
    BY <2>2 DEF Within, L
<1>9. ASSUME NEW p \in 1..r.size, NEW q \in 1..r.size, at[p] = at[q]
      PROVE  p = q
  <2>1a. PICK j \in 1..L : \E m \in 1..x[j].len : p = w[j] + m
    BY <1>7
  <2>1. PICK m \in 1..x[j].len : p = w[j] + m
    BY <2>1a
  <2>2a. PICK k \in 1..L : \E n \in 1..x[k].len : q = w[k] + n
    BY <1>7
  <2>2. PICK n \in 1..x[k].len : q = w[k] + n
    BY <2>2a
  <2>3. at[p] = x[j].start * BlockSize + m - 1 /\ at[p] \in Region(x[j].start, x[j].blocks)
    BY <1>2, <1>4, <2>1
  <2>4. at[q] = x[k].start * BlockSize + n - 1 /\ at[q] \in Region(x[k].start, x[k].blocks)
    BY <1>2, <1>4, <2>2
  <2>5. j = k
    BY <1>6, <1>9, <2>3, <2>4
  <2> DEFINE a == x[j].start * BlockSize
  <2>6. a \in Nat /\ a + m - 1 = a + n - 1
    BY <1>2, <1>9, <2>3, <2>4, <2>5
  <2>7. m \in Int /\ n \in Int
    OBVIOUS
  <2> HIDE DEF a
  <2>8. m = n
    BY <2>6, <2>7
  <2> QED
    BY <2>1, <2>2, <2>5, <2>8
<1> QED
  BY <1>4, <1>8, <1>9 DEF x, at, L, CellsOK

\* Two records without a common block have no common cell.
LEMMA WithinApart ==
  ASSUME NEW r, RecordOK(r), NEW q, RecordOK(q), Held(r) \cap Held(q) = {},
         NEW b, Within(r.extents, b)
  PROVE  ~Within(q.extents, b)
<1>1. SUFFICES ASSUME NEW k \in 1..Len(q.extents), b \in Region(q.extents[k].start, q.extents[k].blocks)
               PROVE  FALSE
  BY DEF Within
<1>2. q.extents[k].start \in Nat /\ q.extents[k].blocks \in Nat
  BY RecordRoomy, RoomyIs
<1>3. Held(r) \cap Area(q.extents[k].start, q.extents[k].blocks) = {}
  <2>1. Area(q.extents[k].start, q.extents[k].blocks) \subseteq Nat
    BY DEF Area
  <2>2. Area(q.extents[k].start, q.extents[k].blocks) \subseteq Held(q)
    BY <2>1 DEF Held, Blocks
  <2> QED
    BY <2>2
<1> QED
  BY <1>1, <1>2, <1>3, WithinIs

\* What laying bytes inside a content leaves at each place.
LEMMA OverlaidIs ==
  ASSUME NEW c \in Seq(Cells), NEW off \in Nat, NEW b \in Seq(Cells), b # <<>>, off + Len(b) <= Len(c)
  PROVE  LET o == Overlay(c, off, b)
         IN  /\ o \in Seq(Cells) /\ Len(o) = Len(c)
             /\ \A p \in 1..Len(c) : o[p] = IF p - off \in 1..Len(b) THEN b[p - off] ELSE c[p]
<1> DEFINE o == Overlay(c, off, b)
<1>1. Len(c) \in Nat /\ Len(b) \in Nat /\ DOMAIN c = 1..Len(c) /\ DOMAIN b = 1..Len(b)
  OBVIOUS
<1>2. o \in Seq(Cells)
  BY EditedCells
<1>3. Greatest(Len(c), off + Len(b)) = Len(c)
  BY <1>1 DEF Greatest
<1>4. Len(o) = Len(c)
  BY <1>1, <1>3, OverlayIs
<1>5. o = [k \in 1..Len(c) |-> IF k - off \in 1..Len(b) THEN b[k - off]
                              ELSE IF k \in 1..Len(c) THEN c[k] ELSE Zero]
  BY <1>1, <1>3 DEF Overlay
<1> HIDE DEF o
<1>6. \A p \in 1..Len(c) : o[p] = IF p - off \in 1..Len(b) THEN b[p - off] ELSE c[p]
  BY <1>5
<1> QED
  BY <1>2, <1>4, <1>6 DEF o

\* The device v with b stored in the cells at[off + 1], at[off + 2], ...
Overwritten(at, off, b, v) ==
    LET hits(a) == {k \in DOMAIN b : at[off + k] = a}
    IN  [a \in DOMAIN v |-> IF hits(a) = {} THEN v[a]
                            ELSE b[CHOOSE k \in hits(a) : \A j \in hits(a) : j <= k]]

\* Those of the size cells at[1], at[2], ... that are in the range hold b in u, all
\* other cells of v what they held.
Overlaid(at, size, off, b, v, u) ==
    /\ DOMAIN u = DOMAIN v
    /\ \A p \in 1..size : at[p] \in DOMAIN v =>
           u[at[p]] = IF p - off \in 1..Len(b) THEN b[p - off] ELSE v[at[p]]
    /\ \A a \in DOMAIN v : (\A p \in 1..size : at[p] # a) => u[a] = v[a]

\* The cells an overwrite in place leaves behind.
LEMMA OverwrittenIs ==
  ASSUME NEW at, NEW size \in Nat, \A p, q \in 1..size : at[p] = at[q] => p = q,
         NEW off \in Nat, NEW b \in Seq(Cells), off + Len(b) <= size, NEW v
  PROVE  Overlaid(at, size, off, b, v, Overwritten(at, off, b, v))
<1> DEFINE hits(a) == {k \in DOMAIN b : at[off + k] = a}
           best(a) == CHOOSE k \in hits(a) : \A j \in hits(a) : j <= k
           u == Overwritten(at, off, b, v)
<1>1. Len(b) \in Nat /\ DOMAIN b = 1..Len(b)
  OBVIOUS
<1>2. \A k \in 1..Len(b) : k \in Nat /\ off + k \in 1..size /\ (off + k) - off = k
  BY <1>1
<1>0. u = [a \in DOMAIN v |-> IF hits(a) = {} THEN v[a] ELSE b[best(a)]]
  BY DEF Overwritten
<1> HIDE DEF u
<1>3. \A a \in DOMAIN v : u[a] = IF hits(a) = {} THEN v[a] ELSE b[best(a)]
  <2> HIDE DEF hits, best
  <2> QED
    BY <1>0
<1>4. DOMAIN u = DOMAIN v
  <2> HIDE DEF hits, best
  <2> QED
    BY <1>0
<1> HIDE DEF u
<1>5. ASSUME NEW p \in 1..size, at[p] \in DOMAIN v
      PROVE  u[at[p]] = IF p - off \in 1..Len(b) THEN b[p - off] ELSE v[at[p]]
  <2>1. CASE p - off \in 1..Len(b)
    <3> DEFINE k == p - off
    <3>1. k \in 1..Len(b) /\ off + k = p /\ k \in Nat
      BY <1>1, <2>1
    <3>2. hits(at[p]) = {k}
      <4>1. k \in hits(at[p])
        BY <1>1, <3>1
      <4>2. ASSUME NEW j \in hits(at[p]) PROVE j = k
        <5>1. j \in 1..Len(b) /\ at[off + j] = at[p]
          BY <1>1
        <5>2. off + j = p
          BY <1>2, <5>1
        <5>3. (off + j) - off = j
          BY <1>2, <5>1
        <5> QED
          BY <5>2, <5>3
      <4> QED
        BY <4>1, <4>2
    <3>3. k <= k
      BY <3>1
    <3> HIDE DEF k
    <3>4. best(at[p]) = k
      <4> DEFINE h == hits(at[p])
      <4>0. h = {k}
        BY <3>2
      <4> HIDE DEF h
      <4>1. \E m \in h : \A j \in h : j <= m
        BY <3>3, <4>0
      <4>2. (CHOOSE m \in h : \A j \in h : j <= m) \in h
        BY <4>1
      <4> QED
        BY <4>0, <4>2 DEF h
    <3>5. hits(at[p]) # {}
      BY <3>2
    <3> HIDE DEF hits, best
    <3>6. u[at[p]] = b[k]
      BY <1>3, <1>5, <3>4, <3>5
    <3> QED
      BY <2>1, <3>6 DEF k
  <2>2. CASE p - off \notin 1..Len(b)
    <3>1. hits(at[p]) = {}
      <4> SUFFICES ASSUME NEW j \in hits(at[p]) PROVE FALSE
        OBVIOUS
      <4>1. j \in 1..Len(b) /\ at[off + j] = at[p]
        BY <1>1
      <4>2. off + j = p /\ (off + j) - off = j
        BY <1>2, <4>1
      <4>3. p - off = j
        BY <4>2
      <4> QED
        BY <2>2, <4>1, <4>3
    <3> HIDE DEF hits, best
    <3> QED
      BY <1>3, <1>5, <2>2, <3>1
  <2> QED
    BY <2>1, <2>2
<1>6. ASSUME NEW a \in DOMAIN v, \A p \in 1..size : at[p] # a
      PROVE  u[a] = v[a]
  <2>1. hits(a) = {}
    <3> SUFFICES ASSUME NEW j \in hits(a) PROVE FALSE
      OBVIOUS
    <3>1. j \in 1..Len(b) /\ at[off + j] = a
      BY <1>1
    <3> QED
      BY <1>2, <1>6, <3>1
  <2> HIDE DEF hits, best
  <2> QED
    BY <1>3, <2>1
<1> QED
  BY <1>4, <1>5, <1>6 DEF u, Overlaid

\* The in-place branch of write_range_report.
LEMMA OverwriteDelivers ==
  ASSUME NEW s, StoreOK(s), DOMAIN s.dev = Device, NEW i \in DOMAIN s.records,
         NEW c \in Seq(Cells), Has(s, i, c), NEW off \in Nat,
         NEW b \in Seq(Cells), b # <<>>, off + Len(b) <= Len(c)
  PROVE  Delivers(s, OverwriteInPlace(s, i, off, b), i, Overlay(c, off, b))
<1> DEFINE t == OverwriteInPlace(s, i, off, b)
           o == Overlay(c, off, b)
           r == s.records[i]
           x == r.extents
           at == CellsOf(r)
           u == Overwritten(at, off, b, s.dev)
<1>1. /\ RecordOK(r) /\ Roomy(x) /\ r.size = Len(c) /\ Len(c) \in Nat
      /\ Held(r) \subseteq Numbers(MaxBlocks) /\ Holding(s.dev, x, c)
  BY RecordRoomy DEF StoreOK, FilesOK, Has
<1>2. /\ t.dev = u
      /\ DOMAIN t.records = DOMAIN s.records /\ t.records[i].size = r.size /\ t.records[i].extents = x
  <2> DEFINE crc == Read([s EXCEPT !.dev = u], i)
             d == IF Len(x) = 1 THEN DedupInsert(DedupRelease(s.dedup, r.crc), crc)
                  ELSE DedupRelease(s.dedup, r.crc)
             q == [r EXCEPT !.crc = crc]
             R == [s.records EXCEPT ![i] = q]
  <2>1. t = IF u = s.dev THEN s ELSE WithFiles(s, R, d, u)
    BY DEF OverwriteInPlace, Overwritten
  <2> HIDE DEF crc, d
  <2>2. q.size = r.size /\ q.extents = x
    BY <1>1 DEF RecordOK
  <2>3. R[i] = q /\ DOMAIN R = DOMAIN s.records
    OBVIOUS
  <2> HIDE DEF q, R, u, t
  <2>4. CASE u = s.dev
    BY <2>1, <2>4
  <2>5. CASE u # s.dev
    <3>1. t = WithFiles(s, R, d, u)
      BY <2>1, <2>5
    <3>2. t.dev = u /\ t.records = R
      BY <3>1, WithFilesIs
    <3> QED
      BY <2>2, <2>3, <3>2
  <2> QED
    BY <2>4, <2>5
<1>3. PICK w : /\ Offsets(x, w) /\ w[Len(x) + 1] = Len(c)
               /\ \A k \in 1..Len(x) : \A m \in 1..x[k].len : s.dev[x[k].start * BlockSize + m - 1] = c[w[k] + m]
  BY <1>1 DEF Holding
<1>4. /\ \A p \in 1..r.size : Within(x, at[p])
      /\ \A p, q \in 1..r.size : at[p] = at[q] => p = q
      /\ \A k \in 1..Len(x) : \A m \in 1..x[k].len :
             w[k] + m \in 1..r.size /\ at[w[k] + m] = x[k].start * BlockSize + m - 1
  <2>1. w[Len(x) + 1] = r.size
    BY <1>1, <1>3
  <2>2. CellsOK(r, w)
    BY <1>1, <1>3, <2>1, CellsDistinct
  <2> QED
    BY <2>2 DEF CellsOK
<1>6. /\ o \in Seq(Cells) /\ Len(o) = Len(c)
      /\ \A p \in 1..Len(c) : o[p] = IF p - off \in 1..Len(b) THEN b[p - off] ELSE c[p]
  BY OverlaidIs
<1> HIDE DEF at, o, t
<1>7. Overlaid(at, r.size, off, b, s.dev, u)
  <2> DEFINE v == s.dev
             n == r.size
  <2>1. n \in Nat /\ off + Len(b) <= n /\ \A p, q \in 1..n : at[p] = at[q] => p = q
    BY <1>1, <1>4
  <2> HIDE DEF v, n
  <2>2. Overlaid(at, n, off, b, v, Overwritten(at, off, b, v))
    BY <2>1, OverwrittenIs
  <2> QED
    BY <2>2 DEF v, n
<1> HIDE DEF u
<1>8. \A p \in 1..r.size : at[p] \in Device
  BY <1>1, <1>4, WithinIs
<1>9. Holding(u, x, o)
  <2>1. ASSUME NEW k \in 1..Len(x), NEW m \in 1..x[k].len
        PROVE  u[x[k].start * BlockSize + m - 1] = o[w[k] + m]
    <3> DEFINE p == w[k] + m
               a == x[k].start * BlockSize + m - 1
    <3>1. p \in 1..r.size /\ at[p] = a /\ s.dev[a] = c[p]
      BY <1>3, <1>4
    <3> HIDE DEF p, a
    <3>2. /\ p - off \in 1..Len(b) => u[a] = b[p - off]
          /\ p - off \notin 1..Len(b) => u[a] = s.dev[a]
      BY <1>7, <1>8, <3>1 DEF Overlaid
    <3>3. /\ p - off \in 1..Len(b) => o[p] = b[p - off]
          /\ p - off \notin 1..Len(b) => o[p] = c[p]
      BY <1>1, <1>6, <3>1
    <3>4. u[a] = o[p]
      BY <3>1, <3>2, <3>3, Zenon
    <3> QED
      BY <3>4 DEF p, a
  <2>2. Offsets(x, w) /\ w[Len(x) + 1] = Len(o)
    BY <1>3, <1>6
  <2>3. \A k \in 1..Len(x) : \A m \in 1..x[k].len : u[x[k].start * BlockSize + m - 1] = o[w[k] + m]
    BY <2>1
  <2> HIDE DEF x
  <2> QED
    BY <2>2, <2>3 DEF Holding
<1>10. Keeping(s, t, i)
  <2> SUFFICES ASSUME NEW j \in DOMAIN s.records \ {i}, NEW a \in Device, Within(s.records[j].extents, a)
               PROVE  u[a] = s.dev[a]
    BY <1>2 DEF Keeping
  <2>1. RecordOK(s.records[j]) /\ Held(s.records[j]) \cap Held(r) = {}
    BY DEF StoreOK, FilesOK
  <2>2. ~Within(x, a)
    BY <1>1, <2>1, WithinApart
  <2>3. \A p \in 1..r.size : at[p] # a
    BY <1>4, <2>2
  <2> QED
    BY <1>7, <2>3 DEF Overlaid
<1>11. Delivers(s, t, i, o)
  BY <1>1, <1>2, <1>6, <1>7, <1>9, <1>10 DEF Delivers, Overlaid
<1> QED
  BY <1>11 DEF t, o

\* A file that is left as it is has what it had.
LEMMA SameDelivers ==
  ASSUME NEW s, DOMAIN s.dev = Device, NEW i \in DOMAIN s.records, NEW c, Has(s, i, c)
  PROVE  Delivers(s, s, i, c)
BY DEF Delivers, Has, Keeping

\* Bytes laid over all of a content, or at its end.
LEMMA OverlayEnds ==
  ASSUME NEW c \in Seq(Cells), NEW b \in Seq(Cells), b # <<>>
  PROVE  /\ Len(c) <= Len(b) => Overlay(c, 0, b) = b
         /\ Overlay(c, Len(c), b) = c \o b
<1>1. Len(c) \in Nat /\ Len(b) \in Nat /\ DOMAIN c = 1..Len(c) /\ DOMAIN b = 1..Len(b) /\ 0 \in Nat
  OBVIOUS
<1>2. ASSUME Len(c) <= Len(b) PROVE Overlay(c, 0, b) = b
  <2> DEFINE o == Overlay(c, 0, b)
  <2>1. o \in Seq(Cells) /\ Len(o) = Greatest(Len(c), 0 + Len(b))
    BY <1>1, EditedCells, OverlayIs
  <2>2. Greatest(Len(c), 0 + Len(b)) = Len(b)
    <3> DEFINE m == Len(c)
               n == Len(b)
    <3>1. m \in Nat /\ n \in Nat /\ m <= n
      BY <1>1, <1>2
    <3> HIDE DEF m, n
    <3>2. Greatest(m, 0 + n) = n
      BY <3>1 DEF Greatest
    <3> QED
      BY <3>2 DEF m, n
  <2>3. o = [k \in 1..Len(b) |-> IF k - 0 \in 1..Len(b) THEN b[k - 0]
                                ELSE IF k \in 1..Len(c) THEN c[k] ELSE Zero]
    BY <1>1, <2>2 DEF Overlay
  <2> HIDE DEF o
  <2>4. \A k \in 1..Len(b) : k - 0 = k
    OBVIOUS
  <2>5. \A k \in 1..Len(b) : o[k] = b[k]
    BY <2>3, <2>4
  <2>6. Len(o) = Len(b)
    BY <2>1, <2>2
  <2>7. o = b
    BY <2>1, <2>5, <2>6
  <2> QED
    BY <2>7 DEF o
<1>3. Overlay(c, Len(c), b) = c \o b
  <2> DEFINE o == Overlay(c, Len(c), b)
             h == c \o b
             n == Len(c) + Len(b)
  <2>1. o \in Seq(Cells) /\ Len(o) = Greatest(Len(c), n)
    BY <1>1, EditedCells, OverlayIs
  <2>2. Greatest(Len(c), n) = n /\ n \in Nat
    BY <1>1 DEF Greatest
  <2>3. o = [k \in 1..n |-> IF k - Len(c) \in 1..Len(b) THEN b[k - Len(c)]
                            ELSE IF k \in 1..Len(c) THEN c[k] ELSE Zero]
    BY <1>1, <2>2 DEF Overlay
  <2>4. /\ h \in Seq(Cells) /\ Len(h) = n
        /\ \A p \in 1..Len(c) : h[p] = c[p]
        /\ \A q \in 1..Len(b) : h[Len(c) + q] = b[q]
    BY JoinedIs
  <2>5. \A k \in 1..n : k \in Nat /\ 1 <= k /\ k <= Len(c) + Len(b)
    BY <2>2
  <2> HIDE DEF o, h, n
  <2>6. ASSUME NEW k \in 1..n PROVE o[k] = h[k]
    <3>1. CASE k <= Len(c)
      <4>1. k - Len(c) \notin 1..Len(b) /\ k \in 1..Len(c)
        BY <1>1, <2>5, <3>1
      <4> QED
        BY <2>3, <2>4, <4>1
    <3>2. CASE ~(k <= Len(c))
      <4> DEFINE q == k - Len(c)
      <4>1. q \in 1..Len(b) /\ k = Len(c) + q
        BY <1>1, <2>5, <3>2
      <4>2. o[k] = b[q]
        BY <2>3, <4>1
      <4> HIDE DEF q
      <4> QED
        BY <2>4, <4>1, <4>2
    <3> QED
      BY <3>1, <3>2
  <2>7. Len(o) = n /\ Len(h) = n
    BY <2>1, <2>2, <2>4
  <2>8. o = h
    BY <2>1, <2>4, <2>6, <2>7
  <2> QED
    BY <2>8 DEF o, h
<1> QED
  BY <1>2, <1>3

\* write_range_fallback
LEMMA FallbackDelivers ==
  ASSUME NEW s, StoreOK(s), DOMAIN s.dev = Device, NEW i, Whole(s, i), NEW c \in Seq(Cells), Has(s, i, c),
         NEW off \in Nat, NEW b \in Seq(Cells), b # <<>>,
         WriteRangeFallback(s, i, off, b).next <= MaxBlocks
  PROVE  Delivers(s, WriteRangeFallback(s, i, off, b), i, Overlay(c, off, b))
<1> DEFINE t == WriteRangeFallback(s, i, off, b)
           new == Overlay(c, off, b)
           old == IF i \in DOMAIN s.records THEN Read(s, i) ELSE <<>>
<1>1. old = c
  BY HasNone DEF Has
<1>2. new \in Seq(Cells) /\ new # <<>>
  BY EditedCells
<1>3. t = IF new = c THEN s ELSE Write(s, i, new)
  BY <1>1 DEF WriteRangeFallback
<1> HIDE DEF new, t, old
<1>4. CASE new = c
  <2>1. i \in DOMAIN s.records
    BY <1>2, <1>4 DEF Has
  <2> QED
    BY <1>3, <1>4, <2>1, SameDelivers DEF new, t
<1>5. CASE new # c
  <2>1. t = Write(s, i, new)
    BY <1>3, <1>5
  <2>2. Write(s, i, new).next <= MaxBlocks
    BY <2>1 DEF t
  <2>3. Delivers(s, Write(s, i, new), i, new)
    BY <1>2, <2>2, WriteDelivers
  <2> QED
    BY <2>1, <2>3 DEF new, t
<1> QED
  BY <1>4, <1>5

\* write_range_report
LEMMA WriteRangeDelivers ==
  ASSUME NEW s, StoreOK(s), DOMAIN s.dev = Device, NEW i, NEW c \in Seq(Cells), Has(s, i, c),
         NEW off \in Nat, NEW b \in Seq(Cells), b # <<>>,
         \/ off = SizeOf(s, i)
         \/ off + Len(b) <= SizeOf(s, i) /\ ~(off = 0 /\ Len(b) >= SizeOf(s, i))
         \/ Whole(s, i),
         WriteRange(s, i, off, b).next <= MaxBlocks
  PROVE  Delivers(s, WriteRange(s, i, off, b), i, Overlay(c, off, b))
<1> DEFINE t == WriteRange(s, i, off, b)
           o == Overlay(c, off, b)
<1>1. Len(c) \in Nat /\ Len(b) \in Nat /\ Len(b) # 0 /\ SizeOf(s, i) = Len(c)
  BY HasNone, ContentLength
<1>2. CASE i \notin DOMAIN s.records
  <2>1. Whole(s, i) /\ c = <<>> /\ Len(c) = 0
    BY <1>2 DEF Whole, Has
  <2>2. CASE off = 0
    <3>1. t = Write(s, i, b)
      BY <1>2, <2>2 DEF WriteRange
    <3>2. o = b
      <4>1. Len(c) <= Len(b)
        BY <1>1, <2>1
      <4>2. Overlay(c, 0, b) = b
        BY <4>1, OverlayEnds
      <4> QED
        BY <2>2, <4>2
    <3>3. Delivers(s, Write(s, i, b), i, b)
      BY <2>1, <3>1, WriteDelivers
    <3> QED
      BY <3>1, <3>2, <3>3
  <2>3. CASE off # 0
    <3>1. t = WriteRangeFallback(s, i, off, b)
      BY <1>2, <2>3 DEF WriteRange
    <3> QED
      BY <2>1, <3>1, FallbackDelivers
  <2> QED
    BY <2>2, <2>3
<1>3. CASE i \in DOMAIN s.records
  <2>0. s.records[i].size = Len(c)
    BY <1>1, <1>3 DEF SizeOf
  <2>1. CASE off = Len(c)
    <3>1. t = AppendToInode(s, i, b)
      BY <1>3, <2>0, <2>1 DEF WriteRange
    <3>2. o = c \o b
      BY <2>1, OverlayEnds
    <3>3. Delivers(s, AppendToInode(s, i, b), i, c \o b)
      BY <3>1, AppendDelivers
    <3> QED
      BY <3>1, <3>2, <3>3
  <2>2. CASE off # Len(c) /\ off = 0 /\ off + Len(b) >= Len(c)
    <3>1. t = Write(s, i, b)
      BY <1>3, <2>0, <2>2 DEF WriteRange
    <3>2. Len(c) <= Len(b)
      BY <1>1, <2>2
    <3>3. o = b
      BY <2>2, <3>2, OverlayEnds
    <3>4. Whole(s, i)
      BY <1>1, <2>2, <3>2
    <3>5. Delivers(s, Write(s, i, b), i, b)
      BY <3>1, <3>4, WriteDelivers
    <3> QED
      BY <3>1, <3>3, <3>5
  <2>3. CASE off # Len(c) /\ ~(off = 0 /\ off + Len(b) >= Len(c)) /\ off + Len(b) > Len(c)
    <3>1. t = WriteRangeFallback(s, i, off, b)
      BY <1>3, <2>0, <2>3 DEF WriteRange
    <3>2. Whole(s, i)
      BY <1>1, <2>3
    <3> QED
      BY <3>1, <3>2, FallbackDelivers
  <2>4. CASE off # Len(c) /\ ~(off = 0 /\ off + Len(b) >= Len(c)) /\ ~(off + Len(b) > Len(c))
    <3>1. t = OverwriteInPlace(s, i, off, b)
      BY <1>3, <2>0, <2>4 DEF WriteRange
    <3>2. off + Len(b) <= Len(c)
      BY <1>1, <2>4
    <3>3. Delivers(s, OverwriteInPlace(s, i, off, b), i, o)
      BY <1>3, <3>2, OverwriteDelivers
    <3> QED
      BY <3>1, <3>3
  <2> QED
    BY <2>1, <2>2, <2>3, <2>4
<1> QED
  BY <1>2, <1>3

\* write_at
LEMMA WriteAtDelivers ==
  ASSUME NEW s, StoreOK(s), DOMAIN s.dev = Device, NEW i, NEW c \in Seq(Cells), Has(s, i, c),
         NEW off \in Nat, NEW b \in Seq(Cells), b # <<>>, off = SizeOf(s, i) \/ Whole(s, i),
         WriteAt(s, i, off, b).next <= MaxBlocks
  PROVE  Delivers(s, WriteAt(s, i, off, b), i, Overlay(c, off, b))
<1> DEFINE t == WriteAt(s, i, off, b)
           o == Overlay(c, off, b)
           old == IF i \in DOMAIN s.records THEN Read(s, i) ELSE <<>>
<1>1. Len(c) \in Nat /\ Len(b) \in Nat /\ Len(b) # 0 /\ SizeOf(s, i) = Len(c)
  BY HasNone, ContentLength
<1>2. old = c
  BY HasNone DEF Has
<1>3. t = IF off = 0 /\ Len(b) >= Len(c) THEN WriteDevice(s, i, b)
          ELSE IF off = Len(c) THEN AppendDevice(s, i, b) ELSE WriteDevice(s, i, o)
  BY <1>2 DEF WriteAt
<1>4. o \in Seq(Cells)
  BY EditedCells
<1> HIDE DEF t, o
<1>5. CASE off = 0 /\ Len(b) >= Len(c)
  <2>1. t = WriteDevice(s, i, b)
    BY <1>3, <1>5
  <2>2. o = b
    BY <1>1, <1>5, OverlayEnds DEF o
  <2>3. Whole(s, i)
    BY <1>1, <1>5, NoContent
  <2>4. Delivers(s, WriteDevice(s, i, b), i, b)
    BY <2>1, <2>3, WriteDeviceDelivers DEF t
  <2> QED
    BY <2>1, <2>2, <2>4 DEF t, o
<1>6. CASE ~(off = 0 /\ Len(b) >= Len(c)) /\ off = Len(c)
  <2>1. t = AppendDevice(s, i, b)
    BY <1>3, <1>6
  <2>2. o = c \o b
    BY <1>6, OverlayEnds DEF o
  <2>3. Delivers(s, AppendDevice(s, i, b), i, c \o b)
    BY <2>1, AppendDeviceDelivers DEF t
  <2> QED
    BY <2>1, <2>2, <2>3 DEF t, o
<1>7. CASE ~(off = 0 /\ Len(b) >= Len(c)) /\ off # Len(c)
  <2>1. t = WriteDevice(s, i, o)
    BY <1>3, <1>7
  <2>2. Whole(s, i)
    BY <1>1, <1>7
  <2>3. WriteDevice(s, i, o).next <= MaxBlocks
    BY <2>1 DEF t
  <2>4. Delivers(s, WriteDevice(s, i, o), i, o)
    BY <1>4, <2>2, <2>3, WriteDeviceDelivers
  <2> QED
    BY <2>1, <2>4 DEF t, o
<1> QED
  BY <1>5, <1>6, <1>7

\* A content cut to its own length, and one that grows by zeros.
LEMMA ResizedEnds ==
  ASSUME NEW c \in Seq(Cells), NEW n \in Nat
  PROVE  /\ n = Len(c) => Resized(c, n) = c
         /\ n > Len(c) => LET z == [k \in 1..n - Len(c) |-> Zero]
                          IN  z \in Seq(Cells) /\ z # <<>> /\ c \o z = Resized(c, n)
<1> DEFINE o == Resized(c, n)
<1>1. Len(c) \in Nat /\ DOMAIN c = 1..Len(c)
  OBVIOUS
<1>2. o \in Seq(Cells) /\ Len(o) = n
  BY EditedCells
<1>3. o = [k \in 1..n |-> IF k \in 1..Len(c) THEN c[k] ELSE Zero]
  BY <1>1 DEF Resized
<1> HIDE DEF o
<1>4. ASSUME n = Len(c) PROVE o = c
  <2>1. \A k \in 1..Len(c) : o[k] = c[k]
    BY <1>3, <1>4
  <2> QED
    BY <1>2, <1>4, <2>1
<1>5. ASSUME n > Len(c)
      PROVE  LET z == [k \in 1..n - Len(c) |-> Zero]
             IN  z \in Seq(Cells) /\ z # <<>> /\ c \o z = o
  <2> DEFINE m == n - Len(c)
             z == [k \in 1..m |-> Zero]
             h == c \o z
  <2>1. m \in Nat /\ m # 0 /\ n = Len(c) + m
    <3> DEFINE l == Len(c)
    <3>1. l \in Nat /\ n \in Nat /\ n > l
      BY <1>1, <1>5
    <3> HIDE DEF l
    <3>2. n - l \in Nat /\ n - l # 0 /\ n = l + (n - l)
      BY <3>1
    <3> QED
      BY <3>2 DEF l
  <2> HIDE DEF m
  <2>2. Zero \in Cells
    BY DEF Cells
  <2>3. z \in Seq(Cells) /\ Len(z) = m /\ \A k \in 1..m : z[k] = Zero
    BY <2>1, <2>2
  <2> HIDE DEF z
  <2>4. z # <<>>
    BY <2>1, <2>3
  <2>5. /\ h \in Seq(Cells) /\ Len(h) = Len(c) + m
        /\ \A p \in 1..Len(c) : h[p] = c[p]
        /\ \A q \in 1..m : h[Len(c) + q] = Zero
    BY <2>3, JoinedIs, ZenonT(60)
  <2> HIDE DEF h
  <2>6. ASSUME NEW k \in 1..n PROVE h[k] = o[k]
    <3>0. k \in Nat /\ 1 <= k /\ k <= Len(c) + m
      BY <2>1
    <3>1. CASE k <= Len(c)
      <4>1. k \in 1..Len(c)
        BY <1>1, <3>0, <3>1
      <4> QED
        BY <1>3, <2>5, <4>1
    <3>2. CASE ~(k <= Len(c))
      <4> DEFINE q == k - Len(c)
      <4>1. q \in 1..m /\ k = Len(c) + q /\ k \notin 1..Len(c)
        BY <1>1, <2>1, <3>0, <3>2
      <4>2. o[k] = Zero
        BY <1>3, <4>1
      <4> HIDE DEF q
      <4> QED
        BY <2>5, <4>1, <4>2
    <3> QED
      BY <3>1, <3>2
  <2>7. Len(h) = n
    BY <2>1, <2>5
  <2>8. h = o
    BY <1>2, <2>5, <2>6, <2>7
  <2> QED
    BY <2>3, <2>4, <2>8 DEF h, z, m
<1> QED
  BY <1>4, <1>5 DEF o

\* resize_inode
LEMMA ResizeDelivers ==
  ASSUME NEW s, StoreOK(s), DOMAIN s.dev = Device, NEW i \in DOMAIN s.records,
         NEW c \in Seq(Cells), Has(s, i, c), NEW n \in Nat, n < SizeOf(s, i) => Whole(s, i),
         ResizeInode(s, i, n).next <= MaxBlocks
  PROVE  Delivers(s, ResizeInode(s, i, n), i, Resized(c, n))
<1> DEFINE t == ResizeInode(s, i, n)
           o == Resized(c, n)
           z == [k \in 1..n - Len(c) |-> Zero]
<1>1. Len(c) \in Nat /\ SizeOf(s, i) = Len(c) /\ Read(s, i) = c /\ s.records[i].size = Len(c)
  BY HasNone, ContentLength DEF Has
<1>2. t = IF n = Len(c) THEN s ELSE IF n > Len(c) THEN AppendToInode(s, i, z) ELSE Write(s, i, o)
  BY <1>1 DEF ResizeInode
<1>3. o \in Seq(Cells)
  BY EditedCells
<1>4. /\ n = Len(c) => o = c
      /\ n > Len(c) => z \in Seq(Cells) /\ z # <<>> /\ c \o z = o
  BY ResizedEnds
<1> HIDE DEF t, o, z
<1>5. CASE n = Len(c)
  BY <1>2, <1>4, <1>5, SameDelivers DEF t, o
<1>6. CASE n > Len(c)
  <2>1. t = AppendToInode(s, i, z)
    BY <1>1, <1>2, <1>6
  <2>2. AppendToInode(s, i, z).next <= MaxBlocks
    BY <2>1 DEF t
  <2>3. Delivers(s, AppendToInode(s, i, z), i, c \o z)
    BY <1>4, <1>6, <2>2, AppendDelivers
  <2> QED
    BY <1>4, <1>6, <2>1, <2>3 DEF t, o
<1>7. CASE n < Len(c)
  <2>1. t = Write(s, i, o)
    BY <1>1, <1>2, <1>7
  <2>2. Write(s, i, o).next <= MaxBlocks /\ Whole(s, i)
    BY <1>1, <1>7, <2>1 DEF t
  <2>3. Delivers(s, Write(s, i, o), i, o)
    BY <1>3, <2>2, WriteDelivers
  <2> QED
    BY <2>1, <2>3 DEF t, o
<1> QED
  BY <1>1, <1>5, <1>6, <1>7

\* truncate
LEMMA TruncateDelivers ==
  ASSUME NEW s, StoreOK(s), DOMAIN s.dev = Device, NEW i, Whole(s, i), NEW c \in Seq(Cells), Has(s, i, c),
         NEW n \in Nat, Truncate(s, i, n).next <= MaxBlocks
  PROVE  Delivers(s, Truncate(s, i, n), i, Resized(c, n))
<1> DEFINE o == Resized(c, n)
           old == IF i \in DOMAIN s.records THEN Read(s, i) ELSE <<>>
<1>1. old = c
  BY HasNone DEF Has
<1>2. Truncate(s, i, n) = WriteDevice(s, i, o)
  BY <1>1 DEF Truncate
<1>3. o \in Seq(Cells)
  BY EditedCells
<1> HIDE DEF o
<1>4. Delivers(s, WriteDevice(s, i, o), i, o)
  BY <1>2, <1>3, WriteDeviceDelivers
<1> QED
  BY <1>2, <1>4 DEF o

\* The record put for an empty content has no extent.
LEMMA EmptyPut ==
  ASSUME NEW spot, NEW i, NEW d
  PROVE  LET r == PutRecord(spot, i, <<>>, d).records[i] IN r.extents = <<>> /\ r.size = 0
<1> DEFINE r == [size |-> Len(<<>>), crc |-> <<>>, extents |-> <<>>]
           put == PutRecord(spot, i, <<>>, d)
<1>1. put.records = Bind(spot.store.records, i, r)
  BY WithFilesIs DEF PutRecord
<1>2. r.extents = <<>> /\ r.size = 0
  OBVIOUS
<1> HIDE DEF r, put
<1>3. Puts(spot.store.records, Bind(spot.store.records, i, r), i, r)
  BY BindIs
<1>4. put.records[i] = r
  BY <1>1, <1>3 DEF Puts
<1> QED
  BY <1>2, <1>4 DEF put

\* clone_for_inode: the target gets what the source has.
LEMMA CloneDelivers ==
  ASSUME NEW s, StoreOK(s), DOMAIN s.dev = Device, NEW i \in DOMAIN s.records,
         NEW j, j \notin DOMAIN s.records, NEW c \in Seq(Cells), Has(s, i, c),
         CloneForInode(s, i, j).next <= MaxBlocks
  PROVE  Delivers(s, CloneForInode(s, i, j), j, c)
<1> DEFINE crc == s.records[i].crc
           n == RequiredBlocks(Len(c))
           spot == AllocateExtent(s, n)
           d == Bind(s.dedup, crc, IF crc \in DOMAIN s.dedup THEN s.dedup[crc] + 1 ELSE 2)
           put == PutRecord(spot, j, c, d)
           q == [put.records[j] EXCEPT !.crc = crc]
           R2 == [put.records EXCEPT ![j] = q]
           v == IF c = <<>> THEN s.dev ELSE put.dev
           t == CloneForInode(s, i, j)
<1>1. Read(s, i) = c
  BY HasNone
<1>2. t = WithFiles(put, R2, put.dedup, v)
  BY <1>1 DEF CloneForInode, WithRecord
<1>3. n \in Nat /\ n # 0 /\ IsContent(c) /\ DOMAIN s = Keys
  BY ContentLength DEF StoreOK
<1>4. SpotOK(s, j, spot, n) /\ spot.store.dev = s.dev
  <2>1. Freed(s, j) = s
    BY DEF Freed
  <2> HIDE DEF n
  <2>2. SpotOK(s, j, AllocateExtent(Freed(s, j), n), n)
    BY <1>3, MovedSpot
  <2> QED
    BY <1>3, <2>1, <2>2, FreedDevice
<1> HIDE DEF spot, d
<1>5. put.next = spot.store.next
  BY WithFilesIs DEF PutRecord
<1>6. t.next = put.next /\ t.records = R2 /\ t.dev = v
  BY <1>2, WithFilesIs
<1>7. Given(spot) \subseteq Numbers(MaxBlocks)
  BY <1>4, <1>5, <1>6, SpotBelow
<1>8. Delivers(s, put, j, c)
  BY <1>4, <1>7, PutDelivers
<1>9. j \in DOMAIN put.records /\ DOMAIN put.records[j] = {"size", "crc", "extents"}
  <2> DEFINE r == [size |-> Len(c), crc |-> c,
                   extents |-> IF c = <<>> THEN <<>>
                               ELSE <<[start |-> spot.start, blocks |-> spot.blocks, len |-> Len(c)]>>]
  <2>1. put.records = Bind(spot.store.records, j, r)
    BY WithFilesIs DEF PutRecord
  <2>2. DOMAIN r = {"size", "crc", "extents"}
    OBVIOUS
  <2> HIDE DEF r, put
  <2>3. Puts(spot.store.records, Bind(spot.store.records, j, r), j, r)
    BY BindIs
  <2> QED
    BY <2>1, <2>2, <2>3 DEF Puts
<1>10. c = <<>> => put.records[j].extents = <<>>
  BY EmptyPut
<1> HIDE DEF put
<1>11. t.records[j].size = put.records[j].size /\ t.records[j].extents = put.records[j].extents
  BY <1>6, <1>9
<1> HIDE DEF t
<1>12. CASE c = <<>>
  <2>1. t.dev = s.dev
    BY <1>6, <1>12
  <2>2. Holding(t.dev, t.records[j].extents, c)
    BY <1>10, <1>11, <1>12, HoldingNone
  <2> QED
    BY <1>8, <1>11, <2>1, <2>2 DEF Delivers, Keeping, t
<1>13. CASE c # <<>>
  <2>1. t.dev = put.dev
    BY <1>6, <1>13
  <2> QED
    BY <1>8, <1>11, <2>1 DEF Delivers, Keeping, t
<1> QED
  BY <1>12, <1>13

\* Blocks copied downwards arrive, and no other cell changes.
LEMMA CopiedIs ==
  ASSUME NEW v, DOMAIN v = Device, NEW a \in Nat, NEW at \in Nat, at <= a, NEW n \in Nat,
         Area(a, n) \subseteq Numbers(MaxBlocks)
  PROVE  LET u == CopyBlocks(v, a, at, n)
         IN  /\ DOMAIN u = Device
             /\ Area(at, n) \subseteq Numbers(MaxBlocks)
             /\ \A m \in 1..n * BlockSize : u[at * BlockSize + m - 1] = v[a * BlockSize + m - 1]
             /\ \A b \in Device : b \notin Region(at, n) => u[b] = v[b]
<1> DEFINE u == CopyBlocks(v, a, at, n)
           p == at * BlockSize
           q == a * BlockSize
           z == n * BlockSize
           g == (a - at) * BlockSize
<1>0. BlockSize \in Nat /\ MaxBlocks \in Nat
  BY BlockStoreAssumption DEF BlockStoreAssumption
<1>1. Area(at, n) \subseteq Numbers(MaxBlocks)
  <2> SUFFICES ASSUME NEW b \in Area(at, n) PROVE b \in Numbers(MaxBlocks)
    OBVIOUS
  <2>1. b \in Nat /\ at <= b /\ b < at + n
    BY DEF Area
  <2>2. b + (a - at) \in Area(a, n)
    BY <2>1 DEF Area
  <2>3. b + (a - at) < MaxBlocks
    BY <2>2 DEF Numbers
  <2> QED
    BY <1>0, <2>1, <2>3 DEF Numbers
<1>2. Region(at, n) \subseteq Device /\ Region(a, n) \subseteq Device
  BY <1>1, RegionOn
<1>3. p \in Nat /\ q \in Nat /\ z \in Nat /\ g \in Nat /\ q = p + g
  <2> DEFINE h == a - at
  <2>1. h \in Nat /\ a = at + h
    OBVIOUS
  <2> HIDE DEF h
  <2>2. at * BlockSize \in Nat /\ (at + h) * BlockSize = at * BlockSize + h * BlockSize
    BY <1>0, <2>1, Scaled
  <2>3. a * BlockSize \in Nat /\ n * BlockSize \in Nat /\ h * BlockSize \in Nat
    BY <1>0, <2>1
  <2> QED
    BY <2>1, <2>2, <2>3 DEF h
<1>4. /\ \A b : b \in Region(at, n) <=> b \in Nat /\ p <= b /\ b < p + z
      /\ \A b : b \in Region(a, n) <=> b \in Nat /\ q <= b /\ b < q + z
  BY DEF Region
<1>5. u = [c \in Device |-> IF c - p \notin 0..z - 1 THEN v[c] ELSE IF c + g \in Device THEN v[c + g] ELSE Zero]
  BY DEF CopyBlocks
<1>6. \A b \in Device : b \in Nat
  BY DEF Device
<1> HIDE DEF u, p, q, z, g
<1>7. DOMAIN u = Device
  BY <1>5
<1>8. ASSUME NEW m \in 1..z PROVE u[p + m - 1] = v[q + m - 1]
  <2> DEFINE c == p + m - 1
             b == q + m - 1
  <2>1. /\ c \in Nat /\ p <= c /\ c < p + z /\ c - p \in 0..z - 1
        /\ b \in Nat /\ q <= b /\ b < q + z /\ c + g = b
    BY <1>3
  <2> HIDE DEF c, b
  <2>2. c \in Device /\ b \in Device
    BY <1>2, <1>4, <2>1
  <2>3. u[c] = v[b]
    BY <1>5, <2>1, <2>2
  <2> QED
    BY <2>3 DEF c, b
<1>9. ASSUME NEW b \in Device, b \notin Region(at, n) PROVE u[b] = v[b]
  <2>1. b \in Nat /\ ~(p <= b /\ b < p + z)
    BY <1>4, <1>6, <1>9
  <2>2. b - p \notin 0..z - 1
    BY <1>3, <2>1
  <2> QED
    BY <1>5, <2>2
<1> QED
  BY <1>1, <1>7, <1>8, <1>9 DEF u, p, q, z

\* A record of one extent holds a content as long as the extent counts.
LEMMA HoldingLength ==
  ASSUME NEW v, NEW x, Len(x) = 1, x[1].len \in Nat, NEW c, Holding(v, x, c)
  PROVE  Len(c) = x[1].len
<1>1. PICK w : Offsets(x, w) /\ w[Len(x) + 1] = Len(c)
  BY DEF Holding
<1>2. 1 \in 1..Len(x) /\ Len(x) + 1 = 2
  OBVIOUS
<1>3. w[1] = 0 /\ w[1 + 1] = w[1] + x[1].len
  BY <1>1, <1>2 DEF Offsets
<1> QED
  BY <1>1, <1>2, <1>3

\* One turn of the compaction loop brings the bytes along.
LEMMA MoveDelivers ==
  ASSUME NEW s, NEW i \in DOMAIN s.records, RecordOK(s.records[i]), Whole(s, i), s.records[i].size # 0,
         NEW acc, DOMAIN acc = Keys, DOMAIN acc.dev = Device, acc.next \in Nat,
         i \in DOMAIN acc.records, acc.records[i] = s.records[i],
         acc.next <= FirstPhysicalBlock(s.records[i]),
         Held(s.records[i]) \subseteq Numbers(MaxBlocks),
         NEW c, Holding(acc.dev, s.records[i].extents, c)
  PROVE  LET t == MoveToCursor(s, acc, i, 0)
             n == TotalBlocks(s.records[i])
         IN  /\ DOMAIN t.dev = Device /\ t.next = acc.next + n
             /\ Holding(t.dev, t.records[i].extents, c)
             /\ Area(acc.next, n) \subseteq Numbers(MaxBlocks)
             /\ \A b \in Device : b \notin Region(acc.next, n) => t.dev[b] = acc.dev[b]
<1> DEFINE r == s.records[i]
           x == r.extents
           n == TotalBlocks(r)
           at == acc.next
           a == FirstPhysicalBlock(r)
           t == MoveToCursor(s, acc, i, 0)
           u == CopyBlocks(acc.dev, a, at, n)
           q == Moved(r, at)
<1>1. /\ Len(x) = 1 /\ a \in Nat /\ n \in Nat /\ n # 0 /\ Held(r) = Area(a, n)
      /\ x[1].start = a /\ x[1].blocks = n
  <2>1. Len(x) \in Nat /\ Len(x) # 0 /\ Len(x) <= 1
    BY DEF RecordOK, Whole
  <2>2. Len(x) = 1
    <3> DEFINE l == Len(x)
    <3>1. l \in Nat /\ l # 0 /\ l <= 1
      BY <2>1
    <3> HIDE DEF l
    <3>2. l = 1
      BY <3>1
    <3> QED
      BY <3>2 DEF l
  <2>3. 1 \in 1..Len(x)
    BY <2>2
  <2>4. /\ a \in Nat /\ n \in Nat /\ Held(r) = Area(a, n) /\ (n = 0 <=> Len(x) = 0)
        /\ \A k \in 1..Len(x) : x[k].start = a /\ x[k].blocks = n
    BY <2>1, OneExtent
  <2> QED
    BY <2>2, <2>3, <2>4
<1>2. x \in Seq(FileExts) /\ DOMAIN x = 1..1 /\ x[1] \in FileExts /\ x[1].len \in Nat /\ x[1].len <= n * BlockSize
  <2>1. x \in Seq(FileExts) /\ x[1].len <= x[1].blocks * BlockSize
    BY <1>1 DEF RecordOK
  <2>2. x[1] \in FileExts /\ DOMAIN x = 1..1
    BY <1>1, <2>1
  <2> QED
    BY <1>1, <2>1, <2>2 DEF FileExts
<1>3. Greatest(n, 0) = n /\ Greatest(n, 1) = n
  <2> HIDE DEF n
  <2> QED
    BY <1>1 DEF Greatest
<1>4. t = IF a = at THEN WithFree(acc, at + n, <<>>)
          ELSE WithRecord(WithFree(acc, at + n, <<>>), i, q, u)
  BY <1>3 DEF MoveToCursor, Moved
<1>5. Area(a, n) \subseteq Numbers(MaxBlocks)
  BY <1>1
<1>6. Len(c) = x[1].len /\ Lies(acc.dev, a, c)
  <2>1. Len(c) = x[1].len
    BY <1>1, <1>2, HoldingLength
  <2> QED
    BY <1>1, <1>2, <2>1, HoldingOne
<1>7. Len(q.extents) = 1 /\ q.extents[1].start = at /\ q.extents[1].len = x[1].len
  <2> DEFINE y == [k \in DOMAIN x |-> [x[k] EXCEPT !.start = at]]
  <2>1. q.extents = y
    BY DEF Moved, RecordOK
  <2>2. y[1] = [x[1] EXCEPT !.start = at] /\ DOMAIN y = 1..1 /\ y \in Seq({y[1]})
    BY <1>2
  <2>3. Len(y) = 1
    BY <2>2
  <2>4. y[1].start = at /\ y[1].len = x[1].len
    BY <1>2, <2>2 DEF FileExts
  <2> QED
    BY <2>1, <2>3, <2>4
<1>8. a * BlockSize \in Nat /\ n * BlockSize \in Nat
  BY <1>1, BlockStoreAssumption DEF BlockStoreAssumption
<1> HIDE DEF u, q, t, n, a
<1>9. CASE a = at
  <2>1. t = WithFree(acc, at + n, <<>>)
    BY <1>4, <1>9
  <2>2. t.next = at + n /\ t.records = acc.records /\ t.dev = acc.dev
    BY <2>1, WithFreeIs
  <2> QED
    BY <1>5, <1>9, <2>2 DEF t, n
<1>10. CASE a # at
  <2> DEFINE f == WithFree(acc, at + n, <<>>)
             R == [f.records EXCEPT ![i] = q]
  <2>1. t = WithFiles(f, R, f.dedup, u)
    BY <1>4, <1>10 DEF WithRecord
  <2>2. f.next = at + n /\ f.records = acc.records
    BY WithFreeIs
  <2>3. R[i] = q
    BY <2>2
  <2> HIDE DEF f, R
  <2>4. t.next = at + n /\ t.records[i] = q /\ t.dev = u
    BY <2>1, <2>2, <2>3, WithFilesIs
  <2>5. /\ DOMAIN u = Device
        /\ Area(at, n) \subseteq Numbers(MaxBlocks)
        /\ \A m \in 1..n * BlockSize : u[at * BlockSize + m - 1] = acc.dev[a * BlockSize + m - 1]
        /\ \A b \in Device : b \notin Region(at, n) => u[b] = acc.dev[b]
    <3>1. at <= a
      BY DEF a
    <3> QED
      BY <1>1, <1>5, <3>1, CopiedIs DEF u
  <2>6. Lies(u, at, c)
    <3> SUFFICES ASSUME NEW m \in 1..Len(c) PROVE u[at * BlockSize + m - 1] = c[m]
      BY DEF Lies
    <3>1. m \in 1..n * BlockSize
      BY <1>2, <1>6, <1>8
    <3> QED
      BY <1>6, <2>5, <3>1 DEF Lies
  <2>7. Holding(u, q.extents, c)
    <3> DEFINE y == q.extents
    <3>1. Len(y) = 1 /\ y[1].start = at /\ y[1].len \in Nat /\ Len(c) = y[1].len
      BY <1>2, <1>6, <1>7
    <3> HIDE DEF y
    <3>2. Holding(u, y, c) <=> Lies(u, at, c)
      BY <3>1, HoldingOne
    <3>3. Holding(u, y, c)
      BY <2>6, <3>1, <3>2
    <3> QED
      BY <3>3 DEF y
  <2> QED
    BY <2>4, <2>5, <2>7 DEF t, n
<1> QED
  BY <1>9, <1>10

\* Every file of s has the content d says.
Carries(s, d) == DOMAIN s.dev = Device /\ \A i \in DOMAIN s.records : Has(s, i, d[i])

\* The compaction loop has laid out the files D of s: every file has the content d
\* says, and the files to come lie behind the cursor.
Packed(s, d, acc, D) ==
    /\ Compacted(s, acc, D)
    /\ DOMAIN acc.dev = Device
    /\ \A i \in DOMAIN s.records : /\ Holding(acc.dev, acc.records[i].extents, d[i])
                                   /\ Held(acc.records[i]) \subseteq Numbers(MaxBlocks)
    /\ \A i \in DOMAIN s.records \ D : acc.next <= FirstPhysicalBlock(s.records[i])

\* A file behind another one starts where that one ends or later.
LEMMA BehindIs ==
  ASSUME NEW s, StoreOK(s), AllWhole(s), NoneEmpty(s), NEW i \in DOMAIN s.records,
         NEW j \in DOMAIN s.records, i # j,
         FirstPhysicalBlock(s.records[i]) <= FirstPhysicalBlock(s.records[j])
  PROVE  LET r == s.records[i]
         IN  FirstPhysicalBlock(r) + TotalBlocks(r) <= FirstPhysicalBlock(s.records[j])
<1> DEFINE a == FirstPhysicalBlock(s.records[i])
           n == TotalBlocks(s.records[i])
           b == FirstPhysicalBlock(s.records[j])
           m == TotalBlocks(s.records[j])
<1>1. \A k \in DOMAIN s.records :
          /\ RecordOK(s.records[k]) /\ Len(s.records[k].extents) <= 1 /\ Len(s.records[k].extents) # 0
  BY DEF StoreOK, FilesOK, AllWhole, Whole, NoneEmpty, RecordOK
<1>2. /\ a \in Nat /\ n \in Nat /\ Held(s.records[i]) = Area(a, n)
      /\ b \in Nat /\ m \in Nat /\ Held(s.records[j]) = Area(b, m) /\ m # 0
  BY <1>1, OneExtent
<1>3. Area(a, n) \cap Area(b, m) = {}
  BY <1>2 DEF StoreOK, FilesOK
<1>4. a <= b
  OBVIOUS
<1> HIDE DEF a, n, b, m
<1>5. b \in Area(b, m)
  BY <1>2 DEF Area
<1>6. b \notin Area(a, n)
  BY <1>3, <1>5
<1>7. a + n <= b
  BY <1>2, <1>4, <1>6 DEF Area
<1> QED
  BY <1>7 DEF a, n, b

\* One turn of the compaction loop keeps every file's content.
LEMMA PackedNext ==
  ASSUME NEW s, StoreOK(s), AllWhole(s), NoneEmpty(s), NEW d, NEW acc, NEW D, Packed(s, d, acc, D),
         NEW i \in DOMAIN s.records, i \notin D,
         \A j \in DOMAIN s.records \ (D \cup {i}) :
             FirstPhysicalBlock(s.records[i]) <= FirstPhysicalBlock(s.records[j])
  PROVE  Packed(s, d, MoveToCursor(s, acc, i, 0), D \cup {i})
<1> DEFINE t == MoveToCursor(s, acc, i, 0)
           r == s.records[i]
           n == TotalBlocks(r)
           at == acc.next
           E == D \cup {i}
<1>1. /\ Compacted(s, acc, D) /\ DOMAIN acc.dev = Device
      /\ DOMAIN acc = Keys /\ at \in Nat /\ DOMAIN acc.records = DOMAIN s.records
      /\ \A j \in DOMAIN s.records \ D : acc.records[j] = s.records[j]
      /\ \A j \in D : Held(acc.records[j]) \subseteq Numbers(at)
      /\ \A j \in DOMAIN s.records : RecordOK(acc.records[j])
  BY DEF Packed, Compacted
<1>2. \A j \in DOMAIN s.records : RecordOK(s.records[j]) /\ Whole(s, j) /\ s.records[j].size # 0
  BY DEF StoreOK, FilesOK, AllWhole, NoneEmpty
<1>3. Compacted(s, t, E)
  <2>1. 0 \in {0, 1}
    OBVIOUS
  <2> QED
    BY <1>1, <1>2, <2>1, LaidDown
<1>4. acc.records[i] = r /\ at <= FirstPhysicalBlock(r) /\ Holding(acc.dev, r.extents, d[i])
      /\ Held(r) \subseteq Numbers(MaxBlocks)
  BY <1>1 DEF Packed
<1>5. /\ DOMAIN t.dev = Device /\ t.next = at + n
      /\ Holding(t.dev, t.records[i].extents, d[i])
      /\ Area(at, n) \subseteq Numbers(MaxBlocks)
      /\ \A b \in Device : b \notin Region(at, n) => t.dev[b] = acc.dev[b]
  BY <1>1, <1>2, <1>4, MoveDelivers
<1>6. /\ Puts(acc.records, t.records, i, t.records[i])
      /\ Held(t.records[i]) = Area(at, n)
  <2>1. Turned(s, acc, i, t)
    <3>1. 0 \in {0, 1}
      OBVIOUS
    <3> QED
      BY <1>1, <1>2, <1>4, <3>1, TurnIs
  <2>2. n \in Nat
    BY <1>2, TotalIs
  <2> HIDE DEF t, n
  <2>3. t.next - at = n
    BY <1>1, <1>5, <2>2
  <2> QED
    BY <1>2, <2>1, <2>3 DEF Turned
<1> HIDE DEF t
<1>7. n \in Nat /\ FirstPhysicalBlock(r) \in Nat /\ Held(r) = Area(FirstPhysicalBlock(r), n)
  BY <1>2, OneExtent DEF Whole
<1>8. \A j \in DOMAIN s.records \ E : at + n <= FirstPhysicalBlock(s.records[j])
  <2> SUFFICES ASSUME NEW j \in DOMAIN s.records \ E PROVE at + n <= FirstPhysicalBlock(s.records[j])
    OBVIOUS
  <2> DEFINE a == FirstPhysicalBlock(r)
             b == FirstPhysicalBlock(s.records[j])
  <2>1. a <= b /\ i # j
    OBVIOUS
  <2>2. a + n <= b
    BY <2>1, BehindIs
  <2>3. b \in Nat
    BY <1>2, OneExtent DEF Whole
  <2>4. a \in Nat /\ n \in Nat /\ at \in Nat /\ at <= a
    BY <1>1, <1>4, <1>7
  <2> HIDE DEF a, b, n, at
  <2> QED
    BY <2>2, <2>3, <2>4 DEF b
<1> HIDE DEF n
<1>9. ASSUME NEW j \in DOMAIN s.records, j # i
      PROVE  /\ t.records[j] = acc.records[j]
             /\ Held(acc.records[j]) \cap Area(at, n) = {}
  <2>1. t.records[j] = acc.records[j]
    BY <1>1, <1>6, <1>9 DEF Puts
  <2>2. CASE j \in D
    <3>1. Numbers(at) \cap Area(at, n) = {}
      BY <1>1 DEF Numbers, Area
    <3> QED
      BY <1>1, <2>1, <2>2, <3>1
  <2>3. CASE j \notin D
    <3> DEFINE b == FirstPhysicalBlock(s.records[j])
               m == TotalBlocks(s.records[j])
    <3>1. b \in Nat /\ m \in Nat /\ Held(s.records[j]) = Area(b, m)
      BY <1>2, OneExtent DEF Whole
    <3>2. at + n <= b
      BY <1>8, <1>9, <2>3
    <3> HIDE DEF b, m
    <3>3. Area(b, m) \cap Area(at, n) = {}
      BY <1>1, <1>7, <3>1, <3>2 DEF Area
    <3> QED
      BY <1>1, <2>1, <2>3, <3>1, <3>3
  <2> QED
    BY <2>2, <2>3
<1>10. ASSUME NEW j \in DOMAIN s.records
       PROVE  Holding(t.dev, t.records[j].extents, d[j]) /\ Held(t.records[j]) \subseteq Numbers(MaxBlocks)
  <2>1. CASE j = i
    BY <1>5, <1>6, <2>1
  <2>2. CASE j # i
    <3> DEFINE q == acc.records[j]
    <3>1. RecordOK(q) /\ Holding(acc.dev, q.extents, d[j]) /\ Held(q) \subseteq Numbers(MaxBlocks)
          /\ t.records[j] = q /\ Held(q) \cap Area(at, n) = {}
      BY <1>1, <1>9, <2>2 DEF Packed
    <3> HIDE DEF q
    <3>2. \A b : Within(q.extents, b) => b \in Device /\ b \notin Region(at, n)
      BY <1>1, <1>7, <3>1, WithinIs
    <3>3. \A b : Within(q.extents, b) => t.dev[b] = acc.dev[b]
      BY <1>5, <3>2
    <3>4. Holding(t.dev, q.extents, d[j])
      BY <3>1, <3>3, RecordRoomy, HoldingSame
    <3> QED
      BY <3>1, <3>4
  <2> QED
    BY <2>1, <2>2
<1>11. Packed(s, d, t, E)
  BY <1>3, <1>5, <1>8, <1>10 DEF Packed
<1> QED
  BY <1>11 DEF t

\* defragment keeps every file's content.
LEMMA DefragmentCarries ==
  ASSUME NEW s, StoreOK(s), AllWhole(s), NoneEmpty(s), NEW d, Carries(s, d)
  PROVE  Carries(Defragment(s), d)
<1> DEFINE known == DOMAIN s.records
           A == {p \in known \X known : InPlaceOrder(s, p[1], p[2])}
           order == LaidOut(s)
           L == Len(order)
           D(m) == {order[k] : k \in 1..m}
<1>1. StrictOrder(known, A) /\ IsFiniteSet(known)
  <2>1. <<>> \in Seq(Inodes)
    OBVIOUS
  <2> QED
    BY <2>1, FileOrders, KnownIs
<1>2. order = Arranged(known, A)
  BY DEF LaidOut
<1> HIDE DEF order
<1>3. /\ L \in Nat
      /\ \A k \in 1..L : order[k] \in known
      /\ \A x \in known : \E k \in 1..L : order[k] = x
      /\ \A j, k \in 1..L : j # k => order[j] # order[k]
  <2> HIDE DEF A, known
  <2>1. OrderOf(known, order)
    BY <1>1, <1>2, ArrangedOrder
  <2> QED
    BY <2>1 DEF OrderOf
<1>4. \A j, k \in 1..L : j < k => FirstPhysicalBlock(s.records[order[j]]) <= FirstPhysicalBlock(s.records[order[k]])
  <2> SUFFICES ASSUME NEW j \in 1..L, NEW k \in 1..L, j < k
               PROVE  FirstPhysicalBlock(s.records[order[j]]) <= FirstPhysicalBlock(s.records[order[k]])
    OBVIOUS
  <2>1. <<order[j], order[k]>> \in A
    <3> DEFINE n == Cardinality(known)
    <3> HIDE DEF A, known
    <3>1. n \in Nat /\ order \in [1..n -> known]
          /\ \A h, l \in 1..n : h < l => <<order[h], order[l]>> \in A
      BY <1>1, <1>2, ArrangedIs
    <3> HIDE DEF n
    <3>2. L = n
      BY <3>1
    <3> QED
      BY <3>1, <3>2
  <2>2. InPlaceOrder(s, order[j], order[k])
    BY <2>1
  <2>3. \A i \in known : FirstPhysicalBlock(s.records[i]) \in Nat
    BY OneExtent DEF StoreOK, FilesOK, AllWhole, Whole
  <2>4. FirstPhysicalBlock(s.records[order[j]]) \in Nat /\ FirstPhysicalBlock(s.records[order[k]]) \in Nat
    BY <1>3, <2>3
  <2> QED
    BY <2>2, <2>4 DEF InPlaceOrder
<1>5. PICK w : /\ w[0] = WithFree(s, 0, <<>>)
               /\ \A k \in 1..L : w[k] = MoveToCursor(s, w[k - 1], order[k], 0)
               /\ Defragment(s) = w[L]
  BY <1>3, RelocateChain, SMTT(30) DEF Defragment, order
<1> DEFINE Good(m) == Packed(s, d, w[m], D(m))
<1>6. Good(0)
  <2>1. /\ w[0].next = 0 /\ w[0].free = <<>> /\ w[0].records = s.records /\ w[0].policy = s.policy
        /\ DOMAIN w[0] = Keys /\ w[0].dev = s.dev
    BY <1>5, WithFreeIs
  <2>2. D(0) = {}
    OBVIOUS
  <2>3. Numbers(0) = {}
    BY DEF Numbers
  <2>4. \A i \in known : RecordOK(s.records[i])
    BY DEF StoreOK, FilesOK
  <2> HIDE DEF D
  <2>5. Compacted(s, w[0], D(0))
    BY <2>1, <2>2, <2>3, <2>4 DEF Compacted
  <2>6. \A i \in known : 0 <= FirstPhysicalBlock(s.records[i])
    <3>1. \A i \in known : FirstPhysicalBlock(s.records[i]) \in Nat
      BY OneExtent DEF StoreOK, FilesOK, AllWhole, Whole
    <3> QED
      BY <3>1
  <2> QED
    BY <2>1, <2>5, <2>6 DEF Packed, Carries, Has
<1>7. ASSUME NEW m \in 1..L, Good(m - 1) PROVE Good(m)
  <2>1. w[m] = MoveToCursor(s, w[m - 1], order[m], 0)
    BY <1>5
  <2>2. order[m] \in known /\ order[m] \notin D(m - 1)
    BY <1>3
  <2>3. D(m) = D(m - 1) \cup {order[m]}
    BY <1>3
  <2>4. \A j \in known \ D(m) : FirstPhysicalBlock(s.records[order[m]]) <= FirstPhysicalBlock(s.records[j])
    <3> SUFFICES ASSUME NEW j \in known \ D(m)
                 PROVE  FirstPhysicalBlock(s.records[order[m]]) <= FirstPhysicalBlock(s.records[j])
      OBVIOUS
    <3>1. PICK k \in 1..L : order[k] = j
      BY <1>3
    <3>2. k \notin 1..m
      BY <3>1
    <3>3. m < k
      BY <1>3, <3>2
    <3> HIDE DEF D
    <3> QED
      BY <1>4, <3>1, <3>3
  <2>5. Packed(s, d, w[m - 1], D(m - 1))
    BY <1>7
  <2> HIDE DEF D
  <2>6. Packed(s, d, MoveToCursor(s, w[m - 1], order[m], 0), D(m - 1) \cup {order[m]})
    BY <2>2, <2>3, <2>4, <2>5, PackedNext
  <2> QED
    BY <2>1, <2>3, <2>6
<1> HIDE DEF Good
<1>8. Good(L)
  <2> DEFINE T == {m \in Nat : Good(m)}
  <2>1. 0 \in T
    BY <1>6
  <2>2. \A m \in 1..L : m - 1 \in T => m \in T
    BY <1>7
  <2> HIDE DEF T
  <2>3. \A m \in 0..L : m \in T
    BY <1>3, <2>1, <2>2, UpTo
  <2> QED
    BY <1>3, <2>3 DEF T
<1>9. Packed(s, d, w[L], D(L))
  BY <1>8 DEF Good
<1>10. \A i \in known : s.records[i].size = Len(d[i])
  BY DEF Carries, Has
<1>11. Carries(w[L], d)
  BY <1>9, <1>10 DEF Packed, Compacted, Carries, Has
<1> QED
  BY <1>5, <1>11

\* As many blocks as have room for n cells are as many as required, or more.
LEMMA RequiredLeast ==
  ASSUME NEW n \in Nat, NEW m \in Nat, m # 0, n <= m * BlockSize
  PROVE  RequiredBlocks(n) <= m
<1>1. BlockSize \in Nat /\ BlockSize > 0
  BY BlockStoreAssumption DEF BlockStoreAssumption
<1>2. CASE n = 0
  BY <1>2 DEF RequiredBlocks
<1>3. CASE n # 0
  <2> DEFINE g == n + BlockSize - 1
             q == g \div BlockSize
  <2>1. g \in Nat
    BY <1>1
  <2>2. q \in Int /\ q * BlockSize <= g /\ g < (q + 1) * BlockSize
    BY <1>1, <2>1
  <2>3. q \in Nat
    BY <1>1, <2>1
  <2>4. RequiredBlocks(n) = q
    BY <1>3 DEF RequiredBlocks
  <2> HIDE DEF q
  <2>5. ASSUME m + 1 <= q PROVE FALSE
    <3>1. m * BlockSize + 1 * BlockSize <= q * BlockSize /\ m * BlockSize \in Nat
      BY <1>1, <2>3, <2>5, Scaled
    <3> DEFINE a == m * BlockSize
               b == q * BlockSize
               e == 1 * BlockSize
    <3>2. e = BlockSize /\ b \in Nat
      BY <1>1, <2>3
    <3>3. a \in Nat /\ a + e <= b /\ b <= g /\ n <= a
      BY <2>2, <3>1
    <3> HIDE DEF a, b, e
    <3> QED
      BY <1>1, <3>2, <3>3
  <2> QED
    BY <2>3, <2>4, <2>5
<1> QED
  BY <1>2, <1>3

\* A file of one extent has the blocks its size requires.
LEMMA FitsIs ==
  ASSUME NEW r, RecordOK(r), Len(r.extents) <= 1, r.size # 0
  PROVE  TotalBlocks(r) >= RequiredBlocks(r.size) /\ RequiredBlocks(r.size) \in Nat /\ TotalBlocks(r) \in Nat
<1> DEFINE x == r.extents
           n == TotalBlocks(r)
<1>1. Len(x) = 1
  <2> DEFINE l == Len(x)
  <2>1. l \in Nat /\ l # 0 /\ l <= 1
    BY DEF RecordOK
  <2> HIDE DEF l
  <2>2. l = 1
    BY <2>1
  <2> QED
    BY <2>2 DEF l
<1>2. 1 \in 1..Len(x)
  BY <1>1
<1>3. n \in Nat /\ n # 0 /\ x[1].blocks = n
  <2>1. (n = 0 <=> Len(x) = 0) /\ n \in Nat
    BY OneExtent
  <2>2. \A k \in 1..Len(x) : x[k].blocks = n
    BY OneExtent
  <2>3. n # 0
    BY <1>1, <2>1
  <2> HIDE DEF n, x
  <2> QED
    BY <1>2, <2>1, <2>2, <2>3
<1>4. r.size \in Nat /\ r.size <= x[1].len /\ x[1].len <= x[1].blocks * BlockSize /\ x[1].len \in Nat
  BY <1>1, <1>2, RecordRoomy, RoomyIs DEF RecordOK, Counted
<1>5. n * BlockSize \in Nat
  BY <1>3, BlockStoreAssumption DEF BlockStoreAssumption
<1>6. r.size <= n * BlockSize
  <2> DEFINE z == n * BlockSize
             l == x[1].len
             m == r.size
  <2>1. m \in Nat /\ l \in Nat /\ z \in Nat /\ m <= l /\ l <= z
    BY <1>3, <1>4, <1>5
  <2> HIDE DEF z, l, m
  <2>2. m <= z
    BY <2>1
  <2> QED
    BY <2>2 DEF z, m
<1> HIDE DEF n
<1>7. RequiredBlocks(r.size) <= n /\ RequiredBlocks(r.size) \in Nat
  BY <1>3, <1>4, <1>6, RequiredLeast, RequiredIs
<1> QED
  BY <1>3, <1>7 DEF n

\* The blocks of the record put at a place are the blocks given.
LEMMA PutHeld ==
  ASSUME NEW spot, spot.start \in Nat, spot.blocks \in Nat, NEW i, NEW c, NEW d
  PROVE  Held(PutRecord(spot, i, c, d).records[i]) \subseteq Given(spot)
<1> DEFINE x == [start |-> spot.start, blocks |-> spot.blocks, len |-> Len(c)]
           r == [size |-> Len(c), crc |-> c, extents |-> IF c = <<>> THEN <<>> ELSE <<x>>]
           put == PutRecord(spot, i, c, d)
<1>1. put.records = Bind(spot.store.records, i, r)
  BY WithFilesIs DEF PutRecord
<1>2. r.extents = IF c = <<>> THEN <<>> ELSE <<x>>
  OBVIOUS
<1>3. Blocks(x) = Given(spot)
  BY DEF Blocks, Given
<1> HIDE DEF r, put, x
<1>4. Puts(spot.store.records, Bind(spot.store.records, i, r), i, r)
  BY BindIs
<1>5. put.records[i] = r
  BY <1>1, <1>4 DEF Puts
<1>6. Held(r) \subseteq Blocks(x)
  <2>1. CASE c = <<>>
    <3>1. Len(r.extents) = 0
      BY <1>2, <2>1
    <3> QED
      BY <3>1 DEF Held
  <2>2. CASE c # <<>>
    <3>1. Len(r.extents) = 1 /\ r.extents[1] = x
      BY <1>2, <2>2
    <3>2. \A k \in 1..Len(r.extents) : k = 1
      BY <3>1
    <3> QED
      BY <3>1, <3>2 DEF Held
  <2> QED
    BY <2>1, <2>2
<1> QED
  BY <1>3, <1>5, <1>6 DEF put

\* write of a content of the size the file has: the blocks stay where they are.
LEMMA RewriteDelivers ==
  ASSUME NEW s, StoreOK(s), DOMAIN s.dev = Device, NEW i \in DOMAIN s.records, Whole(s, i),
         s.records[i].size # 0, Held(s.records[i]) \subseteq Numbers(MaxBlocks),
         NEW c \in Seq(Cells), Len(c) = s.records[i].size
  PROVE  LET t == Write(s, i, c)
         IN  Delivers(s, t, i, c) /\ Held(t.records[i]) \subseteq Numbers(MaxBlocks)
<1> DEFINE r == s.records[i]
           n == RequiredBlocks(Len(c))
           spot == ReuseBlocks(s, r, n)
           t == Write(s, i, c)
<1>1. RecordOK(r) /\ Len(r.extents) <= 1 /\ DOMAIN s = Keys
  BY DEF StoreOK, FilesOK, Whole
<1>2. n \in Nat /\ TotalBlocks(r) \in Nat /\ TotalBlocks(r) >= n
  BY <1>1, FitsIs
<1>3. t = PutRecord(spot, i, c, DedupInsert(spot.store.dedup, c))
  BY <1>2 DEF Write
<1>4. SpotOK(s, i, spot, n) /\ spot.store.dev = s.dev
  BY <1>1, <1>2, ReusedSpot, FreedDevice
<1>5. Given(spot) \subseteq Numbers(MaxBlocks)
  <2>1. spot.start = FirstPhysicalBlock(r) /\ spot.blocks = n
    BY DEF ReuseBlocks
  <2>2. FirstPhysicalBlock(r) \in Nat /\ Held(r) = Area(FirstPhysicalBlock(r), TotalBlocks(r))
    BY <1>1, OneExtent
  <2>3. Area(FirstPhysicalBlock(r), n) \subseteq Area(FirstPhysicalBlock(r), TotalBlocks(r))
    <3> DEFINE a == FirstPhysicalBlock(r)
               m == TotalBlocks(r)
    <3>1. a \in Nat /\ m \in Nat /\ n <= m
      BY <1>2, <2>2
    <3> HIDE DEF a, m, n
    <3>2. Area(a, n) \subseteq Area(a, m)
      BY <1>2, <3>1 DEF Area
    <3> QED
      BY <3>2 DEF a, m
  <2> QED
    BY <2>1, <2>2, <2>3 DEF Given
<1> HIDE DEF spot, t
<1>6. Delivers(s, t, i, c)
  BY <1>3, <1>4, <1>5, PutDelivers DEF n
<1>7. Held(t.records[i]) \subseteq Given(spot)
  BY <1>3, <1>4, PutHeld DEF SpotOK
<1> QED
  BY <1>5, <1>6, <1>7 DEF t

\* The other files keep what they have.
LEMMA OthersHave ==
  ASSUME NEW s, StoreOK(s), NEW t, NEW i, NEW c, Stores(s, t, i), Delivers(s, t, i, c),
         NEW j \in DOMAIN s.records, j # i, NEW e, Has(s, j, e)
  PROVE  j \in DOMAIN t.records /\ Has(t, j, e)
<1> DEFINE r == s.records[j]
<1>1. j \in DOMAIN t.records /\ t.records[j] = r
  BY DEF Stores, Puts
<1>2. RecordOK(r) /\ r.size = Len(e) /\ Holding(s.dev, r.extents, e) /\ Held(r) \subseteq Numbers(MaxBlocks)
  BY DEF StoreOK, FilesOK, Has
<1>3. \A b : Within(r.extents, b) => b \in Device
  BY <1>2, WithinIs
<1>4. \A b : Within(r.extents, b) => t.dev[b] = s.dev[b]
  BY <1>3 DEF Delivers, Keeping
<1> HIDE DEF r
<1>5. Holding(t.dev, r.extents, e)
  BY <1>2, <1>4, RecordRoomy, HoldingSame
<1> QED
  BY <1>1, <1>2, <1>5 DEF Has

\* Loading so far: the files of s are there, those of D with the content d says.
Refilled(s, d, t, D) ==
    /\ Loaded(s, t)
    /\ DOMAIN t.dev = Device
    /\ \A i \in DOMAIN s.records : Held(t.records[i]) \subseteq Numbers(MaxBlocks)
    /\ \A i \in D : Has(t, i, d[i])

\* The restored records are where loading starts.
LEMMA RefillStart ==
  ASSUME NEW s, StoreOK(s), AllWhole(s), NEW d, Carries(s, d)
  PROVE  Refilled(s, d, FromRecordsWithAllocator(EmptyStore(s.policy), SavedRecords(s), SavedFree(s)), {})
<1> DEFINE R == SavedRecords(s)
           E == EmptyStore(s.policy)
           f == SavedFree(s)
           t == FromRecordsWithAllocator(E, R, f)
<1>1. Loaded(s, t)
  BY LoadStart
<1>2. t.records = R /\ t.dev = E.dev
  <2> HIDE DEF R, E, f
  <2>1. /\ DOMAIN t = Keys /\ t.records = R /\ t.dev = E.dev
        /\ t.dedup = [c \in {R[i].crc : i \in DOMAIN R} |-> Cardinality(Owners(R, DOMAIN R, c))]
    BY RestoredFields
  <2> QED
    BY <2>1
<1>3. DOMAIN E.dev = Device
  BY DEF EmptyStore, Device
<1>4. \A i \in DOMAIN s.records : Held(R[i]) = Held(s.records[i])
  BY SavedAll DEF Restored
<1>5. \A i \in DOMAIN s.records : Held(s.records[i]) \subseteq Numbers(MaxBlocks)
  BY DEF Carries, Has
<1> HIDE DEF R, E, f, t
<1> QED
  BY <1>1, <1>2, <1>3, <1>4, <1>5 DEF Refilled, t, R, E, f

\* The bytes of one file are written back, to the blocks its record has.
LEMMA RefillOne ==
  ASSUME NEW s, StoreOK(s), NEW d, Carries(s, d), \A i \in DOMAIN s.records : d[i] \in Seq(Cells),
         NEW u, NEW D, D \subseteq DOMAIN s.records, Refilled(s, d, u, D),
         NEW i \in DOMAIN s.records, Read(s, i) # <<>>
  PROVE  Refilled(s, d, Write(u, i, Read(s, i)), D \cup {i})
<1> DEFINE c == d[i]
           t == Write(u, i, c)
<1>1. c \in Seq(Cells) /\ Has(s, i, c) /\ Len(c) = s.records[i].size
  BY DEF Carries, Has
<1>2. Read(s, i) = c
  BY <1>1, HasNone
<1>3. /\ StoreOK(u) /\ DOMAIN u.dev = Device /\ i \in DOMAIN u.records /\ Whole(u, i) /\ i \in Inodes
      /\ DOMAIN u.records = DOMAIN s.records /\ u.records[i].size = Len(c)
      /\ Held(u.records[i]) \subseteq Numbers(MaxBlocks)
  BY <1>1 DEF Refilled, Loaded, AllWhole, SameSizes, StoreOK
<1>4. u.records[i].size # 0 /\ IsContent(c)
  <2>1. IsContent(c) /\ c # <<>>
    BY <1>1, <1>2, CellsIs
  <2> HIDE DEF c
  <2> QED
    BY <1>3, <2>1 DEF IsContent
<1>5. Delivers(u, t, i, c) /\ Held(t.records[i]) \subseteq Numbers(MaxBlocks)
  BY <1>1, <1>3, <1>4, RewriteDelivers
<1>6. Stores(u, t, i)
  BY <1>3, <1>4, WriteIs
<1>7. Loaded(s, t)
  BY <1>2, LoadOne DEF Refilled
<1> HIDE DEF c, t
<1>8. /\ DOMAIN t.dev = Device
      /\ i \in DOMAIN t.records /\ t.records[i].size = Len(c) /\ Holding(t.dev, t.records[i].extents, c)
      /\ \A j \in DOMAIN s.records : j # i => t.records[j] = u.records[j]
  BY <1>3, <1>5, <1>6 DEF Delivers, Stores, Puts
<1>9. \A j \in DOMAIN s.records : Held(t.records[j]) \subseteq Numbers(MaxBlocks)
  BY <1>5, <1>8 DEF Refilled
<1>10. ASSUME NEW j \in D, j # i PROVE Has(t, j, d[j])
  <2>1. j \in DOMAIN u.records /\ Has(u, j, d[j])
    BY <1>3, <1>10 DEF Refilled
  <2> QED
    BY <1>3, <1>5, <1>6, <1>10, <2>1, OthersHave
<1>11. Has(t, i, d[i])
  BY <1>5, <1>8 DEF Has, c
<1> QED
  BY <1>2, <1>7, <1>8, <1>9, <1>10, <1>11 DEF Refilled, t

\* The files of s with content, in some order.
Lists(order, s) ==
    /\ Len(order) \in Nat
    /\ \A k \in 1..Len(order) : order[k] \in DOMAIN s.records /\ Read(s, order[k]) # <<>>
    /\ \A i \in DOMAIN s.records : Read(s, i) # <<>> => \E k \in 1..Len(order) : order[k] = i

\* load_image_from_path brings back what every file held, in whatever order the files
\* are written.
LEMMA LoadCarries ==
  ASSUME NEW s, StoreOK(s), AllWhole(s), NoneEmpty(s), NEW d, Carries(s, d),
         \A i \in DOMAIN s.records : d[i] \in Seq(Cells), NEW order, Lists(order, s)
  PROVE  Carries(LoadImage(s, order), d)
<1> DEFINE L == Len(order)
           Done(m) == {order[k] : k \in 1..m}
<1>0. /\ Len(order) \in Nat
      /\ \A k \in 1..Len(order) : order[k] \in DOMAIN s.records /\ Read(s, order[k]) # <<>>
      /\ \A i \in DOMAIN s.records : Read(s, i) # <<>> => \E k \in 1..Len(order) : order[k] = i
  BY DEF Lists
<1>1. PICK w : /\ w[0] = FromRecordsWithAllocator(EmptyStore(s.policy), SavedRecords(s), SavedFree(s))
               /\ \A k \in 1..Len(order) : w[k] = Write(w[k - 1], order[k], Read(s, order[k]))
               /\ LoadImage(s, order) = w[Len(order)]
  BY <1>0, LoadChain
<1>2. Refilled(s, d, w[0], {})
  BY <1>1, RefillStart
<1> DEFINE Good(m) == Refilled(s, d, w[m], Done(m))
           T == {m \in 0..L : Good(m)}
<1>3. 0 \in T
  <2>1. Done(0) = {}
    OBVIOUS
  <2> HIDE DEF Done
  <2>2. Good(0)
    BY <1>2, <2>1
  <2> HIDE DEF Good
  <2> QED
    BY <2>2
<1>4. ASSUME NEW m \in 1..L, m - 1 \in T PROVE m \in T
  <2>1. Refilled(s, d, w[m - 1], Done(m - 1))
    <3> HIDE DEF Good
    <3>1. Good(m - 1)
      BY <1>4
    <3> QED
      BY <3>1 DEF Good
  <2>2. order[m] \in DOMAIN s.records /\ Read(s, order[m]) # <<>>
    BY <1>0, <1>4
  <2>3. Done(m - 1) \subseteq DOMAIN s.records
    <3>1. \A k \in 1..m - 1 : k \in 1..L
      BY <1>4
    <3>2. \A k \in 1..L : order[k] \in DOMAIN s.records
      BY <1>0
    <3> HIDE DEF L, T
    <3> QED
      BY <3>1, <3>2
  <2>4. Refilled(s, d, Write(w[m - 1], order[m], Read(s, order[m])), Done(m - 1) \cup {order[m]})
    BY <2>1, <2>2, <2>3, RefillOne
  <2>5. Done(m) = Done(m - 1) \cup {order[m]}
    <3>1. \A k : k \in 1..m <=> (k \in 1..m - 1 \/ k = m)
      BY <1>4
    <3> QED
      BY <3>1
  <2>6. w[m] = Write(w[m - 1], order[m], Read(s, order[m]))
    BY <1>1, <1>4
  <2> HIDE DEF Done
  <2>7. Good(m)
    BY <2>4, <2>5, <2>6
  <2> HIDE DEF Good
  <2> QED
    BY <1>4, <2>7
<1> HIDE DEF T
<1>5. \A m \in 0..L : m \in T
  BY <1>0, <1>3, <1>4, UpTo
<1>6. Refilled(s, d, w[L], Done(L))
  <2> HIDE DEF Good
  <2>1. Good(L)
    BY <1>0, <1>5 DEF T
  <2> QED
    BY <2>1 DEF Good
<1>7. \A i \in DOMAIN s.records : i \in Done(L)
  <2> SUFFICES ASSUME NEW i \in DOMAIN s.records PROVE i \in Done(L)
    OBVIOUS
  <2>1. d[i] \in Seq(Cells) /\ Has(s, i, d[i]) /\ s.records[i].size = Len(d[i]) /\ s.records[i].size # 0
    BY DEF Carries, Has, NoneEmpty
  <2>2. Read(s, i) = d[i] /\ d[i] # <<>>
    BY <2>1, HasNone
  <2> QED
    BY <1>0, <2>2
<1> HIDE DEF Done, L
<1>8. DOMAIN w[L].records = DOMAIN s.records
  BY <1>6 DEF Refilled, Loaded, SameSizes
<1> QED
  BY <1>1, <1>6, <1>7, <1>8 DEF Carries, Refilled, L

\* With the files of s and its device a store carries what s does.
LEMMA SameCarries ==
  ASSUME NEW s, NEW d, Carries(s, d), NEW t, t.dev = s.dev, NEW e,
         DOMAIN t.records \subseteq DOMAIN s.records,
         \A i \in DOMAIN t.records : t.records[i] = s.records[i] /\ e[i] = d[i]
  PROVE  Carries(t, e)
<1>1. ASSUME NEW i \in DOMAIN t.records PROVE Has(t, i, e[i])
  <2>1. i \in DOMAIN s.records /\ t.records[i] = s.records[i] /\ e[i] = d[i] /\ Has(s, i, d[i])
    BY DEF Carries
  <2> QED
    BY <2>1 DEF Has
<1> QED
  BY <1>1 DEF Carries

\* A file stored leaves the others what they have.
LEMMA PutCarries ==
  ASSUME NEW s, StoreOK(s), NEW d, DOMAIN d = DOMAIN s.records, Carries(s, d), NEW i, NEW c,
         NEW t, Stores(s, t, i), Delivers(s, t, i, c), t.next <= MaxBlocks
  PROVE  Carries(t, Bind(d, i, c))
<1> DEFINE e == Bind(d, i, c)
<1>1. /\ StoreOK(t) /\ DOMAIN t.dev = Device /\ DOMAIN t.records = DOMAIN s.records \cup {i}
      /\ t.records[i].size = Len(c) /\ Holding(t.dev, t.records[i].extents, c)
  BY DEF Stores, Puts, Delivers
<1>2. e[i] = c /\ \A j \in DOMAIN s.records : j # i => e[j] = d[j]
  BY DEF Bind
<1>3. Held(t.records[i]) \subseteq Numbers(MaxBlocks)
  <2>1. Held(t.records[i]) \subseteq Used(t) /\ t.next \in Nat
    BY <1>1 DEF StoreOK, FilesOK, SpaceOK
  <2>2. Used(t) \subseteq Numbers(t.next)
    BY DEF Used
  <2>3. Numbers(t.next) \subseteq Numbers(MaxBlocks)
    BY <2>1, NumbersMore, BlockStoreAssumption DEF BlockStoreAssumption
  <2> QED
    BY <2>1, <2>2, <2>3
<1> HIDE DEF e
<1>4. ASSUME NEW j \in DOMAIN s.records, j # i PROVE Has(t, j, e[j])
  <2>1. Has(s, j, d[j])
    BY DEF Carries
  <2> QED
    BY <1>2, <1>4, <2>1, OthersHave
<1>5. Has(t, i, e[i])
  BY <1>1, <1>2, <1>3 DEF Has
<1> QED
  BY <1>1, <1>4, <1>5 DEF Carries, e

\* Without a hot inode optimize_with_priorities defragments or does nothing.
LEMMA OptimizeCarries ==
  ASSUME NEW s, StoreOK(s), AllWhole(s), NoneEmpty(s), NEW d, Carries(s, d)
  PROVE  Carries(OptimizeWithPriorities(s, <<>>), d)
<1>1. OptimizeWithPriorities(s, <<>>) \in {s, Defragment(s)}
  BY DEF OptimizeWithPriorities
<1> QED
  BY <1>1, DefragmentCarries

\* Counting references, handing over the pending TRIMs and changing the policy touch
\* neither the files nor the device.
LEMMA QuietKeeps ==
  ASSUME NEW s, StoreOK(s), NEW t,
         t \in {DedupPass(s), [s EXCEPT !.trims = {}]} \cup {SetAllocatorPolicy(s, p) : p \in Policies}
  PROVE  t.records = s.records /\ t.dev = s.dev
<1>1. DOMAIN s = Keys
  BY DEF StoreOK
<1>2. CASE t \in {DedupPass(s), [s EXCEPT !.trims = {}]}
  BY <1>1, <1>2 DEF DedupPass, Keys
<1>3. ASSUME NEW p \in Policies, t = SetAllocatorPolicy(s, p) PROVE t.records = s.records /\ t.dev = s.dev
  <2> DEFINE u == [s EXCEPT !.policy = p]
  <2>1. DOMAIN u = Keys /\ u.records = s.records /\ u.dev = s.dev
    BY <1>1 DEF Keys
  <2> HIDE DEF u
  <2>2. SameButSpace(u, NormalizeFreeExtents(u))
    BY <2>1, SpaceKeeps
  <2> QED
    BY <1>3, <2>1, <2>2 DEF SetAllocatorPolicy, SameButSpace, u
<1> QED
  BY <1>2, <1>3

\* Removing a file, and taking blocks, leave the other files and the device.
LEMMA GoneKeeps ==
  ASSUME NEW s, StoreOK(s)
  PROVE  /\ \A i \in DOMAIN s.records : RemoveInode(s, i).dev = s.dev
         /\ \A n : AllocateExtent(s, n).store.dev = s.dev
<1>1. DOMAIN s = Keys
  BY DEF StoreOK
<1>2. ASSUME NEW i \in DOMAIN s.records PROVE RemoveInode(s, i).dev = s.dev
  <2> DEFINE u == [s EXCEPT !.records = [j \in DOMAIN s.records \ {i} |-> s.records[j]]]
             r == s.records[i]
  <2>1. DOMAIN u = Keys /\ u.dev = s.dev
    BY <1>1 DEF Keys
  <2>2. RemoveInode(s, i) = Release(u, r)
    BY DEF RemoveInode
  <2> HIDE DEF u
  <2>3. \A e, d : FreeBlocks([u EXCEPT !.dedup = d], e).dev = u.dev
    BY <2>1, FreeKeeps
  <2>4. \E e, d : Release(u, r) = FreeBlocks([u EXCEPT !.dedup = d], e)
    BY DEF Release
  <2> QED
    BY <2>1, <2>2, <2>3, <2>4
<1>3. \A n : SameButSpace(s, AllocateExtent(s, n).store)
  BY <1>1, SpaceKeeps
<1> QED
  BY <1>2, <1>3 DEF SameButSpace

\* Slack written for an append that is refused is in no file's content.
LEMMA RefusedCarries ==
  ASSUME NEW s, StoreOK(s), NEW d, Carries(s, d), NEW i \in DOMAIN s.records, d[i] \in Seq(Cells),
         NEW c \in Seq(Cells), NEW n \in Nat, n <= Len(c), HasSlack(s, i, n)
  PROVE  Carries(Refused(s, i, n, c), d)
<1> DEFINE x == s.records[i].extents
           k == Len(x)
           e == x[k]
           f == FillSlack(s, i, k, n, e.start * BlockSize + e.len, c)
           t == Refused(s, i, n, c)
<1>1. t.records = s.records /\ t.dev = f.dev
  BY WithFilesIs DEF Refused
<1>2. Filled(s, f, i, d[i] \o SubSeq(c, 1, n)) /\ Holding(f.dev, x, d[i])
  BY FillHolds DEF Carries, HasSlack
<1> HIDE DEF f, t
<1>3. ASSUME NEW j \in DOMAIN s.records PROVE Has(t, j, d[j])
  <2>1. Has(s, j, d[j])
    BY DEF Carries
  <2>2. RecordOK(s.records[j])
    BY DEF StoreOK, FilesOK
  <2>3. Holding(t.dev, s.records[j].extents, d[j])
    <3>1. CASE j = i
      BY <1>1, <1>2, <3>1
    <3>2. CASE j # i
      <4>1. \A b : Within(s.records[j].extents, b) => b \in Device
        BY <2>1, <2>2, WithinIs DEF Has
      <4>2. \A b : Within(s.records[j].extents, b) => t.dev[b] = s.dev[b]
        BY <1>1, <1>2, <3>2, <4>1 DEF Filled, Keeping
      <4> QED
        BY <2>1, <2>2, <4>2, RecordRoomy, HoldingSame DEF Has
    <3> QED
      BY <3>1, <3>2
  <2> QED
    BY <1>1, <2>1, <2>3 DEF Has
<1>4. Carries(t, d)
  BY <1>1, <1>2, <1>3 DEF Carries, Filled
<1> QED
  BY <1>4 DEF t

-----------------------------------------------------------------------------
(* What the files read back *)

\* Every action preserves that the files carry what was promised, when the callers do
\* not give up or move the blocks of a file with several extents, do not compact or
\* reload a store with an empty file, and name no hot inode.
LEMMA StepCarries ==
  ASSUME "appended" \in Avoid, "empty" \in Avoid, "hot" \in Avoid,
         IInv, Carries(store, told), [Next]_vars
  PROVE  Carries(store, told)'
<1>1. /\ StoreOK(store) /\ DOMAIN told = DOMAIN store.records /\ DOMAIN store.dev = Device
      /\ \A i \in DOMAIN told : told[i] \in Seq(Cells) /\ (told[i] = <<>> <=> store.records[i].size = 0)
  BY DEF IInv, Sane, Carries
<1>2. ASSUME NEW i PROVE Told(i) \in Seq(Cells) /\ Has(store, i, Told(i))
  <2>1. CASE i \in DOMAIN store.records
    <3>1. Told(i) = told[i]
      BY <1>1, <2>1 DEF Told
    <3> QED
      BY <1>1, <2>1, <3>1 DEF Carries
  <2>2. CASE i \notin DOMAIN store.records
    <3>1. Told(i) = <<>> /\ <<>> \in Seq(Cells)
      BY <1>1, <2>2 DEF Told
    <3> QED
      BY <2>2, <3>1 DEF Has
  <2> QED
    BY <2>1, <2>2
<1>3. \A i : Size(i) = SizeOf(store, i) /\ (Spares(i) => Whole(store, i))
  BY DEF Size, SizeOf, Known, Spares, Whole
<1>4. ASSUME SparesAll PROVE AllWhole(store) /\ NoneEmpty(store)
  <2>1. AllWhole(store)
    BY <1>3, <1>4 DEF SparesAll, AllWhole, Known
  <2>2. ASSUME NEW i \in DOMAIN store.records PROVE store.records[i].size # 0
    <3>1. store.records[i].extents # <<>>
      BY <1>4 DEF SparesAll, Known
    <3>2. RecordOK(store.records[i])
      BY <1>1 DEF StoreOK, FilesOK
    <3> QED
      BY <3>1, <3>2 DEF RecordOK
  <2> QED
    BY <2>1, <2>2 DEF NoneEmpty
<1>5. \A c \in Data : c \in Seq(Cells) /\ c # <<>> /\ IsContent(c) /\ Len(c) \in Nat /\ Len(c) # 0
  BY CellsIs DEF IsContent
<1>6. ASSUME NEW i, NEW c, NEW t, Stores(store, t, i), Delivers(store, t, i, c), t.next <= MaxBlocks,
             store' = t, told' = Bind(told, i, c)
      PROVE  Carries(store, told)'
  <2>1. Carries(t, Bind(told, i, c))
    BY <1>1, <1>6, PutCarries
  <2> QED
    BY <1>6, <2>1
<1>7. ASSUME NEW t, t.dev = store.dev, DOMAIN t.records \subseteq DOMAIN store.records, store' = t, NEW e,
             \A j \in DOMAIN t.records : t.records[j] = store.records[j] /\ e[j] = told[j], told' = e
      PROVE  Carries(store, told)'
  <2>1. Carries(t, e)
    BY <1>7, SameCarries
  <2> QED
    BY <1>7, <2>1
<1>10. ASSUME NEW i \in Inodes, NEW c \in Seq(Cells), IsContent(c), Spares(i), Holds(Write(store, i, c), i, c)
       PROVE  Carries(store, told)'
  <2> DEFINE t == Write(store, i, c)
  <2>1. t.next <= MaxBlocks /\ store' = t /\ told' = Bind(told, i, c) /\ Whole(store, i)
    BY <1>3, <1>10 DEF Holds
  <2>2. Stores(store, t, i)
    BY <1>1, <1>10, <2>1, WriteIs
  <2>3. Delivers(store, t, i, c)
    BY <1>1, <1>10, <2>1, WriteDelivers
  <2> HIDE DEF t
  <2> QED
    BY <1>6, <2>1, <2>2, <2>3
<1>11. ASSUME NEW i \in Inodes, NEW c \in Data, DoWrite(i, c) PROVE Carries(store, told)'
  BY <1>5, <1>10, <1>11 DEF DoWrite
<1>12. ASSUME NEW i \in Inodes, DoWriteEmpty(i) PROVE Carries(store, told)'
  <2>1. <<>> \in Seq(Cells) /\ IsContent(<<>>)
    BY DEF IsContent
  <2> QED
    BY <1>10, <1>12, <2>1 DEF DoWriteEmpty
<1>13. ASSUME NEW i \in Inodes, NEW c \in Data, DoAppend(i, c) PROVE Carries(store, told)'
  <2> DEFINE t == AppendToInode(store, i, c)
             e == Told(i) \o c
  <2>1. t.next <= MaxBlocks /\ store' = t /\ told' = Bind(told, i, e)
    BY <1>13 DEF DoAppend, Holds
  <2>2. Stores(store, t, i)
    BY <1>1, <1>5, AppendIs DEF Sound
  <2>3. Delivers(store, t, i, e)
    BY <1>1, <1>2, <1>5, <2>1, AppendDelivers
  <2> HIDE DEF t, e
  <2> QED
    BY <1>6, <2>1, <2>2, <2>3
<1>14. ASSUME NEW i \in Inodes, NEW c \in Data, DoWriteDevice(i, c) PROVE Carries(store, told)'
  <2> DEFINE t == WriteDevice(store, i, c)
  <2>1. t.next <= MaxBlocks /\ store' = t /\ told' = Bind(told, i, c) /\ Whole(store, i)
    BY <1>3, <1>14 DEF DoWriteDevice, Holds
  <2>2. Stores(store, t, i)
    BY <1>1, <1>5, <2>1, WriteDeviceIs
  <2>3. Delivers(store, t, i, c)
    BY <1>1, <1>5, <2>1, WriteDeviceDelivers
  <2> HIDE DEF t
  <2> QED
    BY <1>6, <2>1, <2>2, <2>3
<1>15. ASSUME NEW i \in Inodes, NEW c \in Data, DoWriteDeviceFails(i, c) PROVE Carries(store, told)'
  <2> DEFINE freed == IF i \in Known THEN RemoveInode(store, i) ELSE store
             n == RequiredBlocks(Len(c))
             t == AllocateExtent(freed, n).store
             e == [j \in DOMAIN told \ {i} |-> told[j]]
  <2>1. store' = t /\ Whole(store, i) /\ told' = e
    BY <1>3, <1>15 DEF DoWriteDeviceFails
  <2>2. /\ StoreOK(freed) /\ DOMAIN freed.records = DOMAIN store.records \ {i} /\ freed.dev = store.dev
        /\ \A j \in DOMAIN freed.records : freed.records[j] = store.records[j]
    <3>1. CASE i \in Known
      <4>1. freed = RemoveInode(store, i) /\ i \in DOMAIN store.records
        BY <3>1 DEF Known
      <4> HIDE DEF freed
      <4> QED
        BY <1>1, <2>1, <4>1, RemoveInodeIs, GoneKeeps
    <3>2. CASE i \notin Known
      <4>1. freed = store /\ i \notin DOMAIN store.records
        BY <3>2 DEF Known
      <4> HIDE DEF freed
      <4> QED
        BY <1>1, <4>1
    <3> QED
      BY <3>1, <3>2
  <2> HIDE DEF freed
  <2>3. n \in Nat /\ n # 0
    BY <1>5, RequiredIs
  <2> HIDE DEF n
  <2>4. t.records = freed.records /\ t.dev = freed.dev
    BY <2>2, <2>3, TakenIs, GoneKeeps
  <2> HIDE DEF t
  <2>5. \A j \in DOMAIN t.records : e[j] = told[j]
    BY <1>1, <2>2, <2>4
  <2> HIDE DEF e
  <2> QED
    BY <1>7, <2>1, <2>2, <2>4, <2>5
<1>9. ASSUME NEW i \in Inodes, NEW c \in Data, DoAppendDeviceFails(i, c) PROVE Carries(store, told)'
  <2>1. i \in DOMAIN store.records /\ told' = told
    BY <1>1, <1>5, <1>9, RefusedAppend
  <2>2. PICK n \in Nat : /\ n <= Len(c) /\ HasSlack(store, i, n)
                        /\ \/ store' = Refused(store, i, n, c)
                           \/ \E m \in Nat \ {0} : store' = AllocateExtent(Refused(store, i, n, c), m).store
    BY <1>1, <1>5, <1>9, RefusedAppend
  <2> DEFINE t == Refused(store, i, n, c)
  <2>3. Carries(t, told)
    BY <1>1, <1>5, <2>1, <2>2, RefusedCarries
  <2>4. StoreOK(t)
    BY <1>1, RefusedIs
  <2> HIDE DEF t
  <2>5. ASSUME NEW m \in Nat \ {0}, store' = AllocateExtent(t, m).store PROVE Carries(store', told)
    <3>1. store'.records = t.records /\ store'.dev = t.dev
      BY <2>4, <2>5, TakenIs, GoneKeeps
    <3> QED
      BY <2>3, <3>1, SameCarries
  <2>6. Carries(store', told)
    BY <2>2, <2>3, <2>5 DEF t
  <2> QED
    BY <2>1, <2>6
<1>16. ASSUME NEW i \in Inodes, NEW c \in Data, NEW off \in 0..MaxSize, DoWriteRange(i, off, c)
       PROVE  Carries(store, told)'
  <2> DEFINE t == WriteRange(store, i, off, c)
             e == Overlay(Told(i), off, c)
  <2>1. t.next <= MaxBlocks /\ store' = t /\ told' = Bind(told, i, e)
    BY <1>16 DEF DoWriteRange, Holds
  <2>2. \/ off = SizeOf(store, i)
        \/ off + Len(c) <= SizeOf(store, i) /\ ~(off = 0 /\ Len(c) >= SizeOf(store, i))
        \/ Whole(store, i)
    BY <1>3, <1>16 DEF DoWriteRange, WithinFile
  <2>3. off \in Nat
    OBVIOUS
  <2>4. Stores(store, t, i)
    BY <1>1, <1>5, <2>2, <2>3, WriteRangeIs DEF Sound
  <2>5. Delivers(store, t, i, e)
    BY <1>1, <1>2, <1>5, <2>1, <2>2, <2>3, WriteRangeDelivers
  <2> HIDE DEF t, e
  <2> QED
    BY <1>6, <2>1, <2>4, <2>5
<1>17. ASSUME NEW i \in Inodes, NEW c \in Data, NEW off \in 0..MaxSize, DoWriteAt(i, off, c)
       PROVE  Carries(store, told)'
  <2> DEFINE t == WriteAt(store, i, off, c)
             e == Overlay(Told(i), off, c)
  <2>1. /\ t.next <= MaxBlocks /\ store' = t /\ told' = Bind(told, i, e)
        /\ off = SizeOf(store, i) \/ Whole(store, i)
    BY <1>3, <1>17 DEF DoWriteAt, Holds
  <2>2. off \in Nat
    OBVIOUS
  <2>3. Stores(store, t, i)
    BY <1>1, <1>5, <2>1, <2>2, WriteAtIs DEF Sound
  <2>4. Delivers(store, t, i, e)
    BY <1>1, <1>2, <1>5, <2>1, <2>2, WriteAtDelivers
  <2> HIDE DEF t, e
  <2> QED
    BY <1>6, <2>1, <2>3, <2>4
<1>18. ASSUME NEW i \in Inodes, DoRemove(i) PROVE Carries(store, told)'
  <2> DEFINE t == RemoveInode(store, i)
             e == [j \in DOMAIN told \ {i} |-> told[j]]
  <2>1. store' = t /\ Whole(store, i) /\ i \in DOMAIN store.records /\ told' = e
    BY <1>3, <1>18 DEF DoRemove, Known
  <2>2. /\ DOMAIN t.records = DOMAIN store.records \ {i} /\ t.dev = store.dev
        /\ \A j \in DOMAIN t.records : t.records[j] = store.records[j]
    BY <1>1, <2>1, RemoveInodeIs, GoneKeeps
  <2> HIDE DEF t
  <2>3. \A j \in DOMAIN t.records : e[j] = told[j]
    BY <1>1, <2>2
  <2> HIDE DEF e
  <2> QED
    BY <1>7, <2>1, <2>2, <2>3
<1>19. ASSUME NEW i \in Inodes, NEW n \in 0..MaxSize, DoResize(i, n) PROVE Carries(store, told)'
  <2> DEFINE t == ResizeInode(store, i, n)
             e == Resized(Told(i), n)
  <2>1. /\ t.next <= MaxBlocks /\ store' = t /\ told' = Bind(told, i, e)
        /\ i \in DOMAIN store.records /\ (n < SizeOf(store, i) => Whole(store, i))
    BY <1>3, <1>19 DEF DoResize, Holds, Known
  <2>2. n \in Nat
    OBVIOUS
  <2>3. e \in Seq(Cells) /\ Len(e) = n
    BY <1>2, <2>2, EditedCells
  <2>4. Stores(store, t, i)
    BY <1>1, <2>1, <2>2, ResizeIs DEF Settles
  <2>5. Delivers(store, t, i, e)
    BY <1>1, <1>2, <2>1, <2>2, ResizeDelivers
  <2> HIDE DEF t, e
  <2> QED
    BY <1>6, <2>1, <2>4, <2>5
<1>20. ASSUME NEW i \in Inodes, NEW n \in 0..MaxSize, DoTruncate(i, n) PROVE Carries(store, told)'
  <2> DEFINE t == Truncate(store, i, n)
             e == Resized(Told(i), n)
  <2>1. t.next <= MaxBlocks /\ store' = t /\ told' = Bind(told, i, e) /\ Whole(store, i)
    BY <1>3, <1>20 DEF DoTruncate, Holds
  <2>2. n \in Nat
    OBVIOUS
  <2>3. Stores(store, t, i)
    BY <1>1, <2>1, <2>2, TruncateIs DEF Settles
  <2>4. Delivers(store, t, i, e)
    BY <1>1, <1>2, <2>1, <2>2, TruncateDelivers
  <2> HIDE DEF t, e
  <2> QED
    BY <1>6, <2>1, <2>3, <2>4
<1>21. ASSUME NEW i \in Inodes, NEW j \in Inodes, DoClone(i, j) PROVE Carries(store, told)'
  <2> DEFINE t == CloneForInode(store, i, j)
             e == Told(i)
  <2>1. /\ t.next <= MaxBlocks /\ store' = t /\ told' = Bind(told, j, e)
        /\ i \in DOMAIN store.records /\ j \notin DOMAIN store.records
    BY <1>21 DEF DoClone, Holds, Known
  <2>2. Stores(store, t, j)
    BY <1>1, <2>1, CloneIs DEF Settles
  <2>3. Delivers(store, t, j, e)
    BY <1>1, <1>2, <2>1, CloneDelivers
  <2> HIDE DEF t, e
  <2> QED
    BY <1>6, <2>1, <2>2, <2>3
<1>22. CASE DoDefragment
  <2>1. store' = Defragment(store) /\ SparesAll /\ told' = told
    BY <1>22 DEF DoDefragment
  <2>2. Carries(Defragment(store), told)
    BY <1>1, <1>4, <2>1, DefragmentCarries
  <2> QED
    BY <2>1, <2>2
<1>23. ASSUME NEW hot \in HotLists, DoOptimize(hot) PROVE Carries(store, told)'
  <2>1. store' = OptimizeWithPriorities(store, <<>>) /\ SparesAll /\ told' = told
    BY <1>23 DEF DoOptimize, Keeps
  <2>2. Carries(OptimizeWithPriorities(store, <<>>), told)
    BY <1>1, <1>4, <2>1, OptimizeCarries
  <2> QED
    BY <2>1, <2>2
<1>24. ASSUME NEW t \in {DedupPass(store), [store EXCEPT !.trims = {}]} \cup {SetAllocatorPolicy(store, p) : p \in Policies},
              Keeps(t)
       PROVE  Carries(store, told)'
  <2>1. t.records = store.records /\ t.dev = store.dev
    BY <1>1, QuietKeeps
  <2>2. store' = t /\ told' = told
    BY <1>24 DEF Keeps
  <2> QED
    BY <1>7, <2>1, <2>2
<1>25. ASSUME DoDedupPass \/ DoDrain \/ \E p \in Policies : DoSetPolicy(p) PROVE Carries(store, told)'
  <2>1. CASE DoDedupPass
    <3>1. Keeps(DedupPass(store))
      BY <2>1 DEF DoDedupPass
    <3> QED
      BY <1>24, <3>1
  <2>2. CASE DoDrain
    <3>1. Keeps([store EXCEPT !.trims = {}])
      BY <2>2 DEF DoDrain
    <3> QED
      BY <1>24, <3>1
  <2>3. ASSUME NEW p \in Policies, DoSetPolicy(p) PROVE Carries(store, told)'
    <3>1. Keeps(SetAllocatorPolicy(store, p))
      BY <2>3 DEF DoSetPolicy
    <3> QED
      BY <1>24, <3>1
  <2> QED
    BY <1>25, <2>1, <2>2, <2>3
<1>26. ASSUME NEW order \in SetToSeqs({i \in Known : Read(store, i) # <<>>}), DoReload(order)
       PROVE  Carries(store, told)'
  <2>1. AllWhole(store) /\ NoneEmpty(store)
    BY <1>4, <1>26 DEF DoReload
  <2>2. ImageAccepted(store)
    BY <1>1, <2>1, AcceptedIs
  <2>3. store' = LoadImage(store, order) /\ told' = told
    BY <1>26, <2>2 DEF DoReload, Keeps
  <2> DEFINE W == {i \in Known : Read(store, i) # <<>>}
             L == Cardinality(W)
  <2>4. IsFiniteSet(W)
    <3>1. IsFiniteSet(DOMAIN store.records)
      BY <1>1, KnownIs
    <3> QED
      BY <3>1, FS_Subset DEF Known
  <2>5. L \in Nat
    BY <2>4, FS_CardinalityType
  <2>6. order \in [1..L -> W] /\ \A w \in W : \E k \in 1..L : order[k] = w
    <3>1. order \in [1..L -> W] /\ \A j, k \in 1..L : j # k => order[j] # order[k]
      BY DEF SetToSeqs
    <3> HIDE DEF W, L
    <3>2. order \in Injection(1..L, W)
      BY <3>1 DEF Injection, IsInjective
    <3>3. IsFiniteSet(1..L) /\ Cardinality(1..L) = L
      BY <2>5, FS_Interval
    <3>4. Cardinality(1..L) = Cardinality(W)
      BY <3>3 DEF L
    <3>5. order \in Surjection(1..L, W)
      BY <2>4, <3>2, <3>4, FS_Injection
    <3> QED
      BY <3>1, <3>5 DEF Surjection
  <2> HIDE DEF W, L
  <2>7. Len(order) = L
    BY <2>5, <2>6
  <2>8. \A k \in 1..Len(order) : order[k] \in DOMAIN store.records /\ Read(store, order[k]) # <<>>
    BY <2>6, <2>7 DEF W, Known
  <2>9. \A i \in DOMAIN store.records : Read(store, i) # <<>> => \E k \in 1..Len(order) : order[k] = i
    BY <2>6, <2>7 DEF W, Known
  <2>10. \A i \in DOMAIN store.records : told[i] \in Seq(Cells)
    BY <1>1
  <2>11. Lists(order, store)
    BY <2>5, <2>7, <2>8, <2>9 DEF Lists
  <2>12. Carries(LoadImage(store, order), told)
    BY <1>1, <2>1, <2>10, <2>11, LoadCarries
  <2> QED
    BY <2>3, <2>12
<1>27. CASE UNCHANGED vars
  BY <1>27 DEF vars
<1>28. CASE Next
  BY <1>9, <1>11, <1>12, <1>13, <1>14, <1>15, <1>16, <1>17, <1>18, <1>19, <1>20, <1>21, <1>22, <1>23,
     <1>25, <1>26, <1>28 DEF Next
<1> QED
  BY <1>27, <1>28

\* Every file reads back what its last writer stored, whatever was written, appended,
\* overwritten, cut, grown, removed, cloned, compacted, saved and loaded since: for
\* callers that do not give up or move a file of several extents, do not compact, save
\* or load a store with an empty file, and name no hot inode (each of which is a place
\* where the code does lose content or blocks).
THEOREM FilesReadBack ==
  ASSUME "appended" \in Avoid, "empty" \in Avoid, "hot" \in Avoid
  PROVE  Spec => []ReadsBack
<1> DEFINE CInv == IInv /\ Carries(store, told)
<1>1. Init => CInv
  <2> SUFFICES ASSUME Init PROVE Carries(store, told)
    BY InitSane
  <2>1. PICK p \in Policies : store = EmptyStore(p)
    BY DEF Init
  <2>2. store.records = <<>> /\ DOMAIN store.dev = Device
    BY <2>1 DEF EmptyStore, Device
  <2> QED
    BY <2>2 DEF Carries
<1>2. CInv /\ [Next]_vars => CInv'
  BY StepSane, StepCarries
<1>3. CInv => ReadsBack
  <2> SUFFICES ASSUME CInv, NEW i \in Known PROVE Read(store, i) = told[i]
    BY DEF ReadsBack
  <2>1. StoreOK(store) /\ i \in DOMAIN store.records /\ told[i] \in Seq(Cells) /\ Has(store, i, told[i])
    BY DEF IInv, Sane, Carries, Known
  <2> QED
    BY <2>1, HasNone
<1> HIDE DEF CInv
<1> QED
  BY <1>1, <1>2, <1>3, PTL DEF Spec
=============================================================================
