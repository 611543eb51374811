----------------------------- MODULE BlockStore -----------------------------
(***************************************************************************)
(* The extent-based block store of corefs-core (storage/block_store.rs):   *)
(* the free-extent allocator with its bump pointer, the per-inode extent   *)
(* records, the deduplication counters, and the content of the device the  *)
(* records point into, with the volume-image round trip that rebuilds a    *)
(* store from its saved records (src/storage/volume_image.rs and           *)
(* CoreFsService::load_image_from_path).                                   *)
(*                                                                         *)
(* The variable `store' is the Rust struct; every method is an operator    *)
(* from a store to the store it leaves behind, and every action applies    *)
(* one method.  A byte is a "cell"; a block holds BlockSize cells.  A CRC  *)
(* is modelled by the content it is taken over (no collisions).            *)
(***************************************************************************)
EXTENDS Integers, Sequences, FiniteSets, SequencesExt

CONSTANTS
    Inodes,      \* inode numbers
    Values,      \* the cells a caller may store
    Zero,        \* the zero byte: padding, and what growing a file adds
    Data,        \* what the callers write: sequences of Values
    BlockSize,   \* cells per block
    MaxSize,     \* bound: cells in a file
    MaxBlocks,   \* bound: blocks of the device the bump pointer may reach
    Policies,    \* allocator policies a run may switch between
    Ops,         \* the methods the callers of a run use
    Avoid,       \* what those callers steer clear of (see Spares)
    TrackTrims   \* whether pending_trims is recorded (nothing else reads it)

ASSUME BlockStoreAssumption ==
    /\ Inodes \subseteq Nat /\ IsFiniteSet(Inodes)
    /\ BlockSize \in Nat \ {0} /\ MaxSize \in Nat /\ MaxBlocks \in Nat
    /\ Zero \notin Values
    /\ \A c \in Data : c \in Seq(Values) /\ c # <<>> /\ Len(c) <= MaxSize
    /\ Avoid \subseteq {"appended", "empty", "hot"}
    /\ \A p \in Policies : /\ p.strategy \in {"BestFit", "FirstFit"}
                           /\ p.split \in Nat /\ p.threshold \in 0..100
                           /\ {p.coalesce, p.trim} \subseteq BOOLEAN

VARIABLES
    store,   \* the BlockStore
    told,    \* history: inode -> the content its last writer was promised
    loads,   \* FALSE once the loader has rejected an image the store saved
    spilt    \* history: blocks were taken for an empty file or a failed write

vars == <<store, told, loads, spilt>>

Cells    == Values \cup {Zero}
Least(a, b)   == IF a <= b THEN a ELSE b
Greatest(a, b) == IF a >= b THEN a ELSE b

\* The function f with x bound to y.
Bind(f, x, y) == [z \in DOMAIN f \cup {x} |-> IF z = x THEN y ELSE f[z]]

\* The elements of S in the order of a strict total order, a set of pairs.
Arranged(S, order) ==
    [k \in 1..Cardinality(S) |->
        CHOOSE x \in S : Cardinality({y \in S : <<y, x>> \in order}) = k - 1]

\* A store with other free space, and one with other files.
WithFree(s, next, free) ==
    [next |-> next, free |-> free, records |-> s.records, dedup |-> s.dedup,
     trims |-> s.trims, dev |-> s.dev, policy |-> s.policy]
WithFiles(s, records, dedup, dev) ==
    [next |-> s.next, free |-> s.free, records |-> records, dedup |-> dedup,
     trims |-> s.trims, dev |-> dev, policy |-> s.policy]

-----------------------------------------------------------------------------
(* Extents and records.                                                    *)

End(e)   == e.start + e.len
Span(e)  == e.start .. End(e) - 1
Extent(start, len) == [start |-> start, len |-> len]

\* Blocks a file of n cells needs; an empty file still needs one.
RequiredBlocks(n) == IF n = 0 THEN 1 ELSE (n + BlockSize - 1) \div BlockSize

TotalBlocks(r) ==
    LET total[k \in 0..Len(r.extents)] ==
            IF k = 0 THEN 0 ELSE total[k - 1] + r.extents[k].blocks
    IN  total[Len(r.extents)]

FirstPhysicalBlock(r) == IF r.extents = <<>> THEN 0 ELSE r.extents[1].start

\* The cells of an extent that belong to the file.
Stored(e) == Least(e.len, e.blocks * BlockSize)

\* The device cells of a record's content, in logical order.
CellsOf(r) ==
    LET before[k \in DOMAIN r.extents] ==
            IF k = 1 THEN 0 ELSE before[k - 1] + Stored(r.extents[k - 1])
        at(j) == CHOOSE k \in DOMAIN r.extents : j - before[k] \in 1..Stored(r.extents[k])
    IN  [j \in 1..r.size |-> r.extents[at(j)].start * BlockSize + j - before[at(j)] - 1]

\* read, read_range over the whole file, read_all
Read(s, i) ==
    LET r  == s.records[i]
        at == CellsOf(r)
    IN  IF r.extents = <<>> \/ r.size = 0 THEN <<>>
        ELSE [k \in 1..r.size |-> s.dev[at[k]]]

\* The device with `bytes' stored from block `at' on, zero-padded to n blocks.
WriteAtBlock(dev, at, n, bytes) ==
    [c \in DOMAIN dev |->
        LET k == c - at * BlockSize + 1
        IN  IF k \notin 1..n * BlockSize THEN dev[c]
            ELSE IF k <= Len(bytes) THEN bytes[k] ELSE Zero]

-----------------------------------------------------------------------------
(* The deduplication table: content -> reference count.                    *)

DedupInsert(d, c) == Bind(d, c, IF c \in DOMAIN d THEN d[c] + 1 ELSE 1)

DedupRelease(d, c) ==
    IF c \notin DOMAIN d THEN d
    ELSE IF d[c] > 1 THEN [d EXCEPT ![c] = @ - 1]
    ELSE [x \in DOMAIN d \ {c} |-> d[x]]

\* dedup_pass: counters of surviving entries are recomputed, dead ones dropped.
DedupPass(s) ==
    LET refs(c) == Cardinality({i \in DOMAIN s.records : s.records[i].crc = c})
    IN  [s EXCEPT !.dedup = [c \in {x \in DOMAIN @ : refs(x) > 0} |-> refs(c)]]

-----------------------------------------------------------------------------
(* The allocator: a list of free extents below the bump pointer `next'.    *)

\* The free extents from which on the list reaches the bump pointer without a gap.
ReachingNext(s) ==
    {k \in DOMAIN s.free : \A j \in k..Len(s.free) :
        End(s.free[j]) = IF j = Len(s.free) THEN s.next ELSE s.free[j + 1].start}

\* trim_free_tail: while the last free extent ends at the bump pointer, it is
\* given back.
TrimFreeTail(s) ==
    IF s.policy.trim /\ ReachingNext(s) # {}
    THEN WithFree(s, s.free[Min(ReachingNext(s))].start, SubSeq(s.free, 1, Min(ReachingNext(s)) - 1))
    ELSE s

\* One step of the merge loop: the last merged extent absorbs one it reaches.
MergeInto(merged, e) ==
    IF merged # <<>> /\ End(Last(merged)) >= e.start
    THEN Append(Front(merged), Extent(Last(merged).start, End(e) - Last(merged).start))
    ELSE Append(merged, e)

Merge(sorted) ==
    LET merged[k \in 0..Len(sorted)] ==
            IF k = 0 THEN <<>> ELSE MergeInto(merged[k - 1], sorted[k])
    IN  merged[Len(sorted)]

\* sort_by_key(device_block), which is stable.
SortedByStart(free) ==
    LET all == 1..Len(free)
        at  == Arranged(all, {p \in all \X all :
                    \/ free[p[1]].start < free[p[2]].start
                    \/ free[p[1]].start = free[p[2]].start /\ p[1] < p[2]})
    IN  [k \in all |-> free[at[k]]]

\* normalize_free_extents, or the plain sort when coalescing is switched off.
NormalizeFreeExtents(s) ==
    LET sorted == SortedByStart(s.free)
    IN  TrimFreeTail(WithFree(s, s.next, IF s.policy.coalesce THEN Merge(sorted) ELSE sorted))

\* Fault: extents are appended to the free list and never merged or trimmed.
InsertFreeExtentRaw(s, e) ==
    IF e.len = 0 THEN s ELSE WithFree(s, s.next, Append(s.free, e))

InsertFreeExtent(s, e) ==
    IF e.len = 0 THEN s ELSE NormalizeFreeExtents(WithFree(s, s.next, Append(s.free, e)))

\* The index of the free extent the policy picks among those that fit.
PickExtent(s, n) ==
    LET fits == {k \in DOMAIN s.free : s.free[k].len >= n}
    IN  CHOOSE k \in fits : \A j \in fits \ {k} :
            \/ s.policy.strategy = "BestFit" /\ s.free[k].len < s.free[j].len
            \/ s.policy.strategy = "BestFit" /\ s.free[k].len = s.free[j].len /\ k < j
            \/ s.policy.strategy = "FirstFit" /\ k < j

\* Fault: the remainder of a split starts where the allocation does.
AllocateExtentNoSplit(s, n) ==
    IF \A k \in DOMAIN s.free : s.free[k].len < n
    THEN [store |-> WithFree(s, s.next + n, s.free), start |-> s.next, blocks |-> n]
    ELSE LET k == PickExtent(s, n)
             e == s.free[k]
             rest == WithFree(s, s.next, RemoveAt(s.free, k))
         IN  [store |-> InsertFreeExtent(rest, Extent(e.start, e.len - n)),
              start |-> e.start, blocks |-> n]

\* allocate_extent: the store without the blocks, and the blocks handed out.
AllocateExtent(s, n) ==
    IF \A k \in DOMAIN s.free : s.free[k].len < n
    THEN [store |-> WithFree(s, s.next + n, s.free), start |-> s.next, blocks |-> n]
    ELSE LET k == PickExtent(s, n)
             e == s.free[k]
             rest == WithFree(s, s.next, RemoveAt(s.free, k))
         IN  IF e.len - n >= Greatest(s.policy.split, 1)
             THEN [store |-> InsertFreeExtent(rest, Extent(e.start + n, e.len - n)),
                   start |-> e.start, blocks |-> n]
             ELSE [store |-> rest, start |-> e.start, blocks |-> e.len]

\* An extent goes to the pending TRIM list and to the free list.
FreeBlocks(s, e) ==
    InsertFreeExtent([s EXCEPT !.trims = IF TrackTrims THEN @ \cup Span(e) ELSE @], e)

\* Fault: the blocks of a record are forgotten instead of freed.
ReleaseForget(s, r) == [s EXCEPT !.dedup = DedupRelease(@, r.crc)]

\* What write, write_device, remove and remove_inode do with a record's blocks:
\* total_blocks() blocks are freed from first_physical_block() on.
Release(s, r) ==
    FreeBlocks([s EXCEPT !.dedup = DedupRelease(@, r.crc)],
               Extent(FirstPhysicalBlock(r), TotalBlocks(r)))

-----------------------------------------------------------------------------
(* The methods that store content.                                         *)

\* The record of `bytes' placed at spot.start, its cells and its dedup entry.
PutRecord(spot, i, bytes, d) ==
    LET r == [size |-> Len(bytes), crc |-> bytes,
              extents |-> IF bytes = <<>> THEN <<>>
                          ELSE <<[start |-> spot.start, blocks |-> spot.blocks,
                                  len |-> Len(bytes)]>>]
    IN  WithFiles(spot.store, Bind(spot.store.records, i, r), d,
                  WriteAtBlock(spot.store.dev, spot.start, spot.blocks, bytes))

\* The reuse branch of write: the record keeps its first n blocks.
ReuseBlocks(s, r, n) ==
    [store |-> FreeBlocks([s EXCEPT !.dedup = DedupRelease(@, r.crc)],
                          Extent(FirstPhysicalBlock(r) + n, TotalBlocks(r) - n)),
     start |-> FirstPhysicalBlock(r), blocks |-> n]

\* write: in place when the old allocation is large enough, else moved.
Write(s, i, bytes) ==
    LET n    == RequiredBlocks(Len(bytes))
        has  == i \in DOMAIN s.records
        spot == IF has /\ TotalBlocks(s.records[i]) >= n
                THEN ReuseBlocks(s, s.records[i], n)
                ELSE AllocateExtent(IF has THEN Release(s, s.records[i]) ELSE s, n)
    IN  PutRecord(spot, i, bytes, DedupInsert(spot.store.dedup, bytes))

\* write_device: the old blocks are always freed first.
WriteDevice(s, i, bytes) ==
    LET freed == IF i \in DOMAIN s.records THEN Release(s, s.records[i]) ELSE s
        spot  == AllocateExtent(freed, RequiredBlocks(Len(bytes)))
        put   == PutRecord(spot, i, bytes, DedupInsert(spot.store.dedup, bytes))
    IN  IF bytes = <<>> THEN [put EXCEPT !.dev = s.dev] ELSE put

\* The store with record i changed to r, and the device to dev.
WithRecord(s, i, r, dev) == WithFiles(s, [s.records EXCEPT ![i] = r], s.dedup, dev)

\* A new extent behind the record's last one, holding `extra'.
AddExtent(s, i, extra) ==
    LET spot == AllocateExtent(s, RequiredBlocks(Len(extra)))
        e    == [start |-> spot.start, blocks |-> spot.blocks, len |-> Len(extra)]
    IN  WithRecord(spot.store, i,
                   [s.records[i] EXCEPT !.extents = Append(s.records[i].extents, e)],
                   WriteAtBlock(spot.store.dev, spot.start, spot.blocks, extra))

\* The record's size and CRC after a fast-path append.
GrownRecord(r, extra) == [size |-> r.size + Len(extra), crc |-> r.crc \o extra, extents |-> r.extents]

\* Fault: the dedup entry of the content before the append is kept.
GrownKeepsEntry(s, i, extra) == WithRecord(s, i, GrownRecord(s.records[i], extra), s.dev)

\* The size, CRC and dedup bookkeeping of a fast-path append.
Grown(s, i, extra) ==
    WithFiles(s, [s.records EXCEPT ![i] = GrownRecord(s.records[i], extra)],
              DedupRelease(s.dedup, s.records[i].crc), s.dev)

HasContent(s, i) ==
    i \in DOMAIN s.records /\ s.records[i].extents # <<>> /\ s.records[i].size > 0

\* append_to_inode
AppendToInode(s, i, extra) ==
    IF extra = <<>> THEN s
    ELSE IF ~HasContent(s, i) THEN Write(s, i, extra)
    ELSE Grown(AddExtent(s, i, extra), i, extra)

\* The store with n cells of `extra' stored from cell `base' on and counted to
\* extent k of the record.
FillSlack(s, i, k, n, base, extra) ==
    LET r == s.records[i]
    IN  WithRecord(s, i, [r EXCEPT !.extents[k].len = r.extents[k].len + n],
                   [c \in DOMAIN s.dev |-> IF c - base \in 0..n - 1 THEN extra[c - base + 1] ELSE s.dev[c]])

\* Fault: the slack is filled from the start of the last extent.
AppendDeviceAtStart(s, i, extra) ==
    LET k    == Len(s.records[i].extents)
        e    == s.records[i].extents[k]
        fill == Least(Len(extra), e.blocks * BlockSize - e.len)
        tail == FillSlack(s, i, k, fill, e.start * BlockSize, extra)
        rest == SubSeq(extra, fill + 1, Len(extra))
    IN  IF extra = <<>> THEN s
        ELSE IF ~HasContent(s, i) THEN WriteDevice(s, i, extra)
        ELSE Grown(IF rest = <<>> THEN tail ELSE AddExtent(tail, i, rest), i, extra)

\* append_device: the slack of the last extent is filled before a new one is made.
AppendDevice(s, i, extra) ==
    LET k    == Len(s.records[i].extents)
        e    == s.records[i].extents[k]
        fill == Least(Len(extra), e.blocks * BlockSize - e.len)
        tail == FillSlack(s, i, k, fill, e.start * BlockSize + e.len, extra)
        rest == SubSeq(extra, fill + 1, Len(extra))
    IN  IF extra = <<>> THEN s
        ELSE IF ~HasContent(s, i) THEN WriteDevice(s, i, extra)
        ELSE Grown(IF rest = <<>> THEN tail ELSE AddExtent(tail, i, rest), i, extra)

\* `bytes' laid over `old' from offset `off' on, the gap filled with zeros.
Overlay(old, off, bytes) ==
    [k \in 1..Greatest(Len(old), off + Len(bytes)) |->
        IF k - off \in DOMAIN bytes THEN bytes[k - off]
        ELSE IF k \in DOMAIN old THEN old[k] ELSE Zero]

\* write_range_fallback: read, overlay, write the whole file unless unchanged.
WriteRangeFallback(s, i, off, data) ==
    LET old == IF i \in DOMAIN s.records THEN Read(s, i) ELSE <<>>
        new == Overlay(old, off, data)
    IN  IF new = old THEN s ELSE Write(s, i, new)

\* The in-place branch of write_range_report: only the touched cells change;
\* the CRC is recomputed from the device.
OverwriteInPlace(s, i, off, data) ==
    LET r    == s.records[i]
        at   == CellsOf(r)
        hits(c) == {k \in DOMAIN data : at[off + k] = c}
        dev2 == [c \in DOMAIN s.dev |-> IF hits(c) = {} THEN s.dev[c]
                                        ELSE data[CHOOSE k \in hits(c) : \A j \in hits(c) : j <= k]]
        crc  == Read([s EXCEPT !.dev = dev2], i)
        rel  == DedupRelease(s.dedup, r.crc)
    IN  IF dev2 = s.dev THEN s
        ELSE WithFiles(s, [s.records EXCEPT ![i] = [r EXCEPT !.crc = crc]],
                       IF Len(r.extents) = 1 THEN DedupInsert(rel, crc) ELSE rel, dev2)

\* write_range_report
WriteRange(s, i, off, data) ==
    LET size == IF i \in DOMAIN s.records THEN s.records[i].size ELSE 0
        stop == off + Len(data)
    IN  CASE data = <<>> -> s
          [] data # <<>> /\ i \notin DOMAIN s.records ->
                IF off = 0 THEN Write(s, i, data) ELSE WriteRangeFallback(s, i, off, data)
          [] data # <<>> /\ i \in DOMAIN s.records ->
                IF off = size THEN AppendToInode(s, i, data)
                ELSE IF off = 0 /\ stop >= size THEN Write(s, i, data)
                ELSE IF stop > size THEN WriteRangeFallback(s, i, off, data)
                ELSE OverwriteInPlace(s, i, off, data)

\* write_at, the device variant
WriteAt(s, i, off, data) ==
    LET old == IF i \in DOMAIN s.records THEN Read(s, i) ELSE <<>>
    IN  IF data = <<>> THEN s
        ELSE IF off = 0 /\ Len(data) >= Len(old) THEN WriteDevice(s, i, data)
        ELSE IF off = Len(old) THEN AppendDevice(s, i, data)
        ELSE WriteDevice(s, i, Overlay(old, off, data))

\* The first n cells of a file, zero-extended.
Resized(bytes, n) == [k \in 1..n |-> IF k \in DOMAIN bytes THEN bytes[k] ELSE Zero]

\* resize_inode: growth appends zeros, shrinking rewrites the prefix.
ResizeInode(s, i, n) ==
    LET size == IF i \in DOMAIN s.records THEN s.records[i].size ELSE 0
    IN  IF n = size THEN s
        ELSE IF n > size THEN AppendToInode(s, i, [k \in 1..n - size |-> Zero])
        ELSE Write(s, i, Resized(Read(s, i), n))

\* truncate, the device variant
Truncate(s, i, n) ==
    WriteDevice(s, i, Resized(IF i \in DOMAIN s.records THEN Read(s, i) ELSE <<>>, n))

\* remove and remove_inode
RemoveInode(s, i) ==
    Release([s EXCEPT !.records = [j \in DOMAIN @ \ {i} |-> @[j]]], s.records[i])

\* clone_for_inode: the content is copied to a fresh extent; the dedup entry
\* is counted up, or made with two references when there is none.
CloneForInode(s, src, tgt) ==
    LET bytes == Read(s, src)
        crc   == s.records[src].crc
        spot  == AllocateExtent(s, RequiredBlocks(Len(bytes)))
        d     == Bind(s.dedup, crc, IF crc \in DOMAIN s.dedup THEN s.dedup[crc] + 1 ELSE 2)
        put   == PutRecord(spot, tgt, bytes, d)
    IN  WithRecord(put, tgt, [put.records[tgt] EXCEPT !.crc = crc],
                   IF bytes = <<>> THEN s.dev ELSE put.dev)

-----------------------------------------------------------------------------
(* Maintenance: defragmentation and heat-aware reallocation.               *)

\* Inode i is laid out before j: by first block, then as in the BTreeMap.
InPlaceOrder(s, i, j) ==
    LET a == FirstPhysicalBlock(s.records[i])
        b == FirstPhysicalBlock(s.records[j])
    IN  a < b \/ (a = b /\ i < j)

\* The inodes with a record in the order of their blocks.
LaidOut(s) ==
    LET known == DOMAIN s.records
    IN  Arranged(known, {p \in known \X known : InPlaceOrder(s, p[1], p[2])})

\* Fault: the records move and their blocks are not copied.
CopyBlocksSkipped(dev, from, to, n) == dev

\* The device with n blocks copied from block `from' to block `to'.
CopyBlocks(dev, from, to, n) ==
    [c \in DOMAIN dev |->
        LET src == c + (from - to) * BlockSize
        IN  IF c - to * BlockSize \notin 0..n * BlockSize - 1 THEN dev[c]
            ELSE IF src \in DOMAIN dev THEN dev[src] ELSE Zero]

\* One turn of the compaction loop: record i of s goes to the cursor acc.next,
\* which moves on by the record's blocks, floor at least and never by none.
MoveToCursor(s, acc, i, floor) ==
    LET r    == s.records[i]
        n    == Greatest(TotalBlocks(r), floor)
        at   == acc.next
        next == at + Greatest(n, 1)
    IN  IF FirstPhysicalBlock(r) = at THEN WithFree(acc, next, <<>>)
        ELSE WithRecord(WithFree(acc, next, <<>>), i,
                 [r EXCEPT !.extents = [k \in DOMAIN r.extents |-> [r.extents[k] EXCEPT !.start = at]]],
                 CopyBlocks(acc.dev, FirstPhysicalBlock(r), at, n))

\* The compaction loop: the records of `order' are laid out from block 0 on, the
\* free list is cleared, the bump pointer put behind the last record.
Relocate(s, order, floor) ==
    LET moved[k \in 0..Len(order)] ==
            IF k = 0 THEN WithFree(s, 0, <<>>) ELSE MoveToCursor(s, moved[k - 1], order[k], floor)
    IN  moved[Len(order)]

Defragment(s) == Relocate(s, LaidOut(s), 0)

\* The position of an inode in the hot list, behind every hot inode otherwise.
Rank(hot, i) == IF \E k \in DOMAIN hot : hot[k] = i
                THEN CHOOSE k \in DOMAIN hot : hot[k] = i ELSE Len(hot) + 1

HeatOrder(s, hot, i, j) ==
    \/ Rank(hot, i) < Rank(hot, j)
    \/ Rank(hot, i) = Rank(hot, j) /\ InPlaceOrder(s, i, j)

ReallocatePrioritizedExtents(s, hot) ==
    LET known == DOMAIN s.records
    IN  Relocate(s, Arranged(known, {p \in known \X known : HeatOrder(s, hot, p[1], p[2])}), 1)

\* fragmentation_report().fragmentation_percent
FragmentationPercent(s) ==
    LET total   == FoldLeft(LAMBDA n, e : n + e.len, 0, s.free)
        largest == FoldLeft(LAMBDA n, e : Greatest(n, e.len), 0, s.free)
    IN  IF total = 0 THEN 0 ELSE ((total - largest) * 100) \div total

ShouldCompact(s) == FragmentationPercent(s) >= s.policy.threshold /\ Len(s.free) > 1

HasMisplacedPriorities(s, hot) ==
    LET known == SelectSeq(hot, LAMBDA i : i \in DOMAIN s.records)
    IN  known # <<>> /\ SubSeq(LaidOut(s), 1, Len(known)) # known

\* optimize_with_priorities
OptimizeWithPriorities(s, hot) ==
    IF hot # <<>> /\ (ShouldCompact(s) \/ HasMisplacedPriorities(s, hot))
    THEN ReallocatePrioritizedExtents(s, hot)
    ELSE IF ShouldCompact(s) THEN Defragment(s) ELSE s

-----------------------------------------------------------------------------
(* A volume image: what is saved of a store, and the store loaded from it. *)

\* split_blocks then join_blocks: a record is saved as its first block, its
\* number of blocks and its bytes, and comes back with a single extent.
SavedRecord(s, i) ==
    LET r     == s.records[i]
        bytes == Read(s, i)
    IN  [size |-> r.size, crc |-> r.crc,
         extents |-> IF bytes = <<>> THEN <<>>
                     ELSE <<[start |-> FirstPhysicalBlock(r), len |-> Len(bytes),
                             blocks |-> Greatest(TotalBlocks(r), 1)]>>]

SavedRecords(s) == [i \in DOMAIN s.records |-> SavedRecord(s, i)]

\* The blocks a record is taken to occupy when free space is computed.
Occupied(r) == Extent(FirstPhysicalBlock(r), Greatest(TotalBlocks(r), 1))

\* The gaps below the highest occupied block (rebuild_free_extents,
\* reconstruct_free_extents_from_records), as maximal runs.
Gaps(occupied) ==
    LET top  == Max({0} \cup {End(e) : e \in occupied})
        hole == (0..top - 1) \ UNION {Span(e) : e \in occupied}
        runs == {e \in {Extent(a, n) : a \in hole, n \in 1..top} :
                    /\ Span(e) \subseteq hole
                    /\ e.start - 1 \notin hole /\ End(e) \notin hole}
    IN  [top |-> top,
         free |-> Arranged(runs, {p \in runs \X runs : p[1].start < p[2].start})]

\* Fault: extents that merely touch count as overlapping.
FreeLayoutStrict(free, occupied) ==
    /\ \A j, k \in DOMAIN free : j < k => End(free[j]) < free[k].start
    /\ \A k \in DOMAIN free : \A e \in occupied : Span(free[k]) \cap Span(e) = {}

\* validate_free_space_layout and validate_allocator_state: the free extents
\* overlap neither each other nor an occupied extent.
FreeLayoutOK(free, occupied) ==
    /\ \A j, k \in DOMAIN free : j < k => Span(free[j]) \cap Span(free[k]) = {}
    /\ \A k \in DOMAIN free : \A e \in occupied : Span(free[k]) \cap Span(e) = {}

\* The free list of the image: the saved one, or the gaps when none was saved.
SavedFree(s) ==
    LET recs == SavedRecords(s)
    IN  IF s.free # <<>> THEN s.free
        ELSE Gaps({Occupied(recs[i]) : i \in {j \in DOMAIN recs : recs[j].extents # <<>>}}).free

\* The check the loader makes before it hands out a state.
ImageAccepted(s) ==
    LET recs == SavedRecords(s)
    IN  FreeLayoutOK(SavedFree(s),
                     {Occupied(recs[i]) : i \in {j \in DOMAIN recs : recs[j].extents # <<>>}})

\* ingest_records and rebuild_free_extents on a new store.
Ingest(s, recs) ==
    LET gaps == Gaps({Occupied(recs[i]) : i \in DOMAIN recs})
        refs(c) == Cardinality({i \in DOMAIN recs : recs[i].crc = c})
    IN  TrimFreeTail(WithFree(WithFiles(s, recs, [c \in {recs[i].crc : i \in DOMAIN recs} |-> refs(c)], s.dev),
                              gaps.top, gaps.free))

\* from_records_with_allocator: the saved free list is adopted if it fits the
\* records, else it is rebuilt from them.
FromRecordsWithAllocator(s, recs, free) ==
    LET occ     == {Occupied(recs[i]) : i \in DOMAIN recs}
        gaps    == Gaps(occ)
        base    == Ingest(s, recs)
        adopted == NormalizeFreeExtents(WithFree(base, base.next, free))
        top     == Max({adopted.next, gaps.top} \cup {End(e) : e \in ToSet(adopted.free)})
    IN  IF FreeLayoutOK(adopted.free, occ)
        THEN WithFree(adopted, top, adopted.free)
        ELSE TrimFreeTail(WithFree(adopted, Greatest(adopted.next, gaps.top), gaps.free))

EmptyStore(p) ==
    [next |-> 0, free |-> <<>>, records |-> <<>>, dedup |-> <<>>, trims |-> {},
     dev |-> [c \in 0..(MaxBlocks + RequiredBlocks(MaxSize)) * BlockSize - 1 |-> Zero],
     policy |-> p]

\* load_image_from_path: records and free list first, then the bytes of every
\* file are written back, in the order of a hash map.
LoadImage(s, order) ==
    LET loaded[k \in 0..Len(order)] ==
            IF k = 0 THEN FromRecordsWithAllocator(EmptyStore(s.policy), SavedRecords(s), SavedFree(s))
            ELSE Write(loaded[k - 1], order[k], Read(s, order[k]))
    IN  loaded[Len(order)]

\* set_allocator_policy
SetAllocatorPolicy(s, p) == NormalizeFreeExtents([s EXCEPT !.policy = p])

-----------------------------------------------------------------------------
(* The actions: one call of one method.                                    *)

Known == DOMAIN store.records
Size(i) == IF i \in Known THEN store.records[i].size ELSE 0
Told(i) == IF i \in DOMAIN told THEN told[i] ELSE <<>>

\* The store becomes s and inode i is promised to hold c.
Holds(s, i, c) ==
    /\ s.next <= MaxBlocks
    /\ store' = s
    /\ told' = Bind(told, i, c)
    /\ spilt' = (spilt \/ c = <<>>)
    /\ UNCHANGED loads

\* The store becomes s and no promise changes.
Keeps(s) == s.next <= MaxBlocks /\ store' = s /\ UNCHANGED <<told, loads, spilt>>

\* What the callers of a run avoid.  "appended": to give up or to move the
\* blocks of a file that has more than one extent; "empty": to compact, or to
\* save and load, a store with an empty file; "hot": to compact with a list of hot inodes.
Spares(i) ==
    "appended" \in Avoid /\ i \in Known => Len(store.records[i].extents) <= 1
SparesAll == \A i \in Known :
                /\ Spares(i)
                /\ "empty" \in Avoid => store.records[i].extents # <<>>

DoWrite(i, c) == "write" \in Ops /\ Spares(i) /\ Holds(Write(store, i, c), i, c)

DoWriteEmpty(i) == "empty" \in Ops /\ Spares(i) /\ Holds(Write(store, i, <<>>), i, <<>>)

DoAppend(i, c) ==
    /\ "append" \in Ops /\ Size(i) + Len(c) <= MaxSize
    /\ Holds(AppendToInode(store, i, c), i, Told(i) \o c)

\* The range lies inside the file and does not cover it.
WithinFile(i, off, c) ==
    off + Len(c) <= Size(i) /\ ~(off = 0 /\ Len(c) >= Size(i))

DoWriteRange(i, off, c) ==
    /\ "range" \in Ops /\ off + Len(c) <= MaxSize
    /\ (off # Size(i) /\ ~WithinFile(i, off, c)) => Spares(i)
    /\ Holds(WriteRange(store, i, off, c), i, Overlay(Told(i), off, c))

\* Growing a file appends to it; a size of 0 empties it.
DoResize(i, n) ==
    /\ "resize" \in Ops /\ i \in Known
    /\ n = 0 => "empty" \in Ops
    /\ n < Size(i) => Spares(i)
    /\ Holds(ResizeInode(store, i, n), i, Resized(Told(i), n))

DoRemove(i) ==
    /\ "remove" \in Ops /\ i \in Known /\ Spares(i)
    /\ store' = RemoveInode(store, i)
    /\ told' = [j \in DOMAIN told \ {i} |-> told[j]]
    /\ UNCHANGED <<loads, spilt>>

\* The target is an inode its caller has just allocated.
DoClone(src, tgt) ==
    /\ "clone" \in Ops /\ src \in Known /\ tgt \notin Known
    /\ Holds(CloneForInode(store, src, tgt), tgt, Told(src))

\* Compaction ends the free list: nothing below the bump pointer is lost any more.
DoDefragment ==
    /\ "defragment" \in Ops /\ SparesAll
    /\ store' = Defragment(store) /\ spilt' = FALSE
    /\ UNCHANGED <<told, loads>>

DoOptimize(hot) ==
    /\ "optimize" \in Ops /\ SparesAll
    /\ "hot" \in Avoid => hot = <<>>
    /\ Keeps(OptimizeWithPriorities(store, hot))

DoDedupPass == "dedup" \in Ops /\ Keeps(DedupPass(store))

DoDrain == "drain" \in Ops /\ Keeps([store EXCEPT !.trims = {}])

DoSetPolicy(p) == "policy" \in Ops /\ Keeps(SetAllocatorPolicy(store, p))

\* Save the image, load it; a rejected image leaves nothing to work with.
DoReload(order) ==
    /\ "reload" \in Ops /\ SparesAll
    /\ IF ImageAccepted(store) THEN Keeps(LoadImage(store, order))
       ELSE loads' = FALSE /\ UNCHANGED <<store, told, spilt>>

DoWriteDevice(i, c) == "wdev" \in Ops /\ Spares(i) /\ Holds(WriteDevice(store, i, c), i, c)

\* Fault: the record is kept although its blocks were freed.
DoWriteDeviceFailsKeeps(i, c) ==
    LET freed == IF i \in Known THEN Release(store, store.records[i]) ELSE store
    IN  /\ "ioerror" \in Ops /\ c # <<>> /\ Spares(i)
        /\ store' = AllocateExtent(freed, RequiredBlocks(Len(c))).store
        /\ store'.next <= MaxBlocks /\ spilt' = TRUE
        /\ UNCHANGED <<told, loads>>

\* The device refuses the write: the record is gone, the blocks stay taken.
DoWriteDeviceFails(i, c) ==
    LET freed == IF i \in Known THEN RemoveInode(store, i) ELSE store
    IN  /\ "ioerror" \in Ops /\ c # <<>> /\ Spares(i)
        /\ store' = AllocateExtent(freed, RequiredBlocks(Len(c))).store
        /\ store'.next <= MaxBlocks /\ spilt' = TRUE
        /\ told' = [j \in DOMAIN told \ {i} |-> told[j]]
        /\ UNCHANGED loads

\* Fault: an append that fits the slack is counted before the device has it.
DoAppendDeviceFailsCounts(i, c) ==
    LET r == store.records[i]
        k == Len(r.extents)
    IN  /\ "ioerror" \in Ops /\ c # <<>> /\ HasContent(store, i)
        /\ Size(i) + Len(c) <= MaxSize
        /\ r.extents[k].len + Len(c) <= r.extents[k].blocks * BlockSize
        /\ store' = WithRecord(store, i, [GrownRecord(r, c) EXCEPT !.extents[k].len = @ + Len(c)], store.dev)
        /\ UNCHANGED <<told, loads, spilt>>

\* The device refuses an append, after some of the slack was filled or once it
\* is and the new extent is to be written: the dedup entry is released by then,
\* the record is the old one, and the blocks of the new extent stay taken.
DoAppendDeviceFails(i, c) ==
    LET k     == Len(store.records[i].extents)
        e     == store.records[i].extents[k]
        slack == Least(Len(c), e.blocks * BlockSize - e.len)
        filled(n) == WithFiles(store, store.records,
                               DedupRelease(store.dedup, store.records[i].crc),
                               FillSlack(store, i, k, n, e.start * BlockSize + e.len, c).dev)
    IN  /\ "ioerror" \in Ops /\ c # <<>> /\ HasContent(store, i)
        /\ Size(i) + Len(c) <= MaxSize
        /\ \/ /\ slack > 0 /\ UNCHANGED spilt
              /\ \E n \in 0..slack : store' = filled(n)
           \/ /\ slack < Len(c) /\ spilt' = TRUE
              /\ store' = AllocateExtent(filled(slack), RequiredBlocks(Len(c) - slack)).store
              /\ store'.next <= MaxBlocks
        /\ UNCHANGED <<told, loads>>

DoWriteAt(i, off, c) ==
    /\ "wat" \in Ops /\ c # <<>> /\ off + Len(c) <= MaxSize
    /\ off # Size(i) => Spares(i)
    /\ Holds(WriteAt(store, i, off, c), i, Overlay(Told(i), off, c))

DoTruncate(i, n) ==
    /\ "truncate" \in Ops /\ Spares(i)
    /\ n = 0 => "empty" \in Ops
    /\ Holds(Truncate(store, i, n), i, Resized(Told(i), n))

Init ==
    /\ store \in {EmptyStore(p) : p \in Policies}
    /\ told = <<>>
    /\ loads = TRUE
    /\ spilt = FALSE

HotLists == {<<>>} \cup {<<i>> : i \in Inodes}

Next ==
    /\ loads
    /\ \/ \E i \in Inodes, c \in Data :
            \/ DoWrite(i, c) \/ DoAppend(i, c)
            \/ DoWriteDevice(i, c) \/ DoWriteDeviceFails(i, c) \/ DoAppendDeviceFails(i, c)
            \/ \E off \in 0..MaxSize : DoWriteRange(i, off, c) \/ DoWriteAt(i, off, c)
       \/ \E i \in Inodes :
            \/ DoWriteEmpty(i) \/ DoRemove(i)
            \/ \E n \in 0..MaxSize : DoResize(i, n) \/ DoTruncate(i, n)
            \/ \E j \in Inodes : DoClone(i, j)
       \/ DoDefragment \/ DoDedupPass \/ DoDrain
       \/ \E hot \in HotLists : DoOptimize(hot)
       \/ \E p \in Policies : DoSetPolicy(p)
       \/ \E order \in SetToSeqs({i \in Known : Read(store, i) # <<>>}) : DoReload(order)

Spec == Init /\ [][Next]_vars

-----------------------------------------------------------------------------
(* Properties.                                                             *)

Owned(i) == UNION {e.start .. e.start + e.blocks - 1 : e \in ToSet(store.records[i].extents)}
FreeBlocksNow == UNION {Span(e) : e \in ToSet(store.free)}

\* Type invariant of the store: records of known inodes, extents at least as long
\* as their bytes, and no dedup entry without a reference (dedup_release).
TypeOK ==
    /\ store.next \in 0..MaxBlocks
    /\ DOMAIN store.records \subseteq Inodes
    /\ DOMAIN told = DOMAIN store.records
    /\ \A i \in Known : \A e \in ToSet(store.records[i].extents) :
          e.start \in Nat /\ e.blocks \in Nat \ {0} /\ e.len \in 0..e.blocks * BlockSize
    /\ \A c \in DOMAIN store.dedup : store.dedup[c] \in Nat \ {0}
    /\ \A c \in DOMAIN store.dev : store.dev[c] \in Cells
    /\ {loads, spilt} \subseteq BOOLEAN

\* No block is taken twice: the blocks of the files are pairwise disjoint, none
\* of them is on the free list, and all of them lie below the bump pointer, so
\* neither allocate_extent's reuse nor its bump can hand out a block in use.
NoBlockTakenTwice ==
    /\ \A i, j \in Known : i # j => Owned(i) \cap Owned(j) = {}
    /\ \A i \in Known : /\ Owned(i) \cap FreeBlocksNow = {}
                        /\ Owned(i) \subseteq 0..store.next - 1
                        /\ Cardinality(Owned(i)) = TotalBlocks(store.records[i])

\* Every file reads back what its last writer stored, whatever was written,
\* shrunk, moved, removed or cloned since (write, append_to_inode,
\* write_range, clone_for_inode, defragment, optimize, load_image_from_path).
ReadsBack == \A i \in Known : Read(store, i) = told[i]

\* Under the default policy the free list is sorted, fully merged and stays below
\* the bump pointer (normalize_free_extents, trim_free_tail); it reaches the
\* pointer only when a store that had lost its last blocks is saved and loaded.
FreeListCanonical ==
    store.policy.coalesce /\ store.policy.trim =>
        \A k \in DOMAIN store.free :
            /\ store.free[k].len > 0
            /\ k < Len(store.free) => End(store.free[k]) < store.free[k + 1].start
            /\ End(store.free[k]) < store.next \/ (spilt /\ End(store.free[k]) = store.next)

\* Every block below the bump pointer is on the free list or belongs to a file,
\* but for the blocks that a write of an empty file or a failed write of the
\* device took, and those come back when the store is defragmented.
NoBlockLost ==
    ~spilt => 0..store.next - 1 \subseteq FreeBlocksNow \cup UNION {Owned(i) : i \in Known}

\* The free space is known exactly: nothing below the bump pointer is forgotten,
\* and what is free is on the list once, merged, in order (insert_free_extent).
FreeSpaceExact == FreeListCanonical /\ NoBlockLost

\* The dedup table never counts more references than there are files with the
\* content, so is_shared never reports a sole owner as shared.
NeverOvercounted ==
    \A c \in DOMAIN store.dedup :
        store.dedup[c] <= Cardinality({i \in Known : store.records[i].crc = c})

\* A range on the pending TRIM list holds no block of a live file: "A freed
\* device-block range, suitable for issuing TRIM/discard" (FreedExtent).
TrimsAreDead == \A i \in Known : Owned(i) \cap store.trims = {}

\* An image the store saved is accepted when it is loaded again.
ImageLoads == loads
=============================================================================
