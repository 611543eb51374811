---------------------------- MODULE VolumeImage ----------------------------
(* The volume image of CoreFS (storage/volume_image.rs): a header with the   *)
(* segment directory, two superblock copies, and framed segments laid out    *)
(* one after the other at aligned offsets.                                   *)
(*                                                                           *)
(* An image lives on a device of cells, a function from the addresses ever   *)
(* written to what they hold; a cell stands for the bytes a torn write keeps *)
(* or loses together.  The eleven metadata segments are one segment META,    *)
(* with a cell for each inode; BLKD is one cell of descriptors; a byte of a  *)
(* file is one cell of DATA.  A checksum is the checked value itself.        *)
EXTENDS Integers, Sequences, FiniteSets, FiniteSetsExt, SequencesExt, Functions, TLC

CONSTANT Align        \* segment alignment, in cells

ASSUME PositiveAlign == Align \in Nat \ {0}

Kinds == <<"SUPR", "SUP2", "META", "BLKD", "DATA">>
Framed == {"META", "BLKD", "DATA"}
None == <<"none">>
NoCache == [segs |-> <<>>, desc |-> <<>>]
Has(cache) == DOMAIN cache.segs # {}

AlignUp(n) == ((n + Align - 1) \div Align) * Align

Place(off, cells) == [a \in off .. (off + Len(cells) - 1) |-> cells[a - off + 1]]
Cell(dev, a) == IF a \in DOMAIN dev THEN dev[a] ELSE <<"zero">>
Cells(dev, off, len) == [j \in 1 .. len |-> Cell(dev, off + j - 1)]

-----------------------------------------------------------------------------
(* Segments.  A frame carries kind, length and checksum of the payload.      *)

EncodeFrame(kind, body) == <<<<"frame", kind, Len(body), body>>>> \o body

NoFrame == [ok |-> FALSE, body |-> <<>>]

DecodeFrame(cells, kind) ==
  IF cells = <<>> \/ cells[1][1] # "frame" THEN NoFrame
  ELSE LET h == cells[1]
           body == SubSeq(cells, 2, 1 + h[3])
       IN  IF h[2] = kind /\ 1 + h[3] <= Len(cells) /\ body = h[4]
           THEN [ok |-> TRUE, body |-> body] ELSE NoFrame

Records(st) == SetToSortSeq(DOMAIN st, <)

\* The inodes, in the order of their numbers: size and whether active.
MetaBody(st) == LET row(i) == <<"row", i, st[i].size, st[i].live>>
                IN  FoldLeft(LAMBDA acc, i : Append(acc, row(i)), <<>>, Records(st))

-----------------------------------------------------------------------------
(* The DATA segment and its descriptors, from the block records and the      *)
(* bytes the caller hands over: bytes is a function from some inodes.        *)

Descriptor(st, i, off, len) == [ino |-> i, off |-> off, len |-> len, size |-> st[i].size]

Layout(st, source) ==
  FoldLeft(LAMBDA acc, i :
             [desc |-> Append(acc.desc, Descriptor(st, i, Len(acc.data), Len(source[i]))),
              data |-> acc.data \o source[i]],
           [desc |-> <<>>, data |-> <<>>], Records(st))

SplitBlocks(st, bytes) ==
  Layout(st, [i \in DOMAIN st |-> IF i \in DOMAIN bytes THEN bytes[i] ELSE <<>>])

CachedDescriptorFor(cache, i) == SelectSeq(cache.desc, LAMBDA d : d.ino = i)
CachedBody(cache) == Tail(cache.segs["DATA"].pay)

Slice(body, d) == IF d.off + d.len > Len(body) THEN <<>> ELSE SubSeq(body, d.off + 1, d.off + d.len)

CachedBytesFor(cache, i) ==
  FoldLeft(LAMBDA acc, d : Slice(CachedBody(cache), d), <<>>, CachedDescriptorFor(cache, i))

\* The bytes of a record in the partial build: fresh ones, or the cached ones.
Sources(st, bytes, cache) ==
  [i \in DOMAIN st |-> IF i \in DOMAIN bytes THEN bytes[i] ELSE CachedBytesFor(cache, i)]

\* A record neither dirty nor cached, with blocks of its own, has no source.
SplitBlocksPartial(st, source) ==
  IF \E i \in DOMAIN st : source[i] = <<>> /\ st[i].data # <<>> THEN None
  ELSE <<"some", Layout(st, source)>>

\* Every unchanged inode at its cached place, the dirty ones new and behind
\* the cached body: only the tail is built.
SplitBlocksPartialAppend(st, bytes, cache, whole) ==
  LET AtCachedPlace(d) == \E c \in ToSet(cache.desc) : c.ino = d.ino /\ c.off = d.off /\ c.len = d.len
      Behind(d) == /\ CachedDescriptorFor(cache, d.ino) = <<>>
                   /\ d.off = Len(CachedBody(cache))
      new == {d \in ToSet(whole.desc) : d.ino \in DOMAIN bytes}
      old == ToSet(whole.desc) \ new
  IN  IF /\ new # {}
         /\ \A d \in new : Behind(d)
         /\ \A d \in old : AtCachedPlace(d) /\ d.off + d.len <= Len(CachedBody(cache))
      THEN <<"some", whole>> ELSE None

JoinBlocks(desc, data) ==
  [ok |-> \A k \in 1 .. Len(desc) : desc[k].len > 0 => desc[k].off + desc[k].len <= Len(data),
   records |-> [i \in {desc[k].ino : k \in 1 .. Len(desc)} |->
                  Slice(data, SelectSeq(desc, LAMBDA d : d.ino = i)[1])]]

-----------------------------------------------------------------------------
(* Building an image.                                                        *)

Offsets(lens) ==
  FoldLeft(LAMBDA acc, n : [at |-> AlignUp(acc.at + n), offs |-> Append(acc.offs, acc.at)],
           [at |-> Align, offs |-> <<>>], lens).offs

Entry(k, off, len) == [kind |-> k, off |-> off, len |-> len]

Directory(lens) ==
  [k \in 1 .. Len(lens) |-> Entry(Kinds[k], Offsets(lens)[k], lens[k])]

HasSegment(dir, k) == \E n \in 1 .. Len(dir) : dir[n].kind = k
FindSegment(dir, k) == SelectSeq(dir, LAMBDA e : e.kind = k)[1]

Superblock(dir, sums, gen) == <<"super", dir, sums, gen>>

Assembled(meta, blkd, data, desc, dir, append, gen) ==
  LET super == <<Superblock(dir, <<meta, blkd, data>>, gen)>>
  IN  [dir |-> dir, desc |-> desc, append |-> append,
       pay |-> [SUPR |-> super, SUP2 |-> super, META |-> EncodeFrame("META", meta),
                BLKD |-> EncodeFrame("BLKD", blkd), DATA |-> EncodeFrame("DATA", data)]]

BuildImage(st, blocks, append, gen) ==
  LET meta == MetaBody(st)
      blkd == <<<<"blkd", blocks.desc>>>>
  IN  Assembled(meta, blkd, blocks.data, blocks.desc,
        Directory(<<1, 1, 1 + Len(meta), 2, 1 + Len(blocks.data)>>), append, gen)

BuildWithBytes(st, bytes, gen) == BuildImage(st, SplitBlocks(st, bytes), FALSE, gen)

FirstOf(tail, part, st, gen) ==
  IF tail # None THEN <<BuildImage(st, tail[2], TRUE, gen)>>
  ELSE IF part # None THEN <<BuildImage(st, part[2], FALSE, gen)>> ELSE <<>>

BuildFrom(st, bytes, cache, source, gen) ==
  FirstOf(SplitBlocksPartialAppend(st, bytes, cache, Layout(st, source)),
          SplitBlocksPartial(st, source), st, gen)

\* The image built with the cache's help, or nothing.
BuildWithPartial(st, bytes, cache, gen) ==
  BuildFrom(st, bytes, cache, Sources(st, bytes, cache), gen)

Header(b) == Place(0, <<<<"head", b.dir>>>>)

FullBytes(b) ==
  FoldLeft(LAMBDA acc, k : Place(FindSegment(b.dir, k).off, b.pay[k]) @@ acc, Header(b), Kinds)

FromBuilt(b) ==
  [segs |-> [k \in ToSet(Kinds) |-> [off |-> FindSegment(b.dir, k).off, pay |-> b.pay[k]]],
   desc |-> b.desc]

FromImageBytes(dev, dir) ==
  [segs |-> [k \in ToSet(Kinds) |->
               LET e == FindSegment(dir, k) IN [off |-> e.off, pay |-> Cells(dev, e.off, e.len)]],
   desc |-> Cell(dev, FindSegment(dir, "BLKD").off + 1)[2]]

-----------------------------------------------------------------------------
(* The incremental persist: what is written of a built image when the cache  *)
(* says what the device holds.                                               *)

Shifted(b, cache) ==
  b.append /\ cache.segs["DATA"].off # FindSegment(b.dir, "DATA").off

\* Fault: the tail of a grown segment is written although the segment moved.
SegmentWritesMoved(b, cache, k) ==
  LET old == cache.segs[k]
      off == FindSegment(b.dir, k).off
      pay == b.pay[k]
      grown == /\ Len(pay) > Len(old.pay)
               /\ SubSeq(pay, 2, Len(old.pay)) = Tail(old.pay)
  IN  CASE old.off = off /\ old.pay = pay -> <<>>
        [] grown -> Place(off, <<pay[1]>>)
             @@ Place(off + Len(old.pay), SubSeq(pay, Len(old.pay) + 1, Len(pay)))
        [] OTHER -> Place(off, pay)

\* Same place, same cells: nothing.  Same place, longer, old body a prefix of
\* the new one: frame and tail.  Otherwise the whole segment at its new place.
SegmentWrites(b, cache, k) ==
  LET old == cache.segs[k]
      off == FindSegment(b.dir, k).off
      pay == b.pay[k]
      grown == /\ Len(pay) > Len(old.pay)
               /\ SubSeq(pay, 2, Len(old.pay)) = Tail(old.pay)
  IN  CASE old.off = off /\ old.pay = pay -> <<>>
        [] old.off = off /\ grown -> Place(off, <<pay[1]>>)
             @@ Place(off + Len(old.pay), SubSeq(pay, Len(old.pay) + 1, Len(pay)))
        [] OTHER -> Place(off, pay)

IncrementalWrites(b, cache) ==
  FoldLeft(LAMBDA acc, k : SegmentWrites(b, cache, k) @@ acc, Header(b), Kinds)

\* Fault: the cache takes the new offsets and keeps the old cells.
ApplyCacheOffsets(b, cache) ==
  [segs |-> [k \in DOMAIN cache.segs |-> [off |-> FindSegment(b.dir, k).off, pay |-> cache.segs[k].pay]],
   desc |-> cache.desc]

\* The cached segments follow the device; the cached descriptors do not.
ApplyCacheUpdates(b, cache) == [segs |-> FromBuilt(b).segs, desc |-> cache.desc]

-----------------------------------------------------------------------------
(* Loading an image.                                                         *)

NoImage == [ok |-> FALSE]

LoadDirectory(dev) ==
  IF Cell(dev, 0)[1] = "head" THEN <<"some", Cell(dev, 0)[2]>> ELSE None

SegmentBytes(dev, dir, k) ==
  IF HasSegment(dir, k)
  THEN DecodeFrame(Cells(dev, FindSegment(dir, k).off, FindSegment(dir, k).len), k)
  ELSE NoFrame

\* Fault: a superblock copy counts without its payload checksum.
IsValidSuperblockLoose(cell, dir, sums) == cell[1] = "super" /\ cell[2] = dir

IsValidSuperblock(cell, dir, sums) == cell[1] = "super" /\ cell[2] = dir /\ cell[3] = sums

\* The three framed segments, decoded.
Framed3(dev, dir) == [m |-> SegmentBytes(dev, dir, "META"), b |-> SegmentBytes(dev, dir, "BLKD"),
                      d |-> SegmentBytes(dev, dir, "DATA")]

ValidSuperblocks(dev, dir, s) ==
  Cardinality({k \in {"SUPR", "SUP2"} :
    IsValidSuperblock(Cell(dev, FindSegment(dir, k).off), dir, <<s.m.body, s.b.body, s.d.body>>)})

\* What the segments say of the inodes and of their bytes.
StateFromEntries(s) ==
  FoldLeft(LAMBDA acc, r : acc @@ (r[2] :> [size |-> r[3], live |-> r[4],
             data |-> LET all == JoinBlocks(s.b.body[1][2], s.d.body).records
                      IN  IF r[2] \in DOMAIN all THEN all[r[2]] ELSE <<>>]),
           <<>>, s.m.body)

Readable(s) == s.m.ok /\ s.b.ok /\ s.d.ok /\ JoinBlocks(s.b.body[1][2], s.d.body).ok

Inspected(dev, dir, s) ==
  IF /\ ToSet(Kinds) = {dir[n].kind : n \in 1 .. Len(dir)}
     /\ Readable(s) /\ ValidSuperblocks(dev, dir, s) > 0
  THEN [ok |-> TRUE, dir |-> dir, files |-> StateFromEntries(s), copies |-> ValidSuperblocks(dev, dir, s)]
  ELSE NoImage

LoadFrom(dev, dir) == IF dir = None THEN NoImage ELSE Inspected(dev, dir[2], Framed3(dev, dir[2]))

Load(dev) == LoadFrom(dev, LoadDirectory(dev))

-----------------------------------------------------------------------------
(* Repair: without a valid superblock the segments are taken as they are;    *)
(* without a directory it is rebuilt from the frames, each segment starting  *)
(* where the one before it ends.                                             *)

FramedLength(dev, off, kind) ==
  LET h == Cell(dev, off)
  IN  IF h[1] = "frame" /\ h[2] = kind /\ DecodeFrame(Cells(dev, off, 1 + h[3]), kind).ok
      THEN 1 + h[3] ELSE 0

\* The DATA segment ends where its last descriptor ends; its frame must agree.
DataEntry(dev, data, desc) ==
  LET used == Max({0} \cup {desc[k].off + desc[k].len : k \in 1 .. Len(desc)})
  IN  IF DecodeFrame(Cells(dev, data, 1 + used), "DATA").ok THEN <<Entry("DATA", data, 1 + used)>> ELSE <<>>

WithData(front, entry) == IF entry = <<>> THEN None ELSE <<"some", front \o entry>>

WithBlocks(dev, meta, mlen, blkd, blen) ==
  IF mlen = 0 \/ blen = 0 THEN None
  ELSE WithData(<<Entry("SUPR", Align, 1), Entry("SUP2", 2 * Align, 1),
                  Entry("META", meta, mlen), Entry("BLKD", blkd, blen)>>,
                DataEntry(dev, AlignUp(blkd + blen), Cell(dev, blkd + 1)[2]))

\* Fault: the search goes on at the end of a segment, not at the next
\* aligned offset.
ReconstructDirectoryPacked(dev) ==
  LET meta == 3 * Align
      mlen == FramedLength(dev, meta, "META")
  IN  WithBlocks(dev, meta, mlen, meta + mlen, FramedLength(dev, meta + mlen, "BLKD"))

ReconstructDirectory(dev) ==
  LET meta == 3 * Align
      mlen == FramedLength(dev, meta, "META")
  IN  WithBlocks(dev, meta, mlen, AlignUp(meta + mlen), FramedLength(dev, AlignUp(meta + mlen), "BLKD"))

\* The rows, without what only the descriptors say; a segment the directory
\* does not list counts as empty.
StateWithoutBlocks(s) ==
  FoldLeft(LAMBDA acc, r : acc @@ (r[2] :> [size |-> r[3], live |-> r[4], data |-> <<>>]), <<>>, s.m.body)

\* The files' sizes cut the DATA segment into their bytes.
ReconstructBlocks(files, data) ==
  LET before(i) == MapThenSumSet(LAMBDA j : files[j].size, {j \in DOMAIN files : j < i})
  IN  IF MapThenSumSet(LAMBDA i : files[i].size, DOMAIN files) > Len(data) THEN None
      ELSE <<"some", [i \in DOMAIN files |->
             [files[i] EXCEPT !.data = SubSeq(data, before(i) + 1, before(i) + files[i].size)]]>>

FromEntriesRelaxed(dir, s) ==
  IF Readable(s) THEN <<"some", StateFromEntries(s)>>
  ELSE IF (HasSegment(dir, "META") => s.m.ok) /\ s.d.ok
       THEN ReconstructBlocks(StateWithoutBlocks(s), s.d.body)
       ELSE None

Relaxed(dev, dir) == IF dir = None THEN None ELSE FromEntriesRelaxed(dir[2], Framed3(dev, dir[2]))

LoadRelaxed(dev, named, rebuilt) ==
  LET first == IF named # None THEN Relaxed(dev, named) ELSE None
  IN  IF first # None THEN first ELSE Relaxed(dev, rebuilt)

\* repair_volume_image_superblocks: a damaged image is rewritten, and the
\* rewrite has no bytes to put into DATA.
Rewritten(dev, loaded, relaxed, gen) ==
  IF loaded.ok /\ loaded.copies = 2 THEN <<"some", dev>>
  ELSE IF ~loaded.ok /\ relaxed = None THEN None
  ELSE <<"some", FullBytes(BuildWithBytes(IF loaded.ok THEN loaded.files ELSE relaxed[2], <<>>, gen))>>

Repaired(dev, gen) ==
  Rewritten(dev, Load(dev), LoadRelaxed(dev, LoadDirectory(dev), ReconstructDirectory(dev)), gen)
=============================================================================
