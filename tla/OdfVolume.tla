----------------------------- MODULE OdfVolume -----------------------------
(* An ODF volume as the tools see it: formatting, the blob save, the save of *)
(* dirty inodes, growing, the structural check, its repair and the scrub.    *)
(*                                                                           *)
(* A device is a function from block numbers to cells. A cell is a tuple     *)
(* whose first member says what was encoded in the block; the checksum of a  *)
(* block or a region matches exactly what was encoded. The bitmaps and the   *)
(* inode table fit in a block each. The repair is one journaled transaction  *)
(* and so one step (OdfJournal). A native save may end with an error after   *)
(* any of its writes; power losses during one are in OdfSession.             *)
EXTENDS Naturals, FiniteSets, FiniteSetsExt, Sequences, SequencesExt

CONSTANTS
  FormatBlocks,     \* blocks of the device when it is formatted
  Sizes,            \* sizes the device may be enlarged to
  InodeCount, JournalBlocks, BitsPerBlock, InodesPerBlock,
  FirstUser,        \* FIRST_USER_INODE_SLOT
  Files,            \* domain inode ids
  MaxLen,           \* bound: blocks of a payload
  Lens,             \* blocks a file may have, at most MaxLen
  Trim,             \* the device supports trim
  Avoid,            \* names of the sequences this instance leaves out
  MaxSaves,         \* bound: saves
  MaxRepairs,       \* bound: repairs
  MaxFaults         \* bound: damaged blocks, power losses and failed native saves

VARIABLES
  disk,             \* what the device holds
  cap,              \* capacity of the device in blocks
  size,             \* blocks of the volume
  saved,            \* the state of the last save that returned Ok
  trying,           \* the state of the save a power loss cut short, or saved
  hurt,             \* damage done since: what it hit and where
  torn,             \* the call that a power loss ("save", "grow") or an error
                    \* ("native") cut short, or "no"
  fixed,            \* the last call was a repair
  saves, repairs, faults

vars == <<disk, cap, size, saved, trying, hurt, torn, fixed, saves, repairs, faults>>

Primary == 1
Ancillary == 1      \* ANCILLARY_INODE_SLOT

-----------------------------------------------------------------------------
(* Layout.                                                                   *)
DivCeil(a, b) == (a + b - 1) \div b

Plan(total) ==
  LET ibm == Primary + 1 + DivCeil(total, BitsPerBlock)
      table == ibm + DivCeil(InodeCount, BitsPerBlock)
      journal == table + DivCeil(InodeCount, InodesPerBlock)
  IN  [total |-> total, bbm |-> Primary + 1, ibm |-> ibm, table |-> table, journal |-> journal,
       dataStart |-> journal + JournalBlocks, secondary |-> total - 1, tertiary |-> total \div 2]

Geom == Plan(FormatBlocks)
Bbm == Geom.bbm
Ibm == Geom.ibm
Table == Geom.table
JournalHeader == Geom.journal
DataStart == Geom.dataStart

ASSUME LayoutFits ==
  /\ DataStart + 4 <= FormatBlocks
  /\ DataStart < Geom.tertiary
  /\ Max(Sizes \cup {FormatBlocks}) <= BitsPerBlock
  /\ InodeCount <= InodesPerBlock /\ InodeCount <= BitsPerBlock

IsDataBlock(sb, b) == DataStart <= b /\ b < sb.total
DataBlocks(sb) == sb.total - DataStart

-----------------------------------------------------------------------------
(* Superblocks, bitmaps and inode records.                                   *)
Crc(x) == {x}

ForNewVolume ==
  [gen |-> 1, total |-> Geom.total, secondary |-> Geom.secondary, tertiary |-> Geom.tertiary,
   free |-> Geom.total - DataStart, freeInodes |-> InodeCount, mode |-> "blob", payload |-> 0,
   bbmCrc |-> {}, ibmCrc |-> {}]

\* The superblock a block decodes to, if any.
DecodeBlock(c) == IF c[1] = "super" THEN {c[2]} ELSE {}

\* The first readable copy; the fallback copies are looked for where a volume
\* as large as the device has them.
ReadSb(d, k) ==
  LET copies == <<DecodeBlock(d[Primary]), DecodeBlock(d[k \div 2]), DecodeBlock(d[k - 1])>>
      ok == {i \in 1 .. 3 : copies[i] # {}}
  IN  IF ok = {} THEN {} ELSE copies[Min(ok)]

Bits(d, b) == IF d[b][1] = "bits" THEN d[b][2] ELSE {}

VerifyBitmapIntegrity(d, sb) ==
  /\ sb.bbmCrc = {} \/ Crc(Bits(d, Bbm)) = sb.bbmCrc
  /\ sb.ibmCrc = {} \/ Crc(Bits(d, Ibm)) = sb.ibmCrc

ReservedBlocks(sb) == (0 .. (DataStart - 1)) \cup {sb.tertiary, sb.secondary}

UsedData(S, sb) == Cardinality({b \in S : IsDataBlock(sb, b)})

Unused == [kind |-> "unused", id |-> 0, ext |-> <<>>, attr |-> 0, crc |-> <<>>]
Bad == [Unused EXCEPT !.kind = "bad"]
System(ext, crc) == [kind |-> "system", id |-> 0, ext |-> ext, attr |-> 0, crc |-> crc]
File(id, ext, attr, crc) == [kind |-> "file", id |-> id, ext |-> ext, attr |-> attr, crc |-> crc]

Slots == 0 .. (InodeCount - 1)
Record(d, s) == d[Table][2][s]
WithRecord(d, s, rec) == [d EXCEPT ![Table] = <<"table", [@[2] EXCEPT ![s] = rec]>>]

Run(start, n) == [i \in 1 .. n |-> start + i - 1]
BlocksOf(ext) == {ext[i] : i \in DOMAIN ext}
Cells(d, ext) == [i \in DOMAIN ext |-> d[ext[i]]]

PayloadCells(v, n) == [i \in 1 .. n |-> <<"pay", v, i, n>>]
DataCells(id, v, n) == [i \in 1 .. n |-> <<"data", id, v, i, n>>]

-----------------------------------------------------------------------------
(* Writes: a call is a sequence of <<block, cell>>, synced at its end.       *)
Put(d, w) == [d EXCEPT ![w[1]] = w[2]]
Apply(d, ws) == FoldLeft(Put, d, ws)

\* Any subset of the unsynced writes may have reached the medium.
ApplySome(d, ws, landed) ==
  FoldLeft(LAMBDA a, i : IF i \in landed THEN Put(a, ws[i]) ELSE a, d, [i \in DOMAIN ws |-> i])

Superblocks(sb) ==
  LET c == <<"super", sb>> IN <<<<Primary, c>>, <<sb.tertiary, c>>, <<sb.secondary, c>>>>

FormatDevice ==
  LET sb == ForNewVolume
      blank == [b \in 0 .. (FormatBlocks - 1) |-> <<"zero">>]
      table == [s \in Slots |-> IF s = 0 THEN System(<<>>, <<>>) ELSE Unused]
  IN  Apply(blank, <<<<Bbm, <<"bits", ReservedBlocks(sb)>>>>, <<Ibm, <<"bits", {0}>>>>, <<Table, <<"table", table>>>>,
                     <<JournalHeader, <<"journal">>>>>> \o Superblocks(sb))

-----------------------------------------------------------------------------
(* The blob layout.                                                          *)
TrimExtents(d, s) ==
  LET ext == Record(d, s).ext
  IN  IF Trim /\ Record(d, s).kind = "system" THEN [i \in DOMAIN ext |-> <<ext[i], <<"zero">>>>] ELSE <<>>

BlobSuperblock(sb, S) ==
  [sb EXCEPT !.gen = @ + 1, !.payload = 0, !.free = DataBlocks(sb) - UsedData(S, sb), !.freeInodes = InodeCount - 1,
             !.bbmCrc = Crc(S), !.ibmCrc = Crc({0}), !.mode = "blob"]

\* The writes of save_state, in order: the payload goes to the first blocks of
\* the data region, whatever lies there.
SaveStateWrites(d, sb, v, n) ==
  LET ext == Run(DataStart, n)
      S == ReservedBlocks(sb) \cup BlocksOf(ext)
      table == [d[Table][2] EXCEPT ![0] = System(ext, <<"pay", v, n>>)]
  IN  TrimExtents(d, sb.payload) \o <<<<Bbm, <<"bits", S>>>>, <<Ibm, <<"bits", {0}>>>>>>
      \o [i \in 1 .. n |-> <<ext[i], PayloadCells(v, n)[i]>>] \o <<<<Table, <<"table", table>>>>>>
      \o Superblocks(BlobSuperblock(sb, S))

\* Fault: the checksum behind the payload is not compared.
LoadStateUnchecked(d, k) ==
  {p \in {<<v, n>> : v \in 0 .. MaxSaves, n \in 1 .. MaxLen} :
     \E sb \in ReadSb(d, k) :
       LET rec == Record(d, sb.payload)
       IN  /\ VerifyBitmapIntegrity(d, sb)
           /\ rec.kind = "system" /\ Len(rec.ext) = p[2]
           /\ \A i \in DOMAIN rec.ext : d[rec.ext[i]][1] = "pay"
           /\ d[rec.ext[1]][2] = p[1]}

\* What load_state returns: the payload whose trailing checksum matches, if any.
LoadState(d, k) ==
  {p \in {<<v, n>> : v \in 0 .. MaxSaves, n \in 1 .. MaxLen} :
     \E sb \in ReadSb(d, k) :
       LET rec == Record(d, sb.payload)
       IN  /\ VerifyBitmapIntegrity(d, sb)
           /\ rec.kind = "system" /\ rec.ext # <<>>
           /\ Cells(d, rec.ext) = PayloadCells(p[1], p[2])}

-----------------------------------------------------------------------------
(* The native layout: the save of dirty inodes. w is the work of a save: the *)
(* device, the writes that made it, the allocator's bitmaps and its hints.   *)
Work(d, S, I) == [d |-> d, ws |-> <<>>, bb |-> S, ib |-> I, hint |-> DataStart, slot |-> FirstUser, got |-> 0, ok |-> TRUE]

FreeRuns(S, total, from, n) == {s \in from .. (total - n) : \A b \in s .. (s + n - 1) : b \notin S}

FirstFit(w, total, n) ==
  LET ahead == FreeRuns(w.bb, total, w.hint, n)
      all == FreeRuns(w.bb, total, DataStart, n)
  IN  IF ahead # {} THEN {Min(ahead)} ELSE IF all # {} THEN {Min(all)} ELSE {}

Written(w, b, c) == [w EXCEPT !.d = Put(@, <<b, c>>), !.ws = Append(@, <<b, c>>)]

\* Takes one block and writes c there; no block left ends the save with an
\* error.
Allocate(w, total, c) ==
  LET fit == FirstFit(w, total, 1)
  IN  IF fit = {} \/ ~w.ok THEN [w EXCEPT !.ok = FALSE]
      ELSE [Written(w, Min(fit), c) EXCEPT !.bb = @ \cup fit, !.hint = Min(fit) + 1, !.got = Min(fit)]

WrittenRecord(w, s, rec) == IF w.ok THEN Written(w, Table, WithRecord(w.d, s, rec)[Table]) ELSE w

MarkUsed(w, blocks) == [w EXCEPT !.bb = @ \cup blocks]

FreeBlocks(w, blocks) ==
  [w EXCEPT !.bb = @ \ blocks, !.hint = Min(blocks \cup {@})]

FreeInodePayload(w, rec) == FreeBlocks(w, BlocksOf(rec.ext) \cup (IF rec.attr = 0 THEN {} ELSE {rec.attr}))

\* The record on disk stays; the bitmap alone says the slot is free.
ReleaseSlot(w, s) ==
  [FreeInodePayload(w, Record(w.d, s)) EXCEPT !.ib = @ \ {s}, !.slot = Min({s, @})]

\* Fault: a hint is trusted without a look at the record.
ExistingHinted(d, I, id, hint) ==
  LET slots == {s \in FirstUser .. (InodeCount - 1) : s \in I /\ Record(d, s).kind = "file" /\ Record(d, s).id = id}
  IN  IF hint \in I /\ hint >= FirstUser THEN {hint} ELSE IF slots = {} THEN {} ELSE {Min(slots)}

\* The slot an inode is found in: a hint that the slot's record confirms, or a
\* walk over the allocated slots.
Existing(d, I, id, hint) ==
  LET holds(s) == s \in I /\ Record(d, s).kind \notin {"unused", "bad"} /\ Record(d, s).id = id
      slots == {s \in FirstUser .. (InodeCount - 1) : holds(s)}
  IN  IF hint \in slots THEN {hint} ELSE IF slots = {} THEN {} ELSE {Min(slots)}

WriteInodeAt(w, total, s, id, f) ==
  LET x == Allocate(MarkUsed(w, BlocksOf(f.ext)), total, <<"attr", id>>)
  IN  WrittenRecord(x, s, File(id, f.ext, x.got, f.crc))

TakeSlot(w) ==
  LET free == (w.slot .. (InodeCount - 1)) \ w.ib
  IN  IF free = {} THEN [w EXCEPT !.ok = FALSE] ELSE [w EXCEPT !.ib = @ \cup {Min(free)}, !.slot = Min(free) + 1]

\* A new inode takes the next free slot, a known one keeps its own.
WriteDirty(w, total, id, f, hint) ==
  LET cur == Existing(w.d, w.ib, id, hint)
      new == TakeSlot(w)
  IN  IF cur # {}
      THEN WriteInodeAt(FreeInodePayload(w, Record(w.d, Min(cur))), total, Min(cur), id, f)
      ELSE WriteInodeAt(new, total, new.slot - 1, id, f)

WriteAncillary(w, total, v) ==
  LET x == Allocate(w, total, <<"anc", v>>)
  IN  WrittenRecord(x, Ancillary, System(<<x.got>>, <<"anc", v>>))

RewriteAncillary(w, total, v) ==
  LET prev == Record(w.d, Ancillary)
  IN  WriteAncillary(IF prev.kind = "system" THEN FreeBlocks(w, BlocksOf(prev.ext)) ELSE w, total, v)

NativeSuperblock(sb, w) ==
  [sb EXCEPT !.gen = @ + 1, !.mode = "native", !.payload = Ancillary,
             !.free = DataBlocks(sb) - (Cardinality({b \in w.bb : b < sb.total}) - DataStart),
             !.freeInodes = InodeCount - Cardinality(w.ib), !.bbmCrc = Crc(w.bb), !.ibmCrc = Crc(w.ib)]

\* The writes of a native save in order; one that ran out of blocks or slots
\* ends before the bitmaps.
Flushes(w, sb) ==
  w.ws \o (IF w.ok THEN <<<<Bbm, <<"bits", w.bb>>>>, <<Ibm, <<"bits", w.ib>>>>>> \o Superblocks(NativeSuperblock(sb, w))
           ELSE <<>>)

AllExtents(files) == UNION {BlocksOf(files[id].ext) : id \in DOMAIN files}

\* save_state_native_incremental_dirty_with_slots: files is the whole state,
\* dirty the changed inodes in the caller's order, gone the removed ones.
SaveDirty(d, sb, files, dirty, gone, hint, v) ==
  LET w0 == MarkUsed(Work(d, Bits(d, Bbm), Bits(d, Ibm)), AllExtents(files))
      w1 == FoldLeft(LAMBDA w, id : FoldSet(LAMBDA s, x : ReleaseSlot(x, s), w, Existing(d, Bits(d, Ibm), id, hint)), w0, gone)
      w2 == FoldLeft(LAMBDA w, id : WriteDirty(w, sb.total, id, files[id], hint), w1, dirty)
  IN  RewriteAncillary(w2, sb.total, v)

\* save_state_native: fresh bitmaps, every inode in a new slot. It is what the
\* incremental saves do on a volume that is not native yet.
SaveFull(d, sb, files, order, v) ==
  LET w0 == Work(d, ReservedBlocks(sb) \cup AllExtents(files), {0, Ancillary})
      put(w, id) == LET x == TakeSlot(w) IN WriteInodeAt(x, sb.total, x.slot - 1, id, files[id])
  IN  FoldLeft(put, WriteAncillary(w0, sb.total, v), order)

\* The files a load finds, each under the id in its attribute block and with
\* the cells a reader of its record is given: no reader compares a checksum. A
\* slot that cannot be read ends a strict load.
Readable(d, s) == LET rec == Record(d, s) IN rec.kind = "file" /\ d[rec.attr][1] = "attr"

Content(d, rec) == Cells(d, rec.ext)

UserSlots(d) == {s \in Bits(d, Ibm) : s >= FirstUser /\ Record(d, s).kind # "unused"}

NativeOpens(d, sb) ==
  LET anc == Record(d, Ancillary)
  IN  /\ VerifyBitmapIntegrity(d, sb)
      /\ sb.mode = "native" /\ anc.kind = "system" /\ Cells(d, anc.ext) = <<anc.crc>>

Found(d, slots) == {<<d[Record(d, s).attr][2], Content(d, Record(d, s))>> : s \in slots}

LoadNative(d, k) ==
  {Found(d, UserSlots(d)) : sb \in {x \in ReadSb(d, k) : NativeOpens(d, x) /\ \A s \in UserSlots(d) : Readable(d, s)}}

LoadNativeLossy(d, k) ==
  {Found(d, {s \in UserSlots(d) : Readable(d, s)}) : sb \in {x \in ReadSb(d, k) : NativeOpens(d, x)}}

-----------------------------------------------------------------------------
(* Growing in place. The bits of the old copies stay set.                    *)
Grown(sb, total, S) ==
  [sb EXCEPT !.total = total, !.free = @ + (total - sb.total), !.secondary = total - 1, !.tertiary = total \div 2,
             !.bbmCrc = Crc(S)]

GrowWrites(d, sb, total) ==
  LET S == Bits(d, Bbm) \cup {total - 1, total \div 2}
  IN  <<<<Bbm, <<"bits", S>>>>>> \o Superblocks(Grown(sb, total, S))

-----------------------------------------------------------------------------
(* The structural check. An issue is <<code, slot, block>>.                  *)
CheckCopy(c, sb, stale, unreadable) ==
  IF DecodeBlock(c) = {} THEN {<<unreadable, 0, 0>>}
  ELSE IF c[2].gen # sb.gen THEN {<<stale, 0, 0>>} ELSE {}

\* The copies are looked for where the size of the device puts them.
CheckSuperblocks(d, k, sb) ==
  (IF DecodeBlock(d[Primary]) = {} THEN {<<"PRIMARY_UNREADABLE", 0, 0>>} ELSE {})
  \cup CheckCopy(d[k \div 2], sb, "TERTIARY_STALE", "TERTIARY_UNREADABLE")
  \cup CheckCopy(d[k - 1], sb, "SECONDARY_STALE", "SECONDARY_UNREADABLE")

CheckBitmaps(S, I, sb) ==
  (IF sb.bbmCrc \notin {{}, Crc(S)} THEN {<<"BBM.CRC", 0, 0>>} ELSE {})
  \cup (IF sb.ibmCrc \notin {{}, Crc(I)} THEN {<<"IBM.CRC", 0, 0>>} ELSE {})
  \cup (IF sb.free # DataBlocks(sb) - UsedData(S, sb) THEN {<<"FREE_BLOCKS", 0, 0>>} ELSE {})
  \cup (IF sb.freeInodes # InodeCount - Cardinality(I) THEN {<<"FREE_INODES", 0, 0>>} ELSE {})

CheckBlock(b, s, S, sb, outside, unset) ==
  IF ~IsDataBlock(sb, b) THEN {<<outside, s, b>>} ELSE IF b \notin S THEN {<<unset, s, b>>} ELSE {}

\* Fault: a record that does not decode is skipped without an issue.
CheckInodeLax(rec, s, S, sb) ==
  IF rec.kind = "bad" THEN {}
  ELSE IF rec.kind = "unused" THEN {<<"UNUSED_BUT_BITMAP_SET", s, 0>>}
  ELSE (IF rec.attr = 0 THEN {} ELSE CheckBlock(rec.attr, s, S, sb, "ATTR_OUT_OF_RANGE", "ATTR_UNALLOCATED"))
       \cup UNION {CheckBlock(b, s, S, sb, "EXTENT_OUT_OF_RANGE", "EXTENT_UNALLOCATED") : b \in BlocksOf(rec.ext)}

CheckInode(rec, s, S, sb) ==
  IF rec.kind = "bad" THEN {<<"INODE.DECODE", s, 0>>}
  ELSE IF rec.kind = "unused" THEN {<<"UNUSED_BUT_BITMAP_SET", s, 0>>}
  ELSE (IF rec.attr = 0 THEN {} ELSE CheckBlock(rec.attr, s, S, sb, "ATTR_OUT_OF_RANGE", "ATTR_UNALLOCATED"))
       \cup UNION {CheckBlock(b, s, S, sb, "EXTENT_OUT_OF_RANGE", "EXTENT_UNALLOCATED") : b \in BlocksOf(rec.ext)}

Owned(rec) == IF rec.kind = "bad" THEN {} ELSE BlocksOf(rec.ext) \cup ({rec.attr} \ {0})

CheckOwners(d, I) ==
  {<<"DOUBLE_ALLOCATED", 0, b>> : b \in {b \in DOMAIN d : \E s, t \in I : s # t /\ b \in Owned(Record(d, s)) \cap Owned(Record(d, t))}}

CheckJournal(d) == IF d[JournalHeader] = <<"journal">> THEN {} ELSE {<<"JOURNAL.HEADER", 0, 0>>}

CheckWith(d, k, sb, S, I) ==
  CheckSuperblocks(d, k, sb) \cup CheckBitmaps(S, I, sb) \cup UNION {CheckInode(Record(d, s), s, S, sb) : s \in I}
  \cup CheckOwners(d, I) \cup CheckJournal(d)

Check(d, k) ==
  LET sbs == ReadSb(d, k)
  IN  IF sbs = {} THEN {<<"PRIMARY_UNREADABLE", 0, 0>>, <<"ALL_UNREADABLE", 0, 0>>}
      ELSE CheckWith(d, k, CHOOSE sb \in sbs : TRUE, Bits(d, Bbm), Bits(d, Ibm))

Copies == {"TERTIARY_STALE", "TERTIARY_UNREADABLE", "SECONDARY_STALE", "SECONDARY_UNREADABLE"}
Warnings == Copies \cup {"FREE_BLOCKS", "FREE_INODES", "JOURNAL.HEADER"}
Errors(issues) == {i \in issues : i[1] \notin Warnings}

-----------------------------------------------------------------------------
(* The repair: the bitmaps as they are, plus what the inodes say they own.   *)
Fixable == Copies \cup {"BBM.CRC", "IBM.CRC", "FREE_BLOCKS", "FREE_INODES", "UNUSED_BUT_BITMAP_SET",
                        "EXTENT_UNALLOCATED", "ATTR_UNALLOCATED"}

HasIssue(issues, code) == \E i \in issues : i[1] = code

PatchBlockBitmap(S, sb, issues) ==
  S \cup {i[3] : i \in {x \in issues : x[1] \in {"EXTENT_UNALLOCATED", "ATTR_UNALLOCATED"} /\ IsDataBlock(sb, x[3])}}

\* Fault: the slot of an attribute block that is not marked is given up too.
PatchInodeBitmapWide(I, issues) ==
  I \ {i[2] : i \in {x \in issues : x[1] \in {"UNUSED_BUT_BITMAP_SET", "ATTR_UNALLOCATED"}}}

PatchInodeBitmap(I, issues) == I \ {i[2] : i \in {x \in issues : x[1] = "UNUSED_BUT_BITMAP_SET"}}

PatchSuperblock(sb, issues, S, I, touchedS, touchedI) ==
  LET has(code) == HasIssue(issues, code)
  IN  [sb EXCEPT !.gen = @ + 1,
         !.bbmCrc = IF has("BBM.CRC") \/ touchedS THEN Crc(S) ELSE @,
         !.ibmCrc = IF has("IBM.CRC") \/ touchedI THEN Crc(I) ELSE @,
         !.free = IF has("FREE_BLOCKS") \/ touchedS THEN DataBlocks(sb) - UsedData(S, sb) ELSE @,
         !.freeInodes = IF has("FREE_INODES") \/ touchedI THEN InodeCount - Cardinality(I) ELSE @]

StageBitmapWrites(S, I, touchedS, touchedI) ==
  (IF touchedS THEN <<<<Bbm, <<"bits", S>>>>>> ELSE <<>>) \o (IF touchedI THEN <<<<Ibm, <<"bits", I>>>>>> ELSE <<>>)

\* Fault: the generation is bumped and only the primary rewritten.
RepairedPrimary(d, sb, issues, S, I) ==
  LET touchedS == S # Bits(d, Bbm)
      touchedI == I # Bits(d, Ibm)
  IN  IF \A i \in issues : i[1] \notin Fixable THEN d
      ELSE Apply(d, StageBitmapWrites(S, I, touchedS, touchedI)
                    \o <<Head(Superblocks(PatchSuperblock(sb, issues, S, I, touchedS, touchedI)))>>)

\* All three superblock copies are rewritten whenever anything is fixed.
RepairedWith(d, sb, issues, S, I) ==
  LET touchedS == S # Bits(d, Bbm)
      touchedI == I # Bits(d, Ibm)
  IN  IF \A i \in issues : i[1] \notin Fixable THEN d
      ELSE Apply(d, StageBitmapWrites(S, I, touchedS, touchedI)
                    \o Superblocks(PatchSuperblock(sb, issues, S, I, touchedS, touchedI)))

Repaired(d, sb, issues) ==
  RepairedWith(d, sb, issues, PatchBlockBitmap(Bits(d, Bbm), sb, issues), PatchInodeBitmap(Bits(d, Ibm), issues))

\* Fault: only the first block of a file is looked at.
ScrubFirstBlock(d) ==
  {Record(d, s).id : s \in {s \in UserSlots(d) : Record(d, s).ext # <<>> /\ d[Record(d, s).ext[1]][1] # "data"}}

\* The data pass of a scrub: the files whose contents fail their checksum.
ScrubData(d) ==
  LET fails(rec) == rec.ext # <<>> /\ Cells(d, rec.ext) # DataCells(rec.id, rec.crc[1], rec.crc[2])
  IN  {Record(d, s).id : s \in {x \in UserSlots(d) : fails(Record(d, x))}}

-----------------------------------------------------------------------------
(* The calls.                                                                *)
Init ==
  /\ disk = FormatDevice /\ cap = FormatBlocks /\ size = FormatBlocks
  /\ saved = [mode |-> "none", payload |-> <<0, 0>>, files |-> <<>>] /\ trying = saved
  /\ hurt = {} /\ torn = "no" /\ fixed = FALSE
  /\ saves = 0 /\ repairs = 0 /\ faults = 0

Hits(kinds) == {h \in hurt : h[1] \in kinds}

Blob(v, n) == [mode |-> "blob", payload |-> <<v, n>>, files |-> <<>>]

\* A payload that reaches the middle of the volume is overwritten by the copy
\* of the superblock there.
FitsBelowCopy(sb, n) == n <= DataBlocks(sb) /\ ("large_payload" \in Avoid => DataStart + n <= sb.tertiary)

SaveState ==
  \E sb \in ReadSb(disk, cap), n \in 1 .. MaxLen :
    /\ saves < MaxSaves /\ FitsBelowCopy(sb, n)
    /\ disk' = Apply(disk, SaveStateWrites(disk, sb, saves + 1, n))
    /\ saved' = Blob(saves + 1, n) /\ trying' = saved'
    /\ hurt' = Hits({"journal"}) /\ torn' = "no" /\ fixed' = FALSE /\ saves' = saves + 1
    /\ UNCHANGED <<cap, size, repairs, faults>>

\* A power loss before the sync at the end of save_state.
SaveStateCut ==
  \E sb \in ReadSb(disk, cap), n \in 1 .. MaxLen :
    /\ saves < MaxSaves /\ faults < MaxFaults /\ sb.mode = "blob" /\ FitsBelowCopy(sb, n)
    /\ \E ws \in {SaveStateWrites(disk, sb, saves + 1, n)} :
         \E landed \in SUBSET DOMAIN ws : disk' = ApplySome(disk, ws, landed)
    /\ trying' = Blob(saves + 1, n) /\ torn' = "save" /\ fixed' = FALSE
    /\ saves' = saves + 1 /\ faults' = faults + 1
    /\ UNCHANGED <<cap, size, saved, hurt, repairs>>

\* The records a mount has in memory.
Records(d) == [id \in {Record(d, s).id : s \in UserSlots(d)} |->
                 LET rec == Record(d, CHOOSE s \in UserSlots(d) : Record(d, s).id = id) IN [ext |-> rec.ext, crc |-> rec.crc]]

\* Where the caller's block store puts new contents: at either end of the
\* blocks free in S. It reuses the blocks a file gives up at the next save.
Places(S, total, n) ==
  LET runs == FreeRuns(S, total, DataStart, n)
  IN  IF n = 0 \/ runs = {} THEN {<<>>} ELSE {Run(Min(runs), n), Run(Max(runs), n)}

Disjoint(ext) == \A i, j \in DOMAIN ext : i # j => BlocksOf(ext[i]) \cap BlocksOf(ext[j]) = {}

WithData(d, ids, ext, v) ==
  Apply(d, FlattenSeq([i \in DOMAIN ids |->
             [j \in DOMAIN ext[i] |-> <<ext[i][j], DataCells(ids[i], v, Len(ext[i]))[j]>>]]))

\* The caller has changed or created the inodes ids, giving each contents of
\* version v in the blocks ext, and removed the inodes gone.
Changed(old, ids, ext, gone, v) ==
  [id \in (DOMAIN old \ ToSet(gone)) \cup ToSet(ids) |->
     IF id \notin ToSet(ids) THEN old[id]
     ELSE LET e == ext[CHOOSE i \in DOMAIN ids : ids[i] = id]
          IN  [ext |-> e, crc |-> IF e = <<>> THEN <<>> ELSE <<v, Len(e)>>]]

Orders == {<<>>} \cup {<<x>> : x \in Files} \cup {<<x, y>> : x, y \in Files}

\* Blocks the caller may not use: taken ones, and those of files that this
\* very save moves or removes.
Taken(S, old, given) == IF "handed_on" \in Avoid THEN S ELSE S \ UNION {BlocksOf(old[id].ext) : id \in given \cap DOMAIN old}

Pinned(sb) == {sb.tertiary, sb.secondary} \subseteq Bits(disk, Bbm)

\* A native save after one that failed half-way trusts bitmaps that miss what
\* that one wrote.
HalfSaved == torn = "native" \/ Hits({"half"}) # {}

MaySave(sb, ids, gone) ==
  /\ sb.mode = "native" => /\ LoadNative(disk, cap) # {} /\ ToSet(gone) \subseteq DOMAIN Records(disk)
                           /\ "half_saved" \in Avoid => ~HalfSaved
  /\ sb.mode # "native" => gone = <<>> /\ ("converted" \in Avoid => Record(disk, 0).ext = <<>>)
  /\ "unpinned" \in Avoid => Pinned(sb)

\* The whole state the caller saves, and the device with the new contents.
Requests(sb, ids, gone, lens) ==
  LET old == IF sb.mode = "native" THEN Records(disk) ELSE <<>>
      at(n) == Places(Taken(Bits(disk, Bbm), old, ToSet(ids) \cup ToSet(gone)), sb.total, n)
      chosen == {e \in [DOMAIN ids -> UNION {at(n) : n \in Lens}] : Disjoint(e) /\ \A i \in DOMAIN ids : Len(e[i]) = lens[ids[i]]}
  IN  {[files |-> Changed(old, ids, e, gone, saves + 1), d |-> WithData(disk, ids, e, saves + 1)] : e \in chosen}

NativeWork(sb, r, ids, gone, hint) ==
  IF sb.mode = "native" THEN SaveDirty(r.d, sb, r.files, ids, gone, hint, saves + 1)
  ELSE SaveFull(r.d, sb, r.files, ids, saves + 1)

Saved(files) ==
  [mode |-> "native", payload |-> <<0, 0>>,
   files |-> [id \in DOMAIN files |-> IF files[id].ext = <<>> THEN <<>> ELSE DataCells(id, files[id].crc[1], files[id].crc[2])]]

NativeSave(sb, ids, gone, lens, hint) ==
  /\ MaySave(sb, ids, gone)
  /\ \E r \in Requests(sb, ids, gone, lens) : \E w \in {NativeWork(sb, r, ids, gone, hint)} :
       w.ok /\ disk' = Apply(r.d, Flushes(w, sb)) /\ saved' = Saved(r.files)
  /\ hurt' = {h \in hurt : \/ h[1] = "journal"
                           \/ h[1] \in {"data", "half"} /\ h[2] \notin ToSet(ids) \cup ToSet(gone)
                           \/ h = <<"slot", 0>> /\ Record(disk, 0) = Bad}
  /\ trying' = saved' /\ torn' = "no" /\ fixed' = FALSE /\ saves' = saves + 1
  /\ UNCHANGED <<cap, size, repairs, faults>>

\* The ancillary state, when its block is written and its record is not.
Unrecorded(ws, k) == IF k > 0 /\ ws[k][2][1] = "anc" THEN {0} ELSE {}

\* No block or no slot is left, or the device refuses a write or the sync: the
\* call returns, and what it wrote so far stays.
NativeSaveFails(sb, ids, gone, lens) ==
  /\ MaySave(sb, ids, gone) /\ faults < MaxFaults
  /\ \E r \in Requests(sb, ids, gone, lens) : \E ws \in {Flushes(NativeWork(sb, r, ids, gone, 0), sb)} :
     \E k \in 0 .. Len(ws) :
       /\ disk' = Apply(r.d, SubSeq(ws, 1, k))
       /\ hurt' = hurt \cup {<<"half", id>> : id \in ToSet(ids) \cup ToSet(gone) \cup Unrecorded(ws, k)}
  /\ torn' = "native" /\ fixed' = FALSE /\ saves' = saves + 1 /\ faults' = faults + 1
  /\ UNCHANGED <<cap, size, saved, trying, repairs>>

Batches(ids, gone, lens) ==
  IsInjective(ids \o gone) /\ ids \o gone # <<>> /\ \A id \in Files \ ToSet(ids) : lens[id] = 0

SaveNative ==
  /\ saves < MaxSaves
  /\ \E sb \in ReadSb(disk, cap), ids \in Orders, gone \in Orders, lens \in [Files -> Lens], hint \in {0} \cup (FirstUser .. (InodeCount - 1)) :
       Batches(ids, gone, lens) /\ NativeSave(sb, ids, gone, lens, hint)

SaveNativeFails ==
  /\ saves < MaxSaves
  /\ \E sb \in ReadSb(disk, cap), ids \in Orders, gone \in Orders, lens \in [Files -> Lens] :
       Batches(ids, gone, lens) /\ NativeSaveFails(sb, ids, gone, lens)

\* The device is replaced by or resized to a larger one.
Enlarge ==
  \E k \in Sizes :
    /\ k > cap /\ cap' = k
    /\ disk' = [b \in 0 .. (k - 1) |-> IF b < cap THEN disk[b] ELSE <<"zero">>]
    /\ fixed' = FALSE
    /\ UNCHANGED <<size, saved, trying, hurt, torn, saves, repairs, faults>>

MayGrow(sb, total) ==
  /\ sb.total < total /\ total <= cap /\ total <= BitsPerBlock
  /\ "occupied_middle" \in Avoid => total \div 2 \notin Bits(disk, Bbm)
  /\ "damaged_grow" \in Avoid => VerifyBitmapIntegrity(disk, sb)
  /\ "half_saved" \in Avoid => torn # "native"

GrowDevice ==
  \E sb \in ReadSb(disk, cap), total \in Sizes :
    /\ MayGrow(sb, total)
    /\ disk' = Apply(disk, GrowWrites(disk, sb, total))
    /\ size' = total /\ hurt' = hurt \ Hits({"super", "bbm"}) /\ fixed' = FALSE
    /\ UNCHANGED <<cap, saved, trying, torn, saves, repairs, faults>>

GrowDeviceCut ==
  \E sb \in ReadSb(disk, cap), total \in Sizes :
    /\ MayGrow(sb, total) /\ faults < MaxFaults /\ torn = "no"
    /\ \E ws \in {GrowWrites(disk, sb, total)} :
         \E landed \in SUBSET DOMAIN ws : disk' = ApplySome(disk, ws, landed)
    /\ torn' = "grow" /\ fixed' = FALSE /\ faults' = faults + 1
    /\ UNCHANGED <<cap, size, saved, trying, hurt, saves, repairs>>

\* The check and the repair of what it found; with the header of the journal
\* gone the transaction cannot be opened.
RepairVolume ==
  /\ repairs < MaxRepairs
  /\ \E sb \in ReadSb(disk, cap), issues \in {Check(disk, cap)} :
       /\ issues # {} /\ CheckJournal(disk) = {}
       /\ disk' = Repaired(disk, sb, issues) /\ size' = sb.total
  /\ hurt' = Hits({"data", "attr", "slot", "half"}) \cup {h \in Hits({"super"}) : DecodeBlock(disk'[h[2]]) = {}}
  /\ torn' = (IF torn \in {"grow", "native"} THEN "no" ELSE torn) /\ fixed' = TRUE /\ repairs' = repairs + 1
  /\ UNCHANGED <<cap, saved, trying, saves, faults>>

\* What the medium may damage: a superblock copy, a bit of a bitmap, an inode
\* record, a block of contents or attributes, the header of the journal.
FlipsSlot(s) == "inode_bits" \in Avoid => (s < FirstUser /\ s \in Bits(disk, Ibm)) \/ Record(disk, s) = Unused

Flip(S, x) == IF x \in S THEN S \ {x} ELSE S \cup {x}

InUse(s) == s \in Bits(disk, Ibm) /\ Record(disk, s).kind \in {"system", "file"}

Damages(sb) ==
  LET S == Bits(disk, Bbm)
      used == {s \in Slots : InUse(s)}
      id(s) == Record(disk, s).id
      bad(b) == [disk EXCEPT ![b] = <<"bad">>]
      bits(b, x) == [disk EXCEPT ![b] = <<"bits", Flip(@[2], x)>>]
  IN  {<<"super", b, bad(b)>> : b \in {x \in {Primary, sb.tertiary, sb.secondary} : DecodeBlock(disk[x]) # {}}}
      \cup {<<"bbm", b, bits(Bbm, b)>> : b \in {x \in DataStart .. (sb.total - 1) : x \in S \/ x = Min((0 .. sb.total) \ S)}}
      \cup {<<"ibm", s, bits(Ibm, s)>> : s \in {x \in Slots : FlipsSlot(x)}}
      \cup {<<"slot", id(s), WithRecord(disk, s, Bad)>> : s \in used}
      \cup {<<"data", id(s), bad(Record(disk, s).ext[Len(Record(disk, s).ext)])>> : s \in {x \in used : Record(disk, x).ext # <<>>}}
      \cup {<<"attr", id(s), bad(Record(disk, s).attr)>> : s \in {x \in used : Record(disk, x).attr # 0}}
      \cup {<<"journal", 0, bad(JournalHeader)>>}

Damage ==
  /\ faults < MaxFaults
  /\ \E sb \in ReadSb(disk, cap) : \E x \in Damages(sb) :
       disk' = x[3] /\ hurt' = hurt \cup {<<x[1], x[2]>>}
  /\ fixed' = FALSE /\ faults' = faults + 1
  /\ UNCHANGED <<cap, size, saved, trying, torn, saves, repairs>>

Next ==
  \/ SaveState \/ SaveStateCut \/ SaveNative \/ SaveNativeFails \/ Enlarge \/ GrowDevice \/ GrowDeviceCut
  \/ RepairVolume \/ Damage

Spec == Init /\ [][Next]_vars

-----------------------------------------------------------------------------
(* Properties.                                                               *)

\* The device has a cell for every block, the control blocks hold what was
\* encoded for them or damage, and no copy of the superblock counts more free
\* blocks than its volume has.
TypeOK ==
  /\ DOMAIN disk = 0 .. (cap - 1)
  /\ disk[Bbm][1] = "bits" /\ disk[Ibm][1] = "bits" /\ disk[Table][1] = "table"
  /\ Bits(disk, Bbm) \subseteq 0 .. (cap - 1) /\ Bits(disk, Ibm) \subseteq Slots
  /\ \A b \in DOMAIN disk : \A sb \in DecodeBlock(disk[b]) : sb.total <= cap /\ sb.free <= DataBlocks(sb)

Catalog == {<<id, saved.files[id]>> : id \in DOMAIN saved.files}

\* What the last save wrote is what a load returns, blob or native, whatever
\* was grown or repaired since and whichever copies of the superblock are
\* damaged, one copy excepted. (On a device larger than its volume the reader
\* looks for the copies in the wrong places.)
SavedLoads ==
  torn = "no" /\ hurt = Hits({"super", "journal"}) /\ Cardinality(Hits({"super"})) < 3
  /\ (<<"super", Primary>> \in hurt => cap = size) =>
    /\ saved.mode = "blob" => LoadState(disk, cap) = {saved.payload}
    /\ saved.mode = "native" => LoadNative(disk, cap) = {Catalog}

\* A blob save cut short by a power loss leaves the old payload, the new one,
\* or a volume that load_state refuses: never a mixture, repaired or not.
TornIsWhole ==
  torn = "save" => LoadState(disk, cap) \subseteq {saved.payload, trying.payload}

Lost == {h[2] : h \in Hits({"data", "attr", "slot", "half"})}

\* After a repair, also of a volume whose growing was cut short, or on which a
\* native save failed after any of its writes, every file whose own blocks are
\* undamaged and that the failed save was not about loads with its contents,
\* and no file appears that was neither saved nor in that save. (A save that
\* failed between the block of the ancillary state and its record may leave
\* nothing to load: 0 is lost then.)
RepairRestores ==
  fixed /\ torn = "no" /\ 0 \notin Lost =>
    /\ saved.mode = "blob" => LoadState(disk, cap) = {saved.payload}
    /\ saved.mode = "native" =>
         \E found \in LoadNativeLossy(disk, cap) :
           /\ {t[1] : t \in found} \subseteq DOMAIN saved.files \cup Lost
           /\ {t \in found : t[1] \notin Lost} = {t \in Catalog : t[1] \notin Lost}

\* A repair leaves nothing it could fix: the next check does not ask for the
\* same repair again. (On a device larger than its volume the check looks for
\* the copies in the wrong places.)
RepairConverges ==
  fixed => \A sb \in ReadSb(disk, cap) : sb.total = cap => \A i \in Check(disk, cap) : i[1] \notin Fixable

\* A scrub of a volume that mounts blames exactly the damaged files.
ScrubBlames ==
  torn = "no" /\ Hits({"half"}) = {} /\ LoadNative(disk, cap) # {} => ScrubData(disk) = {h[2] : h \in Hits({"data"})}

\* The check finds no error on a volume that only completed calls have touched,
\* something on every volume whose structure is damaged, and nothing left to
\* fix after a repair; the scrub blames the damaged files and no others.
CheckTells ==
  /\ torn = "no" /\ hurt = {} => Errors(Check(disk, cap)) = {}
  /\ torn = "no" /\ saved.mode # "none" /\ Hits({"bbm", "ibm", "slot", "journal"}) # {} => Check(disk, cap) # {}
  /\ RepairConverges /\ ScrubBlames
=============================================================================
