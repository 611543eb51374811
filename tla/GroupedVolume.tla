--------------------------- MODULE GroupedVolume ---------------------------
(* An ODF volume whose data region is cut into block groups, each with its   *)
(* own bitmap: formatting, the full save through the allocator that prefers  *)
(* the group of an inode, and the load. Cells are tagged tuples as in        *)
(* OdfVolume; inode bitmap and inode table are one block each.               *)
EXTENDS Naturals, FiniteSets, FiniteSetsExt, Functions, Sequences, SequencesExt

CONSTANTS
  Total,            \* blocks of the device
  GroupCount, InodeCount, JournalBlocks,
  FirstUser,        \* FIRST_USER_INODE_SLOT
  Files, Root,      \* domain inode ids: files, and a directory without contents
  AncSizes,         \* blocks the ancillary state may have
  Avoid,            \* names of the sequences this instance leaves out
  MaxSaves,         \* bound: saves
  MaxFaults         \* bound: damaged blocks

VARIABLES
  disk,             \* what the device holds
  saved,            \* what the last complete save held: id, deleted, contents
  records,          \* the caller's extents: inode id to its block, if any
  broken,           \* the last save ended with an error
  hurt,             \* kinds of blocks damaged since the last save
  saves, faults

vars == <<disk, saved, records, broken, hurt, saves, faults>>

Primary == 1
GroupTable == 2     \* BLOCK_GROUP_TABLE_BLOCK
Ancillary == 1      \* ANCILLARY_INODE_SLOT
InodeBitmap == GroupTable + 1
InodeTable == InodeBitmap + 1
Journal == InodeTable + 1
DataRegion == Journal + JournalBlocks
PerGroup == (Total - (DataRegion + 2)) \div GroupCount
Copies == {Total \div 2, Total - 1}

Groups == 0 .. (GroupCount - 1)
Slots == 0 .. (InodeCount - 1)
BitmapBlock(g) == DataRegion + g * PerGroup
GroupData(g) == (BitmapBlock(g) + 1) .. (BitmapBlock(g) + PerGroup - 1)

\* What format_device_grouped checks, and that no group starts where a copy of
\* the superblock lies.
ASSUME GroupsFit ==
  /\ {Total, InodeCount, JournalBlocks} \subseteq Nat /\ GroupCount \in Nat \ {0}
  /\ PerGroup >= 4 /\ DataRegion + 2 < Total
  /\ FirstUser \in Nat /\ Ancillary < FirstUser /\ FirstUser <= InodeCount
  /\ \A g \in Groups : BitmapBlock(g) \notin Copies

ASSUME FilesAndBounds ==
  /\ IsFiniteSet(Files) /\ Root \notin Files
  /\ AncSizes \subseteq Nat \ {0} /\ {MaxSaves, MaxFaults} \subseteq Nat

InodesPerGroup == (InodeCount - FirstUser) \div GroupCount

\* The slots at home in a group; the last group takes the remainder.
InodeRange(g) ==
  LET first == FirstUser + g * InodesPerGroup
  IN  first .. (IF g + 1 = GroupCount THEN InodeCount - 1 ELSE first + InodesPerGroup - 1)

GroupForInode(s) == {g \in Groups : s \in InodeRange(g)}

Unused == [kind |-> "unused", id |-> 0, ext |-> <<>>, attr |-> 0, del |-> FALSE, crc |-> <<>>]

Super(gen, free, freeInodes) == <<"super", [gen |-> gen, free |-> free, freeInodes |-> freeInodes]>>

\* The device with the cell c in the blocks of S.
Put(d, S, c) == [b \in DOMAIN d |-> IF b \in S THEN c ELSE d[b]]

\* The device with the bitmap of every group written.
WithBitmaps(d, used) ==
  [b \in DOMAIN d |-> IF \E g \in Groups : b = BitmapBlock(g)
                      THEN <<"bits", used[CHOOSE g \in Groups : b = BitmapBlock(g)]>> ELSE d[b]]

ReadSb(d) ==
  LET copies == <<d[Primary], d[Total \div 2], d[Total - 1]>>
      ok == {i \in 1 .. 3 : copies[i][1] = "super"}
  IN  IF ok = {} THEN {} ELSE {copies[Min(ok)][2]}

Descriptors(free, crc) == <<"groups", [free |-> free, crc |-> crc]>>

FormatDeviceGrouped ==
  LET blank == [b \in 0 .. (Total - 1) |-> <<"zero">>]
      groups == Put(WithBitmaps(blank, [g \in Groups |-> {}]), {GroupTable},
                    Descriptors([g \in Groups |-> Cardinality(GroupData(g))], [g \in Groups |-> {}]))
      inodes == Put(Put(groups, {InodeBitmap}, <<"bits", {}>>), {InodeTable}, <<"table", [s \in Slots |-> Unused]>>)
  IN  Put(inodes, {Primary} \cup Copies, Super(1, 0, InodeCount))

-----------------------------------------------------------------------------
(* The allocator. w is the work of a save: the device, one set of used       *)
(* blocks for each group, the inode bitmap and its hint.                     *)
Run(start, n) == [i \in 1 .. n |-> start + i - 1]

\* The starts of free runs of n blocks in a group, of which the first is taken.
TryAllocateInGroup(used, g, n) ==
  {b \in GroupData(g) : \A x \in b .. (b + n - 1) : x \in GroupData(g) \ used}

\* Fault: the search starts at the first group for every inode.
RingFlat(home) == [i \in 1 .. GroupCount |-> i - 1]

\* The order in which the groups are tried.
Ring(home) == [i \in 1 .. GroupCount |-> (home + i - 1) % GroupCount]

\* A run of n blocks for the inode in slot s, empty when no group has one.
AllocateNear(used, n, s) ==
  LET home == IF GroupForInode(s) = {} THEN 0 ELSE Min(GroupForInode(s))
      fits == {i \in 1 .. GroupCount : TryAllocateInGroup(used[Ring(home)[i]], Ring(home)[i], n) # {}}
      g == Ring(home)[Min(fits)]
  IN  IF fits = {} THEN <<>> ELSE Run(Min(TryAllocateInGroup(used[g], g, n)), n)

Mark(used, ext) == [g \in Groups |-> used[g] \cup (GroupData(g) \cap ToSet(ext))]

\* The slots AllocateInode may give out, of which the first is taken.
FreeSlots(w) == (w.hint .. (InodeCount - 1)) \ w.ib

\* Fault: the free blocks of a group are not counted anew.
RefreshDescriptorsCrc(used) ==
  Descriptors([g \in Groups |-> Cardinality(GroupData(g))], used)

RefreshDescriptors(used) ==
  Descriptors([g \in Groups |-> Cardinality(GroupData(g)) - Cardinality(used[g])], used)

-----------------------------------------------------------------------------
(* The save.                                                                 *)
WithRecord(d, s, rec) == Put(d, {InodeTable}, <<"table", [d[InodeTable][2] EXCEPT ![s] = rec]>>)

\* The bitmaps a save starts from, whatever the device holds.
Work(d) ==
  [d |-> d, used |-> [g \in Groups |-> {}], ib |-> {0, Ancillary}, hint |-> FirstUser, ok |-> TRUE]

\* The save ends with an error; what was written stays.
Stopped(w) == [d |-> w.d, used |-> w.used, ib |-> w.ib, hint |-> w.hint, ok |-> FALSE]

WriteAncillary(w, n, v) ==
  LET ext == AllocateNear(w.used, n, Ancillary)
      rec == [kind |-> "system", id |-> 0, ext |-> ext, attr |-> 0, del |-> FALSE, crc |-> <<"anc", v, n>>]
  IN  IF ext = <<>> THEN Stopped(w)
      ELSE [d |-> WithRecord(Put(w.d, ToSet(ext), <<"anc", v, n>>), Ancillary, rec),
            used |-> Mark(w.used, ext), ib |-> w.ib, hint |-> w.hint, ok |-> TRUE]

\* A slot, an attribute block near it, and the record. The extents of the file
\* are stored as they are; no bit is set for them.
WriteUserInode(w, id, f, deleted) ==
  LET s == Min(FreeSlots(w))
      ext == AllocateNear(w.used, 1, s)
      rec == [kind |-> "file", id |-> id, ext |-> f.ext, attr |-> ext[1], del |-> deleted, crc |-> f.crc]
  IN  IF ~w.ok THEN w
      ELSE IF FreeSlots(w) = {} \/ ext = <<>> THEN Stopped(w)
      ELSE [d |-> WithRecord(Put(w.d, ToSet(ext), <<"attr", id>>), s, rec),
            used |-> Mark(w.used, ext), ib |-> w.ib \cup {s}, hint |-> s + 1, ok |-> TRUE]

\* The groups' bitmaps, the descriptors c, the inode bitmap and the superblocks.
Written(w, c, gen) ==
  LET maps == Put(Put(WithBitmaps(w.d, w.used), {GroupTable}, c), {InodeBitmap}, <<"bits", w.ib>>)
  IN  Put(maps, {Primary} \cup Copies, Super(gen, SumFunction(c[2].free), InodeCount - Cardinality(w.ib)))

\* Fault: the checksums of the descriptors are the ones the volume had.
FinishStale(w, gen) ==
  Written(w, Descriptors(RefreshDescriptors(w.used)[2].free, w.d[GroupTable][2].crc), gen)

Finish(w, gen) == Written(w, RefreshDescriptors(w.used), gen)

\* save_state_native_grouped: empty bitmaps, the ancillary state, then every
\* active and every deleted inode in a slot of its own. w[k] is the work once k
\* inodes are written.
SaveNativeGrouped(d, files, active, deleted, n, v) ==
  LET ids == active \o deleted
      w[k \in 0 .. Len(ids)] ==
        IF k = 0 THEN WriteAncillary(Work(d), n, v)
        ELSE WriteUserInode(w[k - 1], ids[k], files[ids[k]], k > Len(active))
  IN  w[Len(ids)]

-----------------------------------------------------------------------------
(* The load. The records it builds carry the checksums of the contents, and  *)
(* no reader of a record compares them: it hands out the bytes that are      *)
(* there (BlockStore::read_all and read_bytes, restore_bytes_from_odf_device).*)
Content(d, rec) == IF rec.ext = <<>> THEN <<"none">> ELSE d[rec.ext[1]]

Bits(d, b) == IF d[b][1] = "bits" THEN d[b][2] ELSE {}

BitmapsMatch(d) ==
  /\ d[GroupTable][1] = "groups"
  /\ \A g \in Groups : d[BitmapBlock(g)] = <<"bits", d[GroupTable][2].crc[g]>>

AncillaryReads(d) ==
  LET anc == d[InodeTable][2][Ancillary]
  IN  anc.kind = "system" /\ \A i \in DOMAIN anc.ext : d[anc.ext[i]] = anc.crc

\* Fault: the inode bitmap is not asked, the records of an earlier save count.
UserSlotsAll(d) == {s \in Slots : s >= FirstUser /\ d[InodeTable][2][s].kind # "unused"}

UserSlots(d) == {s \in Bits(d, InodeBitmap) : s >= FirstUser /\ d[InodeTable][2][s].kind # "unused"}

\* The inodes a load returns. The id is the one in the attribute block.
LoadNativeGrouped(d) ==
  LET rec == d[InodeTable][2]
  IN  {{<<d[rec[s].attr][2], rec[s].del, Content(d, rec[s])>> : s \in UserSlots(d)} :
         sb \in {x \in ReadSb(d) : /\ BitmapsMatch(d) /\ AncillaryReads(d)
                                   /\ \A s \in UserSlots(d) : d[rec[s].attr][1] = "attr"}}

-----------------------------------------------------------------------------
(* The calls.                                                                *)
Init ==
  /\ disk = FormatDeviceGrouped /\ saved = {} /\ records = <<>>
  /\ broken = TRUE /\ hurt = {} /\ saves = 0 /\ faults = 0

Orders == {o \in UNION {[1 .. n -> Files] : n \in 0 .. Cardinality(Files)} : IsInjective(o)}

\* The caller's block store puts new contents in the last block of a group that
\* none of its files has.
Places(old) ==
  LET taken == UNION {ToSet(old[id].ext) : id \in DOMAIN old}
      free(g) == GroupData(g) \ (taken \cup Copies)
  IN  {<<>>} \cup {<<Max(free(g))>> : g \in {x \in Groups : free(x) # {}}}

Changed(old, ids, ext, v) ==
  [id \in ids |-> IF ext[id] = <<0>> THEN old[id]
                  ELSE [ext |-> ext[id], crc |-> IF ext[id] = <<>> THEN <<"none">> ELSE <<"data", id, v>>]]

\* The device after the block store wrote the contents it gave checksum v.
WithData(d, files, v) ==
  LET Owner(b) == {id \in DOMAIN files : files[id].ext = <<b>> /\ files[id].crc = <<"data", id, v>>}
  IN  [b \in DOMAIN d |-> IF Owner(b) = {} THEN d[b] ELSE <<"data", CHOOSE id \in Owner(b) : TRUE, v>>]

\* Blocks the allocator gave out that it should have known to be taken.
Overrun(w, files) ==
  LET given == UNION {w.used[g] : g \in Groups}
  IN  \/ "unmarked" \in Avoid /\ \E id \in DOMAIN files : ToSet(files[id].ext) \cap given # {}
      \/ "copy_reached" \in Avoid /\ given \cap Copies # {}

\* The caller keeps the contents of an inode (<<0>>), empties it (<<>>) or
\* gives it new ones, and saves.
SaveWith(active, deleted, n, ends) ==
  \E ids \in {ToSet(active) \cup ToSet(deleted)} :
  \E ext \in {e \in [ids -> Places(records) \cup {<<0>>}] :
                (Root \in ids => e[Root] = <<>>) /\ (\A i, j \in ids : i # j /\ e[i] \notin {<<>>, <<0>>} => e[i] # e[j]) /\ \A i \in ids \ DOMAIN records : e[i] # <<0>>} :
  \E files \in {Changed(records, ids, ext, saves + 1)} :
  \E w \in {SaveNativeGrouped(WithData(disk, files, saves + 1), files, active, deleted, n, saves + 1)} :
  \E sb \in ReadSb(disk) :
    /\ disk[GroupTable][1] = "groups" /\ w.ok = ends /\ ~Overrun(w, files)
    /\ disk' = IF w.ok THEN Finish(w, sb.gen + 1) ELSE w.d
    /\ records' = files
    /\ saved' = {<<id, id \in ToSet(deleted), files[id].crc>> : id \in ids}

Save ==
  /\ saves < MaxSaves
  /\ \E active, deleted \in Orders, dirs \in {<<>>, <<Root>>}, n \in AncSizes :
       IsInjective(active \o deleted) /\ SaveWith(dirs \o active, deleted, n, TRUE)
  /\ broken' = FALSE /\ hurt' = hurt \cap {"data"} /\ saves' = saves + 1
  /\ UNCHANGED faults

\* No slot or no block is left: what was written so far stays.
SaveFails ==
  /\ saves < MaxSaves
  /\ \E active, deleted \in Orders, dirs \in {<<>>, <<Root>>}, n \in AncSizes :
       IsInjective(active \o deleted) /\ SaveWith(dirs \o active, deleted, n, FALSE)
  /\ broken' = TRUE /\ saves' = saves + 1
  /\ UNCHANGED <<hurt, faults>>

Kind(b) ==
  IF b \in Copies \cup {Primary} THEN "copy"
  ELSE IF b = GroupTable \/ b \in {BitmapBlock(g) : g \in Groups} THEN "bitmap" ELSE disk[b][1]

Damage ==
  /\ faults < MaxFaults /\ ~broken
  /\ \E b \in {x \in DOMAIN disk : disk[x][1] \notin {"zero", "table"} /\ x # InodeBitmap} :
       disk' = [disk EXCEPT ![b] = <<"junk">>] /\ hurt' = hurt \cup {Kind(b)}
  /\ faults' = faults + 1
  /\ UNCHANGED <<saved, records, broken, saves>>

Next == Save \/ SaveFails \/ Damage

Spec == Init /\ [][Next]_vars

-----------------------------------------------------------------------------
(* Properties.                                                               *)

\* The bits of every group stand for data blocks of that group, and the
\* control blocks hold what was encoded for them or damage.
TypeOK ==
  /\ DOMAIN disk = 0 .. (Total - 1)
  /\ \A g \in Groups : disk[BitmapBlock(g)][1] \in {"bits", "junk"} /\ Bits(disk, BitmapBlock(g)) \subseteq GroupData(g)
  /\ disk[GroupTable][1] \in {"groups", "junk"} /\ disk[InodeTable][1] = "table"
  /\ Bits(disk, InodeBitmap) \subseteq Slots

\* A save that returned is what a load returns, with every file's contents,
\* also when a copy of the superblock is damaged, and whatever an earlier save
\* that failed half-way had left on the disk.
SavedLoads == ~broken /\ hurt \subseteq {"copy"} => LoadNativeGrouped(disk) = {saved}

\* An attribute block outside the group its inode is at home in means that the
\* group is full.
HomeFirst ==
  \A s \in UserSlots(disk), g \in Groups :
    s \in InodeRange(g) /\ disk[InodeTable][2][s].attr \notin GroupData(g) => Bits(disk, BitmapBlock(g)) = GroupData(g)

\* The bitmaps mark exactly the attribute and ancillary blocks, none of them
\* held by two inodes, the counts of the descriptors and of the superblock agree
\* with them, and an inode's block leaves its group only when that is full.
Accounted ==
  ~broken /\ hurt = {} =>
    LET rec == disk[InodeTable][2]
        slots == UserSlots(disk)
        marked == UNION {Bits(disk, BitmapBlock(g)) : g \in Groups}
        counts == disk[GroupTable][2].free
    IN  /\ marked = ToSet(rec[Ancillary].ext) \cup {rec[s].attr : s \in slots}
        /\ Cardinality(marked) = Len(rec[Ancillary].ext) + Cardinality(slots)
        /\ \A g \in Groups : counts[g] + Cardinality(Bits(disk, BitmapBlock(g))) = Cardinality(GroupData(g))
        /\ \A sb \in ReadSb(disk) : sb.free = SumFunction(counts)
        /\ HomeFirst

\* Damage to any block but the inode bitmap and table is refused at load, or
\* stays within the contents of a file whose own block it hit: a volume that
\* loads has exactly the inodes that were saved, each active or deleted as it
\* was, and none hands out another inode's contents or a block of the volume's
\* own. (That the bytes of a hit block are handed out at all is BitRotRefused.)
DamageConfined ==
  ~broken =>
    \A found \in LoadNativeGrouped(disk) :
      /\ {<<t[1], t[2]>> : t \in found} = {<<u[1], u[2]>> : u \in saved}
      /\ \A t \in found \ saved : t[3] = <<"junk">> /\ "data" \in hurt

\* What doc/integrity-recovery.md says of bit rot in the extent of a file: a
\* read ends with an integrity error and hands nothing out.
BitRotRefused == \A found \in LoadNativeGrouped(disk) : \A t \in found : t[3] # <<"junk">>

=============================================================================
