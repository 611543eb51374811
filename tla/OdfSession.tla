------------------------------ MODULE OdfSession ------------------------------
(***************************************************************************)
(* A mounted ODF volume in native layout and how it is persisted:          *)
(*   src/storage/ondisk/session.rs               open, flush, extent cache *)
(*   corefs-core/src/storage/ondisk/native.rs    incremental save, load    *)
(*   corefs-core/src/storage/ondisk/allocator.rs block and slot allocator  *)
(*   corefs-core/src/storage/ondisk/volume.rs    superblock copies, CRCs   *)
(*   src/platform/linux_fuse.rs                  open_odf_session, persist *)
(*                                                                         *)
(* A flush is one call that issues a sequence of device writes and one     *)
(* sync at its end.  Nothing but an I/O error, a full volume or a power    *)
(* loss can be seen between two of its writes, so a flush is one action    *)
(* that computes the sequence; the faults then cut it short or let any     *)
(* part of it reach the medium.                                            *)
(*                                                                         *)
(* Abstractions.  A file's bytes are a model value that fills SizeOf[c]    *)
(* blocks; a CRC is the value it was computed from.  A block record has    *)
(* at most one extent, the only kind a session writes, so the extent index *)
(* chain is left out.  The ancillary blob fits one block and is named by   *)
(* the generation that wrote it.  Paths and permissions are one metadata   *)
(* value.  Journal recovery at open finds nothing: no persist opens a      *)
(* transaction.                                                            *)
(***************************************************************************)
EXTENDS Integers, FiniteSets, SequencesExt

CONSTANTS
    Ids,         \* domain inode ids, a range 1..n
    Contents,    \* bytes a file can hold, none of them empty
    SizeOf,      \* blocks each of them needs
    Empty,       \* no bytes
    NoRec,       \* no block record at all (a file reloaded with no extents)
    Metas,       \* path/permission values an inode can carry
    NBlocks,     \* blocks of the data region
    Reserved,    \* blocks of the data region under a superblock copy
    NSlots,      \* user inode slots
    Ops,         \* the service calls this workload makes
    Avoid,       \* what the workload steers clear of: "reappear", a file that
                 \* regains bytes it had before its blocks were given up;
                 \* "retry", a session that goes on after a failed flush
    MaxGen,      \* bound: superblock generation
    MaxOpen,     \* bound: times the volume is opened again
    MaxErr,      \* bound: flushes that fail
    MaxCrash     \* bound: power losses

ASSUME ConstAssumption ==
    /\ Ids = 1 .. Cardinality(Ids)
    /\ SizeOf \in [Contents -> 1 .. NBlocks]
    /\ {Empty, NoRec} \cap Contents = {}
    /\ Empty # NoRec
    /\ Reserved \subseteq 1 .. NBlocks
    /\ NSlots \in Nat \ {0}
    /\ Avoid \subseteq {"reappear", "retry"}
    /\ {MaxGen, MaxOpen, MaxErr, MaxCrash} \subseteq Nat

VARIABLES
    svc,     \* CoreFsService: catalog entry and stored bytes of every id
    cache,   \* odf_extents: what the session believes is on the device
    disk,    \* what the device returns when read
    dur,     \* what the device held after the last completed sync
    mode,    \* "up": a session is open; "lost": power was lost
    failed,  \* the last flush returned an error
    saved,   \* history: svc when the last flush or open returned Ok
    touched, \* history: ids a service call has changed since then
    opens, errs, crashes

vars == <<svc, cache, disk, dur, mode, failed, saved, touched,
          opens, errs, crashes>>

-----------------------------------------------------------------------------
(* The device: locations and what they hold *)

Blocks == 1 .. NBlocks
Slots == 1 .. NSlots
AncSlot == 0
SbCopies == 1 .. 3          \* primary, N/2, N-1 in the order they are read

Locs == {<<"blk", b>> : b \in Blocks}
        \cup {<<"ino", s>> : s \in Slots \cup {AncSlot}}
        \cup {<<"sb", i>> : i \in SbCopies}
        \cup {<<"bbm", 0>>, <<"ibm", 0>>}

Zero == [k |-> "zero"]
Torn == [k |-> "torn"]
Unused == [k |-> "unused"]
Bits(S) == [k |-> "bits", set |-> S]
DataBlk(c, i) == [k |-> "data", c |-> c, i |-> i]
AttrBlk(id, m) == [k |-> "attr", id |-> id, meta |-> m]
AncBlk(g) == [k |-> "anc", gen |-> g]
OnDiskInode(id, del, crc, ext, attr) ==
    [k |-> "ino", id |-> id, del |-> del, crc |-> crc, ext |-> ext, attr |-> attr]
Superblock(g, bb, ib) == [k |-> "sb", gen |-> g, bbm |-> bb, ibm |-> ib]

Extent(b, n) == [start |-> b, len |-> n]
NoExt == Extent(0, 0)
Run(e) == e.start .. e.start + e.len - 1

Write(l, v) == [loc |-> l, val |-> v]

\* The device contents d after the writes ws, the last one to a place winning.
Apply(d, ws) ==
    FoldLeft(LAMBDA acc, w : [acc EXCEPT ![w.loc] = w.val], d, ws)

Bbm(d) == d[<<"bbm", 0>>]
Ibm(d) == d[<<"ibm", 0>>]
Inode(d, s) == d[<<"ino", s>>]
Blk(d, b) == d[<<"blk", b>>]

\* The first copy that decodes, in the fixed order of SbCopies.
ReadableSbs(d) == {i \in SbCopies : d[<<"sb", i>>].k = "sb"}

ReadSb(d) == d[<<"sb", Min(ReadableSbs(d))>>]

-----------------------------------------------------------------------------
(* OndiskAllocator: two bitmaps and two scan hints, all in memory *)

Allocator(d) == [bb |-> Bbm(d).set, ib |-> Ibm(d).set, bh |-> 1, ih |-> 1]

\* find_first_fit: the first long enough run at or after the hint, otherwise
\* the first one in the region; 0 when there is none.
FirstFit(bb, hint, n) ==
    LET fits == {b \in Blocks : b + n - 1 <= NBlocks /\ (b .. b + n - 1) \cap bb = {}}
        ahead == {b \in fits : b >= hint}
    IN  CASE ahead # {} -> Min(ahead)
          [] ahead = {} /\ fits # {} -> Min(fits)
          [] OTHER -> 0

TakeRun(a, b, n) == [a EXCEPT !.bb = @ \cup (b .. b + n - 1), !.bh = b + n]

MarkUsed(a, e) == [a EXCEPT !.bb = @ \cup Run(e)]

FreeExtent(a, e) ==
    IF e.len = 0 THEN a
    ELSE [a EXCEPT !.bb = @ \ Run(e), !.bh = Min({@, e.start})]

FreeInode(a, s) == [a EXCEPT !.ib = @ \ {s}, !.ih = Min({@, s})]

\* allocate_inode never looks below its hint.
NextInode(a) ==
    LET free == {s \in Slots \ a.ib : s >= a.ih} IN IF free = {} THEN 0 ELSE Min(free)

TakeInode(a, s) == [a EXCEPT !.ib = @ \cup {s}, !.ih = s + 1]

-----------------------------------------------------------------------------
(* Flush, first half: write_bytes_to_odf_device *)

NoCache == [c |-> Empty, ext |-> NoExt]

Bytes(e) == IF e.c = NoRec THEN Empty ELSE e.c

\* read_all_block_bytes walks the active paths only.
WithBytes(sv) == {id \in Ids : sv[id].st = "active" /\ sv[id].c # NoRec}
WithRecord(sv) == {id \in Ids : sv[id].st # "none" /\ sv[id].c # NoRec}

\* Fault: the cache learns the new checksum but keeps the old extent.
RememberHalf(m, id, c, e) ==
    [m EXCEPT ![id] = [c |-> c, ext |-> IF m[id] = NoCache THEN e ELSE m[id].ext]]

Remember(m, id, c, e) == [m EXCEPT ![id] = [c |-> c, ext |-> e]]

\* One block record: bytes that are gone or do not fit leave it without an
\* extent; bytes the cache knows keep their extent; others are written to the
\* first free run at or after the cursor `next`.
PlaceRecord(sv, t, id) ==
    LET c == IF id \in WithBytes(sv) THEN sv[id].c ELSE Empty
        hit == t.cache[id] # NoCache /\ t.cache[id].c = c
        n == IF c = Empty THEN 0 ELSE SizeOf[c]
        fits == {b \in t.next .. NBlocks : b + n - 1 <= NBlocks
                                           /\ (b .. b + n - 1) \cap t.bb = {}}
        p == Min(fits)
        e == Extent(p, n)
    IN  CASE c = Empty -> [t EXCEPT !.recs[id] = [crc |-> Empty, ext |-> NoExt]]
          [] c # Empty /\ hit ->
               [t EXCEPT !.recs[id] = [crc |-> c, ext |-> t.cache[id].ext],
                         !.bb = @ \cup Run(t.cache[id].ext)]
          [] c # Empty /\ ~hit /\ fits = {} ->
               [t EXCEPT !.recs[id] = [crc |-> sv[id].rc, ext |-> NoExt]]
          [] OTHER ->
               [t EXCEPT !.recs[id] = [crc |-> c, ext |-> e],
                         !.bb = @ \cup Run(e),
                         !.next = p + n,
                         !.cache = Remember(@, id, c, e),
                         !.ws = @ \o [i \in 1 .. n |->
                                         Write(<<"blk", p + i - 1>>, DataBlk(c, i))]]

NoRecords == [id \in Ids |-> [crc |-> Empty, ext |-> NoExt]]

\* Fault: the bitmap with the new data blocks is not written back.
BitmapForgotten(t) == t

BitmapWritten(t) == [t EXCEPT !.ws = Append(@, Write(<<"bbm", 0>>, Bits(t.bb)))]

WriteBytesToOdfDevice(sv, m, d) ==
    LET free == {b \in Blocks : b \notin Bbm(d).set}
        start == [bb |-> Bbm(d).set, ws |-> <<>>, cache |-> m, recs |-> NoRecords,
                  next |-> IF free = {} THEN NBlocks + 1 ELSE Min(free)]
        placed == FoldLeft(LAMBDA t, id : PlaceRecord(sv, t, id), start,
                           SetToSortSeq(WithRecord(sv), <))
    IN  IF WithBytes(sv) = {}
        THEN [start EXCEPT
                 !.recs = [id \in Ids |->
                             [crc |-> IF id \in WithRecord(sv) THEN sv[id].rc ELSE Empty,
                              ext |-> NoExt]],
                 !.cache = [id \in Ids |-> IF id \in WithRecord(sv) THEN m[id] ELSE NoCache]]
        ELSE BitmapWritten(placed)

-----------------------------------------------------------------------------
(* Flush, second half: save_state_native_incremental *)

\* The work done so far: the allocator, the writes issued, and whether every
\* allocation was granted.  A step after a refusal does nothing (the `?`).
Work(a) == [a |-> a, ws |-> <<>>, ok |-> TRUE]
Refused(w) == [w EXCEPT !.ok = FALSE]
Issue(w, a, ws) == [w EXCEPT !.a = a, !.ws = @ \o ws]

SlotsOf(d, id) ==
    {s \in Ibm(d).set : Inode(d, s).k = "ino" /\ Inode(d, s).id = id}
SlotOf(d, id) == Max(SlotsOf(d, id))    \* the last one scanned wins

FreeInodePayload(a, ino) == FreeExtent(FreeExtent(a, ino.ext), Extent(ino.attr, 1))

ReleaseSlot(w, d, s) ==
    Issue(w, FreeInode(FreeInodePayload(w.a, Inode(d, s)), s), <<>>)

\* write_inode_record_from_record_at: the attr block is allocated and written
\* before the slot that points to it.
WriteInodeAt(w, a, s, id, e, rec) ==
    LET marked == MarkUsed(a, rec.ext)
        b == FirstFit(marked.bb, marked.bh, 1)
    IN  IF b = 0 THEN Refused(w)
        ELSE Issue(w, TakeRun(marked, b, 1),
                   <<Write(<<"blk", b>>, AttrBlk(id, e.meta)),
                     Write(<<"ino", s>>,
                           OnDiskInode(id, e.st = "deleted", rec.crc, rec.ext, b))>>)

\* Fault: the slot's deletion flag is not compared.
SameContent(ino, e, rec) == ino.crc = rec.crc
\* Fault: every inode of the catalog is rewritten.
NeverUnchanged(ino, e, rec) == FALSE

Unchanged(ino, e, rec) == ino.crc = rec.crc /\ ino.del = (e.st = "deleted")

RemovePass(d, w, id) == ReleaseSlot(w, d, SlotOf(d, id))

\* write_inode_from_record: the same in the first free slot.
WriteInodeFromRecord(w, id, e, rec) ==
    LET s == NextInode(w.a)
    IN  IF s = 0 THEN Refused(w)
        ELSE WriteInodeAt(w, TakeInode(w.a, s), s, id, e, rec)

WritePass(sv, recs, d, w, id) ==
    LET exists == SlotsOf(d, id) # {}
        ino == Inode(d, SlotOf(d, id))
    IN  CASE ~w.ok -> w
          [] w.ok /\ exists ->
               IF Unchanged(ino, sv[id], recs[id])
               THEN Issue(w, MarkUsed(w.a, ino.ext), <<>>)
               ELSE WriteInodeAt(w, FreeInodePayload(w.a, ino), SlotOf(d, id),
                                 id, sv[id], recs[id])
          [] OTHER -> WriteInodeFromRecord(w, id, sv[id], recs[id])

RewriteAncillary(w, d, g) ==
    LET a == FreeExtent(w.a, Inode(d, AncSlot).ext)
        b == FirstFit(a.bb, a.bh, 1)
    IN  CASE ~w.ok -> w
          [] w.ok /\ b = 0 -> Refused(w)
          [] OTHER -> Issue(w, TakeRun(a, b, 1),
                            <<Write(<<"blk", b>>, AncBlk(g)),
                              Write(<<"ino", AncSlot>>,
                                    OnDiskInode(0, FALSE, Empty, Extent(b, 1), 0))>>)

\* Bitmaps first, then the superblock copies: primary, N/2, N-1.
WriteSuperblocks(w, g) ==
    LET sb == Superblock(g, w.a.bb, w.a.ib)
    IN  IF w.ok
        THEN Issue(w, w.a, <<Write(<<"bbm", 0>>, Bits(w.a.bb)),
                             Write(<<"ibm", 0>>, Bits(w.a.ib)),
                             Write(<<"sb", 1>>, sb), Write(<<"sb", 2>>, sb),
                             Write(<<"sb", 3>>, sb)>>)
        ELSE w

NextGeneration(d) == ReadSb(d).gen + 1

\* The two passes walk hash maps: o1 and o2 are the orders they yield.
SaveStateNativeIncremental(sv, recs, d, o1, o2) ==
    LET g == NextGeneration(d)
        removed == FoldLeft(LAMBDA w, id : RemovePass(d, w, id),
                            Work(Allocator(d)), o1)
        written == FoldLeft(LAMBDA w, id : WritePass(sv, recs, d, w, id), removed, o2)
    IN  WriteSuperblocks(RewriteAncillary(written, d, g), g)

\* The orders in which the passes may meet the inodes they have work for.
RemoveOrders(sv, d) == SetToSeqs({id \in Ids : sv[id].st = "none" /\ SlotsOf(d, id) # {}})
WriteOrders(sv) == SetToSeqs({id \in Ids : sv[id].st # "none"})

\* The two halves of a flush, for each order the hash maps may yield: the
\* writes in sequence, the new extent cache, and whether the call returns Ok.
FlushPlans ==
    LET t == WriteBytesToOdfDevice(svc, cache, disk)
        d == Apply(disk, t.ws)
        Plan(w) == [ws |-> t.ws \o w.ws, half |-> Len(t.ws),
                    cache |-> t.cache, ok |-> w.ok]
    IN  {Plan(SaveStateNativeIncremental(svc, t.recs, d, o1, o2)) :
            o1 \in RemoveOrders(svc, d), o2 \in WriteOrders(svc)}

-----------------------------------------------------------------------------
(* load_state_native and restore_bytes_from_odf_device *)

\* What load refuses: no superblock, a bitmap its checksum disowns, a lost
\* ancillary blob, an allocated slot or attr block that does not decode.
LoadOK(d) ==
    /\ ReadableSbs(d) # {}
    /\ Bbm(d) = Bits(ReadSb(d).bbm)
    /\ Ibm(d) = Bits(ReadSb(d).ibm)
    /\ Inode(d, AncSlot).k = "ino"
    /\ Blk(d, Inode(d, AncSlot).ext.start).k = "anc"
    /\ \A s \in Ibm(d).set :
          \/ Inode(d, s).k = "unused"
          \/ /\ Inode(d, s).k = "ino"
             /\ Blk(d, Inode(d, s).attr).k = "attr"

\* The bytes found at an extent are not compared with the slot's checksum.
Garbage == "garbage"
HoldsAt(d, e, c) ==
    c \in Contents /\ e.len = SizeOf[c]
    /\ \A i \in 1 .. e.len : Blk(d, e.start + i - 1) = DataBlk(c, i)
BytesAt(d, ino) ==
    CASE ino.ext.len = 0 /\ ino.crc = Empty -> NoRec
      [] ino.ext.len = 0 /\ ino.crc # Empty -> Empty
      [] OTHER -> IF HoldsAt(d, ino.ext, ino.crc) THEN ino.crc ELSE Garbage

\* The inode comes from the attr block, its data and deletion flag from the slot.
LoadSlot(d, s) ==
    LET ino == Inode(d, s)
        attr == Blk(d, ino.attr)
    IN  [id |-> attr.id,
         e |-> [st |-> IF ino.del THEN "deleted" ELSE "active",
                c |-> BytesAt(d, ino), rc |-> ino.crc, meta |-> attr.meta],
         ext |-> ino.ext]

Loaded(d) == {LoadSlot(d, s) : s \in {x \in Ibm(d).set : Inode(d, x).k = "ino"}}

Absent == [st |-> "none", c |-> NoRec, rc |-> Empty, meta |-> CHOOSE m \in Metas : TRUE]

FromLoaded(d) ==
    [id \in Ids |->
        LET r == {x \in Loaded(d) : x.id = id}
        IN  IF r = {} THEN Absent ELSE (CHOOSE x \in r : TRUE).e]

\* build_odf_extents_cache
CacheFrom(d) ==
    [id \in Ids |->
        LET r == {x \in Loaded(d) : x.id = id /\ x.ext.len > 0}
        IN  IF r = {} THEN NoCache
            ELSE LET x == CHOOSE x \in r : TRUE IN [c |-> x.e.rc, ext |-> x.ext]]

\* Fault: the first save after an open sees the memory store's records, which
\* have no extent on this device.
RecsWithoutExtents(d) == NoRecords

\* The block records of a freshly loaded state.
RecsFrom(d) ==
    [id \in Ids |->
        LET r == {x \in Loaded(d) : x.id = id}
        IN  IF r = {} THEN [crc |-> Empty, ext |-> NoExt]
            ELSE LET x == CHOOSE x \in r : TRUE IN [crc |-> x.e.rc, ext |-> x.ext]]

-----------------------------------------------------------------------------
(* Initial state: format_device and the first, empty save_state_native *)

Formatted ==
    LET anc == FirstFit(Reserved, 1, 1)
        bb == Reserved \cup {anc}
    IN  [l \in Locs |->
           CASE l = <<"bbm", 0>> -> Bits(bb)
             [] l = <<"ibm", 0>> -> Bits({})
             [] l[1] = "sb" -> Superblock(1, bb, {})
             [] l = <<"blk", anc>> -> AncBlk(1)
             [] l = <<"ino", AncSlot>> -> OnDiskInode(0, FALSE, Empty, Extent(anc, 1), 0)
             [] l[1] = "ino" /\ l[2] # AncSlot -> Unused
             [] OTHER -> Zero]

Init ==
    /\ svc = [id \in Ids |-> Absent]
    /\ cache = [id \in Ids |-> NoCache]
    /\ disk = Formatted
    /\ dur = Formatted
    /\ mode = "up"
    /\ failed = FALSE
    /\ saved = svc
    /\ touched = {}
    /\ opens = 0 /\ errs = 0 /\ crashes = 0

-----------------------------------------------------------------------------
(* CoreFsService calls between flushes *)

\* A session is open, its workload goes on, and the generation bound is not
\* reached.
MayFlush ==
    /\ mode = "up" /\ ReadSb(disk).gen < MaxGen
    /\ "retry" \in Avoid => ~failed

\* The session cache names an extent that the volume no longer gives to id.
Stale(id, c) ==
    /\ cache[id] # NoCache
    /\ cache[id].c = c
    /\ \A s \in SlotsOf(disk, id) : Inode(disk, s).ext # cache[id].ext

Update(id, e) ==
    /\ svc' = [svc EXCEPT ![id] = e]
    /\ touched' = touched \cup {id}
    /\ UNCHANGED <<cache, disk, dur, mode, failed, saved, opens, errs, crashes>>

CreateFile(id) ==
    /\ "create" \in Ops
    /\ svc[id].st = "none"
    /\ \E c \in Contents \cup {Empty} :
          /\ "reappear" \in Avoid => ~Stale(id, c)
          /\ Update(id, [Absent EXCEPT !.st = "active", !.c = c, !.rc = c])

WriteFile(id) ==
    /\ "write" \in Ops
    /\ svc[id].st = "active"
    /\ \E c \in Contents \cup {Empty} :
          /\ c # svc[id].c
          /\ "reappear" \in Avoid => ~Stale(id, c)
          /\ Update(id, [svc[id] EXCEPT !.c = c, !.rc = c])

\* set_mode, set_owner, rename_entry: the inode changes, its bytes do not.
SetMeta(id) ==
    /\ "meta" \in Ops
    /\ svc[id].st = "active"
    /\ \E m \in Metas \ {svc[id].meta} : Update(id, [svc[id] EXCEPT !.meta = m])

DeleteFile(id) ==
    /\ "delete" \in Ops
    /\ svc[id].st = "active"
    /\ Update(id, [svc[id] EXCEPT !.st = "deleted"])

RestoreFile(id) ==
    /\ "restore" \in Ops
    /\ svc[id].st = "deleted"
    /\ "reappear" \in Avoid => ~Stale(id, svc[id].c)
    /\ Update(id, [svc[id] EXCEPT !.st = "active"])

\* delete_file(secure) of an active file, expunge_file of a deleted one.
RemoveFile(id) ==
    /\ "remove" \in Ops
    /\ svc[id].st # "none"
    /\ Update(id, Absent)

-----------------------------------------------------------------------------
(* OdfFileSession::flush, FUSE persist *)

FlushOK ==
    /\ MayFlush
    /\ \E p \in FlushPlans :
         /\ p.ok
         /\ disk' = Apply(disk, p.ws)
         /\ dur' = disk'
         /\ cache' = p.cache
    /\ failed' = FALSE
    /\ saved' = svc
    /\ touched' = {}
    /\ UNCHANGED <<svc, mode, opens, errs, crashes>>

\* The device after the first k writes of a flush that then fails.  An entry
\* enters the extent cache after its bytes were written.
CutShort(p, k) ==
    LET done == {p.ws[i].loc : i \in 1 .. Min({k, p.half})}
    IN  /\ disk' = Apply(disk, SubSeq(p.ws, 1, k))
        /\ cache' = [id \in Ids |->
                       IF {<<"blk", b>> : b \in Run(p.cache[id].ext)} \subseteq done
                          \/ p.cache[id].ext = cache[id].ext
                       THEN p.cache[id] ELSE cache[id]]
        /\ failed' = TRUE
        /\ UNCHANGED <<svc, dur, mode, saved, touched, opens, crashes>>

\* No block or slot left: the error return leaves the writes before it.
FlushNoSpace ==
    /\ MayFlush
    /\ errs < MaxErr
    /\ errs' = errs + 1
    /\ \E p \in FlushPlans : ~p.ok /\ CutShort(p, Len(p.ws))

\* write_at or the final sync reports an error.
FlushIoError ==
    /\ MayFlush
    /\ errs < MaxErr
    /\ errs' = errs + 1
    /\ \E p \in FlushPlans : p.ok /\ \E k \in 0 .. Len(p.ws) : CutShort(p, k)

\* The device d after those of the writes ws whose positions are in S.
ApplySome(d, ws, S) ==
    FoldLeftDomain(LAMBDA acc, i : IF i \in S THEN [acc EXCEPT ![ws[i].loc] = ws[i].val]
                                   ELSE acc, d, ws)

\* Power is lost during a flush on a volume whose last flush succeeded.  The
\* medium holds any part of the flush's writes when the device reorders them,
\* or the first k of them and half of the next when it does not.
PowerLoss ==
    /\ MayFlush
    /\ ~failed
    /\ crashes < MaxCrash
    /\ crashes' = crashes + 1
    /\ \E p \in FlushPlans :
         \/ \E landed \in SUBSET (1 .. Len(p.ws)) : disk' = ApplySome(dur, p.ws, landed)
         \/ \E k \in 0 .. Len(p.ws) - 1 :
               disk' = Apply(dur, Append(SubSeq(p.ws, 1, k), Write(p.ws[k + 1].loc, Torn)))
    /\ mode' = "lost"
    /\ UNCHANGED <<svc, cache, dur, failed, saved, touched, opens, errs>>

\* A new session: OdfFileSession::open, or FUSE's open_odf_session, which then
\* saves once to mark the volume unclean.  A volume load refuses stays closed;
\* one whose files came back as other bytes is not followed further.
Open(marker) ==
    /\ opens < MaxOpen
    /\ opens' = opens + 1
    /\ LoadOK(disk)
    /\ svc' = FromLoaded(disk)
    /\ \A id \in Ids : svc'[id].c # Garbage
    /\ saved' = svc'
    /\ touched' = {}
    /\ mode' = "up"
    /\ failed' = FALSE
    /\ cache' = CacheFrom(disk)
    /\ UNCHANGED <<errs, crashes>>
    /\ \/ /\ ~marker
          /\ dur' = IF mode = "lost" THEN disk ELSE dur
          /\ UNCHANGED disk
       \/ /\ marker
          /\ ReadSb(disk).gen < MaxGen
          /\ \E o1 \in RemoveOrders(svc', disk), o2 \in WriteOrders(svc') :
               LET w == SaveStateNativeIncremental(svc', RecsFrom(disk), disk, o1, o2)
               IN  w.ok /\ disk' = Apply(disk, w.ws)
          /\ dur' = disk'

\* Nothing more happens at the generation bound, after a power loss on a volume
\* that is not opened again, or in a session that ends with its failed flush.
Stopped ==
    /\ ~MayFlush
    /\ UNCHANGED vars

ServiceCall ==
    /\ MayFlush
    /\ \E id \in Ids :
        \/ CreateFile(id) \/ WriteFile(id) \/ SetMeta(id)
        \/ DeleteFile(id) \/ RestoreFile(id) \/ RemoveFile(id)

Next ==
    \/ ServiceCall
    \/ FlushOK \/ FlushNoSpace \/ FlushIoError
    \/ PowerLoss
    \/ \E marker \in BOOLEAN : Open(marker)
    \/ Stopped

Spec == Init /\ [][Next]_vars

-----------------------------------------------------------------------------
(* Properties *)

Entry == [st : {"none", "active", "deleted"}, c : Contents \cup {Empty, NoRec},
          rc : Contents \cup {Empty}, meta : Metas]

\* Type invariant of the service, the session cache and the device.
TypeOK ==
    /\ svc \in [Ids -> Entry] /\ saved \in [Ids -> Entry]
    /\ touched \subseteq Ids
    /\ \A id \in Ids : cache[id].c \in Contents \cup {Empty}
                       /\ cache[id].ext.start \in 0 .. NBlocks
    /\ DOMAIN disk = Locs /\ DOMAIN dur = Locs
    /\ Bbm(dur).set \subseteq Blocks /\ Ibm(dur).set \subseteq Slots
    /\ ReadSb(dur).gen \in 1 .. MaxGen
    /\ mode \in {"up", "lost"} /\ failed \in BOOLEAN

Files(sv) ==
    {[id |-> id, st |-> sv[id].st,
      c |-> IF sv[id].st = "active" THEN Bytes(sv[id]) ELSE Empty]
       : id \in {i \in Ids : sv[i].st # "none"}}

\* What a mount of d shows: the files, or the refusal.
MountedFiles(d) ==
    IF LoadOK(d)
    THEN {[id |-> x.id, st |-> x.e.st,
           c |-> IF x.e.st = "active" THEN Bytes(x.e) ELSE Empty] : x \in Loaded(d)}
    ELSE {[id |-> 0, st |-> "refused", c |-> Empty]}

\* After a flush or an open returned Ok the synced volume loads, and shows
\* exactly the files the service then had, each with the bytes it then had.
FlushedReloads == MountedFiles(dur) = Files(saved)

\* No two slots of the synced volume share a data or attr block, none of them
\* sits on the ancillary blob or a superblock copy, and the block bitmap
\* covers them all: the next allocation cannot take a block in use.
Owned(d, s) == Run(Inode(d, s).ext) \cup {Inode(d, s).attr}
LiveSlots(d) == {s \in Ibm(d).set : Inode(d, s).k = "ino"}
DisjointOwners ==
    /\ \A s \in LiveSlots(dur) :
          /\ Owned(dur, s) \subseteq Bbm(dur).set
          /\ Owned(dur, s) \cap (Reserved \cup Run(Inode(dur, AncSlot).ext)) = {}
          /\ \A t \in LiveSlots(dur) \ {s} : Owned(dur, s) \cap Owned(dur, t) = {}
    /\ Run(Inode(dur, AncSlot).ext) \subseteq Bbm(dur).set

\* "Content unchanged and already on ODF device": when the session reuses a
\* cached extent for a file, the blocks there hold that file's bytes.
CacheHolds ==
    \A id \in Ids :
        cache[id] # NoCache /\ svc[id].st = "active" /\ svc[id].c = cache[id].c
        => HoldsAt(disk, cache[id].ext, cache[id].c)

\* Whatever a flush does, and wherever an error or a power loss cuts it, a file
\* that was not changed since the last successful flush keeps its slot, its
\* attr block and its bytes on the device.
UntouchedSurvive ==
    \A id \in Ids :
        id \notin touched /\ saved[id].st = "active"
        => \A s \in SlotsOf(dur, id) :
              /\ Inode(disk, s) = Inode(dur, s)
              /\ \A b \in Owned(dur, s) : Blk(disk, b) = Blk(dur, b)

\* "a crash during the persist is either fully replayed on next mount or leaves
\* the previous generation intact" (linux_fuse.rs, persist).
CrashAtomic == mode = "lost" => MountedFiles(disk) \in {Files(saved), Files(svc)}

\* "failed save must not corrupt the previous generation" (fi1 test).
FailedSaveHarmless == failed /\ mode = "up" => MountedFiles(disk) = Files(saved)

\* The superblock a mount trusts is the newest one that decodes
\* (doc/integrity-recovery.md).
NewestSuperblock ==
    mode = "lost" /\ ReadableSbs(disk) # {}
    => \A i \in ReadableSbs(disk) : disk[<<"sb", i>>].gen <= ReadSb(disk).gen

\* "changed or new inodes get fresh slots": after a flush the volume carries
\* the path and permissions the service has.
MetadataReloads ==
    \A x \in Loaded(dur) : x.e.st = "active" => x.e.meta = saved[x.id].meta

\* Soft delete keeps the data (doc/glossary.md): the synced volume still has the
\* bytes of a file that can be restored.
DeletedKeepBytes ==
    \A x \in Loaded(dur) : x.e.st = "deleted" => Bytes(x.e) = Bytes(saved[x.id])
=============================================================================
