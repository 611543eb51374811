------------------------------ MODULE OdfJournal ------------------------------
(***************************************************************************)
(* The on-disk write-ahead log of an ODF volume and the ordered-mode save  *)
(* session built on it:                                                    *)
(*   corefs-core/src/storage/ondisk/journal.rs    Journal, TxnBuilder      *)
(*   corefs-core/src/storage/ondisk/journaled.rs  JournaledSaveSession,    *)
(*                                     recover_pending_transactions        *)
(*                                                                         *)
(* The block device has a volatile write cache: what a read returns is the *)
(* last write (hdr, rec, blk, dat); what a power loss leaves behind is any *)
(* combination of the writes since the last sync (the ...May sets).  Each  *)
(* device write and each sync is a step, so that a crash or an I/O error   *)
(* can fall between any two of them.                                       *)
(*                                                                         *)
(* Abstractions.  The record area is an array of record slots: a record is *)
(* only ever found by walking from slot 0 over valid records, so lengths   *)
(* matter only for "record area full".  A record or block whose write was  *)
(* cut in half reads as torn (its CRC fails).  A 512-byte sector is        *)
(* atomic.  head_offset is never assigned anything but 0 and is left out.  *)
(***************************************************************************)
EXTENDS Integers, Sequences, FiniteSets

CONSTANTS
    MetaBlocks,     \* blocks that hold metadata (targets of journal ops)
    Vals,           \* contents a metadata block can have: each one refers
                    \* to one data block
    InitVal,        \* the content every metadata block is formatted with
    Torn,           \* the content of a half-written metadata block
    Slots,          \* capacity of the record area, in records
    ZeroSlots,      \* records that start in the block checkpoint() zeroes
    MaxOps,         \* bound: ops of one transaction
    MaxTxn,         \* bound: transaction ids handed out
    MaxCrash,       \* bound: power losses
    MaxErr,         \* bound: I/O errors returned by the device
    OfflineRepair   \* TRUE: `corefs repair` may open a session on an
                    \* image nobody has run journal recovery on

ASSUME ConstAssumption ==
    /\ InitVal \in Vals
    /\ Torn \notin Vals
    /\ Slots \in Nat \ {0}
    /\ ZeroSlots \in 1..Slots
    /\ MaxOps \in Nat \ {0}
    /\ MaxTxn \in Nat \ {0}
    /\ MaxCrash \in Nat
    /\ MaxErr \in Nat
    /\ OfflineRepair \in BOOLEAN

VARIABLES
    hdr, hdrMay,    \* JournalHeader block
    rec, recMay,    \* record area
    blk, blkMay,    \* metadata blocks in their home location
    dat, datMay,    \* data block behind each content: "none"/"torn"/"ok"
    pc,             \* what the process is about to do (see Phases)
    mode,           \* who drives: a mount in progress ("recover"), a mounted
                    \* volume ("mounted"), or the offline repair tool ("offline")
    mem,            \* Journal.header, the in-memory copy
    ops,            \* JournaledSaveSession.ops
    txn,            \* TxnBuilder.txn_id
    pos,            \* ops appended so far
    cursor,         \* replay: next slot to read
    pending,        \* replay: BTreeMap txn_id -> ops
    todo,           \* replay: ops of a committed txn still to be applied
    applied,        \* replay: some transaction was applied
    crashes, errs,  \* counters behind MaxCrash, MaxErr
    allowed,        \* history: contents the metadata may legitimately have
    settled,        \* history: the last session or mount returned Ok
    landed          \* history: contents promised since the commit record
                    \* of the running transaction was synced

device == <<hdr, hdrMay, rec, recMay, blk, blkMay, dat, datMay>>
replayVars == <<cursor, pending, todo, applied>>
history == <<allowed, settled, landed>>
vars == <<device, pc, mode, mem, ops, txn, pos, replayVars,
          crashes, errs, history>>

-----------------------------------------------------------------------------
(* Data *)

SlotIds == 0 .. Slots - 1
TxnIds == 1 .. MaxTxn

Op == [blk : MetaBlocks, val : Vals]

JournalHeader == [tail : 0 .. Slots, next : 1 .. MaxTxn + 1, dirty : BOOLEAN]

FreshHeader == [tail |-> 0, next |-> 1, dirty |-> FALSE]

\* What read_record_at finds in a slot: a record, or nothing it accepts
\* ("bad": zeroes, a wrong magic or a failing CRC).
OpRec(t, o)  == [kind |-> "op", txn |-> t, blk |-> o.blk, val |-> o.val]
CommitRec(t) == [kind |-> "commit", txn |-> t, blk |-> {}, val |-> {}]
BadRec       == [kind |-> "bad", txn |-> 0, blk |-> {}, val |-> {}]

Records == {OpRec(t, o) : t \in TxnIds, o \in Op}
           \cup {CommitRec(t) : t \in TxnIds}
           \cup {BadRec}

Contents == [MetaBlocks -> Vals]

Phases == {"down", "idle", "stage", "open", "hdr1Sync",
           "append", "commitRec", "commitSync", "hdr2", "hdr2Sync",
           "replay", "apply", "replaySync", "zero", "clear", "clearSync"}

\* The contents s with the writes of the op sequence o laid over it, the
\* last write to a block winning.
LastTo(o, b) == {i \in 1 .. Len(o) : /\ o[i].blk = b
                                     /\ \A j \in i + 1 .. Len(o) : o[j].blk # b}
Overlay(s, o) ==
    [b \in MetaBlocks |->
        IF LastTo(o, b) = {} THEN s[b] ELSE o[CHOOSE i \in LastTo(o, b) : TRUE].val]

-----------------------------------------------------------------------------
(* The block device: write_at into the cache, sync, power loss *)

WriteHdr(h) ==
    /\ hdr' = h
    /\ hdrMay' = hdrMay \cup {h}
    /\ UNCHANGED <<rec, recMay, blk, blkMay, dat, datMay>>

WriteRec(K, r) ==
    /\ rec' = [k \in SlotIds |-> IF k \in K THEN r ELSE rec[k]]
    /\ recMay' = [k \in SlotIds |-> IF k \in K THEN recMay[k] \cup {r, BadRec}
                                               ELSE recMay[k]]
    /\ UNCHANGED <<hdr, hdrMay, blk, blkMay, dat, datMay>>

WriteBlk(b, v) ==
    /\ blk' = [blk EXCEPT ![b] = v]
    /\ blkMay' = [blkMay EXCEPT ![b] = @ \cup {v, Torn}]
    /\ UNCHANGED <<hdr, hdrMay, rec, recMay, dat, datMay>>

WriteDat(v) ==
    /\ dat' = [dat EXCEPT ![v] = "ok"]
    /\ datMay' = [datMay EXCEPT ![v] = @ \cup {"torn", "ok"}]
    /\ UNCHANGED <<hdr, hdrMay, rec, recMay, blk, blkMay>>

\* Fault: sync requests are deferred (FileImageDevice.defer_data_sync) while
\* the journal relies on them.
SyncDeferred == UNCHANGED device

Sync ==
    /\ hdrMay' = {hdr}
    /\ recMay' = [k \in SlotIds |-> {rec[k]}]
    /\ blkMay' = [b \in MetaBlocks |-> {blk[b]}]
    /\ datMay' = [v \in Vals |-> {dat[v]}]
    /\ UNCHANGED <<hdr, rec, blk, dat>>

\* What a power loss may leave of an array: every element keeps its synced
\* value or one of the values written to it since.
Unsynced(cur, may) == {k \in DOMAIN cur : may[k] # {cur[k]}}
Images(cur, may) ==
    LET U == Unsynced(cur, may) IN
    {[k \in DOMAIN cur |-> IF k \in U THEN c[k] ELSE cur[k]] :
        c \in {d \in [U -> UNION {may[k] : k \in U}] : \A k \in U : d[k] \in may[k]}}

PowerLoss ==
    /\ \E h \in hdrMay : hdr' = h /\ hdrMay' = {h}
    /\ \E f \in Images(rec, recMay) :
          rec' = f /\ recMay' = [k \in SlotIds |-> {f[k]}]
    /\ \E f \in Images(blk, blkMay) :
          blk' = f /\ blkMay' = [b \in MetaBlocks |-> {f[b]}]
    /\ \E f \in Images(dat, datMay) :
          dat' = f /\ datMay' = [v \in Vals |-> {f[v]}]

-----------------------------------------------------------------------------
(* Journal::format on a fresh volume, then the first mount *)

NoPending == [t \in TxnIds |-> <<>>]

Init ==
    /\ hdr = FreshHeader /\ hdrMay = {FreshHeader}
    /\ rec = [k \in SlotIds |-> BadRec]
    /\ recMay = [k \in SlotIds |-> {BadRec}]
    /\ blk = [b \in MetaBlocks |-> InitVal]
    /\ blkMay = [b \in MetaBlocks |-> {InitVal}]
    /\ dat = [v \in Vals |-> IF v = InitVal THEN "ok" ELSE "none"]
    /\ datMay = [v \in Vals |-> {IF v = InitVal THEN "ok" ELSE "none"}]
    /\ pc = "down" /\ mode = "offline"
    /\ mem = FreshHeader
    /\ ops = <<>> /\ txn = 0 /\ pos = 0
    /\ cursor = 0 /\ pending = NoPending /\ todo = <<>> /\ applied = FALSE
    /\ crashes = 0 /\ errs = 0
    /\ allowed = {[b \in MetaBlocks |-> InitVal]}
    /\ settled = TRUE
    /\ landed = {}

-----------------------------------------------------------------------------
(* JournaledSaveSession: staging *)

\* Where a finished session leaves the volume.
AfterSession == IF mode = "mounted" THEN "idle" ELSE "down"

\* JournaledSaveSession::open, on a mounted volume, or by the repair tool on
\* an image as the last crash left it.
OpenSession ==
    /\ pc = "idle" \/ (pc = "down" /\ OfflineRepair)
    /\ pc' = "stage" /\ ops' = <<>> /\ pos' = 0
    /\ mode' = IF pc = "idle" THEN "mounted" ELSE "offline"
    /\ landed' = {}
    /\ UNCHANGED <<device, mem, txn, replayVars, crashes, errs,
                   allowed, settled>>

\* write_data: straight to the device.  The caller allocates data blocks
\* that nothing refers to yet.
WriteData(v) ==
    /\ pc = "stage" /\ dat[v] # "ok"
    /\ WriteDat(v)
    /\ UNCHANGED <<pc, mode, mem, ops, txn, pos, replayVars, crashes,
                   errs, history>>

\* stage_metadata_block / stage_inode_update, referring to written data.
Stage(b, v) ==
    /\ pc = "stage" /\ dat[v] = "ok" /\ Len(ops) < MaxOps
    /\ ops' = Append(ops, [blk |-> b, val |-> v])
    /\ UNCHANGED <<device, pc, mode, mem, txn, pos, replayVars,
                   crashes, errs, history>>

\* abort(), and commit() with nothing staged: data writes stay, no journal.
AbortSession ==
    /\ pc = "stage"
    /\ pc' = AfterSession /\ ops' = <<>>
    /\ UNCHANGED <<device, mode, mem, txn, pos, replayVars, crashes,
                   errs, history>>

-----------------------------------------------------------------------------
(* JournaledSaveSession::commit, up to the acknowledged journal commit *)

\* device.sync(), then Journal::open reads the header.
CommitStart ==
    /\ pc = "stage" /\ ops # <<>> /\ hdr.next <= MaxTxn
    /\ Sync
    /\ mem' = hdr
    /\ pc' = "open"
    /\ UNCHANGED <<mode, ops, txn, pos, replayVars, crashes, errs,
                   history>>

\* Fault: begin() does not consume the transaction id it hands out.
BeginTxnSameId ==
    /\ pc = "open" /\ mem.next <= MaxTxn
    /\ txn' = mem.next
    /\ mem' = [mem EXCEPT !.dirty = TRUE]
    /\ WriteHdr([mem EXCEPT !.dirty = TRUE])
    /\ pc' = "hdr1Sync"
    /\ allowed' = allowed \cup {Overlay(s, ops) : s \in allowed}
    /\ UNCHANGED <<mode, ops, pos, replayVars, crashes, errs, settled,
                   landed>>

\* Journal::begin and the first flush_header of TxnBuilder::commit (write).
BeginTxn ==
    /\ pc = "open" /\ mem.next <= MaxTxn
    /\ txn' = mem.next
    /\ mem' = [mem EXCEPT !.next = @ + 1, !.dirty = TRUE]
    /\ WriteHdr([mem EXCEPT !.next = @ + 1, !.dirty = TRUE])
    /\ pc' = "hdr1Sync"
    /\ allowed' = allowed \cup {Overlay(s, ops) : s \in allowed}
    /\ UNCHANGED <<mode, ops, pos, replayVars, crashes, errs, settled,
                   landed>>

Hdr1Sync ==
    /\ pc = "hdr1Sync"
    /\ Sync
    /\ pc' = "append"
    /\ UNCHANGED <<mode, mem, ops, txn, pos, replayVars, crashes, errs,
                   history>>

\* append_record(Op) for the next op.
AppendOp ==
    /\ pc = "append" /\ pos < Len(ops) /\ mem.tail < Slots
    /\ WriteRec({mem.tail}, OpRec(txn, ops[pos + 1]))
    /\ mem' = [mem EXCEPT !.tail = @ + 1]
    /\ pos' = pos + 1
    /\ UNCHANGED <<pc, mode, ops, txn, replayVars, crashes, errs,
                   history>>

\* The sync between the op records and the commit record.
OpsSync ==
    /\ pc = "append" /\ pos = Len(ops)
    /\ Sync
    /\ pc' = "commitRec"
    /\ UNCHANGED <<mode, mem, ops, txn, pos, replayVars, crashes, errs,
                   history>>

\* append_record(Commit).
AppendCommit ==
    /\ pc = "commitRec" /\ mem.tail < Slots
    /\ WriteRec({mem.tail}, CommitRec(txn))
    /\ mem' = [mem EXCEPT !.tail = @ + 1]
    /\ pc' = "commitSync"
    /\ UNCHANGED <<mode, ops, txn, pos, replayVars, crashes, errs,
                   history>>

\* Fault: the header with the new tail is written before the commit record
\* is durable.
CommitSyncSkipped ==
    /\ pc = "commitSync"
    /\ pc' = "hdr2"
    /\ landed' = {Overlay(s, ops) : s \in allowed}
    /\ UNCHANGED <<device, mode, mem, ops, txn, pos, replayVars, crashes,
                   errs, allowed, settled>>

\* The sync that makes the commit record durable.
CommitSync ==
    /\ pc = "commitSync"
    /\ Sync
    /\ pc' = "hdr2"
    /\ landed' = {Overlay(s, ops) : s \in allowed}
    /\ UNCHANGED <<mode, mem, ops, txn, pos, replayVars, crashes, errs,
                   allowed, settled>>

\* The final flush_header: only now does the new tail reach the device.
WriteHdr2 ==
    /\ pc = "hdr2"
    /\ WriteHdr(mem)
    /\ pc' = "hdr2Sync"
    /\ UNCHANGED <<mode, mem, ops, txn, pos, replayVars, crashes, errs,
                   history>>

\* End of TxnBuilder::commit; Journal::replay starts.
Hdr2Sync ==
    /\ pc = "hdr2Sync"
    /\ Sync
    /\ pc' = "replay"
    /\ cursor' = 0 /\ pending' = NoPending /\ todo' = <<>> /\ applied' = FALSE
    /\ UNCHANGED <<mode, mem, ops, txn, pos, crashes, errs, history>>

-----------------------------------------------------------------------------
(* Journal::replay *)

\* read_record_at finds a valid record before the tail.
Scannable == cursor < mem.tail /\ rec[cursor].kind # "bad"

\* One record of the scan: collect an op, or start applying a
\* committed transaction.
ReplayRecord ==
    /\ pc = "replay" /\ Scannable
    /\ LET r == rec[cursor] IN
       /\ cursor' = cursor + 1
       /\ pending' = [pending EXCEPT ![r.txn] =
                        IF r.kind = "op"
                        THEN Append(@, [blk |-> r.blk, val |-> r.val])
                        ELSE <<>>]
       /\ IF r.kind = "commit" /\ pending[r.txn] # <<>>
          THEN todo' = pending[r.txn] /\ pc' = "apply" /\ applied' = TRUE
          ELSE UNCHANGED <<todo, pc, applied>>
    /\ UNCHANGED <<device, mode, mem, ops, txn, pos, crashes, errs,
                   history>>

\* apply_op: write the block to its home location.
ApplyOp ==
    /\ pc = "apply" /\ todo # <<>>
    /\ WriteBlk(Head(todo).blk, Head(todo).val)
    /\ todo' = Tail(todo)
    /\ UNCHANGED <<pc, mode, mem, ops, txn, pos, cursor, pending,
                   applied, crashes, errs, history>>

ApplyDone ==
    /\ pc = "apply" /\ todo = <<>>
    /\ pc' = "replay"
    /\ UNCHANGED <<device, mode, mem, ops, txn, pos, replayVars,
                   crashes, errs, history>>

\* Fault: a record that does not verify fails the replay instead of ending it.
ReplayEndStrict ==
    /\ pc = "replay" /\ ~Scannable
    /\ pc' = IF cursor < mem.tail THEN "down"
             ELSE IF applied THEN "replaySync" ELSE "zero"
    /\ UNCHANGED <<device, mode, mem, ops, txn, pos, replayVars, crashes,
                   errs, history>>

\* The scan ends at the tail or at the first record that does not verify;
\* what was applied is synced.
ReplayEnd ==
    /\ pc = "replay" /\ ~Scannable
    /\ pc' = IF applied THEN "replaySync" ELSE "zero"
    /\ UNCHANGED <<device, mode, mem, ops, txn, pos, replayVars,
                   crashes, errs, history>>

\* Fault: the journal is emptied before the replayed blocks are synced.
ReplaySyncSkipped ==
    /\ pc = "replaySync"
    /\ pc' = "zero"
    /\ UNCHANGED <<device, mode, mem, ops, txn, pos, replayVars, crashes,
                   errs, history>>

ReplaySync ==
    /\ pc = "replaySync"
    /\ Sync
    /\ pc' = "zero"
    /\ UNCHANGED <<mode, mem, ops, txn, pos, replayVars, crashes, errs,
                   history>>

-----------------------------------------------------------------------------
(* Journal::checkpoint: zero the first record block, then the header; the  *)
(* one sync comes after both writes                                        *)

CheckpointZero ==
    /\ pc = "zero"
    /\ WriteRec(0 .. ZeroSlots - 1, BadRec)
    /\ mem' = [mem EXCEPT !.tail = 0, !.dirty = FALSE]
    /\ pc' = "clear"
    /\ UNCHANGED <<mode, ops, txn, pos, replayVars, crashes, errs,
                   history>>

CheckpointHeader ==
    /\ pc = "clear"
    /\ WriteHdr(mem)
    /\ pc' = "clearSync"
    /\ UNCHANGED <<mode, mem, ops, txn, pos, replayVars, crashes, errs,
                   history>>

\* commit() returns Ok: the caller may rely on the new metadata.
CommitOk ==
    /\ pc = "clearSync" /\ mode # "recover"
    /\ Sync
    /\ pc' = AfterSession /\ ops' = <<>> /\ landed' = {}
    /\ allowed' = {Overlay(s, ops) : s \in allowed}
    /\ settled' = TRUE
    /\ UNCHANGED <<mode, mem, txn, pos, replayVars, crashes, errs>>

\* recover_pending_transactions returns Ok: the volume is mounted.
RecoverOk ==
    /\ pc = "clearSync" /\ mode = "recover"
    /\ Sync
    /\ pc' = "idle" /\ mode' = "mounted"
    /\ allowed' = allowed \cap {blk}
    /\ settled' = TRUE
    /\ UNCHANGED <<mem, ops, txn, pos, replayVars, crashes, errs, landed>>

-----------------------------------------------------------------------------
(* Mount, errors and power loss *)

\* recover_pending_transactions: Journal::open, then replay.
Mount ==
    /\ pc = "down"
    /\ mem' = hdr
    /\ pc' = "replay" /\ mode' = "recover"
    /\ cursor' = 0 /\ pending' = NoPending /\ todo' = <<>> /\ applied' = FALSE
    /\ UNCHANGED <<device, ops, txn, pos, crashes, errs, history>>

\* An error leaves through `?`: the session and its journal handle are
\* dropped, the device keeps what was written.
ReturnErr ==
    /\ pc' = AfterSession
    /\ ops' = <<>>
    /\ settled' = (settled /\ pc \notin {"replay", "apply"})
    /\ landed' = {}
    /\ UNCHANGED <<device, mode, mem, txn, pos, replayVars, crashes, allowed>>

\* "record area full - checkpoint required"
RecordAreaFull ==
    /\ (pc = "append" /\ pos < Len(ops)) \/ pc = "commitRec"
    /\ mem.tail >= Slots
    /\ ReturnErr
    /\ UNCHANGED errs

\* The device refuses the next write or sync.
IoError ==
    /\ pc \notin {"down", "idle", "stage"}
    /\ errs < MaxErr
    /\ errs' = errs + 1
    /\ ReturnErr

Crash ==
    /\ crashes < MaxCrash
    /\ crashes' = crashes + 1
    /\ PowerLoss
    /\ pc' = "down" /\ mode' = "offline" /\ ops' = <<>>
    /\ mem' = FreshHeader /\ txn' = 0 /\ pos' = 0
    /\ cursor' = 0 /\ pending' = NoPending /\ todo' = <<>> /\ applied' = FALSE
    /\ UNCHANGED <<errs, history>>

-----------------------------------------------------------------------------

\* The steps the process takes on its own once it is inside a call.
Step ==
    \/ BeginTxn \/ Hdr1Sync \/ AppendOp \/ OpsSync \/ AppendCommit
    \/ CommitSync \/ WriteHdr2 \/ Hdr2Sync
    \/ ReplayRecord \/ ApplyOp \/ ApplyDone \/ ReplayEnd \/ ReplaySync
    \/ CheckpointZero \/ CheckpointHeader \/ CommitOk \/ RecoverOk
    \/ RecordAreaFull

Next ==
    \/ OpenSession \/ AbortSession \/ CommitStart
    \/ \E v \in Vals : WriteData(v)
    \/ \E b \in MetaBlocks, v \in Vals : Stage(b, v)
    \/ Step \/ Mount \/ IoError \/ Crash

Spec == Init /\ [][Next]_vars

\* The code runs to completion once called, and the operator mounts.
FairSpec == Spec /\ WF_vars(Step) /\ WF_vars(Mount)
-----------------------------------------------------------------------------
(* Properties *)

\* What a read returns is always one of the values a power loss may leave.
DeviceOK ==
    /\ hdr \in JournalHeader /\ hdrMay \subseteq JournalHeader /\ hdr \in hdrMay
    /\ rec \in [SlotIds -> Records] /\ recMay \in [SlotIds -> SUBSET Records]
    /\ \A k \in SlotIds : rec[k] \in recMay[k]
    /\ blk \in [MetaBlocks -> Vals \cup {Torn}]
    /\ blkMay \in [MetaBlocks -> SUBSET (Vals \cup {Torn})]
    /\ \A b \in MetaBlocks : blk[b] \in blkMay[b]
    /\ dat \in [Vals -> {"none", "torn", "ok"}]
    /\ datMay \in [Vals -> SUBSET {"none", "torn", "ok"}]
    /\ \A v \in Vals : dat[v] \in datMay[v]

\* A transaction id has been handed out.
InTxn == pc \in {"hdr1Sync", "append", "commitRec", "commitSync", "hdr2", "hdr2Sync"}

SessionOK ==
    /\ pc \in Phases /\ mode \in {"recover", "mounted", "offline"}
    /\ mem \in JournalHeader
    /\ ops \in Seq(Op) /\ txn \in 0 .. MaxTxn /\ pos \in Nat
    /\ InTxn => txn \in TxnIds

ReplayOK ==
    /\ cursor \in 0 .. Slots
    /\ pending \in [TxnIds -> Seq(Op)] /\ todo \in Seq(Op)
    /\ applied \in BOOLEAN

CountersOK == crashes \in 0 .. MaxCrash /\ errs \in 0 .. MaxErr

\* Type invariant: the tail stays inside the record area and the ids inside
\* their range whatever session or crash comes next.
TypeOK == DeviceOK /\ SessionOK /\ ReplayOK /\ CountersOK

\* A mounted volume whose last session or mount succeeded shows every
\* acknowledged transaction, each one whole, and of a transaction cut short
\* by a crash either all of its writes or none (fsck_repair.rs: "either
\* fully rolled forward or never took effect").
AtomicCommit == pc = "idle" /\ settled => blk \in allowed

\* Ordered mode: a metadata content that a power loss may leave in its home
\* location refers to data that is already durable and whole
\* (journaled.rs: the pointer structure never ends up referring to
\* half-written data).
PointersBehindData ==
    \A b \in MetaBlocks : \A v \in blkMay[b] \ {Torn} : datMay[v] = {"ok"}

\* Whatever header a power loss leaves, the records below its tail are whole
\* transactions: after the op records of a transaction, and before any other
\* record, comes its commit record.  So replay never applies a part of one.
ClosedLog ==
    \A h \in hdrMay : \A k \in 0 .. h.tail - 1 : \A r \in recMay[k] :
        r.kind = "op" =>
            /\ k + 1 < h.tail
            /\ \A q \in recMay[k + 1] : q.kind # "bad" => q.txn = r.txn

\* Journal::begin hands out an id no record that can still be replayed has.
FreshTxnIds ==
    pc \in {"hdr1Sync", "append"} =>
        \A h \in hdrMay : \A k \in 0 .. h.tail - 1 : \A r \in recMay[k] : r.txn # txn

\* The promise of journal.rs that a transaction is durable once its commit
\* record has landed: a mount after the sync of the commit record shows it.
LandedIsDurable == pc = "idle" /\ landed # {} => blk \in landed

\* Every call returns and every crashed volume becomes mountable again, if
\* the power stays on long enough: no journal content wedges recovery.
CallsReturn == (pc \notin {"idle", "stage"}) ~> (pc \in {"idle", "stage"})
=============================================================================
