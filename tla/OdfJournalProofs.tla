--------------------------- MODULE OdfJournalProofs ---------------------------
(***************************************************************************)
(* Proofs about OdfJournal, for every record area, every number of blocks, *)
(* contents, transactions, crashes and I/O errors.                         *)
(***************************************************************************)
EXTENDS OdfJournal, WellFoundedInduction, TLAPS

-----------------------------------------------------------------------------
(* The device primitives keep the device well formed *)

\* write_at on the header block.
LEMMA WriteHdrOK ==
  ASSUME DeviceOK, NEW h \in JournalHeader, WriteHdr(h)
  PROVE  DeviceOK'
  BY DEF DeviceOK, WriteHdr

\* write_at on record slots.
LEMMA WriteRecOK ==
  ASSUME DeviceOK, NEW K, NEW r \in Records, WriteRec(K, r)
  PROVE  DeviceOK'
<1>1. BadRec \in Records
  BY DEF Records
<1>2. /\ rec' \in [SlotIds -> Records] /\ recMay' \in [SlotIds -> SUBSET Records]
      /\ \A k \in SlotIds : rec'[k] \in recMay'[k]
  BY <1>1 DEF DeviceOK, WriteRec
<1> QED
  BY <1>2 DEF DeviceOK, WriteRec

\* write_at on a metadata block.
LEMMA WriteBlkOK ==
  ASSUME DeviceOK, NEW b \in MetaBlocks, NEW v \in Vals, WriteBlk(b, v)
  PROVE  DeviceOK'
  BY DEF DeviceOK, WriteBlk

\* write_at on a data block.
LEMMA WriteDatOK ==
  ASSUME DeviceOK, NEW v \in Vals, WriteDat(v)
  PROVE  DeviceOK'
  BY DEF DeviceOK, WriteDat

\* sync makes the cached values the only ones a power loss can leave.
LEMMA SyncOK ==
  ASSUME DeviceOK, Sync
  PROVE  DeviceOK'
  BY DEF DeviceOK, Sync

\* An image of an array takes each element from the values it may have.
LEMMA ImagesIn ==
  ASSUME NEW D, NEW cur, NEW may, DOMAIN cur = D,
         \A k \in D : cur[k] \in may[k],
         NEW f \in Images(cur, may)
  PROVE  /\ f = [k \in D |-> f[k]]
         /\ \A k \in D : f[k] \in may[k]
  BY DEF Images, Unsynced

\* A power loss leaves a well formed device.
LEMMA PowerLossOK ==
  ASSUME DeviceOK, PowerLoss
  PROVE  DeviceOK'
<1>1. hdr' \in JournalHeader /\ hdrMay' \subseteq JournalHeader /\ hdr' \in hdrMay'
  BY DEF DeviceOK, PowerLoss
<1>2. /\ rec' \in [SlotIds -> Records] /\ recMay' \in [SlotIds -> SUBSET Records]
      /\ \A k \in SlotIds : rec'[k] \in recMay'[k]
  <2>1. PICK f \in Images(rec, recMay) :
           rec' = f /\ recMay' = [k \in SlotIds |-> {f[k]}]
    BY DEF PowerLoss
  <2>2. f = [k \in SlotIds |-> f[k]] /\ \A k \in SlotIds : f[k] \in recMay[k]
    BY ImagesIn DEF DeviceOK
  <2> QED
    BY <2>1, <2>2 DEF DeviceOK
<1>3. /\ blk' \in [MetaBlocks -> Vals \cup {Torn}]
      /\ blkMay' \in [MetaBlocks -> SUBSET (Vals \cup {Torn})]
      /\ \A b \in MetaBlocks : blk'[b] \in blkMay'[b]
  <2>1. PICK f \in Images(blk, blkMay) :
           blk' = f /\ blkMay' = [b \in MetaBlocks |-> {f[b]}]
    BY DEF PowerLoss
  <2>2. f = [b \in MetaBlocks |-> f[b]] /\ \A b \in MetaBlocks : f[b] \in blkMay[b]
    BY ImagesIn DEF DeviceOK
  <2> QED
    BY <2>1, <2>2 DEF DeviceOK
<1>4. /\ dat' \in [Vals -> {"none", "torn", "ok"}]
      /\ datMay' \in [Vals -> SUBSET {"none", "torn", "ok"}]
      /\ \A v \in Vals : dat'[v] \in datMay'[v]
  <2>1. PICK f \in Images(dat, datMay) :
           dat' = f /\ datMay' = [v \in Vals |-> {f[v]}]
    BY DEF PowerLoss
  <2>2. f = [v \in Vals |-> f[v]] /\ \A v \in Vals : f[v] \in datMay[v]
    BY ImagesIn DEF DeviceOK
  <2> QED
    BY <2>1, <2>2 DEF DeviceOK
<1> QED
  BY <1>1, <1>2, <1>3, <1>4 DEF DeviceOK

-----------------------------------------------------------------------------
(* Type correctness *)

\* Facts about the record and header sets that every action needs.
LEMMA RecordFacts ==
  /\ BadRec \in Records
  /\ \A t \in TxnIds, o \in Op : OpRec(t, o) \in Records
  /\ \A t \in TxnIds : CommitRec(t) \in Records
  /\ \A r \in Records : r.kind # "bad" => r.txn \in TxnIds
  /\ \A r \in Records : r.kind = "op" => [blk |-> r.blk, val |-> r.val] \in Op
<1>1. BadRec \in Records
  BY DEF Records
<1>2. \A t \in TxnIds, o \in Op : OpRec(t, o) \in Records
  BY DEF Records
<1>3. \A t \in TxnIds : CommitRec(t) \in Records
  BY DEF Records
<1>4. ASSUME NEW r \in Records
      PROVE  /\ r.kind # "bad" => r.txn \in TxnIds
             /\ r.kind = "op" => [blk |-> r.blk, val |-> r.val] \in Op
  <2>1. CASE r = BadRec
    BY <2>1 DEF BadRec
  <2>2. CASE \E t \in TxnIds : r = CommitRec(t)
    BY <2>2 DEF CommitRec
  <2>3. CASE \E t \in TxnIds, o \in Op : r = OpRec(t, o)
    <3>1. PICK t \in TxnIds, o \in Op : r = OpRec(t, o)
      BY <2>3
    <3>2. r.txn = t /\ r.blk = o.blk /\ r.val = o.val
      BY <3>1 DEF OpRec
    <3>3. [blk |-> o.blk, val |-> o.val] \in Op
      BY DEF Op
    <3> QED
      BY <3>2, <3>3
  <2> QED
    BY <2>1, <2>2, <2>3 DEF Records
<1> QED
  BY <1>1, <1>2, <1>3, <1>4

\* The header updates of begin, append_record and checkpoint stay in range.
LEMMA HeaderFacts ==
  ASSUME NEW h \in JournalHeader
  PROVE  /\ h.tail \in 0 .. Slots /\ h.next \in 1 .. MaxTxn + 1
         /\ h.next <= MaxTxn =>
              [h EXCEPT !.next = @ + 1, !.dirty = TRUE] \in JournalHeader
         /\ h.tail < Slots => [h EXCEPT !.tail = @ + 1] \in JournalHeader
         /\ [h EXCEPT !.tail = 0, !.dirty = FALSE] \in JournalHeader
<1> USE ConstAssumption DEF JournalHeader
<1>1. h.tail \in 0 .. Slots /\ h.next \in 1 .. MaxTxn + 1
  OBVIOUS
<1>2. ASSUME h.next <= MaxTxn
      PROVE  [h EXCEPT !.next = @ + 1, !.dirty = TRUE] \in JournalHeader
  <2>1. h.next + 1 \in 1 .. MaxTxn + 1
    BY <1>1, <1>2
  <2> QED
    BY <2>1
<1>3. ASSUME h.tail < Slots
      PROVE  [h EXCEPT !.tail = @ + 1] \in JournalHeader
  <2>1. h.tail + 1 \in 0 .. Slots
    BY <1>1, <1>3
  <2> QED
    BY <2>1
<1>4. [h EXCEPT !.tail = 0, !.dirty = FALSE] \in JournalHeader
  <2>1. 0 \in 0 .. Slots /\ FALSE \in BOOLEAN
    OBVIOUS
  <2> QED
    BY <2>1
<1> QED
  BY <1>1, <1>2, <1>3, <1>4

\* The header format writes is a header.
LEMMA FreshHeaderOK == FreshHeader \in JournalHeader
  BY ConstAssumption DEF JournalHeader, FreshHeader

\* Replay starts with an op list for every id, all of them empty.
LEMMA NoPendingOK ==
  NoPending \in [TxnIds -> Seq(Op)] /\ 0 \in 0 .. Slots /\ <<>> \in Seq(Op)
<1>1. NoPending \in [TxnIds -> Seq(Op)] /\ <<>> \in Seq(Op)
  BY DEF NoPending
<1>2. 0 \in 0 .. Slots
  BY ConstAssumption
<1> QED
  BY <1>1, <1>2

\* The type invariant holds of the formatted volume and every step of the
\* journal code, every error return and every power loss preserves it.
THEOREM TypeCorrect == Spec => []TypeOK
<1>1. Init => TypeOK
  <2> SUFFICES ASSUME Init PROVE TypeOK
    OBVIOUS
  <2>1. DeviceOK
    BY ConstAssumption, RecordFacts, FreshHeaderOK DEF Init, DeviceOK
  <2>2. SessionOK
    BY ConstAssumption, FreshHeaderOK DEF Init, SessionOK, Phases, InTxn
  <2>3. ReplayOK
    BY NoPendingOK DEF Init, ReplayOK
  <2>4. CountersOK
    BY ConstAssumption DEF Init, CountersOK
  <2> QED
    BY <2>1, <2>2, <2>3, <2>4 DEF TypeOK
<1>2. TypeOK /\ [Next]_vars => TypeOK'
  <2> SUFFICES ASSUME TypeOK, [Next]_vars PROVE TypeOK'
    OBVIOUS
  <2> USE DEF TypeOK, device, replayVars, history
  <2>1. CASE OpenSession
    BY <2>1 DEF OpenSession, DeviceOK, SessionOK, ReplayOK, CountersOK, Phases, InTxn
  <2>2. CASE AbortSession
    BY <2>2 DEF AbortSession, AfterSession, DeviceOK, SessionOK, ReplayOK, CountersOK, Phases, InTxn
  <2>3. CASE CommitStart
    <3>1. DeviceOK'
      BY <2>3, SyncOK DEF CommitStart
    <3> QED
      BY <2>3, <3>1 DEF CommitStart, DeviceOK, SessionOK, ReplayOK, CountersOK, Phases, InTxn
  <2>4. CASE \E v \in Vals : WriteData(v)
    <3>1. PICK v \in Vals : WriteData(v)
      BY <2>4
    <3>2. DeviceOK'
      BY <3>1, WriteDatOK DEF WriteData
    <3> QED
      BY <3>1, <3>2 DEF WriteData, SessionOK, ReplayOK, CountersOK, InTxn
  <2>5. CASE \E b \in MetaBlocks, v \in Vals : Stage(b, v)
    <3>1. PICK b \in MetaBlocks, v \in Vals : Stage(b, v)
      BY <2>5
    <3>2. [blk |-> b, val |-> v] \in Op
      BY DEF Op
    <3>3. ops' \in Seq(Op)
      BY <3>1, <3>2 DEF Stage, SessionOK
    <3> QED
      BY <3>1, <3>3 DEF Stage, DeviceOK, SessionOK, ReplayOK, CountersOK, InTxn
  <2>6. CASE BeginTxn
    <3>1. DeviceOK'
      BY <2>6, WriteHdrOK, HeaderFacts DEF BeginTxn, SessionOK
    <3>2. mem' \in JournalHeader
      BY <2>6, HeaderFacts DEF BeginTxn, SessionOK
    <3>3. txn' \in TxnIds /\ txn' \in 0 .. MaxTxn
      <4>1. mem.next \in 1 .. MaxTxn + 1 /\ mem.next <= MaxTxn /\ txn' = mem.next
        BY <2>6, HeaderFacts DEF BeginTxn, SessionOK
      <4> QED
        BY <4>1, ConstAssumption DEF TxnIds
    <3> QED
      BY <2>6, <3>1, <3>2, <3>3
      DEF BeginTxn, SessionOK, ReplayOK, CountersOK, Phases, InTxn
  <2>7. CASE Hdr1Sync
    <3>1. DeviceOK'
      BY <2>7, SyncOK DEF Hdr1Sync
    <3> QED
      BY <2>7, <3>1 DEF Hdr1Sync, SessionOK, ReplayOK, CountersOK, Phases, InTxn
  <2>8. CASE AppendOp
    <3>1. ops[pos + 1] \in Op
      BY <2>8 DEF AppendOp, SessionOK
    <3>2. DeviceOK'
      BY <2>8, <3>1, WriteRecOK, RecordFacts DEF AppendOp, SessionOK, InTxn
    <3>3. mem' \in JournalHeader
      BY <2>8, HeaderFacts DEF AppendOp, SessionOK
    <3> QED
      BY <2>8, <3>2, <3>3 DEF AppendOp, SessionOK, ReplayOK, CountersOK, InTxn
  <2>9. CASE OpsSync
    <3>1. DeviceOK'
      BY <2>9, SyncOK DEF OpsSync
    <3> QED
      BY <2>9, <3>1 DEF OpsSync, SessionOK, ReplayOK, CountersOK, Phases, InTxn
  <2>10. CASE AppendCommit
    <3>1. DeviceOK'
      BY <2>10, WriteRecOK, RecordFacts DEF AppendCommit, SessionOK, InTxn
    <3> QED
      BY <2>10, <3>1, HeaderFacts DEF AppendCommit, SessionOK, ReplayOK, CountersOK, Phases, InTxn
  <2>11. CASE CommitSync
    <3>1. DeviceOK'
      BY <2>11, SyncOK DEF CommitSync
    <3> QED
      BY <2>11, <3>1 DEF CommitSync, SessionOK, ReplayOK, CountersOK, Phases, InTxn
  <2>12. CASE WriteHdr2
    <3>1. DeviceOK'
      BY <2>12, WriteHdrOK DEF WriteHdr2, SessionOK
    <3> QED
      BY <2>12, <3>1 DEF WriteHdr2, SessionOK, ReplayOK, CountersOK, Phases, InTxn
  <2>13. CASE Hdr2Sync
    <3>1. DeviceOK'
      BY <2>13, SyncOK DEF Hdr2Sync
    <3> QED
      BY <2>13, <3>1, NoPendingOK DEF Hdr2Sync, SessionOK, ReplayOK, CountersOK, Phases, InTxn
  <2>14. CASE ReplayRecord
    <3> DEFINE r == rec[cursor]
    <3>1. cursor \in SlotIds /\ r \in Records /\ r.kind # "bad" /\ r.txn \in TxnIds
      <4>1. mem.tail \in 0 .. Slots
        BY HeaderFacts DEF SessionOK
      <4>2. cursor \in SlotIds /\ r.kind # "bad"
        BY <2>14, <4>1, ConstAssumption DEF ReplayRecord, Scannable, SlotIds, ReplayOK
      <4>3. r \in Records
        BY <4>2 DEF DeviceOK
      <4> QED
        BY <4>2, <4>3, RecordFacts
    <3>2. cursor' \in 0 .. Slots
      BY <2>14, <3>1, ConstAssumption DEF ReplayRecord, SlotIds
    <3>3. pending' \in [TxnIds -> Seq(Op)]
      <4>1. IF r.kind = "op"
            THEN Append(pending[r.txn], [blk |-> r.blk, val |-> r.val]) \in Seq(Op)
            ELSE <<>> \in Seq(Op)
        BY <3>1, RecordFacts DEF ReplayOK
      <4> QED
        BY <2>14, <3>1, <4>1 DEF ReplayRecord, ReplayOK
    <3>4. todo' \in Seq(Op) /\ applied' \in BOOLEAN /\ pc' \in {"apply", "replay"}
      BY <2>14, <3>1 DEF ReplayRecord, ReplayOK
    <3> QED
      BY <2>14, <3>2, <3>3, <3>4
      DEF ReplayRecord, DeviceOK, SessionOK, ReplayOK, CountersOK, Phases, InTxn
  <2>15. CASE ApplyOp
    <3>1. Head(todo) \in Op /\ Tail(todo) \in Seq(Op)
      BY <2>15 DEF ApplyOp, ReplayOK
    <3>2. Head(todo).blk \in MetaBlocks /\ Head(todo).val \in Vals
      BY <3>1 DEF Op
    <3>3. DeviceOK'
      BY <2>15, <3>2, WriteBlkOK DEF ApplyOp
    <3> QED
      BY <2>15, <3>1, <3>3 DEF ApplyOp, SessionOK, ReplayOK, CountersOK, InTxn
  <2>16. CASE ApplyDone
    BY <2>16 DEF ApplyDone, DeviceOK, SessionOK, ReplayOK, CountersOK, Phases, InTxn
  <2>17. CASE ReplayEnd
    BY <2>17 DEF ReplayEnd, DeviceOK, SessionOK, ReplayOK, CountersOK, Phases, InTxn
  <2>18. CASE ReplaySync
    <3>1. DeviceOK'
      BY <2>18, SyncOK DEF ReplaySync
    <3> QED
      BY <2>18, <3>1 DEF ReplaySync, SessionOK, ReplayOK, CountersOK, Phases, InTxn
  <2>19. CASE CheckpointZero
    <3>1. DeviceOK'
      BY <2>19, WriteRecOK, RecordFacts DEF CheckpointZero
    <3> QED
      BY <2>19, <3>1, HeaderFacts DEF CheckpointZero, SessionOK, ReplayOK, CountersOK, Phases, InTxn
  <2>20. CASE CheckpointHeader
    <3>1. DeviceOK'
      BY <2>20, WriteHdrOK DEF CheckpointHeader, SessionOK
    <3> QED
      BY <2>20, <3>1 DEF CheckpointHeader, SessionOK, ReplayOK, CountersOK, Phases, InTxn
  <2>21. CASE CommitOk
    <3>1. DeviceOK'
      BY <2>21, SyncOK DEF CommitOk
    <3> QED
      BY <2>21, <3>1 DEF CommitOk, AfterSession, SessionOK, ReplayOK, CountersOK, Phases, InTxn
  <2>22. CASE RecoverOk
    <3>1. DeviceOK'
      BY <2>22, SyncOK DEF RecoverOk
    <3> QED
      BY <2>22, <3>1 DEF RecoverOk, SessionOK, ReplayOK, CountersOK, Phases, InTxn
  <2>23. CASE RecordAreaFull
    BY <2>23 DEF RecordAreaFull, ReturnErr, AfterSession, DeviceOK, SessionOK,
                 ReplayOK, CountersOK, Phases, InTxn
  <2>24. CASE Mount
    BY <2>24, NoPendingOK DEF Mount, DeviceOK, SessionOK, ReplayOK, CountersOK, Phases, InTxn
  <2>25. CASE IoError
    BY <2>25, ConstAssumption DEF IoError, ReturnErr, AfterSession, DeviceOK, SessionOK,
                 ReplayOK, CountersOK, Phases, InTxn
  <2>26. CASE Crash
    <3>1. DeviceOK'
      BY <2>26, PowerLossOK DEF Crash
    <3>2. SessionOK'
      BY <2>26, FreshHeaderOK, NoPendingOK, ConstAssumption
      DEF Crash, SessionOK, Phases, InTxn
    <3>3. ReplayOK'
      BY <2>26, NoPendingOK DEF Crash, ReplayOK
    <3>4. CountersOK'
      BY <2>26, ConstAssumption DEF Crash, CountersOK
    <3> QED
      BY <3>1, <3>2, <3>3, <3>4
  <2>27. CASE UNCHANGED vars
    BY <2>27 DEF vars, DeviceOK, SessionOK, ReplayOK, CountersOK, InTxn
  <2> QED
    BY <2>1, <2>2, <2>3, <2>4, <2>5, <2>6, <2>7, <2>8, <2>9, <2>10, <2>11,
       <2>12, <2>13, <2>14, <2>15, <2>16, <2>17, <2>18, <2>19, <2>20, <2>21,
       <2>22, <2>23, <2>24, <2>25, <2>26, <2>27
    DEF Next, Step
<1> QED
  BY <1>1, <1>2, PTL DEF Spec

-----------------------------------------------------------------------------
(* Ordered mode *)

\* Everything from which a metadata block can still get its content refers to
\* durable data: the records of the log, stale ones included, the ops read
\* back by replay, and the staged ops once commit() has synced.  While ops
\* are staged their data is at least in the write cache.
Durable(o) == \A i \in 1 .. Len(o) : datMay[o[i].val] = {"ok"}

LogBehindData ==
    \A k \in SlotIds : \A r \in recMay[k] : r.kind = "op" => datMay[r.val] = {"ok"}

StagedBehindData ==
    IF pc = "stage" THEN \A i \in 1 .. Len(ops) : dat[ops[i].val] = "ok"
                    ELSE Durable(ops)

ReplayBehindData == (\A t \in TxnIds : Durable(pending[t])) /\ Durable(todo)

OrderedInv ==
    PointersBehindData /\ LogBehindData /\ StagedBehindData /\ ReplayBehindData

\* Durable data stays durable: sync and power loss cannot undo it, and
\* write_data never touches a block whose data is already whole.
DataStays == \A v \in Vals : datMay[v] = {"ok"} => datMay'[v] = {"ok"}

\* sync keeps what is durable and makes what was written so.
LEMMA SyncStays ==
  ASSUME DeviceOK, Sync
  PROVE  DataStays /\ \A v \in Vals : dat[v] = "ok" => datMay'[v] = {"ok"}
  BY DEF DeviceOK, Sync, DataStays

\* A power loss keeps what is durable.
LEMMA PowerLossStays ==
  ASSUME DeviceOK, PowerLoss
  PROVE  /\ DataStays
         /\ \A k \in SlotIds : recMay'[k] \subseteq recMay[k]
         /\ \A b \in MetaBlocks : blkMay'[b] \subseteq blkMay[b]
<1>1. \A k \in SlotIds : recMay'[k] \subseteq recMay[k]
  <2>1. PICK f \in Images(rec, recMay) :
           rec' = f /\ recMay' = [k \in SlotIds |-> {f[k]}]
    BY DEF PowerLoss
  <2>2. \A k \in SlotIds : f[k] \in recMay[k]
    BY ImagesIn DEF DeviceOK
  <2> QED
    BY <2>1, <2>2
<1>2. \A b \in MetaBlocks : blkMay'[b] \subseteq blkMay[b]
  <2>1. PICK f \in Images(blk, blkMay) :
           blk' = f /\ blkMay' = [b \in MetaBlocks |-> {f[b]}]
    BY DEF PowerLoss
  <2>2. \A b \in MetaBlocks : f[b] \in blkMay[b]
    BY ImagesIn DEF DeviceOK
  <2> QED
    BY <2>1, <2>2
<1>3. DataStays
  <2>1. PICK f \in Images(dat, datMay) :
           dat' = f /\ datMay' = [v \in Vals |-> {f[v]}]
    BY DEF PowerLoss
  <2>2. \A v \in Vals : f[v] \in datMay[v]
    BY ImagesIn DEF DeviceOK
  <2> QED
    BY <2>1, <2>2 DEF DataStays
<1> QED
  BY <1>1, <1>2, <1>3

\* An op sequence with durable data keeps it.
LEMMA DurableStays ==
  ASSUME NEW o \in Seq(Op), Durable(o), DataStays
  PROVE  \A i \in 1 .. Len(o) : datMay'[o[i].val] = {"ok"}
<1> SUFFICES ASSUME NEW i \in 1 .. Len(o) PROVE datMay'[o[i].val] = {"ok"}
  OBVIOUS
<1>1. o[i] \in Op
  OBVIOUS
<1>2. o[i].val \in Vals
  BY <1>1 DEF Op
<1> QED
  BY <1>2 DEF Durable, DataStays

\* The log and the home locations only lose possibilities in a step that
\* writes neither, so what they refer to stays durable.
LEMMA MediaStay ==
  ASSUME DeviceOK, DataStays, PointersBehindData, LogBehindData,
         \A k \in SlotIds : recMay'[k] \subseteq recMay[k],
         \A b \in MetaBlocks : blkMay'[b] \subseteq blkMay[b]
  PROVE  PointersBehindData' /\ LogBehindData'
<1>1. PointersBehindData'
  BY DEF DeviceOK, DataStays, PointersBehindData
<1>2. LogBehindData'
  <2> SUFFICES ASSUME NEW k \in SlotIds, NEW r \in recMay'[k], r.kind = "op"
               PROVE  datMay'[r.val] = {"ok"}
    BY DEF LogBehindData
  <2>1. r \in recMay[k] /\ r \in Records
    BY DEF DeviceOK
  <2>2. r.val \in Vals
    <3>1. [blk |-> r.blk, val |-> r.val] \in Op
      BY <2>1, RecordFacts
    <3> QED
      BY <3>1 DEF Op
  <2> QED
    BY <2>1, <2>2 DEF LogBehindData, DataStays
<1> QED
  BY <1>1, <1>2

\* Sync leaves of every array only the cached value.
LEMMA SyncShrinks ==
  ASSUME DeviceOK, Sync
  PROVE  /\ \A k \in SlotIds : recMay'[k] \subseteq recMay[k]
         /\ \A b \in MetaBlocks : blkMay'[b] \subseteq blkMay[b]
  BY DEF DeviceOK, Sync

\* The invariant of ordered mode is inductive.
LEMMA OrderedStep ==
  ASSUME TypeOK, OrderedInv, [Next]_vars
  PROVE  OrderedInv'
<1> USE DEF TypeOK, device, replayVars, history
<1> DEFINE Quiet ==
      /\ DataStays
      /\ \A k \in SlotIds : recMay'[k] \subseteq recMay[k]
      /\ \A b \in MetaBlocks : blkMay'[b] \subseteq blkMay[b]
\* Steps that sync or leave the device alone keep the media parts; ops,
\* pending and todo keep theirs when they are unchanged or emptied.
<1>a. ASSUME Quiet PROVE PointersBehindData' /\ LogBehindData'
  BY <1>a, MediaStay DEF OrderedInv
<1>b. ASSUME UNCHANGED <<hdr, hdrMay, rec, recMay, blk, blkMay, dat, datMay>>
      PROVE  Quiet
  BY <1>b DEF DataStays
<1>c. ASSUME Sync PROVE Quiet
  BY <1>c, SyncStays, SyncShrinks
<1>d. ASSUME DataStays,
             UNCHANGED pending \/ pending' = NoPending,
             UNCHANGED todo \/ todo' = <<>>
      PROVE  ReplayBehindData'
  <2>1. \A t \in TxnIds : Durable(pending[t])'
    <3>1. CASE UNCHANGED pending
      BY <1>d, <3>1, DurableStays DEF OrderedInv, ReplayBehindData, ReplayOK, Durable
    <3>2. CASE pending' = NoPending
      BY <3>2 DEF NoPending, Durable
    <3> QED
      BY <1>d, <3>1, <3>2
  <2>2. Durable(todo)'
    <3>1. CASE UNCHANGED todo
      BY <1>d, <3>1, DurableStays DEF OrderedInv, ReplayBehindData, ReplayOK, Durable
    <3>2. CASE todo' = <<>>
      BY <3>2 DEF Durable
    <3> QED
      BY <1>d, <3>1, <3>2
  <2> QED
    BY <2>1, <2>2 DEF ReplayBehindData
<1>e. ASSUME DataStays, UNCHANGED ops, pc # "stage", pc' # "stage"
      PROVE  StagedBehindData'
  BY <1>e, DurableStays DEF OrderedInv, StagedBehindData, SessionOK, Durable
<1>f. ASSUME ops' = <<>> PROVE StagedBehindData'
  BY <1>f DEF StagedBehindData, Durable
<1>1. CASE OpenSession
  <2>1. Quiet
    BY <1>1, <1>b DEF OpenSession
  <2> QED
    BY <1>1, <2>1, <1>a, <1>d, <1>f DEF OpenSession, OrderedInv
<1>2. CASE AbortSession
  <2>1. Quiet
    BY <1>2, <1>b DEF AbortSession
  <2> QED
    BY <1>2, <2>1, <1>a, <1>d, <1>f DEF AbortSession, OrderedInv
<1>3. CASE CommitStart
  <2>1. Quiet
    BY <1>3, <1>c DEF CommitStart
  <2>2. StagedBehindData'
    <3> SUFFICES ASSUME NEW i \in 1 .. Len(ops) PROVE datMay'[ops[i].val] = {"ok"}
      BY <1>3 DEF CommitStart, StagedBehindData, Durable
    <3>1. ops[i] \in Op
      BY DEF SessionOK
    <3>2. ops[i].val \in Vals
      BY <3>1 DEF Op
    <3>3. dat[ops[i].val] = "ok"
      BY <1>3 DEF CommitStart, OrderedInv, StagedBehindData
    <3> QED
      BY <1>3, <3>2, <3>3, SyncStays DEF CommitStart
  <2> QED
    BY <1>3, <2>1, <2>2, <1>a, <1>d DEF CommitStart, OrderedInv
<1>4. CASE \E v \in Vals : WriteData(v)
  <2>1. PICK v \in Vals : WriteData(v)
    BY <1>4
  <2>2. DataStays
    BY <2>1 DEF WriteData, WriteDat, DeviceOK, DataStays
  <2>3. Quiet
    BY <2>1, <2>2 DEF WriteData, WriteDat
  <2>4. StagedBehindData'
    <3> SUFFICES ASSUME NEW i \in 1 .. Len(ops) PROVE dat'[ops[i].val] = "ok"
      BY <2>1 DEF WriteData, StagedBehindData
    <3>1. dat[ops[i].val] = "ok"
      BY <2>1 DEF WriteData, OrderedInv, StagedBehindData
    <3> QED
      BY <2>1, <3>1 DEF WriteData, WriteDat, DeviceOK
  <2> QED
    BY <2>1, <2>3, <2>4, <1>a, <1>d DEF WriteData, OrderedInv
<1>5. CASE \E b \in MetaBlocks, v \in Vals : Stage(b, v)
  <2>1. PICK b \in MetaBlocks, v \in Vals : Stage(b, v)
    BY <1>5
  <2>2. Quiet
    BY <2>1, <1>b DEF Stage
  <2>3. StagedBehindData'
    <3>1. \A i \in 1 .. Len(ops) : dat[ops[i].val] = "ok"
      BY <2>1 DEF Stage, OrderedInv, StagedBehindData
    <3>2. /\ Len(ops') = Len(ops) + 1
          /\ \A i \in 1 .. Len(ops) : ops'[i] = ops[i]
          /\ ops'[Len(ops) + 1] = [blk |-> b, val |-> v]
      BY <2>1 DEF Stage, SessionOK
    <3>3. ASSUME NEW i \in 1 .. Len(ops') PROVE dat[ops'[i].val] = "ok"
      <4>1. CASE i \in 1 .. Len(ops)
        BY <3>1, <3>2, <4>1
      <4>2. CASE i = Len(ops) + 1
        BY <2>1, <3>2, <4>2 DEF Stage
      <4> QED
        BY <3>2, <4>1, <4>2 DEF SessionOK
    <3> QED
      BY <2>1, <3>3 DEF Stage, StagedBehindData
  <2> QED
    BY <2>1, <2>2, <2>3, <1>a, <1>d DEF Stage, OrderedInv
<1>6. CASE BeginTxn
  <2>1. Quiet
    BY <1>6 DEF BeginTxn, WriteHdr, DataStays
  <2> QED
    BY <1>6, <2>1, <1>a, <1>d, <1>e DEF BeginTxn, OrderedInv
<1>7. CASE Hdr1Sync
  <2>1. Quiet
    BY <1>7, <1>c DEF Hdr1Sync
  <2> QED
    BY <1>7, <2>1, <1>a, <1>d, <1>e DEF Hdr1Sync, OrderedInv
<1>8. CASE OpsSync
  <2>1. Quiet
    BY <1>8, <1>c DEF OpsSync
  <2> QED
    BY <1>8, <2>1, <1>a, <1>d, <1>e DEF OpsSync, OrderedInv
<1>9. CASE CommitSync
  <2>1. Quiet
    BY <1>9, <1>c DEF CommitSync
  <2> QED
    BY <1>9, <2>1, <1>a, <1>d, <1>e DEF CommitSync, OrderedInv
<1>10. CASE Hdr2Sync
  <2>1. Quiet
    BY <1>10, <1>c DEF Hdr2Sync
  <2> QED
    BY <1>10, <2>1, <1>a, <1>d, <1>e DEF Hdr2Sync, OrderedInv
<1>11. CASE ReplaySync
  <2>1. Quiet
    BY <1>11, <1>c DEF ReplaySync
  <2> QED
    BY <1>11, <2>1, <1>a, <1>d, <1>e DEF ReplaySync, OrderedInv
<1>12. CASE ApplyDone
  <2>1. Quiet
    BY <1>12, <1>b DEF ApplyDone
  <2> QED
    BY <1>12, <2>1, <1>a, <1>d, <1>e DEF ApplyDone, OrderedInv
<1>13. CASE ReplayEnd
  <2>1. Quiet
    BY <1>13, <1>b DEF ReplayEnd
  <2> QED
    BY <1>13, <2>1, <1>a, <1>d, <1>e DEF ReplayEnd, OrderedInv
<1>14. CASE RecoverOk
  <2>1. Quiet
    BY <1>14, <1>c DEF RecoverOk
  <2> QED
    BY <1>14, <2>1, <1>a, <1>d, <1>e DEF RecoverOk, OrderedInv
<1>15. CASE Mount
  <2>1. Quiet
    BY <1>15, <1>b DEF Mount
  <2> QED
    BY <1>15, <2>1, <1>a, <1>d, <1>e DEF Mount, OrderedInv
<1>16. CASE WriteHdr2
  <2>1. Quiet
    BY <1>16 DEF WriteHdr2, WriteHdr, DataStays
  <2> QED
    BY <1>16, <2>1, <1>a, <1>d, <1>e DEF WriteHdr2, OrderedInv
<1>17. CASE CheckpointHeader
  <2>1. Quiet
    BY <1>17 DEF CheckpointHeader, WriteHdr, DataStays
  <2> QED
    BY <1>17, <2>1, <1>a, <1>d, <1>e DEF CheckpointHeader, OrderedInv
<1>18. CASE CommitOk
  <2>1. Quiet
    BY <1>18, <1>c DEF CommitOk
  <2> QED
    BY <1>18, <2>1, <1>a, <1>d, <1>f DEF CommitOk, OrderedInv
<1>19. CASE RecordAreaFull
  <2>1. Quiet
    BY <1>19, <1>b DEF RecordAreaFull, ReturnErr
  <2> QED
    BY <1>19, <2>1, <1>a, <1>d, <1>f DEF RecordAreaFull, ReturnErr, OrderedInv
<1>20. CASE IoError
  <2>1. Quiet
    BY <1>20, <1>b DEF IoError, ReturnErr
  <2> QED
    BY <1>20, <2>1, <1>a, <1>d, <1>f DEF IoError, ReturnErr, OrderedInv
<1>21. CASE Crash
  <2>1. Quiet
    BY <1>21, PowerLossStays DEF Crash
  <2> QED
    BY <1>21, <2>1, <1>a, <1>d, <1>f DEF Crash, OrderedInv
<1>22. CASE AppendOp
  <2>1. ops[pos + 1] \in Op /\ datMay[ops[pos + 1].val] = {"ok"}
    <3>1. pos + 1 \in 1 .. Len(ops)
      BY <1>22 DEF AppendOp, SessionOK
    <3>2. Durable(ops)
      BY <1>22 DEF AppendOp, OrderedInv, StagedBehindData
    <3>3. ops[pos + 1] \in Op
      BY <3>1 DEF SessionOK
    <3> QED
      BY <3>1, <3>2, <3>3 DEF Durable
  <2>2. OpRec(txn, ops[pos + 1]).kind = "op" => datMay[OpRec(txn, ops[pos + 1]).val] = {"ok"}
    BY <2>1 DEF OpRec
  <2>3. DataStays /\ UNCHANGED <<datMay, blkMay>>
    BY <1>22 DEF AppendOp, WriteRec, DataStays
  <2>4. LogBehindData'
    <3> SUFFICES ASSUME NEW k \in SlotIds, NEW r \in recMay'[k], r.kind = "op"
                 PROVE  datMay[r.val] = {"ok"}
      BY <2>3 DEF LogBehindData
    <3>1. r \in recMay[k] \/ r = OpRec(txn, ops[pos + 1]) \/ r = BadRec
      BY <1>22 DEF AppendOp, WriteRec
    <3> QED
      BY <3>1, <2>2 DEF OrderedInv, LogBehindData, BadRec
  <2> QED
    BY <1>22, <2>3, <2>4, <1>d, <1>e DEF AppendOp, WriteRec, OrderedInv, PointersBehindData
<1>23. CASE AppendCommit
  <2>2. CommitRec(txn).kind = "op" => datMay[CommitRec(txn).val] = {"ok"}
    BY DEF CommitRec
  <2>3. DataStays /\ UNCHANGED <<datMay, blkMay>>
    BY <1>23 DEF AppendCommit, WriteRec, DataStays
  <2>4. LogBehindData'
    <3> SUFFICES ASSUME NEW k \in SlotIds, NEW r \in recMay'[k], r.kind = "op"
                 PROVE  datMay[r.val] = {"ok"}
      BY <2>3 DEF LogBehindData
    <3>1. r \in recMay[k] \/ r = CommitRec(txn) \/ r = BadRec
      BY <1>23 DEF AppendCommit, WriteRec
    <3> QED
      BY <3>1, <2>2 DEF OrderedInv, LogBehindData, BadRec
  <2> QED
    BY <1>23, <2>3, <2>4, <1>d, <1>e DEF AppendCommit, WriteRec, OrderedInv, PointersBehindData
<1>24. CASE CheckpointZero
  <2>2. BadRec.kind = "op" => datMay[BadRec.val] = {"ok"}
    BY DEF BadRec
  <2>3. DataStays /\ UNCHANGED <<datMay, blkMay>>
    BY <1>24 DEF CheckpointZero, WriteRec, DataStays
  <2>4. LogBehindData'
    <3> SUFFICES ASSUME NEW k \in SlotIds, NEW r \in recMay'[k], r.kind = "op"
                 PROVE  datMay[r.val] = {"ok"}
      BY <2>3 DEF LogBehindData
    <3>1. r \in recMay[k] \/ r = BadRec \/ r = BadRec
      BY <1>24 DEF CheckpointZero, WriteRec
    <3> QED
      BY <3>1, <2>2 DEF OrderedInv, LogBehindData, BadRec
  <2> QED
    BY <1>24, <2>3, <2>4, <1>d, <1>e DEF CheckpointZero, WriteRec, OrderedInv, PointersBehindData
<1>25. CASE ReplayRecord
  <2> DEFINE r == rec[cursor]
             o == [blk |-> r.blk, val |-> r.val]
  <2>1. Quiet
    BY <1>25, <1>b DEF ReplayRecord
  <2>2. cursor \in SlotIds /\ r \in recMay[cursor] /\ r.txn \in TxnIds
    <3>1. mem.tail \in 0 .. Slots
      BY HeaderFacts DEF SessionOK
    <3>2. cursor \in SlotIds
      BY <1>25, <3>1, ConstAssumption DEF ReplayRecord, Scannable, SlotIds, ReplayOK
    <3> QED
      BY <1>25, <3>2, RecordFacts DEF ReplayRecord, Scannable, DeviceOK
  <2>3. UNCHANGED datMay
    BY <1>25 DEF ReplayRecord
  <2>4. \A t \in TxnIds : Durable(pending[t])'
    <3> SUFFICES ASSUME NEW t \in TxnIds, NEW i \in 1 .. Len(pending'[t])
                 PROVE  datMay[pending'[t][i].val] = {"ok"}
      BY <2>3 DEF Durable
    <3>1. CASE t # r.txn
      BY <1>25, <3>1 DEF ReplayRecord, ReplayOK, OrderedInv, ReplayBehindData, Durable
    <3>2. CASE t = r.txn /\ r.kind # "op"
      BY <1>25, <3>2 DEF ReplayRecord, ReplayOK
    <3>3. CASE t = r.txn /\ r.kind = "op"
      <4>1. pending'[t] = Append(pending[t], o)
        BY <1>25, <3>3 DEF ReplayRecord, ReplayOK
      <4>2. datMay[o.val] = {"ok"}
        BY <2>2, <3>3 DEF OrderedInv, LogBehindData
      <4>3. pending[t] \in Seq(Op)
        BY DEF ReplayOK
      <4>4. /\ Len(pending'[t]) = Len(pending[t]) + 1
            /\ \A j \in 1 .. Len(pending[t]) : pending'[t][j] = pending[t][j]
            /\ pending'[t][Len(pending[t]) + 1] = o
        BY <4>1, <4>3
      <4>5. CASE i \in 1 .. Len(pending[t])
        <5>1. Durable(pending[t])
          BY DEF OrderedInv, ReplayBehindData
        <5>2. pending'[t][i] = pending[t][i]
          BY <4>4, <4>5
        <5> QED
          BY <4>5, <5>1, <5>2 DEF Durable
      <4>6. CASE i = Len(pending[t]) + 1
        BY <4>2, <4>4, <4>6
      <4> QED
        BY <4>3, <4>4, <4>5, <4>6
    <3> QED
      BY <3>1, <3>2, <3>3
  <2>5. Durable(todo)'
    <3>1. todo' = todo \/ todo' = pending[r.txn]
      BY <1>25 DEF ReplayRecord
    <3> QED
      BY <2>2, <2>3, <3>1 DEF OrderedInv, ReplayBehindData, Durable
  <2>6. pc = "replay" /\ pc' # "stage" /\ UNCHANGED ops
    BY <1>25 DEF ReplayRecord
  <2> QED
    BY <2>1, <2>4, <2>5, <2>6, <1>a, <1>e DEF OrderedInv, ReplayBehindData
<1>26. CASE ApplyOp
  <2> DEFINE o == Head(todo)
  <2>1. /\ Tail(todo) \in Seq(Op) /\ o = todo[1] /\ Len(todo) >= 1
        /\ Len(Tail(todo)) = Len(todo) - 1
        /\ \A i \in 1 .. Len(todo) - 1 : Tail(todo)[i] = todo[i + 1]
    BY <1>26 DEF ApplyOp, ReplayOK
  <2>2. o \in Op /\ datMay[o.val] = {"ok"}
    <3>1. 1 \in 1 .. Len(todo)
      BY <2>1 DEF ReplayOK
    <3>2. o \in Op
      BY <2>1, <3>1 DEF ReplayOK
    <3> QED
      BY <2>1, <3>1, <3>2 DEF OrderedInv, ReplayBehindData, Durable
  <2>3. o.blk \in MetaBlocks /\ o.val \in Vals
    BY <2>2 DEF Op
  <2>4. DataStays /\ UNCHANGED <<datMay, recMay>>
    BY <1>26 DEF ApplyOp, WriteBlk, DataStays
  <2>5. PointersBehindData'
    BY <1>26, <2>2, <2>3, <2>4
    DEF ApplyOp, WriteBlk, DeviceOK, OrderedInv, PointersBehindData
  <2>6. Durable(todo)'
    <3> SUFFICES ASSUME NEW i \in 1 .. Len(Tail(todo))
                 PROVE  datMay[Tail(todo)[i].val] = {"ok"}
      BY <1>26, <2>4 DEF ApplyOp, Durable
    <3>1. i + 1 \in 1 .. Len(todo) /\ Tail(todo)[i] = todo[i + 1]
      BY <2>1
    <3> QED
      BY <3>1 DEF OrderedInv, ReplayBehindData, Durable
  <2>7. \A t \in TxnIds : Durable(pending[t])'
    BY <1>26, <2>4 DEF ApplyOp, OrderedInv, ReplayBehindData, Durable
  <2> QED
    BY <1>26, <2>4, <2>5, <2>6, <2>7, <1>e
    DEF ApplyOp, OrderedInv, LogBehindData, ReplayBehindData
<1>27. CASE UNCHANGED vars
  BY <1>27 DEF vars, OrderedInv, PointersBehindData, LogBehindData,
               StagedBehindData, ReplayBehindData, Durable
<1> QED
  BY <1>1, <1>2, <1>3, <1>4, <1>5, <1>6, <1>7, <1>8, 
     <1>9, <1>10, <1>11, <1>12, <1>13, <1>14, <1>15, <1>16, 
     <1>17, <1>18, <1>19, <1>20, <1>21, <1>22, <1>23, <1>24, 
     <1>25, <1>26, <1>27
  DEF Next, Step

\* Ordered mode, for every device, log size and number of crashes and errors:
\* no power loss leaves a metadata block that refers to missing or
\* half-written data.
THEOREM Ordered == Spec => []PointersBehindData
<1>1. Init => OrderedInv
  <2> SUFFICES ASSUME Init PROVE OrderedInv
    OBVIOUS
  <2>1. PointersBehindData /\ LogBehindData
    BY ConstAssumption DEF Init, PointersBehindData, LogBehindData, BadRec
  <2>2. StagedBehindData /\ ReplayBehindData
    BY DEF Init, StagedBehindData, ReplayBehindData, Durable, NoPending
  <2> QED
    BY <2>1, <2>2 DEF OrderedInv
<1>2. TypeOK /\ OrderedInv /\ [Next]_vars => OrderedInv'
  BY OrderedStep
<1>3. OrderedInv => PointersBehindData
  BY DEF OrderedInv
<1> QED
  BY <1>1, <1>2, <1>3, TypeCorrect, PTL DEF Spec

-----------------------------------------------------------------------------
(* The shape of the log *)

\* Every record below the tail of a header is older than the header's next id.
IdsBehind ==
    \A h \in hdrMay : \A k \in 0 .. h.tail - 1 : \A r \in recMay[k] : r.txn < h.next

\* From the first log write of a transaction to its second header.
Appending == pc \in {"append", "commitRec", "commitSync", "hdr2"}

\* How far a transaction is behind the durable tail: its op records lie right
\* after it, in order, then its commit record; the headers that may survive
\* still end before them.
TxnRecords ==
    /\ hdrMay = {hdr}
    /\ pos <= Len(ops)
    /\ mem.tail = hdr.tail + pos + (IF pc \in {"commitSync", "hdr2"} THEN 1 ELSE 0)
    /\ \A i \in 1 .. pos : rec[hdr.tail + i - 1] = OpRec(txn, ops[i])
    /\ pc # "append" => pos = Len(ops)
    /\ pc \in {"commitSync", "hdr2"} => rec[mem.tail - 1] = CommitRec(txn)
    /\ pc = "hdr2" => \A k \in SlotIds : recMay[k] = {rec[k]}

\* The records that can still be replayed are older than the running transaction.
OlderThanTxn ==
    \A h \in hdrMay : \A k \in 0 .. h.tail - 1 : \A r \in recMay[k] : r.txn < txn

TxnShape ==
    /\ pc \in {"stage", "open", "hdr1Sync"} => pos = 0
    /\ pc = "open" => hdrMay = {hdr} /\ mem = hdr
    /\ pc = "hdr1Sync" => \A h \in hdrMay : h.tail = mem.tail
    /\ Appending => TxnRecords
    /\ pc = "hdr1Sync" \/ Appending => OlderThanTxn /\ mem.next = txn + 1
    /\ pc = "hdr1Sync" => hdr = mem
    /\ pc \in {"clear", "clearSync"} => mem.tail = 0

LogInv == ClosedLog /\ IdsBehind /\ TxnShape

\* The tail and the next id of a header as numbers.
LEMMA HeaderNumbers ==
  ASSUME NEW h \in JournalHeader
  PROVE  h.tail \in Nat /\ h.tail <= Slots /\ h.next \in Nat /\ h.next >= 1
<1>1. h.tail \in 0 .. Slots /\ h.next \in 1 .. MaxTxn + 1
  BY HeaderFacts
<1> QED
  BY <1>1, ConstAssumption

\* A header has a tail and a next id, and the slots below a tail exist.
LEMMA SlotFacts ==
  ASSUME DeviceOK
  PROVE  /\ \A h \in hdrMay : /\ h.tail \in Nat /\ h.tail <= Slots /\ h.next \in Nat /\ h.next >= 1
                              /\ \A k \in 0 .. h.tail - 1 : k \in SlotIds
         /\ \A k \in SlotIds : \A r \in recMay[k] : r \in Records
<1>1. ASSUME NEW h \in hdrMay
      PROVE  /\ h.tail \in Nat /\ h.tail <= Slots /\ h.next \in Nat /\ h.next >= 1
             /\ \A k \in 0 .. h.tail - 1 : k \in SlotIds
  <2>1. h \in JournalHeader
    BY DEF DeviceOK
  <2>2. h.tail \in Nat /\ h.tail <= Slots /\ h.next \in Nat /\ h.next >= 1
    BY <2>1, HeaderNumbers
  <2> QED
    BY <2>2, ConstAssumption DEF SlotIds
<1> QED
  BY <1>1 DEF DeviceOK

\* Steps that add no record but zeroes below a tail that may survive, and no
\* header that ends elsewhere than an old one or at the start, keep the log
\* closed.
LEMMA LogKeeps ==
  ASSUME DeviceOK, ClosedLog, IdsBehind,
         \A h \in hdrMay' : \/ h.tail = 0
                            \/ \E g \in hdrMay : h.tail = g.tail /\ g.next <= h.next,
         \A h \in hdrMay' : h.tail \in Nat /\ h.next \in Nat /\ h.next >= 1,
         \A h \in hdrMay : \A k \in 0 .. h.tail - 1 : recMay'[k] \subseteq recMay[k] \cup {BadRec}
  PROVE  ClosedLog' /\ IdsBehind'
<1>1. SUFFICES ASSUME NEW h \in hdrMay', NEW k \in 0 .. h.tail - 1, NEW r \in recMay'[k]
               PROVE  /\ r.txn < h.next
                      /\ r.kind = "op" => /\ k + 1 < h.tail
                                          /\ \A q \in recMay'[k + 1] : q.kind # "bad" => q.txn = r.txn
  BY DEF ClosedLog, IdsBehind
<1>2. PICK g \in hdrMay : h.tail = g.tail /\ g.next <= h.next
  OBVIOUS
<1>3. g.next \in Nat /\ h.next \in Nat /\ h.next >= 1 /\ k \in 0 .. g.tail - 1 /\ k \in SlotIds
  BY <1>2, SlotFacts
<1>4. r \in recMay[k] \/ r = BadRec
  BY <1>2, <1>3
<1>5. CASE r = BadRec
  <2>1. r.txn = 0 /\ r.kind # "op"
    BY <1>5 DEF BadRec
  <2> QED
    BY <1>3, <2>1
<1>6. CASE r \in recMay[k]
  <2>1. r.txn < g.next /\ r.txn \in Int
    <3>1. r \in Records
      BY <1>3, <1>6, SlotFacts
    <3>2. r.txn \in Int
      BY <3>1, ConstAssumption DEF Records, OpRec, CommitRec, BadRec, TxnIds
    <3> QED
      BY <1>3, <1>6, <3>2 DEF IdsBehind
  <2>2. ASSUME r.kind = "op"
        PROVE  k + 1 < h.tail /\ \A q \in recMay'[k + 1] : q.kind # "bad" => q.txn = r.txn
    <3>1. k + 1 < g.tail /\ \A q \in recMay[k + 1] : q.kind # "bad" => q.txn = r.txn
      BY <1>3, <1>6, <2>2 DEF ClosedLog
    <3>2. k + 1 \in 0 .. g.tail - 1
      BY <1>3, <3>1, SlotFacts
    <3>3. recMay'[k + 1] \subseteq recMay[k + 1] \cup {BadRec}
      BY <3>2
    <3> QED
      BY <1>2, <3>1, <3>3 DEF BadRec
  <2> QED
    BY <1>2, <1>3, <2>1, <2>2
<1> QED
  BY <1>4, <1>5, <1>6

\* The same for a running transaction: what was older stays older.
LEMMA OlderKeeps ==
  ASSUME DeviceOK, OlderThanTxn, txn \in TxnIds, txn' = txn,
         \A h \in hdrMay' : h.tail = 0 \/ \E g \in hdrMay : h.tail = g.tail,
         \A h \in hdrMay : \A k \in 0 .. h.tail - 1 : recMay'[k] \subseteq recMay[k] \cup {BadRec}
  PROVE  OlderThanTxn'
<1> SUFFICES ASSUME NEW h \in hdrMay', NEW k \in 0 .. h.tail - 1, NEW r \in recMay'[k]
             PROVE  r.txn < txn
  BY DEF OlderThanTxn
<1>1. PICK g \in hdrMay : h.tail = g.tail
  OBVIOUS
<1>2. r \in recMay[k] \/ r = BadRec
  BY <1>1
<1>3. txn \in Nat /\ txn >= 1
  BY ConstAssumption DEF TxnIds
<1> QED
  BY <1>1, <1>2, <1>3 DEF OlderThanTxn, BadRec

\* Power loss and sync shrink what may be on the device.
LEMMA SyncLog ==
  ASSUME DeviceOK, Sync
  PROVE  /\ hdrMay' = {hdr} /\ hdr \in hdrMay /\ UNCHANGED <<hdr, rec>>
         /\ \A k \in SlotIds : recMay'[k] = {rec[k]} /\ rec[k] \in recMay[k]
  BY DEF DeviceOK, Sync

\* A power loss leaves a header and records that were possible before it.
LEMMA PowerLossLog ==
  ASSUME DeviceOK, PowerLoss
  PROVE  /\ hdrMay' \subseteq hdrMay
         /\ \A k \in SlotIds : recMay'[k] \subseteq recMay[k]
<1>1. hdrMay' \subseteq hdrMay
  BY DEF PowerLoss
<1> QED
  BY <1>1, PowerLossStays

\* An op record that is not the last before the commit record is followed by the
\* next op's: p ops behind the tail h, then the commit record, and the tail m.
LEMMA NotLastOp ==
  ASSUME NEW h \in Nat, NEW p \in Nat, NEW m, m = h + p + 1,
         NEW i \in 1 .. p, NEW k, k = h + i - 1, k + 1 # m - 1
  PROVE  i + 1 \in 1 .. p /\ k + 1 = h + (i + 1) - 1
  OBVIOUS

\* The shape of the log is inductive, with errors, power losses and the offline
\* repair.
LEMMA LogStep ==
  ASSUME TypeOK, LogInv, [Next]_vars
  PROVE  LogInv'
<1> USE DEF TypeOK, LogInv, device, replayVars, history
<1>t. DeviceOK /\ mem \in JournalHeader /\ hdr \in hdrMay /\ hdr \in JournalHeader
      /\ pos \in Nat /\ Len(ops) \in Nat /\ ops \in Seq(Op)
  BY DEF DeviceOK, SessionOK
<1>m. mem.tail \in Nat /\ mem.tail <= Slots /\ mem.next \in Nat /\ mem.next >= 1
      /\ hdr.tail \in Nat /\ hdr.tail <= Slots /\ hdr.next \in Nat
      /\ Slots \in Nat
  <2>1. mem.tail \in Nat /\ mem.tail <= Slots /\ mem.next \in Nat /\ mem.next >= 1
    BY <1>t, HeaderNumbers
  <2>2. hdr.tail \in Nat /\ hdr.tail <= Slots /\ hdr.next \in Nat
    BY <1>t, HeaderNumbers
  <2> QED
    BY <2>1, <2>2, ConstAssumption
<1>n. pos \in Nat /\ Len(ops) \in Nat
  BY <1>t
<1> DEFINE Keeps ==
      /\ \A h \in hdrMay' : h \in hdrMay
      /\ \A h \in hdrMay : \A k \in 0 .. h.tail - 1 : recMay'[k] \subseteq recMay[k] \cup {BadRec}
<1>a. ASSUME Keeps PROVE ClosedLog' /\ IdsBehind'
  <2>1. \A h \in hdrMay : h.tail \in Nat /\ h.next \in Nat /\ h.next >= 1
    BY SlotFacts
  <2>2. \A h \in hdrMay' : \/ h.tail = 0
                           \/ \E g \in hdrMay : h.tail = g.tail /\ g.next <= h.next
    BY <1>a, <2>1
  <2> QED
    BY <1>a, <2>1, <2>2, LogKeeps
<1>b. ASSUME Keeps, OlderThanTxn, txn \in TxnIds, txn' = txn PROVE OlderThanTxn'
  BY <1>b, OlderKeeps
<1>c. ASSUME UNCHANGED <<hdr, hdrMay, rec, recMay, blk, blkMay, dat, datMay>> PROVE Keeps
  BY <1>c
<1>d. ASSUME Sync PROVE Keeps /\ hdrMay' = {hdr} /\ UNCHANGED <<hdr, rec>>
                        /\ \A k \in SlotIds : recMay'[k] = {rec[k]}
  <2>1. hdrMay' = {hdr} /\ hdr \in hdrMay /\ UNCHANGED <<hdr, rec>>
        /\ \A k \in SlotIds : recMay'[k] = {rec[k]} /\ rec[k] \in recMay[k]
    BY <1>d, SyncLog
  <2> QED
    BY <2>1, SlotFacts
\* Steps outside a transaction leave its shape vacuous.
<1>e. ASSUME pc' \notin {"stage", "open", "hdr1Sync", "append", "commitRec", "commitSync",
                         "hdr2", "clear", "clearSync"}
      PROVE  TxnShape'
  BY <1>e DEF TxnShape, Appending
<1>1. CASE OpenSession
  <2>1. pc' = "stage" /\ pos' = 0
    BY <1>1 DEF OpenSession
  <2>2. TxnShape'
    BY <2>1 DEF TxnShape, Appending
  <2> QED
    BY <1>1, <1>a, <1>c, <2>2 DEF OpenSession
<1>2. CASE AbortSession
  BY <1>2, <1>a, <1>c, <1>e DEF AbortSession, AfterSession
<1>3. CASE CommitStart
  <2>1. pc' = "open" /\ pc = "stage" /\ pos' = pos /\ mem' = hdr
    BY <1>3 DEF CommitStart
  <2>2. Keeps /\ hdrMay' = {hdr} /\ UNCHANGED hdr
    BY <1>3, <1>d DEF CommitStart
  <2>3. TxnShape'
    BY <2>1, <2>2 DEF TxnShape, Appending
  <2> QED
    BY <1>a, <2>2, <2>3
<1>4. CASE \E v \in Vals : WriteData(v)
  <2>1. PICK v \in Vals : WriteData(v)
    BY <1>4
  <2>2. UNCHANGED <<hdr, hdrMay, rec, recMay, pos, pc>> /\ pc = "stage"
    BY <2>1 DEF WriteData, WriteDat
  <2>3. TxnShape'
    BY <2>2 DEF TxnShape, Appending
  <2> QED
    BY <1>a, <2>2, <2>3
<1>5. CASE \E b \in MetaBlocks, v \in Vals : Stage(b, v)
  <2>1. UNCHANGED <<hdr, hdrMay, rec, recMay, pos, pc>> /\ pc = "stage"
    BY <1>5 DEF Stage
  <2>2. TxnShape'
    BY <2>1 DEF TxnShape, Appending
  <2> QED
    BY <1>a, <2>1, <2>2
<1>6. CASE BeginTxn
  <2>1. /\ pc = "open" /\ pc' = "hdr1Sync" /\ txn' = mem.next /\ hdr' = mem'
        /\ hdrMay' = hdrMay \cup {mem'} /\ UNCHANGED <<rec, recMay, pos>>
    BY <1>6 DEF BeginTxn, WriteHdr
  <2>2. hdrMay = {mem} /\ mem = hdr /\ pos = 0
    BY <2>1 DEF TxnShape
  <2>3. mem'.tail = mem.tail /\ mem'.next = mem.next + 1
    BY <1>6, <1>t DEF BeginTxn, JournalHeader
  <2>4. ClosedLog' /\ IdsBehind'
    <3>1. \A h \in hdrMay' : h.tail = mem.tail /\ mem.next <= h.next /\ h.next \in Nat /\ h.next >= 1
      BY <1>m, <2>1, <2>2, <2>3
    <3> QED
      BY <1>m, <2>1, <2>2, <3>1, LogKeeps
  <2>5. OlderThanTxn'
    BY <2>1, <2>2, <2>3 DEF OlderThanTxn, IdsBehind
  <2>6. TxnShape'
    BY <2>1, <2>2, <2>3, <2>5 DEF TxnShape, Appending
  <2> QED
    BY <2>4, <2>6
<1>7. CASE Hdr1Sync
  <2>1. pc = "hdr1Sync" /\ pc' = "append" /\ UNCHANGED <<mem, ops, txn, pos>>
    BY <1>7 DEF Hdr1Sync
  <2>2. Keeps /\ hdrMay' = {hdr} /\ UNCHANGED <<hdr, rec>>
    BY <1>7, <1>d DEF Hdr1Sync
  <2>3. txn \in TxnIds /\ OlderThanTxn /\ mem.next = txn + 1 /\ pos = 0 /\ hdr = mem
    BY <2>1 DEF TxnShape, SessionOK, InTxn
  <2>4. OlderThanTxn'
    BY <1>b, <2>1, <2>2, <2>3
  <2>5. TxnRecords'
    BY <1>m, <1>t, <2>1, <2>2, <2>3 DEF TxnRecords
  <2>6. TxnShape'
    BY <2>1, <2>3, <2>4, <2>5 DEF TxnShape, Appending
  <2> QED
    BY <1>a, <2>2, <2>6
<1>8. CASE AppendOp
  <2> DEFINE r == OpRec(txn, ops[pos + 1])
  <2>1. /\ pc = "append" /\ pc' = "append" /\ pos < Len(ops) /\ mem.tail < Slots /\ pos' = pos + 1
        /\ UNCHANGED <<hdr, hdrMay, ops, txn>>
        /\ rec' = [k \in SlotIds |-> IF k \in {mem.tail} THEN r ELSE rec[k]]
        /\ recMay' = [k \in SlotIds |-> IF k \in {mem.tail} THEN recMay[k] \cup {r, BadRec}
                                                            ELSE recMay[k]]
    BY <1>8 DEF AppendOp, WriteRec
  <2>2. TxnRecords /\ OlderThanTxn /\ mem.next = txn + 1 /\ txn \in TxnIds
    BY <2>1 DEF TxnShape, Appending, SessionOK, InTxn
  <2>3. mem.tail = hdr.tail + pos /\ hdrMay = {hdr}
    <3>1. hdrMay = {hdr} /\ mem.tail = hdr.tail + pos + 0
      BY <2>1, <2>2 DEF TxnRecords
    <3> QED
      BY <1>m, <1>t, <3>1
  <2>4. mem'.tail = mem.tail + 1 /\ mem'.next = mem.next
    BY <1>8, <1>t DEF AppendOp, JournalHeader
  <2>5. Keeps
    <3>1. \A k \in 0 .. hdr.tail - 1 : k \in SlotIds /\ k # mem.tail
      BY <1>m, <1>t, <2>3 DEF SlotIds
    <3> QED
      BY <2>1, <2>3, <3>1
  <2>6. OlderThanTxn'
    BY <1>b, <2>1, <2>2, <2>5
  <2>7. TxnRecords'
    <3>1. \A i \in 1 .. pos' : rec'[hdr.tail + i - 1] = OpRec(txn, ops[i])
      <4> SUFFICES ASSUME NEW i \in 1 .. pos + 1 PROVE rec'[hdr.tail + i - 1] = OpRec(txn, ops[i])
        BY <2>1
      <4>1. hdr.tail + i - 1 \in SlotIds
        BY SMTT(20), <1>m, <1>t, <2>1, <2>3, ConstAssumption DEF SlotIds
      <4>2. CASE i = pos + 1
        <5>1. hdr.tail + i - 1 = mem.tail
          BY <1>m, <1>t, <2>3, <4>2
        <5> QED
          BY <2>1, <4>1, <4>2, <5>1
      <4>3. CASE i \in 1 .. pos
        <5>1. hdr.tail + i - 1 # mem.tail
          BY <1>m, <1>t, <2>3, <4>3
        <5>2. rec[hdr.tail + i - 1] = OpRec(txn, ops[i])
          BY <2>2, <4>3 DEF TxnRecords
        <5> QED
          BY <2>1, <4>1, <5>1, <5>2
      <4> QED
        BY <1>t, <4>2, <4>3
    <3>2. pos' <= Len(ops) /\ mem'.tail = hdr.tail + pos'
      <4>1. pos' = pos + 1 /\ pos + 1 <= Len(ops)
        BY <1>n, <2>1
      <4>2. mem'.tail = hdr.tail + (pos + 1)
        BY SMTT(20), <1>m, <1>n, <2>3, <2>4
      <4> QED
        BY <4>1, <4>2
    <3> QED
      BY <1>m, <2>1, <2>3, <3>1, <3>2 DEF TxnRecords
  <2>8. TxnShape'
    BY <2>1, <2>2, <2>4, <2>6, <2>7 DEF TxnShape, Appending
  <2> QED
    BY <1>a, <2>5, <2>8
<1>9. CASE OpsSync
  <2>1. pc = "append" /\ pc' = "commitRec" /\ pos = Len(ops) /\ UNCHANGED <<mem, ops, txn, pos>>
    BY <1>9 DEF OpsSync
  <2>2. Keeps /\ hdrMay' = {hdr} /\ UNCHANGED <<hdr, rec>>
    BY <1>9, <1>d DEF OpsSync
  <2>3. TxnRecords /\ OlderThanTxn /\ mem.next = txn + 1 /\ txn \in TxnIds
    BY <2>1 DEF TxnShape, Appending, SessionOK, InTxn
  <2>4. OlderThanTxn'
    BY <1>b, <2>1, <2>2, <2>3
  <2>5. TxnRecords'
    BY <2>1, <2>2, <2>3 DEF TxnRecords
  <2>6. TxnShape'
    BY <2>1, <2>3, <2>4, <2>5 DEF TxnShape, Appending
  <2> QED
    BY <1>a, <2>2, <2>6
<1>10. CASE AppendCommit
  <2> DEFINE r == CommitRec(txn)
  <2>1. /\ pc = "commitRec" /\ pc' = "commitSync" /\ mem.tail < Slots
        /\ UNCHANGED <<hdr, hdrMay, ops, txn, pos>>
        /\ rec' = [k \in SlotIds |-> IF k \in {mem.tail} THEN r ELSE rec[k]]
        /\ recMay' = [k \in SlotIds |-> IF k \in {mem.tail} THEN recMay[k] \cup {r, BadRec}
                                                            ELSE recMay[k]]
    BY <1>10 DEF AppendCommit, WriteRec
  <2>2. TxnRecords /\ OlderThanTxn /\ mem.next = txn + 1 /\ txn \in TxnIds
    BY <2>1 DEF TxnShape, Appending, SessionOK, InTxn
  <2>3. mem.tail = hdr.tail + pos /\ hdrMay = {hdr} /\ pos = Len(ops)
    BY <1>m, <2>1, <2>2 DEF TxnRecords
  <2>4. mem'.tail = mem.tail + 1 /\ mem'.next = mem.next
    BY <1>10, <1>t DEF AppendCommit, JournalHeader
  <2>5. Keeps
    <3>1. \A k \in 0 .. hdr.tail - 1 : k \in SlotIds /\ k # mem.tail
      BY <1>m, <1>t, <2>3 DEF SlotIds
    <3> QED
      BY <2>1, <2>3, <3>1
  <2>6. OlderThanTxn'
    BY <1>b, <2>1, <2>2, <2>5
  <2>7. TxnRecords'
    <3>1. \A i \in 1 .. pos : rec'[hdr.tail + i - 1] = OpRec(txn, ops[i])
      <4> SUFFICES ASSUME NEW i \in 1 .. pos PROVE rec'[hdr.tail + i - 1] = OpRec(txn, ops[i])
        OBVIOUS
      <4>1. hdr.tail + i - 1 \in SlotIds /\ hdr.tail + i - 1 # mem.tail
        BY SMTT(20), <1>m, <1>t, <2>1, <2>3, ConstAssumption DEF SlotIds
      <4>2. rec[hdr.tail + i - 1] = OpRec(txn, ops[i])
        BY <2>2 DEF TxnRecords
      <4> QED
        BY <2>1, <4>1, <4>2
    <3>2. mem'.tail - 1 = mem.tail /\ mem.tail \in SlotIds /\ mem'.tail = hdr.tail + pos + 1
      BY <1>m, <1>t, <2>1, <2>3, <2>4, ConstAssumption DEF SlotIds
    <3>3. rec'[mem'.tail - 1] = CommitRec(txn)
      BY <2>1, <3>2
    <3> QED
      BY <1>t, <2>1, <2>3, <3>1, <3>2, <3>3 DEF TxnRecords
  <2>8. TxnShape'
    BY <2>1, <2>2, <2>4, <2>6, <2>7 DEF TxnShape, Appending
  <2> QED
    BY <1>a, <2>5, <2>8
<1>11. CASE CommitSync
  <2>1. pc = "commitSync" /\ pc' = "hdr2" /\ UNCHANGED <<mem, ops, txn, pos>>
    BY <1>11 DEF CommitSync
  <2>2. Keeps /\ hdrMay' = {hdr} /\ UNCHANGED <<hdr, rec>> /\ \A k \in SlotIds : recMay'[k] = {rec[k]}
    BY <1>11, <1>d DEF CommitSync
  <2>3. TxnRecords /\ OlderThanTxn /\ mem.next = txn + 1 /\ txn \in TxnIds
    BY <2>1 DEF TxnShape, Appending, SessionOK, InTxn
  <2>4. OlderThanTxn'
    BY <1>b, <2>1, <2>2, <2>3
  <2>5. TxnRecords'
    BY <2>1, <2>2, <2>3 DEF TxnRecords
  <2>6. TxnShape'
    BY <2>1, <2>3, <2>4, <2>5 DEF TxnShape, Appending
  <2> QED
    BY <1>a, <2>2, <2>6
<1>12. CASE WriteHdr2
  <2>1. /\ pc = "hdr2" /\ pc' = "hdr2Sync" /\ hdrMay' = hdrMay \cup {mem}
        /\ UNCHANGED <<rec, recMay>>
    BY <1>12 DEF WriteHdr2, WriteHdr
  <2>2. TxnRecords /\ OlderThanTxn /\ mem.next = txn + 1 /\ txn \in TxnIds
    BY <2>1 DEF TxnShape, Appending, SessionOK, InTxn
  <2>3. /\ hdrMay = {hdr} /\ mem.tail = hdr.tail + pos + 1
        /\ rec[mem.tail - 1] = CommitRec(txn) /\ \A k \in SlotIds : recMay[k] = {rec[k]}
    BY <1>m, <1>t, <2>1, <2>2 DEF TxnRecords
  <2>4. txn \in Nat /\ txn >= 1
    BY <2>2, ConstAssumption DEF TxnIds
  <2>5. ASSUME NEW k \in 0 .. mem.tail - 1, NEW r \in recMay[k]
        PROVE  /\ r.txn < mem.next
               /\ r.kind = "op" => /\ k + 1 < mem.tail
                                   /\ \A q \in recMay[k + 1] : q.kind # "bad" => q.txn = r.txn
    <3>0. k \in SlotIds /\ r = rec[k]
      BY <1>m, <2>3 DEF SlotIds
    <3>1. CASE k \in 0 .. hdr.tail - 1
      <4>1. r.txn < txn
        BY <2>2, <2>3, <3>1 DEF OlderThanTxn
      <4>2. r.txn \in Int
        <5>1. r \in Records
          BY <3>0 DEF DeviceOK
        <5> QED
          BY <5>1, ConstAssumption DEF Records, OpRec, CommitRec, BadRec, TxnIds
      <4>3. r.kind = "op" => /\ k + 1 < hdr.tail
                             /\ \A q \in recMay[k + 1] : q.kind # "bad" => q.txn = r.txn
        BY <2>3, <3>1 DEF ClosedLog
      <4> QED
        BY SMTT(20), <1>m, <1>t, <2>2, <2>3, <2>4, <4>1, <4>2, <4>3
    <3>2. CASE k = mem.tail - 1
      <4>1. r.kind = "commit" /\ r.txn = txn
        BY <2>3, <3>0, <3>2 DEF CommitRec
      <4> QED
        BY <2>2, <2>4, <4>1
    <3>3. CASE k \in hdr.tail .. mem.tail - 2
      <4>1. PICK i \in 1 .. pos : k = hdr.tail + i - 1
        <5>1. k \in Int /\ k >= hdr.tail /\ k <= hdr.tail + pos - 1
          BY <1>m, <1>t, <2>3, <3>3
        <5>2. k - hdr.tail + 1 \in 1 .. pos /\ k = hdr.tail + (k - hdr.tail + 1) - 1
          BY SMTT(20), <1>m, <1>t, <5>1
        <5> QED
          BY <5>2
      <4>2. r = OpRec(txn, ops[i])
        BY <2>2, <3>0, <4>1 DEF TxnRecords
      <4>3. r.txn = txn
        BY <4>2 DEF OpRec
      <4>4. k + 1 < mem.tail /\ k + 1 \in SlotIds
        BY <1>m, <3>3 DEF SlotIds
      <4>5. rec[k + 1].txn = txn
        <5>1. CASE k + 1 = mem.tail - 1
          BY <2>3, <5>1 DEF CommitRec
        <5>2. CASE k + 1 # mem.tail - 1
          <6>1. i + 1 \in 1 .. pos /\ k + 1 = hdr.tail + (i + 1) - 1
            BY SMTT(20), <1>m, <1>n, <2>3, <4>1, <5>2, NotLastOp
          <6>2. rec[k + 1] = OpRec(txn, ops[i + 1])
            BY <2>2, <6>1 DEF TxnRecords
          <6> QED
            BY <6>2 DEF OpRec
        <5> QED
          BY <5>1, <5>2
      <4>6. \A q \in recMay[k + 1] : q.txn = txn
        BY <2>3, <4>4, <4>5
      <4> QED
        BY <2>2, <2>4, <4>3, <4>4, <4>6
    <3> QED
      BY SMTT(20), <1>m, <1>t, <2>3, <3>1, <3>2, <3>3
  <2>6. ClosedLog' /\ IdsBehind'
    BY <2>1, <2>5 DEF ClosedLog, IdsBehind
  <2> QED
    BY <1>e, <2>1, <2>6
<1>13. CASE Hdr2Sync
  BY <1>13, <1>a, <1>d, <1>e DEF Hdr2Sync
<1>14. CASE ReplayRecord
  <2>1. pc' \in {"replay", "apply"}
    BY <1>14 DEF ReplayRecord
  <2> QED
    BY <1>14, <2>1, <1>a, <1>c, <1>e DEF ReplayRecord
<1>15. CASE ApplyOp
  BY <1>15, <1>a, <1>e DEF ApplyOp, WriteBlk
<1>16. CASE ApplyDone
  BY <1>16, <1>a, <1>c, <1>e DEF ApplyDone
<1>17. CASE ReplayEnd
  BY <1>17, <1>a, <1>c, <1>e DEF ReplayEnd
<1>18. CASE ReplaySync
  BY <1>18, <1>a, <1>d, <1>e DEF ReplaySync
<1>19. CASE CheckpointZero
  <2>1. /\ pc' = "clear" /\ mem' = [mem EXCEPT !.tail = 0, !.dirty = FALSE] /\ UNCHANGED hdrMay
        /\ recMay' = [k \in SlotIds |-> IF k \in 0 .. ZeroSlots - 1 THEN recMay[k] \cup {BadRec, BadRec}
                                                                    ELSE recMay[k]]
    BY <1>19 DEF CheckpointZero, WriteRec
  <2>2. Keeps
    BY <2>1, SlotFacts
  <2>3. mem'.tail = 0
    BY <1>t, <2>1 DEF JournalHeader
  <2>4. TxnShape'
    BY <2>1, <2>3 DEF TxnShape, Appending
  <2> QED
    BY <1>a, <2>2, <2>4
<1>20. CASE CheckpointHeader
  <2>1. /\ pc = "clear" /\ pc' = "clearSync" /\ hdrMay' = hdrMay \cup {mem} /\ UNCHANGED <<recMay, mem>>
    BY <1>20 DEF CheckpointHeader, WriteHdr
  <2>2. mem.tail = 0
    BY <2>1 DEF TxnShape
  <2>3. \A h \in hdrMay : h.tail \in Nat /\ h.next \in Nat /\ h.next >= 1 /\ h.next <= h.next
    BY SlotFacts
  <2>4. ClosedLog' /\ IdsBehind'
    <3>1. \A h \in hdrMay' : \/ h.tail = 0
                             \/ \E g \in hdrMay : h.tail = g.tail /\ g.next <= h.next
      BY <2>1, <2>2, <2>3
    <3>2. \A h \in hdrMay' : h.tail \in Nat /\ h.next \in Nat /\ h.next >= 1
      BY <1>m, <2>1, <2>3
    <3> QED
      BY <2>1, <3>1, <3>2, LogKeeps
  <2>5. TxnShape'
    BY <2>1, <2>2 DEF TxnShape, Appending
  <2> QED
    BY <2>4, <2>5
<1>21. CASE CommitOk
  BY <1>21, <1>a, <1>d, <1>e DEF CommitOk, AfterSession
<1>22. CASE RecoverOk
  BY <1>22, <1>a, <1>d, <1>e DEF RecoverOk
<1>23. CASE RecordAreaFull
  BY <1>23, <1>a, <1>c, <1>e DEF RecordAreaFull, ReturnErr, AfterSession
<1>24. CASE Mount
  BY <1>24, <1>a, <1>c, <1>e DEF Mount
<1>25. CASE IoError
  BY <1>25, <1>a, <1>c, <1>e DEF IoError, ReturnErr, AfterSession
<1>26. CASE Crash
  <2>1. Keeps
    BY <1>26, PowerLossLog, SlotFacts DEF Crash
  <2> QED
    BY <1>26, <1>a, <1>e, <2>1 DEF Crash
<1>27. CASE UNCHANGED vars
  BY <1>27 DEF vars, ClosedLog, IdsBehind, TxnShape, TxnRecords, OlderThanTxn, Appending
<1> QED
  BY <1>1, <1>2, <1>3, <1>4, <1>5, <1>6, <1>7, <1>8, <1>9, <1>10, <1>11,
     <1>12, <1>13, <1>14, <1>15, <1>16, <1>17, <1>18, <1>19, <1>20, <1>21,
     <1>22, <1>23, <1>24, <1>25, <1>26, <1>27
  DEF Next, Step

\* A freshly formatted log is empty.
LEMMA LogInit ==
  ASSUME Init
  PROVE  LogInv
<1>1. FreshHeader.tail = 0 /\ \A h \in hdrMay : h.tail = 0
  BY DEF Init, FreshHeader
<1>2. \A h \in hdrMay : 0 .. h.tail - 1 = {}
  BY <1>1
<1>3. ClosedLog /\ IdsBehind
  BY <1>2 DEF ClosedLog, IdsBehind
<1>4. TxnShape
  BY DEF Init, TxnShape, Appending
<1> QED
  BY <1>3, <1>4 DEF LogInv

\* LogInv holds in every reachable state, with any number of I/O errors and
\* power losses and with the offline repair.
THEOREM LogAlways == Spec => []LogInv
<1>1. Init => LogInv
  BY LogInit
<1>2. TypeOK /\ LogInv /\ [Next]_vars => LogInv'
  BY LogStep
<1> QED
  BY <1>1, <1>2, TypeCorrect, PTL DEF Spec

\* Whatever header a power loss leaves, the records below its tail are whole
\* transactions, so Journal::replay never applies a part of one.
THEOREM LogClosed == Spec => []ClosedLog
<1>1. LogInv => ClosedLog
  BY DEF LogInv
<1> QED
  BY <1>1, LogAlways, PTL

\* Journal::begin never hands out the id of a record that can still be
\* replayed.
THEOREM IdsFresh == Spec => []FreshTxnIds
<1>1. TypeOK /\ LogInv => FreshTxnIds
  <2> SUFFICES ASSUME TypeOK, LogInv, pc \in {"hdr1Sync", "append"},
                      NEW h \in hdrMay, NEW k \in 0 .. h.tail - 1, NEW r \in recMay[k]
               PROVE  r.txn # txn
    BY DEF FreshTxnIds
  <2>1. r.txn < txn
    BY DEF LogInv, TxnShape, Appending, OlderThanTxn
  <2>2. txn \in Nat
    BY ConstAssumption DEF TypeOK, SessionOK
  <2>3. k \in SlotIds /\ r \in Records
    BY SlotFacts DEF TypeOK
  <2>4. r.txn \in Int
    BY <2>3, ConstAssumption DEF Records, OpRec, CommitRec, BadRec, TxnIds
  <2> QED
    BY <2>1, <2>2, <2>4
<1> QED
  BY <1>1, LogAlways, TypeCorrect, PTL

-----------------------------------------------------------------------------
(* The invariant *)

\* Every session follows a recovery, on a device that does not fail.
Reliable == MaxErr = 0 /\ OfflineRepair = FALSE

\* A power loss cannot change the metadata.
Still == \A b \in MetaBlocks : blkMay[b] = {blk[b]}

\* The metadata is what it should be, and is not about to change.
AtRest == Still /\ blk \in allowed

\* No header that may survive covers a record: replay will find nothing to do.
EmptyLog == (\A h \in hdrMay : h.tail = 0) /\ AtRest

\* The record a log of the transaction t with the ops L has in slot k.
TxnRecord(L, t, k) == IF k < Len(L) THEN OpRec(t, L[k + 1]) ELSE CommitRec(t)

\* The power loss may leave a log that replay does not apply.
Skippable(L) ==
    \/ \E h \in hdrMay : h.tail = 0
    \/ \E k \in 0 .. Len(L) : BadRec \in recMay[k]

\* The log holds the one transaction t with the ops L, perhaps partly erased:
\* replaying it gives contents that are allowed, and where it may not be
\* replayed the contents are allowed as they are.
LoggedTxn(L, t) ==
    /\ L # <<>> /\ Len(L) < Slots
    /\ \A h \in hdrMay : h.tail \in {0, Len(L) + 1}
    /\ \A k \in 0 .. Len(L) : recMay[k] \subseteq {TxnRecord(L, t, k), BadRec}
    /\ Overlay(blk, L) \in allowed
    /\ \A b \in MetaBlocks : LastTo(L, b) = {} => blkMay[b] = {blk[b]}
    /\ Skippable(L) => AtRest

\* Whatever a power loss leaves now, the next mount makes an allowed content.
Recoverable ==
    EmptyLog \/ \E L \in Seq(Op), t \in TxnIds : LoggedTxn(L, t)

\* The phases of a call, by what they may assume of the device.
Before   == {"idle", "stage", "open", "hdr1Sync", "append", "commitRec", "commitSync", "hdr2"}
Replays  == {"replay", "apply", "replaySync"}
Finishes == {"zero", "clear", "clearSync"}

\* How far the replay of the transaction t with the ops L is.
Progress(L, t) ==
    /\ hdr.tail = Len(L) + 1 /\ cursor <= hdr.tail
    /\ \A k \in 0 .. cursor - 1 : rec[k].kind # "bad"
    /\ cursor <= Len(L) =>
          /\ pc = "replay" /\ applied = FALSE
          /\ Len(pending[t]) = cursor
          /\ \A i \in 1 .. cursor : pending[t][i] = L[i]
    /\ cursor = hdr.tail =>
          /\ applied = TRUE
          /\ pc = "apply" => /\ Overlay(blk, todo) = Overlay(blk, L)
                             /\ \A i \in 1 .. Len(todo) : LastTo(L, todo[i].blk) # {}
          /\ pc # "apply" => Overlay(blk, L) = blk

\* A replay of an empty log finds nothing; a replay of a transaction is on its
\* way through it, and in a session the transaction is the session's own, whole.
ReplayState ==
    \/ hdr.tail = 0 /\ EmptyLog /\ pc = "replay" /\ cursor = 0 /\ applied = FALSE /\ mode = "recover"
    \/ \E L \in Seq(Op), t \in TxnIds :
          /\ LoggedTxn(L, t) /\ Progress(L, t)
          /\ mode = "mounted" => L = ops /\ \A k \in 0 .. Len(L) : rec[k].kind # "bad"

\* Up to its second header, a session runs on a mounted volume with an empty
\* log, and its effect is allowed from Journal::begin on.
SessionState ==
    /\ mode = "mounted" /\ EmptyLog
    /\ pc \notin {"idle", "stage"} => ops # <<>>
    /\ pc \notin {"idle", "stage", "open"} => Overlay(blk, ops) \in allowed

\* With the second header written, the session's transaction is logged whole.
CommittedState ==
    /\ mode = "mounted" /\ hdr = mem /\ mem.tail = Len(ops) + 1 /\ LoggedTxn(ops, txn)
    /\ \A k \in 0 .. Len(ops) : rec[k].kind # "bad"

\* The header and the records are durable.
LogDurable == hdrMay = {hdr} /\ \A k \in SlotIds : recMay[k] = {rec[k]}

\* After the replay the contents are allowed; a session's ops are in them.
FinishState ==
    /\ mode \in {"recover", "mounted"} /\ AtRest
    /\ mode = "mounted" => Overlay(blk, ops) = blk

AtomicInv ==
    /\ Reliable
    /\ Recoverable
    /\ pc \in Before => SessionState
    /\ pc = "hdr2Sync" => CommittedState
    /\ pc \in {"down", "zero"} \cup Replays => LogDurable
    /\ pc \in Replays => mem = hdr /\ ReplayState /\ mode \in {"recover", "mounted"}
    /\ pc \in Finishes => FinishState
    /\ pc = "clearSync" => hdr = mem

-----------------------------------------------------------------------------
(* The operators of the replay: the last write to a block wins *)

Less == {p \in Nat \X Nat : p[1] < p[2]}

\* There is no infinite descent in the natural numbers.
LEMMA LessWellFounded == IsWellFoundedOn(Less, Nat)
  BY NatLessThanWellFounded DEF OpToRel, Less

\* A non-empty set of numbers has a least one.
LEMMA LeastNat ==
  ASSUME NEW T \in SUBSET Nat, T # {}
  PROVE  \E x \in T : \A y \in T : x <= y
<1>1. PICK x \in T : \A y \in T : ~(<<y, x>> \in Less)
  BY LessWellFounded, WFMin
<1>2. \A y \in T : ~(y < x)
  <2> SUFFICES ASSUME NEW y \in T, y < x PROVE FALSE
    OBVIOUS
  <2>1. <<y, x>> \in Less
    BY DEF Less
  <2> QED
    BY <1>1, <2>1
<1> QED
  BY <1>2

\* A block that some op writes has a last write.
LEMMA HasLast ==
  ASSUME NEW o \in Seq(Op), NEW i \in 1 .. Len(o)
  PROVE  LastTo(o, o[i].blk) # {}
<1> DEFINE b == o[i].blk
<1> DEFINE T == {d \in Nat : \E j \in 1 .. Len(o) : o[j].blk = b /\ d = Len(o) - j}
<1>1. Len(o) \in Nat
  OBVIOUS
<1>2. T # {}
  <2>1. Len(o) - i \in T
    BY <1>1
  <2> QED
    BY <2>1
<1>3. PICK x \in T : \A y \in T : x <= y
  BY <1>2, LeastNat
<1>4. PICK j \in 1 .. Len(o) : o[j].blk = b /\ x = Len(o) - j
  BY <1>3
<1>5. ASSUME NEW k \in j + 1 .. Len(o) PROVE o[k].blk # b
  <2>1. k \in 1 .. Len(o) /\ Len(o) - k \in Nat /\ Len(o) - k < x
    BY <1>1, <1>4
  <2>2. SUFFICES ASSUME o[k].blk = b PROVE FALSE
    OBVIOUS
  <2>3. Len(o) - k \in T /\ x \in Nat
    BY <2>1, <2>2
  <2>4. x <= Len(o) - k
    BY <1>3, <2>3
  <2> QED
    BY <2>1, <2>3, <2>4
<1>6. j \in LastTo(o, b)
  BY <1>4, <1>5 DEF LastTo
<1> QED
  BY <1>6

\* It has one last write.
LEMMA OneLast ==
  ASSUME NEW o \in Seq(Op), NEW b, NEW i \in LastTo(o, b), NEW j \in LastTo(o, b)
  PROVE  i = j
<1>1. i \in 1 .. Len(o) /\ j \in 1 .. Len(o) /\ Len(o) \in Nat
  BY DEF LastTo
<1>2. ~(i < j)
  BY <1>1 DEF LastTo
<1>3. ~(j < i)
  BY <1>1 DEF LastTo
<1> QED
  BY <1>1, <1>2, <1>3

\* The last write to a block is what the overlay shows.
LEMMA OverlayLast ==
  ASSUME NEW s, NEW o \in Seq(Op), NEW b \in MetaBlocks, NEW i \in LastTo(o, b)
  PROVE  Overlay(s, o)[b] = o[i].val
<1>1. (CHOOSE j \in LastTo(o, b) : TRUE) \in LastTo(o, b)
  OBVIOUS
<1>2. (CHOOSE j \in LastTo(o, b) : TRUE) = i
  BY <1>1, OneLast
<1> QED
  BY <1>2 DEF Overlay

\* A block that no op writes keeps its content.
LEMMA OverlayOther ==
  ASSUME NEW s, NEW o, NEW b \in MetaBlocks, LastTo(o, b) = {}
  PROVE  Overlay(s, o)[b] = s[b]
  BY DEF Overlay

\* Contents that agree where no op writes have the same overlay.
LEMMA OverlaySame ==
  ASSUME NEW s, NEW r, NEW o,
         \A b \in MetaBlocks : LastTo(o, b) = {} => s[b] = r[b]
  PROVE  Overlay(s, o) = Overlay(r, o)
  BY DEF Overlay

\* Replaying nothing changes nothing.
LEMMA OverlayNone ==
  ASSUME NEW s, s = [b \in MetaBlocks |-> s[b]]
  PROVE  Overlay(s, <<>>) = s
<1>1. \A b : LastTo(<<>>, b) = {}
  BY DEF LastTo
<1> QED
  BY <1>1 DEF Overlay

\* apply_op of the first op, then of the others, is the overlay of all.
LEMMA OverlayHead ==
  ASSUME NEW s, NEW o \in Seq(Op), o # <<>>, s = [b \in MetaBlocks |-> s[b]]
  PROVE  Overlay([s EXCEPT ![Head(o).blk] = Head(o).val], Tail(o)) = Overlay(s, o)
<1> DEFINE r == [s EXCEPT ![Head(o).blk] = Head(o).val]
<1> DEFINE u == Tail(o)
<1>0. Len(o) \in Nat /\ Len(o) >= 1 /\ u \in Seq(Op) /\ Len(u) = Len(o) - 1
      /\ \A i \in 1 .. Len(u) : u[i] = o[i + 1]
      /\ Head(o) = o[1] /\ o[1] \in Op
  OBVIOUS
<1>1. SUFFICES ASSUME NEW b \in MetaBlocks PROVE Overlay(r, u)[b] = Overlay(s, o)[b]
  BY DEF Overlay
<1>2. CASE LastTo(u, b) # {}
  <2>1. PICK i \in LastTo(u, b) : TRUE
    BY <1>2
  <2>2. i \in 1 .. Len(u) /\ u[i].blk = b /\ \A j \in i + 1 .. Len(u) : u[j].blk # b
    BY <2>1 DEF LastTo
  <2>3. i + 1 \in 1 .. Len(o) /\ o[i + 1] = u[i]
    BY <1>0, <2>2
  <2>4. ASSUME NEW j \in (i + 1) + 1 .. Len(o) PROVE o[j].blk # b
    <3>1. j - 1 \in i + 1 .. Len(u) /\ j - 1 \in 1 .. Len(u) /\ (j - 1) + 1 = j
      BY <1>0, <2>2
    <3>2. u[j - 1] = o[j]
      BY <1>0, <3>1
    <3> QED
      BY <2>2, <3>1, <3>2
  <2>5. i + 1 \in LastTo(o, b)
    BY <2>2, <2>3, <2>4 DEF LastTo
  <2>6. Overlay(r, u)[b] = u[i].val
    <3> HIDE DEF r, u
    <3> QED
      BY <1>0, <2>1, OverlayLast
  <2>7. Overlay(s, o)[b] = o[i + 1].val
    BY <2>5, OverlayLast
  <2> QED
    BY <2>3, <2>6, <2>7
<1>3. CASE LastTo(u, b) = {}
  <2>1. Overlay(r, u)[b] = r[b]
    BY <1>3, OverlayOther
  <2>2. \A j \in 2 .. Len(o) : o[j].blk # b
    <3> SUFFICES ASSUME NEW j \in 2 .. Len(o), o[j].blk = b PROVE FALSE
      OBVIOUS
    <3>1. j - 1 \in 1 .. Len(u) /\ (j - 1) + 1 = j
      BY <1>0
    <3>2. u[j - 1] = o[j]
      BY <1>0, <3>1
    <3> QED
      BY <1>0, <1>3, <3>1, <3>2, HasLast
  <2>3. CASE o[1].blk = b
    <3>1. 1 \in LastTo(o, b)
      BY <1>0, <2>2, <2>3 DEF LastTo
    <3>2. Overlay(s, o)[b] = o[1].val
      BY <3>1, OverlayLast
    <3>3. r[b] = o[1].val
      BY <1>0, <2>3
    <3> QED
      BY <2>1, <3>2, <3>3
  <2>4. CASE o[1].blk # b
    <3>1. LastTo(o, b) = {}
      <4> SUFFICES ASSUME NEW j \in LastTo(o, b) PROVE FALSE
        OBVIOUS
      <4>1. j \in 1 .. Len(o) /\ o[j].blk = b
        BY DEF LastTo
      <4> QED
        BY <1>0, <2>2, <2>4, <4>1
    <3>2. Overlay(s, o)[b] = s[b]
      BY <3>1, OverlayOther
    <3>3. r[b] = s[b]
      BY <1>0, <2>4
    <3> QED
      BY <2>1, <3>2, <3>3
  <2> QED
    BY <2>3, <2>4
<1> QED
  BY <1>2, <1>3

-----------------------------------------------------------------------------
(* What a sync and a power loss do to a recoverable device *)

\* Every part of the device settles on one of the values it may have.
Settles ==
    /\ hdrMay' \subseteq hdrMay
    /\ \A k \in SlotIds : recMay'[k] \subseteq recMay[k]
    /\ blk' = [b \in MetaBlocks |-> blk'[b]]
    /\ \A b \in MetaBlocks : blkMay'[b] = {blk'[b]} /\ blk'[b] \in blkMay[b]

\* FileImageDevice::sync leaves every block as it reads, and only that.
LEMMA SyncSettles ==
  ASSUME DeviceOK, Sync
  PROVE  Settles /\ blk' = blk
  BY DEF DeviceOK, Sync, Settles

\* A power loss leaves each block with one of the contents it might have had.
LEMMA PowerLossSettles ==
  ASSUME DeviceOK, PowerLoss
  PROVE  Settles
<1>1. hdrMay' \subseteq hdrMay /\ \A k \in SlotIds : recMay'[k] \subseteq recMay[k]
  BY PowerLossLog
<1>2. PICK f \in Images(blk, blkMay) : blk' = f /\ blkMay' = [b \in MetaBlocks |-> {f[b]}]
  BY DEF PowerLoss
<1>3. DOMAIN blk = MetaBlocks /\ \A b \in MetaBlocks : blk[b] \in blkMay[b]
  BY DEF DeviceOK
<1>4. f = [b \in MetaBlocks |-> f[b]] /\ \A b \in MetaBlocks : f[b] \in blkMay[b]
  BY <1>3, ImagesIn
<1> QED
  BY <1>1, <1>2, <1>4 DEF Settles

\* Blocks that were durable are not disturbed by a sync or a power loss.
LEMMA AtRestSettles ==
  ASSUME DeviceOK, Settles, AtRest, allowed' = allowed
  PROVE  AtRest' /\ blk' = blk
<1>1. \A b \in MetaBlocks : blk'[b] = blk[b]
  BY DEF Settles, AtRest, Still
<1>2. blk = [b \in MetaBlocks |-> blk[b]]
  BY DEF DeviceOK
<1>3. blk' = blk
  BY <1>1, <1>2 DEF Settles
<1> QED
  BY <1>3 DEF Settles, AtRest, Still

\* An empty log over durable blocks stays one through a sync or a power loss.
LEMMA EmptySettles ==
  ASSUME DeviceOK, Settles, EmptyLog, allowed' = allowed
  PROVE  EmptyLog' /\ blk' = blk
  BY AtRestSettles DEF EmptyLog, Settles

\* A logged transaction stays logged: a power loss changes only blocks that the
\* replay writes again.
LEMMA LoggedSettles ==
  ASSUME DeviceOK, Settles, NEW L \in Seq(Op), NEW t \in TxnIds, LoggedTxn(L, t),
         allowed' = allowed
  PROVE  LoggedTxn(L, t)'
<1>0. Len(L) \in Nat /\ Slots \in Nat /\ Len(L) < Slots
  BY ConstAssumption DEF LoggedTxn
<1>1. 0 .. Len(L) \subseteq SlotIds
  BY <1>0 DEF SlotIds
<1>2. \A b \in MetaBlocks : LastTo(L, b) = {} => blk'[b] = blk[b]
  BY DEF LoggedTxn, Settles
<1>3. Overlay(blk', L) = Overlay(blk, L)
  BY <1>2, OverlaySame
<1>4. Skippable(L)' => Skippable(L)
  BY <1>1 DEF Skippable, Settles
<1>5. Skippable(L)' => AtRest'
  BY <1>4, AtRestSettles DEF LoggedTxn
<1>6. \A k \in 0 .. Len(L) : recMay'[k] \subseteq {TxnRecord(L, t, k), BadRec}
  BY <1>1 DEF LoggedTxn, Settles
<1>7. \A b \in MetaBlocks : blkMay'[b] = {blk'[b]}
  BY DEF Settles
<1>8. \A h \in hdrMay' : h.tail \in {0, Len(L) + 1}
  BY DEF Settles, LoggedTxn
<1> QED
  BY <1>3, <1>5, <1>6, <1>7, <1>8 DEF LoggedTxn

\* So does a step that leaves the device and what is allowed alone.
LEMMA LoggedStays ==
  ASSUME NEW L \in Seq(Op), NEW t \in TxnIds, LoggedTxn(L, t),
         UNCHANGED <<hdrMay, recMay, blk, blkMay, allowed>>
  PROVE  LoggedTxn(L, t)'
  BY DEF LoggedTxn, Skippable, AtRest, Still

-----------------------------------------------------------------------------
(* The invariant is inductive *)

\* What a step into each group of phases has to show.
LEMMA IntoSession ==
  ASSUME Reliable, pc' \in Before, SessionState'
  PROVE  AtomicInv'
  BY DEF AtomicInv, Reliable, Recoverable, SessionState, Before, Replays, Finishes

\* The invariant where replay goes on: the log is durable and memory holds its
\* header.
LEMMA IntoReplay ==
  ASSUME Reliable, pc' \in Replays, LogDurable', mem' = hdr', ReplayState',
         mode' \in {"recover", "mounted"}
  PROVE  AtomicInv'
<1>1. Recoverable'
  BY DEF Recoverable, ReplayState
<1> QED
  BY <1>1 DEF AtomicInv, Reliable, Before, Replays, Finishes

\* The invariant from the end of replay to the end of checkpoint.
LEMMA IntoFinish ==
  ASSUME Reliable, pc' \in Finishes, Recoverable', FinishState',
         pc' = "zero" => LogDurable', pc' = "clearSync" => hdr' = mem'
  PROVE  AtomicInv'
  BY DEF AtomicInv, Reliable, Before, Replays, Finishes

\* Steps of a session before its second header.
LEMMA SessionStep ==
  ASSUME TypeOK, LogInv, AtomicInv,
         \/ OpenSession \/ AbortSession \/ CommitStart
         \/ \E v \in Vals : WriteData(v)
         \/ \E b \in MetaBlocks, v \in Vals : Stage(b, v)
         \/ BeginTxn \/ Hdr1Sync \/ AppendOp \/ OpsSync \/ AppendCommit \/ CommitSync
         \/ RecordAreaFull
  PROVE  AtomicInv'
<1> USE DEF device, replayVars, history
<1>0. Reliable /\ DeviceOK
  BY DEF AtomicInv, TypeOK
<1>1. SUFFICES pc' \in Before /\ SessionState'
  BY <1>0, IntoSession
<1>2. pc \in Before => SessionState
  BY DEF AtomicInv
\* A step that leaves the headers and the blocks alone, or syncs them.
<1>3. ASSUME EmptyLog, UNCHANGED <<hdrMay, blk, blkMay, allowed>> PROVE EmptyLog'
  BY <1>3 DEF EmptyLog, AtRest, Still
<1>4. ASSUME EmptyLog, Sync, allowed' = allowed PROVE EmptyLog' /\ blk' = blk
  BY <1>0, <1>4, SyncSettles, EmptySettles
<1>5. CASE OpenSession
  <2>1. pc = "idle" /\ pc' = "stage" /\ mode' = "mounted" /\ UNCHANGED <<hdrMay, blk, blkMay, allowed>>
    BY <1>0, <1>5 DEF OpenSession, Reliable
  <2> QED
    BY <1>2, <1>3, <2>1 DEF SessionState, Before
<1>6. CASE AbortSession
  <2>1. pc = "stage" /\ SessionState
    BY <1>2, <1>6 DEF AbortSession, Before
  <2>2. pc' = "idle" /\ UNCHANGED <<mode, hdrMay, blk, blkMay, allowed>>
    BY <1>6, <2>1 DEF AbortSession, AfterSession, SessionState
  <2> QED
    BY <1>3, <2>1, <2>2 DEF SessionState, Before
<1>7. CASE CommitStart
  <2>1. /\ pc = "stage" /\ pc' = "open" /\ ops # <<>> /\ Sync /\ UNCHANGED <<mode, ops, allowed>>
    BY <1>7 DEF CommitStart
  <2> QED
    BY <1>2, <1>4, <2>1 DEF SessionState, Before
<1>8. CASE \E v \in Vals : WriteData(v)
  <2>1. pc = "stage" /\ UNCHANGED <<pc, mode, hdrMay, blk, blkMay, allowed>>
    BY <1>8 DEF WriteData, WriteDat
  <2> QED
    BY <1>2, <1>3, <2>1 DEF SessionState, Before
<1>9. CASE \E b \in MetaBlocks, v \in Vals : Stage(b, v)
  <2>1. pc = "stage" /\ UNCHANGED <<pc, mode, hdrMay, blk, blkMay, allowed>>
    BY <1>9 DEF Stage
  <2> QED
    BY <1>2, <1>3, <2>1 DEF SessionState, Before
<1>10. CASE BeginTxn
  <2>1. /\ pc = "open" /\ pc' = "hdr1Sync" /\ hdrMay' = hdrMay \cup {mem'}
        /\ allowed' = allowed \cup {Overlay(s, ops) : s \in allowed}
        /\ UNCHANGED <<mode, ops, blk, blkMay>>
    BY <1>10 DEF BeginTxn, WriteHdr
  <2>2. SessionState
    BY <1>2, <2>1 DEF Before
  <2>3. mem.tail = 0 /\ mem \in JournalHeader
    BY <2>1, <2>2 DEF SessionState, EmptyLog, LogInv, TxnShape, TypeOK, SessionOK
  <2>4. mem'.tail = 0
    BY <1>10, <2>3 DEF BeginTxn, JournalHeader
  <2>5. EmptyLog'
    BY <2>1, <2>2, <2>4 DEF SessionState, EmptyLog, AtRest, Still
  <2>6. Overlay(blk, ops) \in allowed'
    BY <2>1, <2>2 DEF SessionState, EmptyLog, AtRest
  <2> QED
    BY <2>1, <2>2, <2>5, <2>6 DEF SessionState, Before
<1>11. CASE Hdr1Sync \/ OpsSync \/ CommitSync
  <2>1. /\ pc \in {"hdr1Sync", "append", "commitSync"} /\ pc' \in {"append", "commitRec", "hdr2"}
        /\ Sync /\ UNCHANGED <<mode, ops, allowed>>
    BY <1>11 DEF Hdr1Sync, OpsSync, CommitSync
  <2>2. SessionState
    BY <1>2, <2>1 DEF Before
  <2>3. EmptyLog' /\ blk' = blk
    BY <1>4, <2>1, <2>2 DEF SessionState
  <2> QED
    BY <2>1, <2>2, <2>3 DEF SessionState, Before
<1>12. CASE AppendOp \/ AppendCommit
  <2>1. /\ pc \in {"append", "commitRec"} /\ pc' \in {"append", "commitSync"}
        /\ UNCHANGED <<mode, ops, hdrMay, blk, blkMay, allowed>>
    BY <1>12 DEF AppendOp, AppendCommit, WriteRec
  <2>2. SessionState
    BY <1>2, <2>1 DEF Before
  <2>3. EmptyLog'
    BY <1>3, <2>1, <2>2 DEF SessionState
  <2> QED
    BY <2>1, <2>2, <2>3 DEF SessionState, Before
<1>13. CASE RecordAreaFull
  <2>1. pc \in {"append", "commitRec"} /\ UNCHANGED <<mode, hdrMay, blk, blkMay, allowed>>
    BY <1>13 DEF RecordAreaFull, ReturnErr
  <2>2. SessionState
    BY <1>2, <2>1 DEF Before
  <2>3. pc' = "idle"
    BY <1>13, <2>2 DEF RecordAreaFull, ReturnErr, AfterSession, SessionState
  <2> QED
    BY <1>3, <2>1, <2>2, <2>3 DEF SessionState, Before
<1> QED
  BY <1>5, <1>6, <1>7, <1>8, <1>9, <1>10, <1>11, <1>12, <1>13

\* The records of a transaction: its ops, then its commit.
LEMMA TxnRecordKind ==
  ASSUME NEW L, NEW t, NEW k
  PROVE  /\ k < Len(L) => /\ TxnRecord(L, t, k) = OpRec(t, L[k + 1])
                          /\ TxnRecord(L, t, k).kind = "op" /\ TxnRecord(L, t, k).txn = t
                          /\ TxnRecord(L, t, k).blk = L[k + 1].blk
                          /\ TxnRecord(L, t, k).val = L[k + 1].val
         /\ ~(k < Len(L)) => TxnRecord(L, t, k).kind = "commit" /\ TxnRecord(L, t, k).txn = t
<1>1. CASE k < Len(L)
  <2>1. TxnRecord(L, t, k) = OpRec(t, L[k + 1])
    BY <1>1 DEF TxnRecord
  <2> QED
    BY <1>1, <2>1 DEF OpRec
<1>2. CASE ~(k < Len(L))
  <2>1. TxnRecord(L, t, k) = CommitRec(t)
    BY <1>2 DEF TxnRecord
  <2> QED
    BY <1>2, <2>1 DEF CommitRec
<1> QED
  BY <1>1, <1>2

\* The second header makes the transaction reachable, whole.
LEMMA CommitStep ==
  ASSUME TypeOK, LogInv, AtomicInv, WriteHdr2
  PROVE  AtomicInv'
<1> USE DEF device, replayVars, history
<1>1. /\ pc = "hdr2" /\ pc' = "hdr2Sync" /\ hdr' = mem /\ hdrMay' = hdrMay \cup {mem}
      /\ UNCHANGED <<rec, recMay, blk, blkMay, mode, mem, ops, txn, allowed>>
  BY DEF WriteHdr2, WriteHdr
<1>2. SessionState /\ TxnRecords /\ Reliable
  BY <1>1 DEF AtomicInv, Before, LogInv, TxnShape, Appending
<1>3. /\ mem \in JournalHeader /\ ops \in Seq(Op) /\ txn \in TxnIds /\ hdr \in JournalHeader
      /\ DeviceOK
  BY <1>1 DEF TypeOK, SessionOK, InTxn, DeviceOK
<1>4. hdr.tail = 0 /\ hdrMay = {hdr}
  BY <1>2 DEF SessionState, EmptyLog, TxnRecords
<1>5. pos = Len(ops) /\ mem.tail = hdr.tail + pos + 1
  BY <1>1, <1>2 DEF TxnRecords
<1>6. /\ Len(ops) \in Nat /\ mem.tail = Len(ops) + 1 /\ Slots \in Nat /\ Len(ops) < Slots
      /\ Len(ops) \in SlotIds
  <2>1. Len(ops) \in Nat /\ mem.tail <= Slots /\ Slots \in Nat
    BY <1>3, HeaderNumbers, ConstAssumption
  <2>2. mem.tail = Len(ops) + 1
    BY <1>4, <1>5, <2>1
  <2> QED
    BY <2>1, <2>2 DEF SlotIds
<1>7. ASSUME NEW k \in 0 .. Len(ops) PROVE recMay[k] = {rec[k]} /\ rec[k] = TxnRecord(ops, txn, k)
  <2>1. recMay[k] = {rec[k]}
    <3>1. k \in SlotIds
      BY <1>6 DEF SlotIds
    <3> QED
      BY <1>1, <1>2, <3>1 DEF TxnRecords
  <2>2. CASE k < Len(ops)
    <3>1. k + 1 \in 1 .. pos /\ hdr.tail + (k + 1) - 1 = k
      BY <1>4, <1>5, <1>6, <2>2
    <3>2. rec[hdr.tail + (k + 1) - 1] = OpRec(txn, ops[k + 1])
      BY <1>2, <3>1 DEF TxnRecords
    <3> QED
      BY <2>1, <2>2, <3>1, <3>2 DEF TxnRecord
  <2>3. CASE ~(k < Len(ops))
    <3>1. k = mem.tail - 1
      BY <1>6, <2>3
    <3> QED
      BY <1>1, <1>2, <2>1, <2>3, <3>1 DEF TxnRecords, TxnRecord
  <2> QED
    BY <2>2, <2>3
<1>8. \A k \in 0 .. Len(ops) : rec[k].kind # "bad"
  BY <1>7, TxnRecordKind
<1>9. LoggedTxn(ops, txn)'
  <2>1. ops # <<>> /\ Overlay(blk, ops) \in allowed /\ AtRest
    BY <1>1, <1>2 DEF SessionState, EmptyLog
  <2>2. AtRest' /\ \A b \in MetaBlocks : blkMay'[b] = {blk'[b]}
    BY <1>1, <2>1 DEF AtRest, Still
  <2>3. \A h \in hdrMay' : h.tail \in {0, Len(ops) + 1}
    BY <1>1, <1>4, <1>6
  <2> QED
    BY <1>1, <1>6, <1>7, <2>1, <2>2, <2>3 DEF LoggedTxn
<1>10. CommittedState'
  BY <1>1, <1>2, <1>6, <1>8, <1>9 DEF CommittedState, SessionState
<1>11. Recoverable'
  <2>1. PICK L \in Seq(Op), t \in TxnIds : L = ops' /\ t = txn'
    BY <1>1, <1>3
  <2>2. LoggedTxn(L, t)'
    BY <1>9, <2>1 DEF LoggedTxn, Skippable
  <2> QED
    BY <2>2 DEF Recoverable
<1> QED
  BY <1>1, <1>2, <1>10, <1>11 DEF AtomicInv, Reliable, Before, Replays, Finishes

\* A replay that starts on a durable log finds nothing or one transaction.
LEMMA ReplayStarts ==
  ASSUME NEW L \in Seq(Op), NEW t \in TxnIds, LoggedTxn(L, t)', hdr'.tail = Len(L) + 1,
         pc' = "replay", cursor' = 0, pending' = NoPending, applied' = FALSE
  PROVE  Progress(L, t)'
<1>1. Len(L) \in Nat /\ 0 <= Len(L) + 1 /\ 0 # Len(L) + 1 /\ 0 .. 0 - 1 = {} /\ 1 .. 0 = {}
  OBVIOUS
<1>2. pending'[t] = <<>>
  BY DEF NoPending
<1>3. Len(pending'[t]) = 0
  BY <1>2
<1> QED
  BY <1>1, <1>3 DEF Progress

\* The sync of the second header makes the transaction durable; replay begins
\* at the first record with nothing collected.
LEMMA Hdr2SyncStep ==
  ASSUME TypeOK, AtomicInv, Hdr2Sync
  PROVE  AtomicInv'
<1>1. /\ pc = "hdr2Sync" /\ pc' = "replay" /\ Sync /\ UNCHANGED <<mode, mem, ops, txn, allowed>>
      /\ cursor' = 0 /\ pending' = NoPending /\ applied' = FALSE
  BY DEF Hdr2Sync, history
<1>2. CommittedState /\ Reliable /\ DeviceOK /\ ops \in Seq(Op) /\ txn \in TxnIds
  BY <1>1 DEF AtomicInv, TypeOK, SessionOK, InTxn
<1>3. PICK L \in Seq(Op), t \in TxnIds : L = ops /\ t = txn
  BY <1>2
<1>4. LoggedTxn(L, t)
  BY <1>2, <1>3 DEF CommittedState
<1>5. LoggedTxn(L, t)'
  BY <1>1, <1>2, <1>4, SyncSettles, LoggedSettles
<1>6. LogDurable' /\ UNCHANGED <<hdr, rec>>
  BY <1>1 DEF Sync, LogDurable
<1>7. Progress(L, t)'
  BY <1>1, <1>2, <1>3, <1>5, <1>6, ReplayStarts DEF CommittedState
<1>8. ReplayState'
  BY <1>1, <1>2, <1>3, <1>5, <1>6, <1>7 DEF ReplayState, CommittedState
<1> QED
  BY <1>1, <1>2, <1>6, <1>8, IntoReplay DEF CommittedState, Replays

\* recover_pending_transactions reads the header the power loss left: its log is
\* empty or holds one whole transaction, and replay begins.
LEMMA MountStep ==
  ASSUME TypeOK, AtomicInv, Mount
  PROVE  AtomicInv'
<1>1. /\ pc = "down" /\ pc' = "replay" /\ mode' = "recover" /\ mem' = hdr
      /\ cursor' = 0 /\ pending' = NoPending /\ applied' = FALSE
      /\ UNCHANGED <<hdr, hdrMay, rec, recMay, blk, blkMay, allowed>>
  BY DEF Mount, history, device
<1>2. Recoverable /\ LogDurable /\ Reliable /\ DeviceOK
  BY <1>1 DEF AtomicInv, TypeOK
<1>3. LogDurable'
  BY <1>1, <1>2 DEF LogDurable
<1>4. ASSUME EmptyLog PROVE ReplayState'
  <2>1. EmptyLog' /\ hdr'.tail = 0
    BY <1>1, <1>2, <1>4 DEF EmptyLog, AtRest, Still, LogDurable
  <2> QED
    BY <1>1, <2>1 DEF ReplayState
<1>5. ASSUME NEW L \in Seq(Op), NEW t \in TxnIds, LoggedTxn(L, t) PROVE ReplayState'
  <2>1. hdrMay = {hdr} /\ hdr.tail \in {0, Len(L) + 1}
    BY <1>2, <1>5 DEF LogDurable, LoggedTxn
  <2>2. CASE hdr.tail = 0
    <3>1. EmptyLog
      BY <1>5, <2>1, <2>2 DEF LoggedTxn, Skippable, EmptyLog
    <3> QED
      BY <1>4, <3>1
  <2>3. CASE hdr.tail = Len(L) + 1
    <3>1. LoggedTxn(L, t)'
      BY <1>1, <1>5, LoggedStays
    <3>2. Progress(L, t)'
      BY <1>1, <2>3, <3>1, ReplayStarts
    <3> QED
      BY <1>1, <3>1, <3>2 DEF ReplayState
  <2> QED
    BY <2>1, <2>2, <2>3
<1>6. ReplayState'
  BY <1>2, <1>4, <1>5 DEF Recoverable
<1> QED
  BY <1>1, <1>2, <1>3, <1>6, IntoReplay DEF Replays

\* Facts about a durable log in replay.
LEMMA ReplayFacts ==
  ASSUME TypeOK, LogDurable, NEW L \in Seq(Op), NEW t \in TxnIds, LoggedTxn(L, t), Progress(L, t)
  PROVE  /\ Len(L) \in Nat /\ Len(L) >= 1 /\ cursor \in Nat /\ cursor <= Len(L) + 1
         /\ hdr.tail = Len(L) + 1
         /\ \A k \in 0 .. Len(L) : k \in SlotIds /\ recMay[k] = {rec[k]}
         /\ \A k \in 0 .. Len(L) : rec[k].kind # "bad" => rec[k] = TxnRecord(L, t, k)
         /\ \A k \in 0 .. Len(L) : rec[k].kind = "bad" => rec[k] = BadRec
         /\ blk = [b \in MetaBlocks |-> blk[b]] /\ pending \in [TxnIds -> Seq(Op)] /\ todo \in Seq(Op)
<1>1. Len(L) \in Nat /\ Len(L) >= 1 /\ Slots \in Nat /\ Len(L) < Slots
  BY ConstAssumption DEF LoggedTxn
<1>2. cursor \in Nat /\ cursor <= Len(L) + 1 /\ hdr.tail = Len(L) + 1
  BY <1>1 DEF TypeOK, ReplayOK, Progress
<1>3. \A k \in 0 .. Len(L) : k \in SlotIds /\ recMay[k] = {rec[k]}
  BY <1>1 DEF SlotIds, LogDurable
<1>4. \A k \in 0 .. Len(L) : rec[k] \in {TxnRecord(L, t, k), BadRec}
  BY SMTT(20), <1>3 DEF LoggedTxn
<1>5. \A k \in 0 .. Len(L) : TxnRecord(L, t, k).kind # "bad"
  BY TxnRecordKind
<1>6. BadRec.kind = "bad"
  BY DEF BadRec
<1>7. blk = [b \in MetaBlocks |-> blk[b]] /\ pending \in [TxnIds -> Seq(Op)] /\ todo \in Seq(Op)
  BY DEF TypeOK, DeviceOK, ReplayOK
<1> QED
  BY <1>1, <1>2, <1>3, <1>4, <1>5, <1>6, <1>7

\* One record of the scan.
LEMMA ReplayRecordStep ==
  ASSUME TypeOK, AtomicInv, ReplayRecord
  PROVE  AtomicInv'
<1>1. /\ pc = "replay" /\ cursor < mem.tail /\ rec[cursor].kind # "bad" /\ cursor' = cursor + 1
      /\ UNCHANGED <<hdr, hdrMay, rec, recMay, blk, blkMay, mode, mem, ops, allowed>>
  BY DEF ReplayRecord, Scannable, history, device
<1>2. /\ Reliable /\ LogDurable /\ mem = hdr /\ ReplayState /\ mode \in {"recover", "mounted"}
  BY <1>1 DEF AtomicInv, Replays
<1>3. LogDurable'
  BY <1>1, <1>2 DEF LogDurable
<1>4. PICK L \in Seq(Op), t \in TxnIds :
         /\ LoggedTxn(L, t) /\ Progress(L, t)
         /\ mode = "mounted" => L = ops /\ \A k \in 0 .. Len(L) : rec[k].kind # "bad"
  BY <1>1, <1>2 DEF ReplayState
<1>5. /\ Len(L) \in Nat /\ Len(L) >= 1 /\ cursor \in Nat /\ cursor <= Len(L)
      /\ hdr.tail = Len(L) + 1 /\ cursor \in 0 .. Len(L)
      /\ pending \in [TxnIds -> Seq(Op)] /\ rec[cursor] = TxnRecord(L, t, cursor)
  BY <1>1, <1>2, <1>4, ReplayFacts
<1>6. /\ applied = FALSE /\ Len(pending[t]) = cursor /\ pending[t] \in Seq(Op)
      /\ \A i \in 1 .. cursor : pending[t][i] = L[i]
      /\ \A k \in 0 .. cursor - 1 : rec[k].kind # "bad"
  BY <1>4, <1>5 DEF Progress
<1>7. \A k \in 0 .. cursor' - 1 : rec'[k].kind # "bad"
  BY <1>1, <1>5, <1>6
<1>8. LoggedTxn(L, t)'
  BY <1>1, <1>4, LoggedStays
<1>9. pc' \in Replays /\ Progress(L, t)'
  <2>1. CASE cursor < Len(L)
    <3>1. rec[cursor].kind = "op" /\ rec[cursor].txn = t
          /\ rec[cursor].blk = L[cursor + 1].blk /\ rec[cursor].val = L[cursor + 1].val
      BY <1>5, <2>1, TxnRecordKind
    <3>2. L[cursor + 1] \in Op
      BY <1>5, <2>1
    <3>3. [blk |-> rec[cursor].blk, val |-> rec[cursor].val] = L[cursor + 1]
      BY <3>1, <3>2 DEF Op
    <3>4. pending'[t] = Append(pending[t], L[cursor + 1]) /\ UNCHANGED <<pc, applied>>
      BY <1>5, <3>1, <3>3 DEF ReplayRecord
    <3>5. Len(pending'[t]) = cursor + 1 /\ \A i \in 1 .. cursor + 1 : pending'[t][i] = L[i]
      BY <1>5, <1>6, <3>2, <3>4
    <3>6. cursor + 1 <= Len(L) + 1 /\ cursor + 1 # Len(L) + 1
      BY <1>5, <2>1
    <3> QED
      BY <1>1, <1>5, <1>6, <1>7, <3>4, <3>5, <3>6 DEF Progress, Replays
  <2>2. CASE cursor = Len(L)
    <3>1. rec[cursor].kind = "commit" /\ rec[cursor].txn = t
      BY <1>5, <2>2, TxnRecordKind
    <3>2. pending[t] = L
      BY <1>5, <1>6, <2>2
    <3>3. todo' = L /\ pc' = "apply" /\ applied' = TRUE
      BY <1>5, <3>1, <3>2 DEF ReplayRecord, LoggedTxn
    <3>4. \A i \in 1 .. Len(L) : LastTo(L, L[i].blk) # {}
      BY HasLast
    <3>5. ~(cursor + 1 <= Len(L)) /\ cursor + 1 = Len(L) + 1
      BY <1>5, <2>2
    <3> QED
      BY <1>1, <1>5, <1>7, <3>3, <3>4, <3>5 DEF Progress, Replays
  <2> QED
    BY <1>5, <2>1, <2>2
<1>10. ReplayState'
  BY <1>1, <1>4, <1>8, <1>9 DEF ReplayState
<1> QED
  BY <1>1, <1>2, <1>3, <1>9, <1>10, IntoReplay

\* A log whose records have all been scanned cannot be skipped any more.
LEMMA NotSkippable ==
  ASSUME NEW L \in Seq(Op), Len(L) \in Nat, LogDurable, hdr.tail = Len(L) + 1,
         \A k \in 0 .. Len(L) : recMay[k] = {rec[k]} /\ rec[k].kind # "bad"
  PROVE  ~Skippable(L)
<1>1. \A h \in hdrMay : h.tail # 0
  BY DEF LogDurable
<1>2. \A k \in 0 .. Len(L) : BadRec \notin recMay[k]
  BY DEF BadRec
<1> QED
  BY <1>1, <1>2 DEF Skippable

\* apply_op writes a block that the whole transaction writes: what the replay
\* ends with stays the same.
LEMMA ApplyOpStep ==
  ASSUME TypeOK, AtomicInv, ApplyOp
  PROVE  AtomicInv'
<1> DEFINE b == Head(todo).blk
<1> DEFINE v == Head(todo).val
<1>1. /\ pc = "apply" /\ pc' = "apply" /\ todo # <<>> /\ todo' = Tail(todo)
      /\ UNCHANGED <<hdr, hdrMay, rec, recMay, mode, mem, ops, cursor, pending, applied, allowed>>
  BY DEF ApplyOp, WriteBlk, history
<1>2. blk' = [blk EXCEPT ![b] = v] /\ blkMay' = [blkMay EXCEPT ![b] = @ \cup {v, Torn}]
  BY DEF ApplyOp, WriteBlk
<1>3. /\ Reliable /\ LogDurable /\ mem = hdr /\ ReplayState /\ mode \in {"recover", "mounted"}
  BY <1>1 DEF AtomicInv, Replays
<1>4. LogDurable'
  BY <1>1, <1>3 DEF LogDurable
<1>5. PICK L \in Seq(Op), t \in TxnIds :
         /\ LoggedTxn(L, t) /\ Progress(L, t)
         /\ mode = "mounted" => L = ops /\ \A k \in 0 .. Len(L) : rec[k].kind # "bad"
  BY <1>1, <1>3 DEF ReplayState
<1>6. /\ Len(L) \in Nat /\ cursor \in Nat /\ cursor <= Len(L) + 1 /\ hdr.tail = Len(L) + 1
      /\ \A k \in 0 .. Len(L) : recMay[k] = {rec[k]}
      /\ blk = [c \in MetaBlocks |-> blk[c]] /\ todo \in Seq(Op)
  BY <1>3, <1>5, ReplayFacts
<1>7. ~(cursor <= Len(L))
  BY <1>1, <1>5 DEF Progress
<1>8. cursor = Len(L) + 1
  BY <1>6, <1>7
<1>9. /\ applied = TRUE /\ Overlay(blk, todo) = Overlay(blk, L)
      /\ \A i \in 1 .. Len(todo) : LastTo(L, todo[i].blk) # {}
      /\ \A k \in 0 .. cursor - 1 : rec[k].kind # "bad"
  BY <1>1, <1>5, <1>6, <1>8 DEF Progress
<1>10. /\ Len(todo) \in Nat /\ Len(todo) >= 1 /\ Head(todo) = todo[1] /\ Tail(todo) \in Seq(Op)
       /\ Len(Tail(todo)) = Len(todo) - 1 /\ \A i \in 1 .. Len(todo) - 1 : Tail(todo)[i] = todo[i + 1]
  BY <1>1, <1>6
<1>11. LastTo(L, b) # {}
  <2>1. 1 \in 1 .. Len(todo)
    BY <1>10
  <2> QED
    BY <1>9, <1>10, <2>1
<1>12. \A c \in MetaBlocks : LastTo(L, c) = {} => blk'[c] = blk[c] /\ blkMay'[c] = blkMay[c]
  <2>1. blkMay = [c \in MetaBlocks |-> blkMay[c]]
    BY DEF TypeOK, DeviceOK
  <2> SUFFICES ASSUME NEW c \in MetaBlocks, LastTo(L, c) = {}
               PROVE  blk'[c] = blk[c] /\ blkMay'[c] = blkMay[c]
    OBVIOUS
  <2>2. c # b
    BY <1>11
  <2> HIDE DEF b, v
  <2> QED
    BY <1>2, <1>6, <2>1, <2>2
<1>13. Overlay(blk', L) = Overlay(blk, L)
  <2>1. \A c \in MetaBlocks : LastTo(L, c) = {} => blk'[c] = blk[c]
    BY <1>12
  <2> QED
    BY <2>1, OverlaySame
<1>14. Overlay(blk', Tail(todo)) = Overlay(blk, todo)
  BY <1>1, <1>2, <1>6, OverlayHead
<1>15. LoggedTxn(L, t)'
  <2>1. \A k \in 0 .. Len(L) : recMay'[k] = {rec'[k]} /\ rec'[k].kind # "bad"
    BY <1>1, <1>6, <1>8, <1>9
  <2>2. ~Skippable(L)'
    <3>1. ~Skippable(L)
      BY <1>1, <1>3, <1>6, <2>1, NotSkippable
    <3> QED
      BY <1>1, <3>1 DEF Skippable
  <2>3. \A c \in MetaBlocks : LastTo(L, c) = {} => blkMay'[c] = {blk'[c]}
    BY <1>5, <1>12 DEF LoggedTxn
  <2> QED
    BY <1>1, <1>5, <1>13, <2>2, <2>3 DEF LoggedTxn
<1>16. Progress(L, t)'
  <2>1. \A i \in 1 .. Len(todo') : LastTo(L, todo'[i].blk) # {}
    <3> SUFFICES ASSUME NEW i \in 1 .. Len(Tail(todo)) PROVE LastTo(L, Tail(todo)[i].blk) # {}
      BY <1>1
    <3>1. Tail(todo)[i] = todo[i + 1] /\ i + 1 \in 1 .. Len(todo)
      BY <1>10
    <3> QED
      BY <1>9, <3>1
  <2>2. Overlay(blk', todo') = Overlay(blk', L)
    BY <1>1, <1>9, <1>13, <1>14
  <2> QED
    BY <1>1, <1>6, <1>7, <1>8, <1>9, <2>1, <2>2 DEF Progress
<1>17. ReplayState'
  BY <1>1, <1>5, <1>15, <1>16 DEF ReplayState
<1> QED
  BY <1>1, <1>3, <1>4, <1>17, IntoReplay DEF Replays

\* With every op applied the contents are those of the whole transaction.
LEMMA ApplyDoneStep ==
  ASSUME TypeOK, AtomicInv, ApplyDone
  PROVE  AtomicInv'
<1>1. /\ pc = "apply" /\ pc' = "replay" /\ todo = <<>>
      /\ UNCHANGED <<hdr, hdrMay, rec, recMay, blk, blkMay, mode, mem, ops, cursor, pending, todo,
                     applied, allowed>>
  BY DEF ApplyDone, history, device, replayVars
<1>2. /\ Reliable /\ LogDurable /\ mem = hdr /\ ReplayState /\ mode \in {"recover", "mounted"}
  BY <1>1 DEF AtomicInv, Replays
<1>3. LogDurable'
  BY <1>1, <1>2 DEF LogDurable
<1>4. PICK L \in Seq(Op), t \in TxnIds :
         /\ LoggedTxn(L, t) /\ Progress(L, t)
         /\ mode = "mounted" => L = ops /\ \A k \in 0 .. Len(L) : rec[k].kind # "bad"
  BY <1>1, <1>2 DEF ReplayState
<1>5. /\ Len(L) \in Nat /\ cursor \in Nat /\ cursor <= Len(L) + 1 /\ hdr.tail = Len(L) + 1
      /\ blk = [c \in MetaBlocks |-> blk[c]]
  BY <1>2, <1>4, ReplayFacts
<1>6. ~(cursor <= Len(L))
  BY <1>1, <1>4 DEF Progress
<1>7. cursor = Len(L) + 1
  BY <1>5, <1>6
<1>8. Overlay(blk, L) = blk
  <2>1. Overlay(blk, todo) = Overlay(blk, L)
    BY <1>1, <1>4, <1>5, <1>7 DEF Progress
  <2>2. Overlay(blk, <<>>) = blk
    BY <1>5, OverlayNone
  <2> QED
    BY <1>1, <2>1, <2>2
<1>9. LoggedTxn(L, t)'
  BY <1>1, <1>4, LoggedStays
<1>10. Progress(L, t)'
  BY <1>1, <1>4, <1>6, <1>8 DEF Progress
<1>11. ReplayState'
  BY <1>1, <1>4, <1>9, <1>10 DEF ReplayState
<1> QED
  BY <1>1, <1>2, <1>3, <1>11, IntoReplay DEF Replays

\* The scan ends behind the transaction, or at a record that was erased or cut:
\* then the contents are allowed as they are.
LEMMA ReplayEndStep ==
  ASSUME TypeOK, AtomicInv, ReplayEnd
  PROVE  AtomicInv'
<1>1. /\ pc = "replay" /\ ~(cursor < mem.tail /\ rec[cursor].kind # "bad")
      /\ pc' = (IF applied THEN "replaySync" ELSE "zero")
      /\ UNCHANGED <<hdr, hdrMay, rec, recMay, blk, blkMay, mode, mem, ops, cursor, pending, todo,
                     applied, allowed>>
  BY DEF ReplayEnd, Scannable, history, device, replayVars
<1>2. /\ Reliable /\ LogDurable /\ mem = hdr /\ ReplayState /\ mode \in {"recover", "mounted"}
  BY <1>1 DEF AtomicInv, Replays
<1>3. LogDurable'
  BY <1>1, <1>2 DEF LogDurable
<1>4. ASSUME hdr.tail = 0, EmptyLog, applied = FALSE, mode = "recover"
      PROVE  AtomicInv'
  <2>1. EmptyLog'
    BY <1>1, <1>4 DEF EmptyLog, AtRest, Still
  <2> QED
    BY <1>1, <1>2, <1>3, <1>4, <2>1, IntoFinish DEF Finishes, FinishState, EmptyLog, Recoverable
<1>5. ASSUME NEW L \in Seq(Op), NEW t \in TxnIds, LoggedTxn(L, t), Progress(L, t),
             mode = "mounted" => L = ops /\ \A k \in 0 .. Len(L) : rec[k].kind # "bad"
      PROVE  AtomicInv'
  <2>1. /\ Len(L) \in Nat /\ cursor \in Nat /\ cursor <= Len(L) + 1 /\ hdr.tail = Len(L) + 1
        /\ \A k \in 0 .. Len(L) : recMay[k] = {rec[k]}
        /\ \A k \in 0 .. Len(L) : rec[k].kind = "bad" => rec[k] = BadRec
    BY <1>2, <1>5, ReplayFacts
  <2>2. LoggedTxn(L, t)'
    BY <1>1, <1>5, LoggedStays
  <2>3. CASE cursor <= Len(L)
    <3>1. cursor \in 0 .. Len(L) /\ cursor < mem.tail
      BY <1>2, <2>1, <2>3
    <3>2. rec[cursor].kind = "bad"
      BY <1>1, <3>1
    <3>3. Skippable(L)
      BY <2>1, <3>1, <3>2 DEF Skippable
    <3>4. AtRest' /\ mode' = "recover"
      BY <1>1, <1>2, <1>5, <3>1, <3>2, <3>3 DEF LoggedTxn, AtRest, Still
    <3>5. pc' = "zero"
      BY <1>1, <1>5, <2>3 DEF Progress
    <3>6. Recoverable'
      BY <2>2 DEF Recoverable
    <3> QED
      BY <1>2, <1>3, <3>4, <3>5, <3>6, IntoFinish DEF Finishes, FinishState
  <2>4. CASE ~(cursor <= Len(L))
    <3>1. cursor = Len(L) + 1
      BY <2>1, <2>4
    <3>2. applied = TRUE /\ Overlay(blk, L) = blk
      BY <1>1, <1>5, <2>1, <3>1 DEF Progress
    <3>3. pc' = "replaySync"
      BY <1>1, <3>2
    <3>4. Progress(L, t)'
      BY <1>1, <1>5, <2>4, <3>2, <3>3 DEF Progress
    <3>5. ReplayState'
      BY <1>1, <1>5, <2>2, <3>4 DEF ReplayState
    <3> QED
      BY <1>1, <1>2, <1>3, <3>3, <3>5, IntoReplay DEF Replays
  <2> QED
    BY <2>3, <2>4
<1> QED
  BY <1>2, <1>4, <1>5 DEF ReplayState

\* The sync after replay makes the replayed blocks durable, so that checkpoint
\* may erase the log.
LEMMA ReplaySyncStep ==
  ASSUME TypeOK, AtomicInv, ReplaySync
  PROVE  AtomicInv'
<1>1. pc = "replaySync" /\ pc' = "zero" /\ Sync /\ UNCHANGED <<mode, ops, allowed>>
  BY DEF ReplaySync, history
<1>2. /\ Reliable /\ LogDurable /\ mem = hdr /\ ReplayState /\ mode \in {"recover", "mounted"}
      /\ DeviceOK
  BY <1>1 DEF AtomicInv, Replays, TypeOK
<1>3. PICK L \in Seq(Op), t \in TxnIds :
         /\ LoggedTxn(L, t) /\ Progress(L, t)
         /\ mode = "mounted" => L = ops /\ \A k \in 0 .. Len(L) : rec[k].kind # "bad"
  BY <1>1, <1>2 DEF ReplayState
<1>4. /\ Len(L) \in Nat /\ cursor \in Nat /\ cursor <= Len(L) + 1 /\ hdr.tail = Len(L) + 1
  BY <1>2, <1>3, ReplayFacts
<1>5. ~(cursor <= Len(L))
  BY <1>1, <1>3 DEF Progress
<1>6. cursor = Len(L) + 1
  BY <1>4, <1>5
<1>7. Overlay(blk, L) = blk /\ blk \in allowed
  BY <1>1, <1>3, <1>4, <1>6 DEF Progress, LoggedTxn
<1>8. Settles /\ blk' = blk
  BY <1>1, <1>2, SyncSettles
<1>9. LoggedTxn(L, t)'
  BY <1>1, <1>2, <1>3, <1>8, LoggedSettles
<1>10. AtRest'
  BY <1>1, <1>7, <1>8 DEF Settles, AtRest, Still
<1>11. LogDurable'
  BY <1>1 DEF Sync, LogDurable
<1>12. FinishState'
  BY <1>1, <1>2, <1>3, <1>7, <1>8, <1>10 DEF FinishState
<1>13. Recoverable'
  BY <1>9 DEF Recoverable
<1> QED
  BY <1>1, <1>2, <1>11, <1>12, <1>13, IntoFinish DEF Finishes

\* checkpoint: with the contents at rest, the log may be erased in any order.
LEMMA CheckpointStep ==
  ASSUME TypeOK, LogInv, AtomicInv, CheckpointZero \/ CheckpointHeader
  PROVE  AtomicInv'
<1>1. /\ pc \in {"zero", "clear"} /\ pc' \in {"clear", "clearSync"}
      /\ UNCHANGED <<mode, ops, blk, blkMay, allowed>>
      /\ pc' = "clearSync" => hdr' = mem'
  BY DEF CheckpointZero, CheckpointHeader, WriteRec, WriteHdr, history
<1>2. Reliable /\ Recoverable /\ FinishState /\ DeviceOK
  BY <1>1 DEF AtomicInv, Finishes, TypeOK
<1>3. FinishState' /\ AtRest'
  BY <1>1, <1>2 DEF FinishState, AtRest, Still
\* The headers may get one with an empty log, the records may get erased.
<1>4. /\ \A h \in hdrMay' : h \in hdrMay \/ h.tail = 0
      /\ \A k \in SlotIds : recMay'[k] \subseteq recMay[k] \cup {BadRec}
  <2>1. CASE CheckpointZero
    BY <2>1 DEF CheckpointZero, WriteRec
  <2>2. CASE CheckpointHeader
    <3>1. pc = "clear" /\ hdrMay' = hdrMay \cup {mem} /\ UNCHANGED recMay
      BY <2>2 DEF CheckpointHeader, WriteHdr
    <3>2. mem.tail = 0
      BY <3>1 DEF LogInv, TxnShape
    <3> QED
      BY <3>1, <3>2
  <2> QED
    BY <2>1, <2>2
<1>5. ASSUME EmptyLog PROVE EmptyLog'
  BY <1>3, <1>4, <1>5 DEF EmptyLog
<1>6. ASSUME NEW L \in Seq(Op), NEW t \in TxnIds, LoggedTxn(L, t) PROVE LoggedTxn(L, t)'
  <2>1. Len(L) \in Nat /\ Slots \in Nat /\ Len(L) < Slots
    BY <1>6, ConstAssumption DEF LoggedTxn
  <2>2. 0 .. Len(L) \subseteq SlotIds
    BY <2>1 DEF SlotIds
  <2>3. \A k \in 0 .. Len(L) : recMay'[k] \subseteq {TxnRecord(L, t, k), BadRec}
    BY <1>4, <1>6, <2>2 DEF LoggedTxn
  <2>4. \A h \in hdrMay' : h.tail \in {0, Len(L) + 1}
    BY <1>4, <1>6 DEF LoggedTxn
  <2> QED
    BY <1>1, <1>3, <1>6, <2>3, <2>4 DEF LoggedTxn
<1>7. Recoverable'
  BY <1>2, <1>5, <1>6 DEF Recoverable
<1> QED
  BY <1>1, <1>2, <1>3, <1>7, IntoFinish DEF Finishes

\* commit() and recover_pending_transactions() return Ok on an empty log.
LEMMA ReturnOkStep ==
  ASSUME TypeOK, LogInv, AtomicInv, CommitOk \/ RecoverOk
  PROVE  AtomicInv'
<1>1. pc = "clearSync" /\ Sync
  BY DEF CommitOk, RecoverOk
<1>2. Reliable /\ FinishState /\ DeviceOK /\ hdr.tail = 0
  BY <1>1 DEF AtomicInv, Finishes, TypeOK, LogInv, TxnShape
<1>3. Settles /\ blk' = blk /\ hdrMay' = {hdr} /\ UNCHANGED hdr
  BY <1>1, <1>2, SyncSettles DEF Sync
<1>4. pc' = "idle" /\ mode' = "mounted"
  BY <1>2 DEF CommitOk, RecoverOk, AfterSession, FinishState
<1>5. blk' \in allowed'
  <2>1. CASE CommitOk
    <3>1. Overlay(blk, ops) = blk /\ blk \in allowed
      BY <1>2, <2>1 DEF CommitOk, FinishState, AtRest
    <3> QED
      BY <1>3, <2>1, <3>1 DEF CommitOk
  <2>2. CASE RecoverOk
    BY <1>2, <1>3, <2>2 DEF RecoverOk, FinishState, AtRest
  <2> QED
    BY <2>1, <2>2
<1>6. EmptyLog'
  BY <1>2, <1>3, <1>5 DEF EmptyLog, AtRest, Still, Settles
<1> QED
  BY <1>2, <1>4, <1>6, IntoSession DEF SessionState, Before

\* A power loss at any step leaves a log and blocks from which recovery reaches
\* the transaction's outcome.
LEMMA CrashStep ==
  ASSUME TypeOK, AtomicInv, Crash
  PROVE  AtomicInv'
<1>1. pc' = "down" /\ PowerLoss /\ allowed' = allowed
  BY DEF Crash, history
<1>2. Reliable /\ Recoverable /\ DeviceOK
  BY DEF AtomicInv, TypeOK
<1>3. Settles
  BY <1>1, <1>2, PowerLossSettles
<1>4. Recoverable'
  <2>1. ASSUME EmptyLog PROVE Recoverable'
    BY <1>1, <1>2, <1>3, <2>1, EmptySettles DEF Recoverable
  <2>2. ASSUME NEW L \in Seq(Op), NEW t \in TxnIds, LoggedTxn(L, t) PROVE Recoverable'
    <3>1. LoggedTxn(L, t)'
      BY <1>1, <1>2, <1>3, <2>2, LoggedSettles
    <3> QED
      BY <3>1 DEF Recoverable
  <2> QED
    BY <1>2, <2>1, <2>2 DEF Recoverable
<1>5. LogDurable'
  BY <1>1 DEF PowerLoss, LogDurable
<1> QED
  BY <1>1, <1>2, <1>4, <1>5 DEF AtomicInv, Reliable, Before, Replays, Finishes

\* Atomicity is inductive.
LEMMA AtomicStep ==
  ASSUME TypeOK, LogInv, AtomicInv, [Next]_vars
  PROVE  AtomicInv'
<1>1. CASE UNCHANGED vars
  <2>1. UNCHANGED <<hdr, hdrMay, rec, recMay, blk, blkMay, pc, mode, mem, ops, txn, cursor, pending,
                    todo, applied, allowed>>
    BY <1>1 DEF vars, device, replayVars, history
  <2>2. EmptyLog' = EmptyLog /\ AtRest' = AtRest /\ LogDurable' = LogDurable
    BY <2>1 DEF EmptyLog, AtRest, Still, LogDurable
  <2>3. ASSUME NEW L \in Seq(Op), NEW t \in TxnIds
        PROVE  LoggedTxn(L, t) = LoggedTxn(L, t)' /\ Progress(L, t) = Progress(L, t)'
    BY <2>1 DEF LoggedTxn, Skippable, AtRest, Still, Progress
  <2>4. Recoverable' /\ (ReplayState => ReplayState')
    BY <2>1, <2>2, <2>3 DEF AtomicInv, Recoverable, ReplayState
  <2>5. CommittedState => CommittedState'
    BY <2>1 DEF CommittedState, LoggedTxn, Skippable, AtRest, Still
  <2>6. (SessionState => SessionState') /\ (FinishState => FinishState')
    BY <2>1, <2>2 DEF SessionState, FinishState
  <2> QED
    BY <2>1, <2>2, <2>4, <2>5, <2>6 DEF AtomicInv, Reliable
<1>2. CASE IoError
  BY <1>2, ConstAssumption DEF IoError, AtomicInv, Reliable, TypeOK, CountersOK
<1> QED
  BY <1>1, <1>2, SessionStep, CommitStep, Hdr2SyncStep, MountStep, ReplayRecordStep, ApplyOpStep,
     ApplyDoneStep, ReplayEndStep, ReplaySyncStep, CheckpointStep, ReturnOkStep, CrashStep
  DEF Next, Step

\* A journaled transaction is atomic: a mounted volume whose last call returned
\* Ok shows every acknowledged transaction whole, and of one cut short by a power
\* loss all writes or none, for every number of blocks, ops, transactions, record
\* slots and power losses, on a device without I/O errors when every session
\* follows a mount.
THEOREM Atomic == Reliable /\ Spec => []AtomicCommit
<1>1. Reliable /\ Init => AtomicInv
  <2> SUFFICES ASSUME Reliable, Init PROVE AtomicInv
    OBVIOUS
  <2>1. hdrMay = {hdr} /\ hdr.tail = 0 /\ pc = "down"
    BY DEF Init, FreshHeader
  <2>2. AtRest
    BY DEF Init, AtRest, Still
  <2>3. LogDurable
    BY DEF Init, LogDurable
  <2> QED
    BY <2>1, <2>2, <2>3 DEF AtomicInv, Recoverable, EmptyLog, Before, Replays, Finishes
<1>2. TypeOK /\ LogInv /\ AtomicInv /\ [Next]_vars => AtomicInv'
  BY AtomicStep
<1>3. AtomicInv => AtomicCommit
  BY DEF AtomicInv, AtomicCommit, SessionState, EmptyLog, AtRest, Before
<1>4. Reliable /\ Spec => []AtomicInv
  BY <1>1, <1>2, TypeCorrect, LogAlways, PTL DEF Spec
<1> QED
  BY <1>3, <1>4, PTL
=============================================================================
