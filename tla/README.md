# CoreFS verification project

TLA+ models of CoreFS, the user-space file system in this repository: modules
for TLC, configurations that check them on small instances, and theorems whose
proofs TLAPS checks for every value of the constants. `PROJECT.json` lists the
components, the runs, the source lines behind every definition, the hazards and
the theorems.

## 1. The system

CoreFS keeps its files in memory (`CoreFsService`): a catalog of paths and
inodes, an extent store with the bytes, versions, snapshots, quotas and an
operation journal. It persists them in two ways: as a *volume image* (one
segmented file, format COREFS01) or in the *on-disk format* ODF v1 (superblock
copies, bitmaps, inode slots, data region, journal region). Hosts reach the
service through FUSE on Linux, WinFsp on Windows, and command line tools; a
running FUSE daemon also takes requests from tools over a control socket. The
AnyOS kernel links `corefs-core` and uses the device calls of the extent store
and the ODF session types directly.

| part | state | operations | hard behaviour | what makes it correct | module |
|---|---|---|---|---|---|
| File service (`app/mod.rs`, `catalog.rs`, `services/*`, `persisted_state.rs`) | catalog, deleted entries, versions, snapshots, quotas, operation journal, dirty set | create, write, range write, truncate, extend, delete, restore, expunge, rename, clone, snapshot, rollback, save, load | one step of several failing, recycled inode ids, reconciliation by the journal | a saved tree loads as it was; catalog, tombstones, ids and records agree | `ServiceOps`, `FileService` |
| Extent store (`storage/block_store.rs`) | extent records, free list, bump pointer, dedup table, bytes | write, append, range write, resize, remove, clone, dedup, defragment, heat reallocation, policy, device calls, rebuild from records | long sequences of legal calls; multi-extent and empty files; errors half-way | no block has two owners, files read back, saved images load | `BlockStore` |
| Linux FUSE mount (`linux_fuse.rs`, `volume_wal.rs`) | index maps, open handles and their buffers, pending log, backing | the kernel's requests, checkpoint, unmount, replay at mount | buffers half in the service, a crash or failed persist between any two requests | reads see writes, fsynced data survives, the maps are the tree | `FuseMount` |
| Volume image (`volume_image.rs`) and its sessions (`volume_session.rs`) | segments, superblocks, device image cache | full save, incremental and partial persist, load, repair | in-place update with one sync, a cache that differs from the device, rename without sync | what was acknowledged loads; what is accepted is one image | `VolumeImage`, `ImagePersist` |
| WinFsp write-back (`winfsp_backend.rs`) | service and device mutexes, dirty and deferred flags | file operations, flush, background pass, unmount | flags taken outside the mutexes, three threads, device errors | nothing is forgotten; unmount persists | `WinFspFlush` |
| Control socket (`online_ctl.rs`, `linux_fuse.rs`) | listener, channels, sockets | request, callback, timeout, unmount | a timeout against a late execution, an idle daemon | at most one execution, the right answer, always an answer | `OnlineCall`, `OnlineControl` |
| ODF journal (`ondisk/journal.rs`, `journaled.rs`) | header, record area, in-memory header, staged ops | open session, write data, stage, commit, replay, checkpoint, recover | power loss between any two writes, I/O errors, a full record area, stale records | a transaction is applied whole or not at all; pointers never precede their data | `OdfJournal` |
| ODF session, native layout (`ondisk/session.rs`, `native.rs`, `allocator.rs`, `volume.rs`) | slots, attr blocks, bitmaps, superblock copies, extent cache | format, open, flush | in-place writes with one sync, hash-map order, a cache that outlives its extents, a full volume | a flush reloads; inodes own disjoint blocks; untouched files survive a crash | `OdfSession` |
| ODF volume and its tools (`volume.rs`, `native.rs`, `resize.rs`, `fsck.rs`, `fsck_repair.rs`, `scrub.rs`) | superblocks, bitmaps, inode table, payload | format, blob save, dirty-inode save, grow, check, repair, scrub | damage, a save or a grow cut short, repair of what it cannot know | saves load, repair restores, the check tells | `OdfVolume` |
| ODF block groups (`grouped.rs`, `block_group.rs`, `multi_group_allocator.rs`) | group descriptors and bitmaps | grouped format, save, load | a save that fails half-way, damaged descriptors | saves load, bitmaps and counts agree | `GroupedVolume` |
| Tiering, reference counts, backup, keys, encryption, compression, tools, protocol crates | | | data only, or no caller | | none, see section 6 |

Devices have a volatile write cache (`sync` empties it), may return errors, and
in the deferred modes ignore `sync`. There is one process per mounted volume;
the concurrency is that of threads and channels inside it.

## 2. Modules

Each component module has its state as variables, one action per operation or
step, and its properties at the end. An `MC...` module extends it with the
values of the constants; a cfg chooses the instance. Operators marked `Fault`
are wrong versions of the definition that follows them, the kind of mistake the
property they are paired with in `PROJECT.json` would catch.

Where the code as it is breaks a property, the constant `Avoid` names the
sequences of calls that do it, so that everything around them can be checked.
A name in `Avoid` keeps those sequences out; without it TLC shows the break.
Section 5 says what each of them is.

**ServiceOps, FileService.** `ServiceOps` is `CoreFsService` as operators on one
record, each giving the result of the call and the service after it;
`FileService` is the state machine of its calls, with the save of the image, the
next load and `repair-image`. A path is a sequence of names, stored bytes are
the plain ones with the pipeline flags they were stored under, and the journal
is what `JournalService::replay` makes of it. The calls that go entry by entry
(rename, rollback, clone of a directory) are recursive functions over the paths
in the order of the catalog. `FuseMount` uses the same
operators, so the mount runs on the service that `FileService` checks.

**FuseMount.** The read-write FUSE mount, one action per request: lookup and
index maps, handles with their buffers and the streaming flush above
`stream_flush_threshold`, the pending volume log, checkpoint, unmount, a crash
of the daemon between or inside them, a failed persist, and the next mount with
its replay. Requests run one at a time (fuser's session loop). A persist
overwrites the image segment by segment, so one that fails or is cut short
(`FsyncFails`, `MountFails`, a failing `Unmount`, `Crash`) leaves the old image, the
new one or one that does not load (`Torn`): `img` is the set of those the
backing may hold, settled when the next mount reads it. `cache` is the mount's
image cache: none, true, or stale, in which case the next persist may leave
`Torn` again although it returns Ok. `want` is what the requests wrote into each
inode, `saved` the tree of the last checkpoint, `tried` the trees of the
persists that failed since.

**BlockStore.** The extent store and its round trip through a volume image. The
store is one record, each method an operator on it, and each action one call by
a caller in the repository. Bytes are cells, `BlockSize` cells a block; a CRC is
the content it was computed from. `DoAppendDeviceFails` is `append_device`
ended by a device error: the dedup entry is released, the slack of the last
extent may be written in part, and blocks taken for a new extent are in no
record. `told` is what each file's last writer stored,
`spilt` that blocks were taken for an empty file or a failed write, which the
store forgets until it is defragmented. `DoReload` saves and loads the image,
the bytes written back in any order (the code iterates over a hash map). The
loops (merging, summing blocks, moving files, writing files back) are recursive
functions of the number of turns, and sorting is `Arranged`, the sequence of a
set by a strict total order, so that both can be reasoned about.

**VolumeImage, ImagePersist.** `VolumeImage` is the format: layout, frames,
superblocks, incremental writes, cache updates, load and relaxed recovery, as
operators. `ImagePersist` has the callers (WinFsp's partial persist, FUSE on a
file and on a device, `DeviceVolumeSession`, `VolumeSession`) with failed
batches, power losses that keep or lose single cells, a rename that is lost, and
damage followed by `repair-image`. A batch that fails leaves a prefix of its
writes and the cache from before; the repair of a superblock copy rewrites the
volume from its inodes, without their bytes, as the code does. The metadata segments are one; a cell that is
not synced falls back to its last synced content; checksums do not collide;
growing the file is part of the write.

**OdfJournal.** The journal and the ordered-mode save session over a device with
a volatile cache. `hdr`, `rec`, `blk`, `dat` are what a read returns; the
`...May` sets are what a power loss can leave of each. Every device write and
every sync of `TxnBuilder::commit`, `replay`, `apply_op` and `checkpoint` is a
step of its own, so that a crash or an error falls between any two. A record is
found only by walking over valid records, so the record area is an array of
records and lengths matter only for "record area full". A metadata content
stands for the data block it points to, which is how ordered mode becomes a
statement about two pieces of state. `TxnBuilder::abort` and
`commit_without_apply` are called by tests only.

**OdfSession.** A mounted ODF volume in native layout. A flush is one call that
issues a sequence of writes and one sync, and nothing but an error or a power
loss can be seen between two of the writes: so the flush is one action that
computes the sequence, and `FlushIoError`, `FlushNoSpace` and `PowerLoss` cut it
short or let any subset of it, or a prefix with a torn block, reach the medium.
The two passes of the incremental save walk hash maps; `RemoveOrders` and
`WriteOrders` are the orders they may yield. `Open(marker)` is
`OdfFileSession::open` and the FUSE mount, which saves once to mark the volume
unclean.

**OdfVolume.** The volume as its tools see it: formatting, the blob save
(`save_state`), the dirty-inode save of the kernel callers, growing, `check`,
`repair` and `scrub`, with damaged blocks and a blob save or a grow cut short by
a power loss. A device is a function from block numbers to what was encoded in
the block. Repair is one journaled transaction and so one step.
`SaveNativeFails` is a native save that ends with an error after any of its
writes; power losses during one are in `OdfSession`.

**GroupedVolume.** The layout with block groups: format, the full save through
the allocator that prefers the group of an inode, saves that fail half-way, and
the load with damaged blocks. A save is a recursive function of the number of
inodes written, and each of its steps maps one *work* (the device so far, the
used blocks of the groups, the inode bitmap) to the next. The load builds
records and hands out whatever the blocks of an extent hold: it copies the
checksum of the contents and compares it with nothing. A power loss inside a grouped save is not
modelled: it overwrites records and attribute blocks in place and promises
nothing.

**WinFspFlush.** Dispatcher threads, the background thread and the foreground
thread of a mounted image. A version counts the changes made to the service;
`img` is the version of the last persist that returned Ok, or `Mixed` after one
that failed. `whole` says that the image loads and holds that version, `spoilt`
that the image cache may differ from the device: a persist writes what differs
from the cache, so `WriteImage` is sure to leave a whole image only while the
cache is not spoilt, and a failed batch or stale descriptors spoil it.
`persist_if_dirty` and `sync_deferred` are split wherever another thread can
come in between: flag, service mutex, device mutex, write, unlock. Both flush
modes are initial states.

**OnlineCall, OnlineControl.** `OnlineCall` is what a call to a running daemon
promises: ask, run at most once, be told Ok only after one's own request was
run, or be told that it failed. `OnlineControl` is how it is done: tools, the
listener thread, two channels, the daemon's callbacks, timeouts at any moment
(60 s and 120 s say nothing about how long a daemon goes without a flush or
fsync) and the unmount. `KeepsPromise` states that the second implements the
first under the mapping `Seen`, which shows a call that is connected or waiting
as pending and one that gave up as failed.

**OdfJournalProofs, WinFspFlushProofs, OnlineControlProofs, GroupedVolumeProofs,
BlockStoreProofs, BlockContentProofs, FileServiceProofs.** The theorems of
section 4.

How they meet. `FileService` and `FuseMount` share `ServiceOps`; to the mount,
a persist that does not end well leaves one of three images, and that these are
all, never a mixture that loads, is what `ImagePersist` checks of its callers,
the mounts (`AcceptedIsWhole`, also when persists go on after a failed batch).
`WinFspFlush` decides when the image is persisted, `ImagePersist` how; `spoilt`
stands for what `MCImagePersist_failed_batch` and `MCImagePersist_stale` show
(section 5). `BlockStore` is the memory side
of both formats. `OdfSession` does not use the journal: no persist opens a
transaction (only `repair` and `scrub` do), which is why its crash properties
are weaker than the journal's; the repair of `OdfVolume` is one transaction
because `OdfJournal` says so.

## 3. Runs

| run | instance | checks |
|---|---|---|
| `journal_crash` | 2 blocks, 3 record slots, 2 transactions of up to 2 ops, 2 power losses | `AtomicCommit`, `PointersBehindData`, `ClosedLog` |
| `journal_errors` | 3 transactions of 1 op, 1 device error, 1 power loss | `FreshTxnIds`, `CallsReturn` |
| `store` | 2 inodes, 4 blocks, contents of up to 2 cells, both policies, all 17 calls, device errors in an append | `NoBlockTakenTwice`, `ReadsBack`, `FreeSpaceExact`, `NeverOvercounted`, `ImageLoads` |
| `service_calls` | a tree of 4 paths (a, a/x, b, b/x), 4 inode ids, quota of 2 files and 3 bytes, 4 calls of all 20 kinds with saves, loads and repairs in between | `ReloadKeeps`, `CatalogSound`, `SnapshotComesBack`, `DirtyCoversChanges`, `NothingVanishes` |
| `fuse_mount` | 2 handles, 2 inodes, streaming above 1 byte, 5 requests, 1 crash, or persist that fails or is cut short | `FsyncedSurvives`, `ReadYourWrites`, `FlushedReaches`, `ViewsTrue` |
| `image_persist` | the five callers, 2 inodes, 3 changes, 4 persists, 1 failed persist, power loss or damage, retries | `PersistedLoads`, `AcceptedIsWhole`, `CacheTrue`, `RepairRecoversInodes` |
| `session` | 2 inodes, contents of 1 and 2 blocks, 2 metadata values, 12 blocks, 1 reopening | `DisjointOwners`, `CacheHolds`, `FlushedReloads` |
| `session_crash` | 2 inodes, 5 blocks, 1 failed flush, 1 power loss | `UntouchedSurvive` |
| `volume` | 16 blocks that may grow to 20, 2 files of up to 2 blocks, payloads of up to 3, 2 saves, 1 damaged block, failed native save or power loss, 1 repair | `RepairRestores`, `SavedLoads`, `TornIsWhole`, `CheckTells` |
| `grouped` | 25 blocks in 2 groups, 2 files and a directory, 2 saves, 1 damaged block | `Accounted`, `SavedLoads`, `DamageConfined` |
| `mount` | 1 dispatcher and the two other threads, both modes, 2 changes, 2 device errors | `NothingForgotten`, `SyncPending`, `UnmountPersists`, `EventuallyStored` |
| `online` | 3 tools, unmount | `KeepsPromise`, `EveryToolAnswered` |

`TypeOK` of `OdfJournal`, `WinFspFlush` and `GroupedVolume` is proved, not run;
the type invariants of the other modules hold on the instances above as well.

Why the bounds are enough for the interesting cases. Three record slots hold one
two-op transaction and its commit record, so a second one meets a full area, a
log that was not emptied, or old records behind the zeroed block. Two crashes
allow a crash during the recovery from the first. Four blocks and two files of
up to two blocks give holes, splits, merges, slack behind a file (the second
policy hands out whole extents) and a bump pointer at its bound; `VIEW` leaves
out the cells of the device that no file holds, since every allocation
overwrites or zeroes the blocks it gets. Two names, each of which may be a file,
a link or a directory with one entry, are enough for renames of trees and for
every way a name can be taken; four calls are create, change, delete or
snapshot, and one more. A threshold of one
byte makes two-byte files stream. The image run has a persist before and after
every fault and room for a segment to move. Twelve blocks are room for two files
and their rewritten versions; generations end at three. Five blocks make
`session_crash` run out of space. In the volume run the third superblock copy
lies in the data region and moves when the volume grows; in the grouped run the
attribute blocks fill one group and spill into the other. One dispatcher thread
suffices for `mount` because the flags make no difference between threads; the
theorems hold for any number.

Fairness. `journal_errors`: code inside a call goes on and a crashed volume is
mounted (weak fairness of `Step` and `Mount`); crashes and errors are bounded.
`mount`: threads run, the background thread's loop turns, and a thread that
waits for a mutex which is released again and again gets it (strong fairness of
`Persist` and `SyncDeferred`: the operating system's mutexes admit waiters in
the end); nobody has to begin an operation or stop the mount. What
`EventuallyStored` promises is a persist that returned Ok and was synced; the
image is whole by it only while the cache is not spoilt. `online`: the
listener runs, a callback once begun ends, and a connected tool sends (the tool
does so in the next statement); nobody has to call flush or fsync. The other
runs check no liveness. The sequential components may stop at any moment (their
cfgs say `CHECK_DEADLOCK FALSE`, or the bounds are reached); `OdfSession`,
`WinFspFlush` and `OnlineControl` have steps for the ends the system really has,
and every other deadlock of theirs is an error.

## 4. Theorems

`OdfJournalProofs`, for every record area, block set, number of ops,
transactions, crashes and errors:

* `TypeCorrect`: `Spec => []TypeOK`. `TypeOK` is inductive; the content of the
  proof is that the value read is always among those a power loss may leave,
  that the tail never passes the record area, and that ids stay in range. Lemmas
  on the device primitives (`WriteHdrOK`, `SyncOK`, `PowerLossOK`, ...) carry it.
* `Ordered`: `Spec => []PointersBehindData`. Not inductive alone: replay writes
  to home locations what the log holds, the log holds what a session staged. The
  inductive invariant adds `LogBehindData` (op records that may survive refer to
  durable data), `StagedBehindData` (from the first log write on, the staged ops
  do) and `ReplayBehindData` (so do the ops replay holds in memory). The one
  sync before the transaction begins establishes the second; `DataStays`
  (durable data stays durable) preserves all of them.
* `LogClosed` (`ClosedLog`) and `IdsFresh` (`FreshTxnIds`), from `LogAlways`:
  the conjunction `LogInv` of `ClosedLog`, `IdsBehind` (records below a tail
  that may survive are older than that header's next id) and `TxnShape` is
  inductive. `ClosedLog` alone is not: a header that moves the tail over the
  records of a transaction keeps the log closed only because these records are
  there, in order, with one id, which is `TxnRecords`; and a partly erased log
  stays closed only because every remaining record is older than anything
  written later.
* `Atomic`: `Reliable /\ Spec => []AtomicCommit`. `AtomicInv` says of every
  point in a call what a power loss there would leave. `Recoverable`: either no
  surviving header covers a record and the metadata is at rest, or the log holds
  one transaction, perhaps partly erased, whose replay gives an allowed content
  and which may be skipped only where the metadata is allowed as it is. The
  phases add what they rely on: `SessionState` (the log is empty until the
  second header), `CommittedState`, `ReplayState` (what replay has collected is
  the beginning of the logged transaction) and `FinishState`. That the last
  write to a block wins, so that a transaction may be replayed again, is what
  the `Overlay...` lemmas say. `Reliable` is `MaxErr =
  0` and no session on a volume that was not recovered. Both are needed: the
  configuration `MCOdfJournal_offline` and the observation on `checkpoint` in
  section 5 are counterexamples without one of them.

`WinFspFlushProofs`, for any number of dispatcher threads, changes and device
errors, in both modes: `TypeCorrect`, `NeverForgotten` (`NothingForgotten`),
`SyncNeverForgotten` (`SyncPending`) and `UnmountStores` (`UnmountPersists`).
All follow from `Inductive`, the preservation of one invariant: `TypeOK`;
`Mutexes` (which thread holds which mutex where, hence at most one); `Current`
(the version a thread captured is the service's while it holds the service
mutex); `Written` (after a complete write the image is that version, and whole
unless the cache is spoilt); `Stopping`
(after the host has stopped no operation runs, and the background thread's last
pass begins after the stop request); `NothingForgotten` and `SyncPending`.
`Current` is what the code's lock order buys: the flag is taken outside the
mutex, but the state is captured under it, and whoever changes the state marks
it before releasing it.

`OnlineControlProofs`, for any set of tools:

* `PromiseKept`: `Spec => KeepsPromise`, the refinement of `OnlineCall` under
  `Seen`: initial states map to initial states and every step to a step or a
  stutter. The steps that matter are the callback (it runs a request that the
  mapping shows as pending) and the delivery (the reply read is the tool's own).
  They need `OnePlace` (a tool is at most once among the backlog, the listener,
  the request channel and the callback's batch), `RunOnce` (what is on its way
  has not run) and `OwnReply` (a reply waits only for the tool being served,
  whose request has run).

`GroupedVolumeProofs`, for every geometry that `format_device_grouped` accepts,
every set of files and every sequence of saves, failed saves and damages:

* `TypeCorrect` (`TypeOK`) and `Accounting` (`Accounted`). The inductive
  invariant `VolumeInv` holds after failed saves and damage too; `Accounted`
  follows because a save that completes rewrites everything it speaks of.
* `Confined` (`DamageConfined`): whatever blocks are damaged, the inode bitmap
  and table excepted, a volume that loads has exactly the inodes that were
  saved, and a file that does not read as saved reads as the damage to its own
  block: never as another file's contents or as a block of the volume. Nothing
  but the checksums of attribute blocks, bitmaps and superblocks is there to
  keep it so, since the load compares no checksum of contents: that the damage
  itself is handed out is `MCGroupedVolume_bitrot` in section 5. It assumes
  `Unshared`, that the allocator gave out no block in use (`unmarked`, the TODO
  at `grouped.rs:677`): a file whose block an attribute block took reads as it.
* `SavedReturns` (`SavedLoads`): with at most two damaged blocks a load returns
  exactly what was saved. It assumes `Unshared` and `CopiesClear`: the two
  sequences in which the allocator gives out a block in use (`unmarked` and
  `copy_reached`) are left out, or, for the second, do not exist in the geometry. `copy_reached` is needed in general because nothing
  marks a superblock copy that lies in the data region of a group.
* The invariant behind the last two is `GroupedInv`: `VolumeInv`, `FilesInv` (no
  two files share a block, and a block holds what was written for its file or
  the damage to it)
  and `Remembers` (unless the last save failed, the device is what that save
  wrote, but for damage whose kinds are in `hurt`, with at most `faults` copies
  of the superblock among it). `WorkHolds` is the corresponding invariant of the
  loop inside a save; `SaveChain` shows that the recursive function of the loop
  exists, by taking the least number of inodes for which it would not.

`BlockStoreProofs`, for any inodes, contents, block size, bounds and allocator
policies, and any sequence of the store's methods:

* `BlocksOwnedOnce` (`NoBlockTakenTwice`), `SavedLoads` (`ImageLoads`) and
  `FreeSpaceKnown` (`FreeSpaceExact`), all from `IInv`. Its core is `StoreOK` of
  the store alone: the free list is in order, merged if the policy merges, and
  below the bump pointer (`SpaceOK`), and the blocks below the pointer that are
  not on it, `Used`, are where the files lie, each on its own (`FilesOK`).
  `NoBlockTakenTwice` alone is not inductive: a free list with overlaps hands
  out blocks twice, a merge of one that is out of order swallows blocks in use,
  and the slack `append_device` fills is there only if an extent has room for
  the bytes it counts (`RecordOK`).
* `ExactOK` is the other half of `FreeSpaceExact`: every used block belongs to a
  file, and with trimming on no free extent reaches the pointer. It is invariant
  only while no blocks were spilt, so `IInv` also ties the size of every file to
  what was promised of it (`told`): an empty file is the only one whose write
  spills a block.
* There is a lemma for each method (`WriteIs`, `AppendIs`, `RefusedIs`, `CloneIs`,
  `RelocateIs`, `LoadImageIs`, ...), which rest on those for the allocator
  (`AllocateIs`, `InsertIs`, `MergeIs`, `TrimIs`, `SortIs`), for block counts
  (`TotalIs`) and for the rebuilt free space (`GapsIs`: the maximal runs of
  unoccupied blocks are a merged free list). The loops have chain lemmas
  (`MergeChain`, `TotalChain`, `RelocateChain`, `LoadChain`) of the kind of
  `SaveChain`.
* All three assume `"appended" \in Avoid`: the blocks of a file with several
  extents are neither given up nor moved, saved or loaded. Without it TLC finds
  all three violated. `FreeSpaceKnown` also assumes `"empty" \in Avoid`: a
  compaction that gives an empty file a block, or an image that does, leaves a
  block nobody owns though `spilt` says none is. Heat reallocation (`hot`) is
  covered: it loses contents, never blocks.

`BlockContentProofs`, over the same constants:

* `NotOvercounted` (`NeverOvercounted`), without any assumption on the callers.
  The invariant is `TableOK`: the records are finitely many, and the count of
  every content in the table is positive and at most the number of its
  `Owners`. An append that a device error ends has given up its entry before and
  keeps its record (`RefusedTable`), which leaves the count too low, never too
  high. The invariant is needed per method in the form `TableWithout`: between
  `dedup_release` and `dedup_insert` the table is true of the files without the
  one being written. `clone_for_inode` starts an entry at two because the source
  and the target both hold the content by then.
* `FilesReadBack` (`ReadsBack`): every file reads back what its last writer was
  promised. The invariant is `IInv` of `BlockStoreProofs` with `Carries`: the
  device has all its cells, and every file has the size of the content promised,
  its blocks below the bound, and its cells in them (`Holding`: the lengths of
  the extents add up to the size, and the cells of each are the next ones of the
  content). `ReadsBack` alone is not inductive: a file that reads back right
  from blocks it shares, or from beyond the device, does so only until the next
  write. `ReadHolding` is the step from `Holding` to `Read`, which finds the
  extent of a cell by `CHOOSE`.
* A refused append delivers nothing and loses nothing (`RefusedCarries`): what it
  wrote lies behind the last cell of the file, in slack `FillHolds` shows to be
  its own. Each other method has a lemma that it `Delivers`: file `i` holds the new content,
  and no cell of another file has changed (`Keeping`), which follows from the
  disjoint blocks of `StoreOK`. `PutDelivers` is the common case of a new place,
  `FillHolds` the slack of the last extent, `AddHolds` a further extent, and
  `OverwriteDelivers` a range across extents, which needs that no two positions
  of a file are the same cell (`CellsDistinct`). `DefragmentCarries` rests on
  `Packed`: the cursor never passes the first block of a file still to be moved,
  so the block copied to is free or the file's own, also when the two places
  overlap. `LoadCarries` holds for every order of the inodes, as the code's hash
  map has none: the load writes every file back to the blocks its record names.
* `FilesReadBack` assumes `"appended"`, `"empty"` and `"hot"` in `Avoid`. Without
  any of the three TLC finds contents lost (section 5), so none can be dropped.

`FileServiceProofs`, for any set of paths and contents, any quota, version
budget and pipeline switches, and any sequence of calls, saves, loads and
repairs:

* `CatalogAgrees` (`CatalogSound`), `ReloadIsFaithful` (`ReloadKeeps`),
  `ChangesAreDirty` (`DirtyCoversChanges`) and `NoInodeVanishes`
  (`NothingVanishes`), all from `Invariant`: `Spec => []Inv`. `Inv` says that
  the service is `Sound`, that the image is what a sound service saved
  (`SavedSound`), and that an inode of the image that is not dirty is still
  active with the bytes the image has (`Clean`).
* `Sound` is what the maps owe each other: `Owners` (a number has one owner
  among the entries, the tombstones and the recycling list, and none above the
  allocator's mark is in use), `Held` (every entry but a directory has bytes in
  the form and of the length its inode says, a tombstone too unless a load left
  it blank, and there are no other bytes), `Named` (the journal knows no active
  name as deleted and every deleted one, with journaling on, as deleted) and
  `Tree` (every entry lies in a directory). `CatalogSound` alone is not
  inductive: a load that follows a journal which disagrees with the catalog, or
  a number above the mark, gives a number away twice; a clone of a directory
  relies on its entries coming after it. `DirtyCoversChanges` alone is not
  either: without the last line of `Clean`, a clean number that no entry has any
  more could be given to a clone, which marks nothing dirty.
* There is a lemma for each call (`CreateFileIs`, `WriteFileRangeIs`,
  `DeleteFileIs`, ...), which states its `Effect`: the service after it is
  sound, has an owner for every number that had one (`Kept`), marks what it
  changed (`Marked`), and is what it was if the call failed (`FailsSafe`). They
  rest on three: `AddEntry` (a new entry), `ChangeEntry` (new bytes or
  attributes) and the two ways of `DeleteFileIs`. A call that works entry by
  entry (rollback, rename, clone of a directory) is a recursive function over
  the paths, with a chain lemma; the renames also need what `Rebase` and `Front`
  do to paths (`RebaseInjective`, `RebaseFront`, `NothingUnder`). `LoadIs` says
  that the load of a saved sound service moves no name.
* `Careful`, which all four assume, is what section 5 says of `reuse`,
  `mixed_form`, `rewrite` and `loaded_tombstone`; `NoInodeVanishes` also keeps
  out `secure_dir`. The last two theorems and the first hold with and without a
  journal; `ReloadIsFaithful` assumes one (`journaling_enabled`, the default),
  since the offline repair of a volume without one forgets every deleted name.

Assumptions are the named `ASSUME`s of the component modules: `Torn` is no
content, `ZeroSlots` is between 1 and `Slots`, the threads are distinct, bounds
are natural numbers; paths are non-empty and listed once, a directory before
what lies in it (`PathsInOrder`: the order of a `BTreeMap` of strings); and for
`GroupedVolume` what `format_device_grouped`
checks (`GroupsFit`: four blocks a group, room behind the journal, no group
starting at a superblock copy, ancillary slots before the user's), a finite set
of files without the root, and ancillary sizes of at least one block.

Only model-checked: `SnapshotComesBack` (whether a rollback is refused depends
on the sum of the sizes of the files, and what a sum over a set is for every set
is an induction over data); the properties of `FuseMount`, `ImagePersist`,
`OdfSession` and `OdfVolume`; `LandedIsDurable` and the others of section 5,
which are violated; and the liveness properties (`CallsReturn`,
`EventuallyStored`, `EveryToolAnswered`), which are out of the prover's reach.
Those four modules are written with folds over sequences of calls and records
with many fields changed at once; a proof needs these as recursive functions
with an existence argument like `SaveChain`'s.

## 5. Where the code and its documents disagree

Each configuration below is a counterexample TLC finds in seconds, by
`tlc -config <cfg> <module>`. They are kept beside the runs; none of them is
listed as a run.

| cfg | property | shows |
|---|---|---|
| `MCFileService_reload` | `ReloadKeeps` | a rename over a file, or a name used again after its file went away: the load's reconciliation with the operation journal (`app_tests.rs:324`, `doc/integrity-recovery.md:53`) changes the tree that was saved |
| `MCFuseMount_fsync` | `FsyncedSurvives` | fsync persists with the volume log still open; after a resize that was logged and a later write, the replay at the next mount resizes again and the fsynced bytes are lost |
| `MCImagePersist_stale` | `PersistedLoads` | a partial persist with descriptors from before a segment moved returns Ok over an image that does not load as it was saved: `apply_cache_updates` (`volume_image.rs:3423`) never refreshes `data_descriptors`, "Per-inode DATA descriptors from the last build" (`volume_image.rs:2885`) |
| `MCImagePersist_failed_batch` | `PersistedLoads` | a batch that fails half-way leaves the cache as it was (`volume_image.rs:3378`): the retry skips what equals the cache, returns Ok, and part of the failed batch is still on the device; the image does not load |
| `MCImagePersist_power` | `SurvivesPowerLoss` | `linux_fuse.rs:950` says that "dual superblocks + per-segment checksums let the volume recover to the previous generation"; header, copies and segments are overwritten in one batch, and a power loss inside it leaves an image that does not load |
| `MCImagePersist_heal` | `RepairKeepsBytes` | healing one damaged superblock copy (`doc/integrity-recovery.md:102`, `integrity_tests.rs:126`: "healthy again") rewrites the whole image through `save_volume_image` with no file bytes (`volume_image.rs:452`): every file keeps its size and loses its contents |
| `MCOdfJournal_landed` | `LandedIsDurable` | a power loss after the commit record's sync and before the header's loses the transaction (`journal.rs:41` says it is durable) |
| `MCOdfJournal_offline` | `AtomicCommit` | after a power loss inside `checkpoint`, a session opened without recovery (`repair.rs:106`) loses its acknowledged transaction |
| `MCOdfSession_persist` | `CrashAtomic` | `linux_fuse.rs:933` promises that a crash during a persist is replayed or leaves the previous generation; the save writes in place, without the journal |
| `MCOdfSession_newest` | `NewestSuperblock` | the first decodable superblock is used (`volume.rs:496`), not the newest (`doc/integrity-recovery.md:49`) |
| `MCOdfSession_failed` | `FailedSaveHarmless` | a failed flush leaves a volume the next mount refuses (`session.rs:544`) |
| `MCOdfSession_full` | `FlushedReloads` | on a full volume flush returns Ok and drops the bytes (`session.rs:486`) |
| `MCGroupedVolume_bitrot` | `BitRotRefused` | `doc/integrity-recovery.md:103` promises that a read of a damaged extent ends with `CoreFsError::Integrity`; the load copies `data_crc` (`grouped.rs:535`), and no reader of its records compares it (`block_store.rs:1077`, `:1148`, `session.rs:348`; only `OdfReader`, `reader.rs:214`, does) |
| `MCWinFspFlush_flush` | `StrictFlush` | `persist_if_dirty` takes the flag before the mutex (`winfsp_backend.rs:248`): a strict flush that comes while the background thread is in between returns Ok before anything was written |
| `MCOnlineControl_late` | `FailedStaysFailed` | a request reported as failed is executed later |

What the names in `Avoid` keep out, and so what the runs do not show:

* `BlockStore`: `appended` (calls that free, move, save or load a file with more
  than one extent: `write` and `remove`, `block_store.rs:414`, take its blocks to
  be consecutive from the first, so that rewriting or removing it frees its
  neighbour's), `empty` (defragmenting, saving or loading with an empty file,
  which makes `defragment` copy a file over one it has not read), `hot` (a
  non-empty list of heated files). `ReadsBack` is violated without any of them.
* `FileService`: `reuse` (a name taken again after a delete or a rename, before
  the next load), `secure_dir` (secure delete of a directory), `mixed_form`
  (rolling back to a file whose stored form a range write, a resize or an
  extension left mixed), `rewrite` (a repair that does not give back the image
  it was given: `RepairKeepsContents`, for one, since `repair-image` of an
  encrypted image loses the contents, `volume_image.rs:444`), `loaded_tombstone` (restoring an entry that was loaded as
  deleted: an image holds no bytes of deleted files).
* `FuseMount`: `reuse` as above; `shared` (a second handle on an inode, or a resize by
  path below one: each handle has a buffer of its own), `stream_again` (writing through a handle that has streamed and was
  flushed: the next flush takes the wrong range), `stream_resize` (resizing
  through one that has streamed), `copy` (`copy_file_range` into a
  handle that is not dirty: it is not marked), `rename_open` (a rename below an
  open handle), `unsettled` (fsync while replaying the log would change the
  tree),
  `streamed_snapshot` (a snapshot of a file the streaming flush extended, which
  makes no version: contrary to `doc/features.md:42`).
* `ImagePersist`: `stale_descriptors` (a partial persist with descriptors from
  before a segment moved), `failed_batch` (only `PersistedLoads` and `CacheTrue`,
  once a persist has gone on after one that failed half-way, until the next
  mount; the steps are taken and `AcceptedIsWhole` is checked on them),
  `unsaved_bytes` (damage to the descriptors of an image that lacks bytes).
* `OdfSession`: `reappear` (a file that comes back with the content the extent
  cache remembers), `retry` (a session that goes on after a failed flush: the
  cache names a block whose bit was never written, `session.rs:467` and `:544`).
  `CacheHolds` is violated without either: the cache points a file that came
  back at blocks given to another.
* `OdfVolume`: `large_payload` (a blob payload that reaches the middle copy of
  the superblock), `converted` (a blob volume saved natively), `handed_on` (a
  dirty-inode save that gives a file the blocks of one it moves in the same
  call, `native.rs:1010`), `unpinned` (a save while the copies are not marked in
  the bitmap), `occupied_middle` (growing when the new middle block holds data,
  `resize.rs:104`), `damaged_grow` (growing a volume with a damaged bitmap),
  `inode_bits` (a damaged inode bitmap that hides a used slot, contrary to
  `fsck_repair.rs:10`), `half_saved` (a native save, or a grow, after a native
  save that failed half-way and before a repair: it builds on stale bitmaps,
  `native.rs:1011`).
* `GroupedVolume`: `unmarked` (data blocks the caller chose are not marked in
  the group bitmaps, `grouped.rs:677` has the TODO). The module also knows
  `copy_reached`, which this geometry cannot reach: its third superblock copy
  lies in the journal region. On larger geometries it lies in a group's data
  region and no bit protects it.

Observations without a configuration:

* `BlockStore`: heat reallocation moves a file over one not yet moved
  (`ReadsBack` without `hot` in `Avoid`); an image with an extended file loads
  with wrong bytes (`ReadsBack` without `appended`); a range stays on the TRIM list
  after its blocks were reused (`TrimsAreDead`). `OdfSession`: a metadata-only
  change is never saved (`MetadataReloads`, `native.rs:729`); the flush after a
  soft delete drops the bytes (`DeletedKeepBytes`).
* An I/O error inside `checkpoint`, after slot 0 is zeroed and before the header
  is written, on a volume that stays mounted: the next session appends behind
  the zeroed slot, and after a power loss replay stops there and skips its
  committed transaction. The instance is `journal_crash` with one device error
  and five slots; it is why `Atomic` in section 4 assumes a device without I/O
  errors.
* The first sync of `commit`, and the one between op and commit records, are
  redundant as long as replay is bounded by the tail in the header; the header
  and replay syncs are not, and a device opened with `defer_data_sync` drops all
  of them.
* Growing a volume leaves the bits of the old copies set. A device larger than
  its volume is searched for copies in the wrong places, and repair of it never
  converges. `inspect` panics when no superblock is readable; repair never
  restores an unreadable primary alone.
* `save_state` is documented as replacing the state atomically; a power loss
  inside it can leave a volume that does not load (`TornIsWhole` says that what
  loads is one of the two states).
* Damage to an entry of the segment directory of an image makes the relaxed
  repair write an empty volume (`volume_image.rs:1895`).
* `clone_file` does not mark its target dirty for the partial persist; on Linux
  a handle unlinked while dirty makes the flush of `destroy` fail
  (`linux_fuse.rs:2637`), and a write below the part a handle has streamed panics;
  a WinFsp handle keeps the path it was opened with
  (`winfsp_backend.rs:559`).
* `PatchExtent` records of the volume log are replayed but logged by no
  production code; `DeviceVolume` is used by tests only; the grouped load never
  verifies the checksum of the inode bitmap.

## 6. Not modelled, and the plan

* Arithmetic on bytes: encryption, key derivation, hashing, compression, and the
  encodings of inodes, extent trees, directories and extended attributes. A
  checksum is the content it was computed from.
* Code no save path calls: reference counts, tiering, the journal capture
  device.
* Read-only code: reports, diagnostics, telemetry, indexing, semantic search,
  argument parsing, the certification harness.
* Protocol crates: message layouts of FUSE and the names, attributes and
  security descriptors of WinFsp.
* Backup: a sequential copy of an image and its manifest.
* Crashes inside a grouped save, and a mount that opens handles across a
  rename, for the reasons given above.

What would come next: a proof of `DisjointOwners` for the native save, with its
folds as recursive functions; an
abstract store with one atomic step per transaction that `OdfJournal`
implements; and `FuseMount` over `ImagePersist` in place of the three outcomes
it gives a persist.
