----------------------------- MODULE FuseMount -----------------------------
(***************************************************************************)
(* The read-write Linux FUSE mount (src/src/platform/linux_fuse.rs,        *)
(* CoreFsFuseMountRw) on top of the file service: the kernel's requests,   *)
(* one action each, with the index maps of the mount, the write buffers of *)
(* its open handles and the streaming flush of large ones, the pending     *)
(* volume log, checkpoints (fsync), unmounting, a crash of the daemon, a   *)
(* persist that fails, and the next mount with its log replay.             *)
(*                                                                         *)
(* m is the mount.  One request runs at a time (fuser's session loop).     *)
(* want, saved and tried are history: what the requests wrote into every   *)
(* inode, the tree of the last checkpoint, and the trees of the persists   *)
(* that failed or were cut short since.  A persist overwrites the image    *)
(* segment by segment: what a cut one leaves is the old image, the new one *)
(* or one that does not load, never a mixture that does (ImagePersist);    *)
(* which of them is settled when the image is next read.                   *)
(***************************************************************************)
EXTENDS ServiceOps

CONSTANTS
    Bytes,        \* the byte values a request writes
    MaxLen,       \* longest file
    Handles,      \* file handles, 1..n: a released number may be given out again
    Threshold,    \* stream_flush_threshold()
    Backing,      \* FuseBacking: "file" or "device"
    Avoid,        \* request patterns a run keeps out (see README)
    MaxCalls,     \* requests in a behaviour
    MaxInode,     \* inode numbers
    MaxFaults,    \* crashes and failed persists
    Torn          \* an image that does not load

ASSUME HandleNumbers == Handles \subseteq Nat \ {0}
ASSUME KnownBacking == Backing \in {"file", "device"}

VARIABLES
    m,        \* the mount: its service, index maps, handles and virtual files
    up,       \* the daemon runs
    img,      \* the images the backing store may hold
    cache,    \* the mount's DeviceImageCache: "none", "true" of the image, "stale"
    calls, faults,
    want,     \* history: the bytes of every inode as the requests wrote them
    saved,    \* history: the bytes of every file at the last checkpoint
    tried     \* history: the same for the failed persists since

vars == <<m, up, img, cache, calls, faults, want, saved, tried>>

OkM(mt) == [ok |-> TRUE, m |-> mt]

NotOk(mt) == [ok |-> FALSE, m |-> mt]

---------------------------------------------------------------------------
(* The index maps: nodes_by_ino, ino_by_path and children.                 *)

\* rebuild_indexes
RebuildIndexes(mt) ==
    LET a == mt.svc.active
        At(id) == CHOOSE p \in DOMAIN a : a[p].id = id
    IN  [mt EXCEPT !.inos = [p \in DOMAIN a |-> a[p].id],
                   !.nodes = [id \in EntryIds(a) |->
                                 [path |-> At(id), kind |-> a[At(id)].kind, size |-> a[At(id)].size]],
                   !.listed = DOMAIN a]

RegisterNode(mt, p) ==
    LET i == mt.svc.active[p]
    IN  [mt EXCEPT !.inos = Put(@, p, i.id),
                   !.nodes = Put(@, i.id, [path |-> p, kind |-> i.kind, size |-> i.size]),
                   !.listed = @ \cup {p}]

\* Fault: the name stays in the listing of its directory.
UnregisterInoListed(mt, id) ==
    LET p == mt.nodes[id].path
    IN  [mt EXCEPT !.nodes = Drop(@, id), !.inos = Drop(@, p)]

UnregisterIno(mt, id) ==
    LET p == mt.nodes[id].path
    IN  [mt EXCEPT !.nodes = Drop(@, id), !.inos = Drop(@, p),
                   !.listed = {q \in @ : ~Under(p, q)}]

Children(mt, p) == {q \in mt.listed : Len(q) = Len(p) + 1 /\ Under(p, q)}

\* lookup and readdir, by the maps: the entries of a directory with their inodes
DirectoryEntries(mt, p) == [q \in Children(mt, p) \cap DOMAIN mt.inos |-> mt.inos[q]]

\* CoreFsFuseView, the tree of a mount: what decodes is decoded, of what does not
\* the raw bytes are shown.
FuseView(s) == [p \in DOMAIN s.active |-> ReadFile(s, p).data]

---------------------------------------------------------------------------
(* The mutation session and its log.                                       *)

EnsureMutationSession(mt) ==
    LET s == MarkUncleanShutdown(mt.svc)
    IN  [mt EXCEPT !.dirty = TRUE,
                   !.svc = IF s.txn = NoTxn THEN [BeginTransaction(s) EXCEPT !.wal = <<>>] ELSE s]

RecordWal(mt, op) ==
    [mt EXCEPT !.svc.wal = IF @ = NoWal THEN NoWal ELSE Append(@, op), !.dirty = TRUE]

\* In a session: run the service call, then log the operation.
Mutate(mt, r, op) ==
    IF r.ok THEN OkM(RecordWal([mt EXCEPT !.svc = r.s], op)) ELSE NotOk([mt EXCEPT !.svc = r.s])

---------------------------------------------------------------------------
(* Open handles.                                                           *)

\* The buffer starts with the bytes of the file, unless the node says it is empty.
OpenFileHandle(mt, fh, id, trunc) ==
    LET n == mt.nodes[id]
        data == IF n.size > 0 THEN ReadFile(mt.svc, n.path).data ELSE <<>>
        h == [id |-> id, path |-> n.path, data |-> IF trunc THEN <<>> ELSE data,
              committed |-> 0, dirty |-> trunc]
    IN  [mt EXCEPT !.open = Put(@, fh, h), !.dirty = @ \/ trunc,
                   !.nodes[id].size = IF trunc THEN 0 ELSE @]

\* Fault: the buffer alone is taken for the file.
ReadFromHandleBuffer(mt, fh) == mt.open[fh].data

\* read_from_handle over the whole file: the committed prefix comes from the
\* service, the rest from the buffer.
ReadFromHandle(mt, fh) ==
    LET h == mt.open[fh]
        prefix == ReadFile(mt.svc, h.path).data
    IN  IF h.committed = 0 THEN h.data
        ELSE SubSeq(prefix, 1, IF h.committed < Len(prefix) THEN h.committed ELSE Len(prefix)) \o h.data

Streaming(h, off, bytes) ==
    /\ off = h.committed + Len(h.data)
    /\ Len(h.data) + Len(bytes) > Threshold

\* The streaming branch of write_to_handle: the buffer goes to the service.
StreamFlush(mt, fh) ==
    LET h == mt.open[fh]
        r == IF h.committed = 0 THEN WriteFile(mt.svc, h.path, h.data)
             ELSE ExtendFile(mt.svc, h.path, h.data)
    IN  CASE h.data = <<>> -> OkM(mt)
          [] h.data # <<>> /\ r.ok -> OkM([mt EXCEPT !.svc = r.s, !.open[fh] = [h EXCEPT
                                               !.data = <<>>, !.committed = @ + Len(h.data)]])
          [] OTHER -> NotOk([mt EXCEPT !.svc = r.s])

\* Offset, then data, into the buffer; a write below the committed prefix panics.
Panics(h, off) == off < h.committed

\* Fault: the part already committed is left out of the cached size.
WriteToHandleBufferSize(mt, fh, off, bytes) ==
    LET h == mt.open[fh]
        mut == IF h.committed = 0 THEN EnsureMutationSession(mt) ELSE mt
        f == IF Streaming(h, off, bytes) THEN StreamFlush(mut, fh) ELSE OkM(mt)
        g == f.m.open[fh]
        new == [g EXCEPT !.data = Patched(@, off - g.committed, bytes), !.dirty = TRUE]
    IN  IF ~f.ok THEN f
        ELSE OkM([f.m EXCEPT !.open[fh] = new, !.dirty = TRUE, !.nodes[h.id].size = Len(new.data)])

WriteToHandle(mt, fh, off, bytes) ==
    LET h == mt.open[fh]
        mut == IF h.committed = 0 THEN EnsureMutationSession(mt) ELSE mt
        f == IF Streaming(h, off, bytes) THEN StreamFlush(mut, fh) ELSE OkM(mt)
        g == f.m.open[fh]
        new == [g EXCEPT !.data = Patched(@, off - g.committed, bytes), !.dirty = TRUE]
    IN  IF ~f.ok THEN f
        ELSE OkM([f.m EXCEPT !.open[fh] = new, !.dirty = TRUE,
                             !.nodes[h.id].size = new.committed + Len(new.data)])

\* Fault: the buffer of a streaming handle counts as committed.
FlushFileHandleTail(mt, fh) ==
    IF fh \notin DOMAIN mt.open \/ ~mt.open[fh].dirty THEN OkM(mt)
    ELSE LET h == mt.open[fh]
             e == EnsureMutationSession(mt)
             r == IF h.committed = 0 THEN WriteFile(e.svc, h.path, h.data) ELSE Done(e.svc)
         IN  IF h.id \notin DOMAIN mt.nodes \/ ~r.ok THEN NotOk(e)
             ELSE OkM([e EXCEPT !.svc = r.s, !.open[fh].dirty = FALSE])

\* flush_file_handle: the whole buffer replaces the file, or a streaming handle's
\* tail is appended; the tail stays in the buffer.
FlushFileHandle(mt, fh) ==
    IF fh \notin DOMAIN mt.open \/ ~mt.open[fh].dirty THEN OkM(mt)
    ELSE IF mt.open[fh].id \notin DOMAIN mt.nodes THEN NotOk(mt)
    ELSE LET h == mt.open[fh]
             e == EnsureMutationSession(mt)
             r == CASE h.committed = 0 -> WriteFile(e.svc, h.path, h.data)
                    [] h.committed > 0 /\ h.data # <<>> -> ExtendFile(e.svc, h.path, h.data)
                    [] OTHER -> Done(e.svc)
             w == [e EXCEPT !.svc = r.s]
             log == IF h.committed + Len(h.data) = 0
                    THEN RecordWal(w, [op |-> "truncate", id |-> h.id, size |-> 0]) ELSE w
         IN  IF r.ok THEN OkM([log EXCEPT !.open[fh].dirty = FALSE]) ELSE NotOk(w)

\* flush_dirty_open_files, in the order given: it stops at the first failure.
FlushDirtyOpenFiles(mt, order) ==
    FoldLeft(LAMBDA r, fh : IF r.ok THEN FlushFileHandle(r.m, fh) ELSE r, OkM(mt), order)

---------------------------------------------------------------------------
(* Snapshots and versions as read-only virtual files.                      *)

\* handle_online_request: the call that changes the service is the snapshot.
\* A version is at or before a snapshot when its id is: ids rise with time.
OnlineRequest(mt, req) ==
    IF req = "none" THEN mt
    ELSE [mt EXCEPT !.svc = CreateSnapshotScoped(mt.svc, <<>>),
                    !.at = Put(@, mt.svc.nexts + 1, mt.svc.nextv)]

\* Fault: the newest version is shown.
VersionBytesLatest(mt, p, at) ==
    LET vs == mt.svc.versions[p] IN IF vs = <<>> THEN <<>> ELSE Last(vs).data

VersionBytesAt(mt, p, at) ==
    LET vs == SelectSeq(mt.svc.versions[p], LAMBDA v : v.vid <= at)
    IN  IF vs = <<>> THEN <<>> ELSE Last(vs).data

\* lookup_in_snapshot and get_or_create_virt_file: made once, then kept
LookupInSnapshot(mt, id, p) ==
    LET key == <<id, p>>
    IN  IF key \in DOMAIN mt.virt THEN mt
        ELSE [mt EXCEPT !.virt = Put(@, key, VersionBytesAt(mt, p, mt.at[id]))]

---------------------------------------------------------------------------
(* Mounting and persisting.                                                *)

\* persist: the file backing saves the state with the bytes of every file, the
\* device backing the state alone.
Persisted(s) ==
    LET d == PersistedState(s)
    IN  IF Backing = "file" THEN d
        ELSE [d EXCEPT !.blocks = [id \in DOMAIN d.blocks |-> Blank]]

\* A persist returns Ok.  With a stale cache it skips what a failed batch left.
Persist(image, tree) ==
    /\ img' = IF cache = "stale" THEN {image, Torn} ELSE {image}
    /\ cache' = IF cache = "stale" THEN "stale" ELSE "true"
    /\ saved' = tree /\ tried' = {}

\* A persist fails or is cut short.  Its cache is brought up to date when all but
\* the sync is done; without one the next persist writes the whole image.
PersistFails(image, tree) ==
    /\ faults < MaxFaults /\ faults' = faults + 1
    /\ img' = img \cup {image, Torn}
    /\ cache' \in IF cache = "none" THEN {"none"} ELSE {cache, "stale"}
    /\ tried' = tried \cup {tree} /\ UNCHANGED saved

\* open_session: load (replaying the log), mark unclean, save, build the indexes
Mounted(s) ==
    RebuildIndexes([svc |-> [MarkUncleanShutdown(s) EXCEPT !.dirty = {}],
                    nodes |-> << >>, inos |-> << >>, listed |-> {},
                    open |-> << >>, dirty |-> FALSE, virt |-> << >>, at |-> << >>])

ById(s) == [id \in EntryIds(s.active) |->
               ReadFile(s, CHOOSE p \in DOMAIN s.active : s.active[p].id = id).data]

\* What the requests wrote, by the paths of the mount.
Wanted(mt) == [p \in DOMAIN mt.inos |-> want[mt.inos[p]]]

Init ==
    /\ m = Mounted(Formatted)
    /\ img = {Persisted(m.svc)} /\ cache = "none"
    /\ up = TRUE
    /\ calls = 0 /\ faults = 0
    /\ want = << >> /\ saved = << >> /\ tried = {}

Request ==
    /\ up /\ calls < MaxCalls
    /\ calls' = calls + 1
    /\ UNCHANGED up

\* A request that leaves the backing store alone.
Serve(r) ==
    /\ Request
    /\ m' = r.m /\ r.m.svc.next <= MaxInode
    /\ UNCHANGED <<img, cache, faults, saved, tried>>

---------------------------------------------------------------------------
(* The requests of the kernel.                                             *)

FreeHandle == Min(Handles \ DOMAIN m.open)

Held(id) == \E fh \in DOMAIN m.open : m.open[fh].id = id

\* A name the journal knows as deleted or that still has a tombstone.
Spent(p) ==
    \/ p \in DOMAIN m.svc.deleted \cup m.svc.journal.del
    \/ m.svc.txn # NoTxn /\ \E i \in DOMAIN m.svc.txn : m.svc.txn[i] = [op |-> "delete", path |-> p]

Fresh(p) == "reuse" \in Avoid => ~Spent(p)

InDirectory(p) == Len(p) = 1 \/ (Front(p) \in DOMAIN m.inos /\ m.nodes[m.inos[Front(p)]].kind = "dir")

Create == \E p \in Paths :
    LET e == EnsureMutationSession(m)
        c == CreateFile(e.svc, p, <<>>)
        r == Mutate(e, c, [op |-> "create", path |-> p, id |-> c.s.active[p].id])
        g == RegisterNode(r.m, p)
    IN  /\ InDirectory(p) /\ p \notin DOMAIN m.inos /\ Fresh(p)
        /\ Handles # DOMAIN m.open
        /\ Serve(IF c.ok THEN OkM(OpenFileHandle(g, FreeHandle, g.inos[p], FALSE))
                 ELSE NotOk([e EXCEPT !.svc = c.s]))
        /\ want' = IF c.ok THEN Put(want, g.inos[p], <<>>) ELSE want

Mkdir == \E p \in Paths :
    LET e == EnsureMutationSession(m)
        c == CreateDirectory(e.svc, p)
        r == Mutate(e, c, [op |-> "mkdir", path |-> p, id |-> c.s.active[p].id])
    IN  /\ InDirectory(p) /\ p \notin DOMAIN m.inos /\ Fresh(p)
        /\ Serve(OkM(RegisterNode(r.m, p)))
        /\ want' = Put(want, r.m.svc.active[p].id, <<>>)

Open == \E id \in DOMAIN m.nodes, trunc \in BOOLEAN :
    /\ m.nodes[id].kind = "file"
    /\ Handles # DOMAIN m.open
    /\ "shared" \in Avoid => ~Held(id)
    /\ Serve(OkM(OpenFileHandle(m, FreeHandle, id, trunc)))
    /\ want' = IF trunc THEN Put(want, id, <<>>) ELSE want

Write == \E fh \in DOMAIN m.open, off \in 0..MaxLen - 1, b \in Bytes :
    LET h == m.open[fh]
        r == WriteToHandle(m, fh, off, <<b>>)
    IN  /\ h.id \in DOMAIN m.nodes
        /\ ~Panics(h, off)
        /\ "stream_again" \in Avoid => (h.committed > 0 => h.dirty)
        /\ Serve(r)
        /\ want' = IF r.ok THEN Put(want, h.id, Patched(want[h.id], off, <<b>>)) ELSE want

\* setattr of a size through a handle changes its buffer only ...
ResizeHandle == \E fh \in DOMAIN m.open, n \in 0..MaxLen :
    LET h == m.open[fh]
    IN  /\ h.id \in DOMAIN m.nodes
        /\ "stream_resize" \in Avoid => h.committed = 0
        /\ Serve(OkM([m EXCEPT !.open[fh] = [h EXCEPT !.data = Resized(@, n), !.dirty = TRUE],
                               !.nodes[h.id].size = n, !.dirty = TRUE]))
        /\ want' = Put(want, h.id, Resized(want[h.id], n))

\* ... without one it goes to the service and into the log.
ResizePath == \E id \in DOMAIN m.nodes, n \in 0..MaxLen :
    LET e == EnsureMutationSession(m)
        r == Mutate(e, TruncateFile(e.svc, m.nodes[id].path, n),
                    [op |-> "truncate", id |-> id, size |-> n])
    IN  /\ m.nodes[id].kind = "file"
        /\ "shared" \in Avoid => ~Held(id)
        /\ Serve(IF r.ok THEN OkM([r.m EXCEPT !.nodes[id].size = n]) ELSE r)
        /\ want' = IF r.ok THEN Put(want, id, Resized(want[id], n)) ELSE want

\* copy_file_range: between the buffers, without marking the target's handle
CopyRange == \E from \in DOMAIN m.open, to \in DOMAIN m.open, off \in 0..MaxLen - 1 :
    LET src == m.open[from]
        dst == m.open[to]
        len == IF off + Len(src.data) > MaxLen THEN MaxLen - off ELSE Len(src.data)
        bytes == SubSeq(src.data, 1, len)
    IN  /\ from # to /\ len > 0 /\ dst.id \in DOMAIN m.nodes
        /\ "copy" \in Avoid => /\ dst.dirty /\ dst.committed = 0 /\ src.committed = 0
                               /\ off + len <= Len(dst.data)
        /\ Serve(OkM([m EXCEPT !.open[to].data = Patched(@, off, bytes), !.dirty = TRUE]))
        /\ want' = Put(want, dst.id, Patched(want[dst.id], off, bytes))

Unlink == \E p \in DOMAIN m.inos :
    LET e == EnsureMutationSession(m)
        r == Mutate(e, DeleteFile(e.svc, p, FALSE), [op |-> "delete", path |-> p])
    IN  /\ m.nodes[m.inos[p]].kind # "dir"
        /\ Serve(OkM(UnregisterIno(r.m, m.inos[p]))) /\ UNCHANGED want

Rmdir == \E p \in DOMAIN m.inos :
    LET e == EnsureMutationSession(m)
        r == Mutate(e, DeleteFile(e.svc, p, FALSE), [op |-> "delete", path |-> p])
    IN  /\ m.nodes[m.inos[p]].kind = "dir"
        /\ Children(m, p) = {}
        /\ Serve(OkM(UnregisterIno(r.m, m.inos[p]))) /\ UNCHANGED want

Rename == \E from \in DOMAIN m.inos, to \in Paths :
    LET e == EnsureMutationSession(m)
        r == Mutate(e, RenameEntry(e.svc, from, to), [op |-> "rename", path |-> from, to |-> to])
        dir == m.nodes[m.inos[from]].kind = "dir"
    IN  /\ InDirectory(to) /\ ~Under(from, to)
        /\ to \in DOMAIN m.inos => /\ dir <=> m.nodes[m.inos[to]].kind = "dir"
                                   /\ dir => Children(m, to) = {}
        /\ \A p \in DOMAIN m.inos : Under(from, p) => Rebase(p, from, to) \in Paths
        /\ "reuse" \in Avoid => \A p \in DOMAIN m.inos : Under(from, p) =>
                                    ~Spent(Rebase(p, from, to)) /\ Rebase(p, from, to) \notin DOMAIN m.inos
        /\ "rename_open" \in Avoid => DOMAIN m.open = {}
        /\ Serve(OkM(RebuildIndexes(r.m))) /\ UNCHANGED want

Chmod == \E p \in DOMAIN m.inos :
    /\ m.svc.active[p].mode = 0
    /\ Serve(OkM([m EXCEPT !.svc = SetMode(m.svc, p, 1).s, !.dirty = TRUE])) /\ UNCHANGED want

\* The newest version of every file is its content: none was extended by a
\* streaming flush, or moved to a name its versions do not follow.
Versioned(s) ==
    \A p \in Countable(s) : s.versions[p] # <<>> /\ Last(s.versions[p]).data = ReadFile(s, p).data

\* flush (on every close) and release: into the service only; a release whose
\* flush fails keeps the handle
Flush == \E fh \in DOMAIN m.open, req \in {"none", "snapshot"} :
    /\ req = "snapshot" => m.svc.snaps = << >>
    /\ (req = "snapshot" /\ "streamed_snapshot" \in Avoid) => Versioned(m.svc)
    /\ Serve(FlushFileHandle(OnlineRequest(m, req), fh)) /\ UNCHANGED want

ReleaseHandle == \E fh \in DOMAIN m.open :
    LET r == FlushFileHandle(m, fh)
    IN  Serve(IF r.ok THEN OkM([r.m EXCEPT !.open = Drop(@, fh)]) ELSE r) /\ UNCHANGED want

LookupSnapshot == \E id \in DOMAIN m.at, p \in Paths :
    /\ p \in DOMAIN m.svc.snaps[id] /\ m.svc.snaps[id][p].inode.kind = "file"
    /\ <<id, p>> \notin DOMAIN m.virt
    /\ Serve(OkM(LookupInSnapshot(m, id, p))) /\ UNCHANGED want

---------------------------------------------------------------------------
(* Checkpoints, unmount, crash and mount.                                  *)

\* Every logged operation finds the tree as it left it: replaying it is idle.
Settled(s) ==
    s.wal # NoWal => \A i \in DOMAIN s.wal : LET o == s.wal[i] IN
        CASE o.op \in {"create", "mkdir"} -> Has(s, o.path)
          [] o.op = "delete" -> ~Has(s, o.path)
          [] o.op = "rename" -> ~Has(s, o.path)
          [] o.op = "truncate" -> \E p \in PathsOf(s, o.id) : s.active[p].size = o.size

\* Fault: the persist comes before the flush of the handle.
CheckpointEarly(mt, fh) ==
    LET r == FlushFileHandle(mt, fh) IN [ok |-> r.ok, m |-> r.m, img |-> Persisted(mt.svc)]

\* fsync: flush this handle, then persist with the session and its log open
Checkpoint(mt, fh) ==
    LET r == FlushFileHandle(mt, fh) IN [ok |-> r.ok, m |-> r.m, img |-> Persisted(r.m.svc)]

\* The tree an fsync of inode id persists: of other files what their handles
\* have already flushed.
Synced(s, id) ==
    [p \in DOMAIN s.active |-> IF s.active[p].id = id THEN want[id] ELSE ReadFile(s, p).data]

Fsync == \E fh \in DOMAIN m.open :
    LET r == Checkpoint(m, fh)
    IN  /\ "unsettled" \in Avoid => Settled(r.m.svc)
        /\ Request /\ UNCHANGED <<faults, want>>
        /\ m' = [r.m EXCEPT !.svc.dirty = IF r.ok THEN {} ELSE @]
        /\ IF r.ok THEN Persist(r.img, Synced(r.m.svc, m.open[fh].id))
           ELSE UNCHANGED <<img, cache, saved, tried>>

\* The memory of the daemon is gone.
Gone == m' = Mounted(Formatted) /\ want' = << >> /\ up' = FALSE

\* The persist of an fsync fails, or the daemon ends in the middle of it.
FsyncFails == \E fh \in DOMAIN m.open :
    LET r == Checkpoint(m, fh)
    IN  /\ "unsettled" \in Avoid => Settled(r.m.svc)
        /\ up /\ calls < MaxCalls /\ calls' = calls + 1
        /\ r.ok /\ PersistFails(r.img, Synced(r.m.svc, m.open[fh].id))
        /\ \/ m' = r.m /\ UNCHANGED <<up, want>>
           \/ Gone

\* flush_to_backing once the handles are flushed
CleanState(s) == MarkCleanShutdown([CommitTransaction(s) EXCEPT !.wal = NoWal])

\* destroy: the result of flush_to_backing is ignored.  A handle that cannot be
\* flushed keeps everything since the last checkpoint from being saved.
Unmount == \E order \in SetToSeqs({fh \in DOMAIN m.open : m.open[fh].dirty}) :
    LET r == FlushDirtyOpenFiles(m, order)
        image == Persisted(CleanState(r.m.svc))
    IN  /\ up /\ Gone /\ UNCHANGED calls
        /\ \/ r.ok /\ Persist(image, Wanted(m)) /\ UNCHANGED faults
           \/ r.ok /\ PersistFails(image, Wanted(m))
           \/ ~r.ok /\ UNCHANGED <<img, cache, faults, saved, tried>>

\* The daemon ends between two requests, or panics in one.
Crash ==
    /\ up /\ faults < MaxFaults /\ faults' = faults + 1
    /\ Gone /\ UNCHANGED <<img, cache, calls, saved, tried>>

\* mount_image_rw and mount_device_rw: an image that does not load is refused.
Mount == \E d \in img \ {Torn} :
    LET r == LoadImage(d)
    IN  /\ ~up /\ r.ok /\ calls < MaxCalls
        /\ up' = TRUE
        /\ m' = Mounted(r.s)
        /\ img' = {Persisted(MarkUncleanShutdown(r.s))} /\ cache' = "none"
        /\ want' = ById(r.s)
        /\ saved' = FuseView(r.s) /\ tried' = {}
        /\ UNCHANGED <<calls, faults>>

\* The save of a mount fails: in a temporary file beside the image, or in place
\* on a device.
MountFails == \E d \in img \ {Torn} :
    LET r == LoadImage(d)
        new == Persisted(MarkUncleanShutdown(r.s))
    IN  /\ ~up /\ r.ok /\ faults < MaxFaults /\ faults' = faults + 1
        /\ img' = {d, new} \cup (IF Backing = "device" THEN {Torn} ELSE {})
        /\ saved' = FuseView(r.s) /\ tried' = {FuseView(r.s)}
        /\ UNCHANGED <<m, up, cache, calls, want>>

Next ==
    \/ Create \/ Mkdir \/ Open \/ Write \/ ResizeHandle \/ ResizePath \/ CopyRange
    \/ Unlink \/ Rmdir \/ Rename \/ Chmod \/ Flush \/ ReleaseHandle \/ LookupSnapshot
    \/ Fsync \/ FsyncFails \/ Unmount \/ Crash \/ Mount \/ MountFails

Spec == Init /\ [][Next]_vars

---------------------------------------------------------------------------
(* Properties.                                                             *)

TypeOK ==
    /\ DOMAIN m.open \subseteq Handles
    /\ DOMAIN m.inos \subseteq Paths
    /\ m.listed \subseteq Paths
    /\ \A fh \in DOMAIN m.open : m.open[fh].committed \in 0..MaxLen
    /\ up \in BOOLEAN /\ calls \in 0..MaxCalls

\* The next mount finds the tree and the bytes of the last checkpoint that was
\* reported done, whatever crash or unmount came in between: neither the journal
\* reconciliation nor the log replay changes them.  A persist that failed or was
\* cut short since may have put the tree it was writing in their place, or left an
\* image that is refused, which a retry through a stale cache need not mend; no
\* mount finds any other tree.
FsyncedSurvives ==
    /\ \A d \in img \ {Torn} :
         LET r == LoadImage(d) IN r.ok /\ FuseView(r.s) \in {saved} \cup tried
    /\ Torn \in img => tried # {} \/ cache = "stale"

\* A read through an open handle gives what the requests wrote into the file,
\* across the part already streamed to the service and the buffer.
ReadYourWrites ==
    up => \A fh \in DOMAIN m.open :
        m.open[fh].id \in DOMAIN m.nodes => ReadFromHandle(m, fh) = want[m.open[fh].id]

\* Once no handle of a file is dirty the service holds what was written to it.
FlushedReaches ==
    up => \A p \in DOMAIN m.inos :
        (~\E fh \in DOMAIN m.open : m.open[fh].id = m.inos[p] /\ m.open[fh].dirty) =>
            ReadFile(m.svc, p).data = want[m.inos[p]] \/ m.nodes[m.inos[p]].kind = "dir"

\* The size of a cached node, which getattr reports and open decides by, is the
\* length of the file.
CachedSizeTrue ==
    up => \A id \in DOMAIN m.nodes : m.nodes[id].size = Len(want[id])

\* The three index maps, kept entry by entry, list exactly the catalog's tree:
\* walking the directories from the root reaches every entry under its inode.
IndexesAgree ==
    up => /\ \A p \in DOMAIN m.svc.active :
                 LET entries == DirectoryEntries(m, Front(p))
                 IN  p \in DOMAIN entries /\ entries[p] = m.svc.active[p].id
          /\ DOMAIN m.inos = DOMAIN m.svc.active /\ m.listed = DOMAIN m.inos
          /\ \A id \in DOMAIN m.nodes : m.inos[m.nodes[id].path] = id

\* A snapshot directory shows every file as it was when the snapshot was taken,
\* whatever was written, moved or deleted before the first lookup.
SnapshotViewTrue ==
    \A key \in DOMAIN m.virt :
        m.virt[key] = m.svc.snaps[key[1]][key[2]].data

\* What the mount answers from its own maps, without asking the service, is true:
\* names and inodes, sizes, and the files of snapshot directories.
ViewsTrue == IndexesAgree /\ CachedSizeTrue /\ SnapshotViewTrue
===========================================================================
