---------------------------- MODULE ServiceOps ----------------------------
(***************************************************************************)
(* The file service (src/src/app/mod.rs, CoreFsService) as operators over  *)
(* one record: the catalog with its deleted section, the tombstones of the *)
(* recovery service, the stored bytes of every inode, the inode allocator, *)
(* the version history, the service journal, the snapshots and the pending *)
(* volume log.  Every operation of the service takes the record and gives  *)
(* [ok, s]: whether the call returned Ok, and the service after it.  The   *)
(* mounts and the command line call these operations one at a time.        *)
(*                                                                         *)
(* Abstractions: a path is a sequence of names; stored bytes are the plain *)
(* bytes with the two pipeline flags they were stored under; the journal   *)
(* is what JournalService::replay makes of its committed entries, together *)
(* with the entries buffered in the open transaction; where the bytes lie  *)
(* on the device (auto_optimize_storage included) is the business of       *)
(* module BlockStore; timestamps and the heat counters are left out.       *)
(***************************************************************************)
EXTENDS Integers, SequencesExt

CONSTANTS
    PathSeq,          \* the paths, in the byte order BTreeMap iterates in
    KeepLatest,       \* versioning.keep_latest
    MaxVersionBytes,  \* versioning.max_version_bytes
    MaxFiles,         \* quotas.max_files
    MaxBytes,         \* quotas.max_bytes
    MinCompress,      \* MIN_COMPRESS_BYTES
    Compress,         \* performance.compression_enabled
    EncryptAtRest,    \* security.encryption_at_rest
    CopyOnWrite,      \* performance.copy_on_write
    Journaling,       \* performance.journaling_enabled
    NoTxn,            \* no open journal transaction
    NoWal             \* no pending volume log

Paths == ToSet(PathSeq)

\* Paths are non-empty sequences of names, each listed once, and a directory
\* precedes what lies in it.
ASSUME PathsInOrder ==
    /\ PathSeq \in Seq(Paths) /\ IsInjective(PathSeq)
    /\ \A p \in Paths : p \in Seq(ToSet(p)) \ {<<>>}
    /\ \A j, k \in DOMAIN PathSeq : IsStrictPrefix(PathSeq[j], PathSeq[k]) => j < k

ASSUME Switches == {Compress, EncryptAtRest, CopyOnWrite, Journaling} \subseteq BOOLEAN

Done(s) == [ok |-> TRUE, s |-> s]

Fail(s) == [ok |-> FALSE, s |-> s]

Put(f, k, v) == [x \in DOMAIN f \cup {k} |-> IF x = k THEN v ELSE f[x]]

Drop(f, k) == [x \in DOMAIN f \ {k} |-> f[x]]

Under(root, p) == IsPrefix(root, p)

Rebase(p, from, to) == to \o SubSeq(p, Len(from) + 1, Len(p))

\* Vec::resize(n, 0)
Resized(data, n) ==
    [i \in 1..n |-> IF i <= Len(data) THEN data[i] ELSE 0]

\* copy_from_slice at an offset, growing the buffer to reach the end
Patched(data, off, bytes) ==
    LET n == IF off + Len(bytes) > Len(data) THEN off + Len(bytes) ELSE Len(data)
    IN  [i \in 1..n |-> IF i \in off + 1 .. off + Len(bytes)
                        THEN bytes[i - off]
                        ELSE IF i <= Len(data) THEN data[i] ELSE 0]

---------------------------------------------------------------------------
(* The catalog and the bytes behind it.                                    *)

Has(s, p) == p \in DOMAIN s.active

KindOf(s, p) == IF Has(s, p) THEN s.active[p].kind ELSE "none"

EntryIds(entries) == {entries[p].id : p \in DOMAIN entries}

Stored(data) ==
    [comp |-> Compress /\ Len(data) >= MinCompress,
     enc  |-> EncryptAtRest,
     data |-> data]

\* A record whose bytes were not in the image has no extents: it reads empty.
Blank == [comp |-> FALSE, enc |-> FALSE, data |-> <<>>]

\* decrypt, then decompress, as the metadata says.  Bytes read under flags they
\* were not stored under are an authentication or frame error, or raw
\* ciphertext: never the plain bytes.
ReadFile(s, p) ==
    IF ~Has(s, p) \/ s.active[p].id \notin DOMAIN s.blocks THEN [ok |-> FALSE, data |-> <<>>]
    ELSE LET i == s.active[p]
             b == s.blocks[i.id]
         IN  IF i.comp = b.comp /\ i.enc = b.enc
             THEN [ok |-> TRUE, data |-> b.data]
             ELSE [ok |-> ~i.comp /\ ~i.enc, data |-> <<-1>> \o b.data]

Countable(s) == {p \in DOMAIN s.active : s.active[p].kind # "dir"}

\* Catalog::quota_stats: the files and the bytes the quota counts
QuotaStats(s) ==
    [files |-> Cardinality(Countable(s)),
     bytes |-> MapThenSumSet(LAMBDA p : s.active[p].size, Countable(s))]

QuotaOk(s, files, bytes) ==
    /\ QuotaStats(s).files + files <= MaxFiles
    /\ QuotaStats(s).bytes + bytes <= MaxBytes

---------------------------------------------------------------------------
(* The inode allocator.                                                    *)

Allocate(s) ==
    IF s.recycled # <<>>
    THEN [id |-> Head(s.recycled), s |-> [s EXCEPT !.recycled = Tail(@)]]
    ELSE [id |-> s.next + 1, s |-> [s EXCEPT !.next = @ + 1]]

Release(s, id) == [s EXCEPT !.recycled = Append(@, id)]

AllocateSpecific(s, id) ==
    [s EXCEPT !.recycled = RemoveFirst(@, id),
              !.next = IF id > @ THEN id ELSE @]

---------------------------------------------------------------------------
(* The service journal.  Replay is a left fold over the entries, so its    *)
(* state after the committed entries stands for them; entries that replay  *)
(* ignores (rename, clone, expunge, ranges, tx_begin, ...) are left out.   *)

EmptyReplay == [act |-> {}, del |-> {}, snaps |-> 0]

ReplayEntry(j, e) ==
    CASE e.op = "active"  -> [j EXCEPT !.act = @ \cup {e.path}, !.del = @ \ {e.path}]
      [] e.op = "delete"  -> [j EXCEPT !.act = @ \ {e.path}, !.del = @ \cup {e.path}]
      [] e.op = "secure"  -> [j EXCEPT !.act = @ \ {e.path}, !.del = @ \ {e.path}]
      [] e.op = "snapshot" -> [j EXCEPT !.snaps = @ + 1]

\* JournalService::record: into the open transaction, else into the entries
Record(s, op, p) ==
    LET e == [op |-> op, path |-> p]
    IN  IF s.txn = NoTxn
        THEN [s EXCEPT !.journal = ReplayEntry(@, e)]
        ELSE [s EXCEPT !.txn = Append(@, e)]

BeginTransaction(s) == IF s.txn = NoTxn THEN [s EXCEPT !.txn = <<>>] ELSE s

CommitTransaction(s) ==
    IF s.txn = NoTxn THEN s
    ELSE [s EXCEPT !.journal = FoldLeft(ReplayEntry, @, s.txn), !.txn = NoTxn]

MarkUncleanShutdown(s) == [s EXCEPT !.clean = FALSE]

MarkCleanShutdown(s) == [s EXCEPT !.clean = TRUE]

---------------------------------------------------------------------------
(* Versions.  Ids rise in the order the versions are stored.               *)

AllVersions(s) == UNION {ToSet(s.versions[p]) : p \in Paths}

\* prune_to_budget drops the oldest version of the volume until the rest fits:
\* what stays are the versions that fit together with all the newer ones.
PruneToBudget(s) ==
    LET Newer(v) == {w \in AllVersions(s) : w.vid >= v.vid}
        Fits(v)  == MapThenSumSet(LAMBDA w : Len(w.data), Newer(v)) <= MaxVersionBytes
    IN  [s EXCEPT !.versions = [p \in Paths |-> SelectSeq(@[p], Fits)]]

\* store_version, prune and, when over budget, prune_to_budget
StoreVersion(s, p, data) ==
    IF KeepLatest = 0 THEN s
    ELSE LET all  == Append(s.versions[p], [vid |-> s.nextv + 1, data |-> data])
             kept == IF Len(all) > KeepLatest
                     THEN SubSeq(all, Len(all) - KeepLatest + 1, Len(all)) ELSE all
         IN  PruneToBudget([s EXCEPT !.nextv = @ + 1, !.versions[p] = kept])

---------------------------------------------------------------------------
(* Creating, writing and reading files.                                    *)

NewInode(id, kind, data) ==
    [id |-> id, kind |-> kind, size |-> Len(data),
     comp |-> kind = "file" /\ Stored(data).comp,
     enc  |-> kind = "file" /\ Stored(data).enc, mode |-> 0]

\* Fault: the quota is checked once the entry is in the catalog.
CreateFileWithInodeLate(s, p, data, id) ==
    IF Has(s, p) THEN Fail(s)
    ELSE LET e == [s EXCEPT !.blocks = Put(@, id, Stored(data)),
                            !.active = Put(@, p, NewInode(id, "file", data))]
         IN  IF QuotaOk(s, 1, Len(data)) THEN Done(Record(e, "active", p)) ELSE Fail(e)

CreateFileWithInode(s, p, data, id) ==
    IF Has(s, p) \/ ~QuotaOk(s, 1, Len(data)) THEN Fail(s)
    ELSE LET v == StoreVersion(AllocateSpecific(s, id), p, data)
         IN  Done(Record([v EXCEPT !.blocks = Put(@, id, Stored(data)),
                                   !.active = Put(@, p, NewInode(id, "file", data)),
                                   !.dirty  = @ \cup {id}], "active", p))

\* The id is taken before the checks: a refused call does not give it back.
CreateFile(s, p, data) ==
    LET a == Allocate(s) IN CreateFileWithInode(a.s, p, data, a.id)

CreateDirectoryWithInode(s, p, id) ==
    IF Has(s, p) THEN Fail(s)
    ELSE Done(Record([AllocateSpecific(s, id) EXCEPT
                          !.active = Put(@, p, NewInode(id, "dir", <<>>))], "active", p))

CreateDirectory(s, p) ==
    LET a == Allocate(s) IN CreateDirectoryWithInode(a.s, p, a.id)

CreateSymlink(s, p, target) ==
    IF Has(s, p) THEN Fail(s)
    ELSE LET a == Allocate(s)
             raw == [comp |-> FALSE, enc |-> FALSE, data |-> target]
         IN  Done(Record([a.s EXCEPT !.blocks = Put(@, a.id, raw),
                                     !.active = Put(@, p, NewInode(a.id, "link", target)),
                                     !.dirty  = @ \cup {a.id}], "active", p))

\* A file may be written when it is one and its growth fits the quota.
Writable(s, p, size) ==
    /\ KindOf(s, p) = "file"
    /\ size > s.active[p].size => QuotaOk(s, 0, size - s.active[p].size)

\* Fault: the inode is not entered in the dirty set.
SetContentClean(s, p, b) ==
    [s EXCEPT !.blocks = Put(@, s.active[p].id, b),
              !.active[p] = [@ EXCEPT !.size = Len(b.data), !.comp = b.comp, !.enc = b.enc]]

\* The bytes of p become b and its inode says so.
SetContent(s, p, b) ==
    LET id == s.active[p].id
    IN  [s EXCEPT !.blocks = Put(@, id, b),
                  !.active[p] = [@ EXCEPT !.size = Len(b.data), !.comp = b.comp, !.enc = b.enc],
                  !.dirty = @ \cup {id}]

Plain(data) == [comp |-> FALSE, enc |-> FALSE, data |-> data]

WriteFile(s, p, data) ==
    IF ~Writable(s, p, Len(data)) THEN Fail(s)
    ELSE Done(Record(SetContent(StoreVersion(s, p, data), p, Stored(data)), "active", p))

Piped(s, p) == s.active[p].comp \/ s.active[p].enc

\* A range write or a resize: through the whole pipeline for a file that is
\* compressed or encrypted, else in place with a version of the bytes before.
RewriteFile(s, p, data) ==
    LET old == ReadFile(s, p)
    IN  IF ~Writable(s, p, Len(data)) \/ ((Piped(s, p) \/ KeepLatest > 0) /\ ~old.ok) THEN Fail(s)
        ELSE IF Piped(s, p) THEN WriteFile(s, p, data)
        ELSE Done(SetContent(StoreVersion(s, p, old.data), p, Plain(data)))

WriteFileRange(s, p, off, bytes) ==
    IF KindOf(s, p) # "file" THEN Fail(s)
    ELSE LET old == ReadFile(s, p).data
             new == Patched(old, off, bytes)
             r   == RewriteFile(s, p, new)
         IN  IF r.ok /\ ~Piped(s, p) /\ new = old /\ Len(bytes) < Len(old)
             THEN Done([r.s EXCEPT !.dirty = s.dirty]) ELSE r

TruncateFile(s, p, size) ==
    IF KindOf(s, p) # "file" THEN Fail(s)
    ELSE RewriteFile(s, p, Resized(ReadFile(s, p).data, size))

\* Fault: the flags of the old stored form stay in the inode.
ExtendFileFlags(s, p, extra) ==
    IF KindOf(s, p) # "file" \/ ~ReadFile(s, p).ok THEN Fail(s)
    ELSE LET t == SetContent(s, p, Plain(ReadFile(s, p).data \o extra))
         IN  Done([t EXCEPT !.active[p].comp = s.active[p].comp, !.active[p].enc = s.active[p].enc])

\* No quota and no version: the stored form becomes plain, then grows.
ExtendFile(s, p, extra) ==
    IF KindOf(s, p) # "file" THEN Fail(s)
    ELSE LET old == ReadFile(s, p)
         IN  IF Piped(s, p) /\ ~old.ok THEN Fail(s)
             ELSE Done(SetContent(s, p, Plain(old.data \o extra)))

---------------------------------------------------------------------------
(* Deleting, restoring and renaming.                                       *)

DeleteFile(s, p, secure) ==
    IF ~Has(s, p) THEN Fail(s)
    ELSE LET i == s.active[p]
             gone == [s EXCEPT !.active = Drop(@, p)]
             wiped == [gone EXCEPT !.tombs = Drop(@, p), !.deleted = Drop(@, p)]
         IN  IF ~secure
             THEN Done(Record([gone EXCEPT !.tombs = Put(@, p, i), !.deleted = Put(@, p, i),
                                           !.dirty = @ \cup {i.id}], "delete", p))
             ELSE IF i.id \notin DOMAIN s.blocks THEN Fail(wiped)
             ELSE Done(Record([Release(wiped, i.id) EXCEPT !.blocks = Drop(@, i.id),
                                                           !.dirty = @ \cup {i.id}], "secure", p))

\* Fault: the restore is not recorded in the journal.
RestoreFileUnlogged(s, p) ==
    IF p \notin DOMAIN s.deleted THEN Fail(s)
    ELSE Done([s EXCEPT !.active = Put(@, p, s.deleted[p]), !.tombs = Drop(@, p),
                        !.deleted = Drop(@, p), !.dirty = @ \cup {s.deleted[p].id}])

RestoreFile(s, p) ==
    IF p \notin DOMAIN s.tombs \cup DOMAIN s.deleted THEN Fail(s)
    ELSE LET i == IF p \in DOMAIN s.tombs THEN s.tombs[p] ELSE s.deleted[p]
         IN  Done(Record([s EXCEPT !.active = Put(@, p, i), !.tombs = Drop(@, p),
                                   !.deleted = Drop(@, p), !.dirty = @ \cup {i.id}], "active", p))

\* Fault: the recovery service is not told to forget the path.
ExpungeFileRemembered(s, p) ==
    IF p \notin DOMAIN s.deleted THEN Fail(s)
    ELSE LET id == s.deleted[p].id
         IN  Done([Release(s, id) EXCEPT !.deleted = Drop(@, p), !.blocks = Drop(@, id)])

ExpungeFile(s, p) ==
    IF p \notin DOMAIN s.deleted THEN Fail(s)
    ELSE LET id == s.deleted[p].id
         IN  Done([Release(s, id) EXCEPT !.deleted = Drop(@, p), !.tombs = Drop(@, p),
                                         !.blocks = Drop(@, id)])

SetMode(s, p, mode) ==
    IF ~Has(s, p) THEN Fail(s) ELSE Done([s EXCEPT !.active[p].mode = mode])

\* Fault: directories are taken to be implied by the entries in them.
MoveEntriesNoDirs(entries, from, to) ==
    LET Move(f, p) == IF f[p].kind = "dir" THEN Drop(f, p)
                      ELSE Put(Drop(f, p), Rebase(p, from, to), f[p])
    IN  FoldLeft(Move, entries, SelectSeq(PathSeq, LAMBDA p : p \in DOMAIN entries /\ Under(from, p)))

\* An entry is removed and inserted under its new name.
MoveEntry(entries, p, q) == Put(Drop(entries, p), q, entries[p])

\* One entry after another in path order.
MoveEntries(entries, from, to) ==
    LET moved[k \in 0..Len(PathSeq)] ==
            IF k = 0 THEN entries
            ELSE IF PathSeq[k] \in DOMAIN entries /\ Under(from, PathSeq[k])
            THEN MoveEntry(moved[k - 1], PathSeq[k], Rebase(PathSeq[k], from, to))
            ELSE moved[k - 1]
    IN  moved[Len(PathSeq)]

RenameEntry(s, from, to) ==
    IF ~Has(s, from) THEN Fail(s)
    ELSE LET c == IF Has(s, to) THEN DeleteFile(s, to, FALSE).s ELSE s
         IN  Done([c EXCEPT !.active = MoveEntries(@, from, to)])

---------------------------------------------------------------------------
(* Snapshots and clones.                                                   *)

\* A snapshot keeps the inode and the plain bytes (or the link target) of
\* every entry under its scope.
Captured(s, scope) ==
    [p \in {q \in DOMAIN s.active : Under(scope, q)} |->
        [inode |-> s.active[p], data |-> ReadFile(s, p).data]]

CreateSnapshotScoped(s, scope) ==
    Record([s EXCEPT !.nexts = @ + 1, !.snaps = Put(@, s.nexts + 1, Captured(s, scope))],
           "snapshot", <<>>)

DeleteSnapshot(s, id) ==
    IF id \notin DOMAIN s.snaps THEN Fail(s) ELSE Done([s EXCEPT !.snaps = Drop(@, id)])

\* Fault: a file that exists is taken for restored.
RestoreEntryIfMissing(s, p, e) ==
    LET r == CASE Has(s, p) -> Done(s)
               [] ~Has(s, p) /\ e.inode.kind = "dir"  -> CreateDirectory(s, p)
               [] ~Has(s, p) /\ e.inode.kind = "link" -> CreateSymlink(s, p, e.data)
               [] ~Has(s, p) /\ e.inode.kind = "file" -> CreateFile(s, p, e.data)
    IN  r

\* The entry is created or written, then takes the captured metadata, the
\* pipeline flags among it.
RestoreEntry(s, p, e) ==
    LET kind == e.inode.kind
        r == CASE KindOf(s, p) = "none" /\ kind = "dir"  -> CreateDirectory(s, p)
               [] KindOf(s, p) = "none" /\ kind = "link" -> CreateSymlink(s, p, e.data)
               [] KindOf(s, p) = "none" /\ kind = "file" -> CreateFile(s, p, e.data)
               [] KindOf(s, p) = "file" /\ kind = "file" -> WriteFile(s, p, e.data)
               [] KindOf(s, p) = kind /\ kind # "file"   -> Done(s)
               [] OTHER -> Fail(s)
    IN  IF ~r.ok THEN r
        ELSE Done([r.s EXCEPT !.active[p] = [@ EXCEPT !.comp = e.inode.comp, !.enc = e.inode.enc,
                                                      !.mode = e.inode.mode]])

RestoreSnapshot(s, id) ==
    IF id \notin DOMAIN s.snaps THEN Fail(s)
    ELSE LET snap == s.snaps[id]
             restored[k \in 0..Len(PathSeq)] ==
                 IF k = 0 THEN s
                 ELSE IF PathSeq[k] \in DOMAIN snap
                 THEN RestoreEntry(restored[k - 1], PathSeq[k], snap[PathSeq[k]]).s
                 ELSE restored[k - 1]
         IN  Done(restored[Len(PathSeq)])

\* Copy on write shares the blob: the target reads what the source reads.  The
\* new inode is not entered in the dirty set.
CloneFile(s, from, to) ==
    IF KindOf(s, from) # "file" \/ Has(s, to) THEN Fail(s)
    ELSE IF ~CopyOnWrite
    THEN IF ReadFile(s, from).ok THEN CreateFile(s, to, ReadFile(s, from).data) ELSE Fail(s)
    ELSE IF ~QuotaOk(s, 1, s.active[from].size) THEN Fail(s)
    ELSE LET a == Allocate(s)
             src == s.active[from]
         IN  IF src.id \notin DOMAIN s.blocks THEN Fail(Release(a.s, a.id))
             ELSE Done([a.s EXCEPT !.blocks = Put(@, a.id, s.blocks[src.id]),
                                   !.active = Put(@, to, [src EXCEPT !.id = a.id])])

CloneEntry(s, p, q) ==
    CASE KindOf(s, p) = "dir"  -> CreateDirectory(s, q).s
      [] KindOf(s, p) = "file" -> CloneFile(s, p, q).s
      [] KindOf(s, p) = "link" -> CreateSymlink(s, q, ReadFile(s, p).data).s

CloneTree(s, from, to) ==
    IF KindOf(s, from) # "dir" \/ Has(s, to) THEN Fail(s)
    ELSE LET cloned[k \in 0..Len(PathSeq)] ==
                 IF k = 0 THEN s
                 ELSE IF Has(s, PathSeq[k]) /\ Under(from, PathSeq[k])
                 THEN CloneEntry(cloned[k - 1], PathSeq[k], Rebase(PathSeq[k], from, to))
                 ELSE cloned[k - 1]
         IN  Done(cloned[Len(PathSeq)])

---------------------------------------------------------------------------
(* The pending volume log (src/src/storage/volume_wal.rs).                 *)

PathsOf(s, id) == {p \in DOMAIN s.active : s.active[p].id = id}

\* apply_operation.  PatchExtent is left out: nothing outside the tests logs it.
ApplyOperation(s, op) ==
    CASE op.op = "create"   -> IF Has(s, op.path) THEN Done(s)
                               ELSE CreateFileWithInode(s, op.path, <<>>, op.id)
      [] op.op = "mkdir"    -> IF Has(s, op.path) THEN Done(s)
                               ELSE CreateDirectoryWithInode(s, op.path, op.id)
      [] op.op = "truncate" -> IF PathsOf(s, op.id) = {} THEN Done(s)
                               ELSE LET p == CHOOSE q \in PathsOf(s, op.id) : TRUE
                                    IN  IF ~ReadFile(s, p).ok THEN Fail(s)
                                        ELSE WriteFile(s, p, Resized(ReadFile(s, p).data, op.size))
      [] op.op = "delete"   -> IF Has(s, op.path) THEN DeleteFile(s, op.path, FALSE) ELSE Done(s)
      [] op.op = "rename"   -> IF Has(s, op.path) THEN RenameEntry(s, op.path, op.to) ELSE Done(s)

\* Replay stops at the first operation that fails, and with it the load.
RecoverPendingWal(s) ==
    IF s.wal = NoWal THEN Done(s)
    ELSE LET Apply(r, op) == IF r.ok THEN ApplyOperation(r.s, op) ELSE r
             r == FoldLeft(Apply, Done(BeginTransaction(s)), s.wal)
         IN  IF r.ok THEN Done(MarkCleanShutdown([CommitTransaction(r.s) EXCEPT !.wal = NoWal]))
             ELSE r

---------------------------------------------------------------------------
(* Saving and loading.                                                     *)

\* persisted_state with read_all_block_bytes: the bytes of the active entries
\* only; an inode reached through no active path keeps an empty record.
PersistedState(s) ==
    [active |-> s.active, deleted |-> s.deleted,
     blocks |-> [id \in DOMAIN s.blocks |->
                    IF id \in EntryIds(s.active) THEN s.blocks[id] ELSE Blank],
     versions |-> s.versions, snaps |-> s.snaps, nexts |-> s.nexts,
     journal |-> IF Journaling THEN s.journal ELSE EmptyReplay,
     txn     |-> IF Journaling THEN s.txn ELSE NoTxn,
     clean   |-> IF Journaling THEN s.clean ELSE TRUE,
     wal     |-> IF Journaling THEN s.wal ELSE NoWal]

\* reconcile_from_journal: the catalog follows what the journal replays to.
ReconcileFromJournal(s) ==
    LET Moved == {p \in DOMAIN s.active : p \in s.journal.del}
        deleted == [p \in DOMAIN s.deleted \cup Moved |->
                       IF p \in Moved THEN s.active[p] ELSE s.deleted[p]]
        Back == DOMAIN deleted \cap s.journal.act
        Kept == DOMAIN deleted \cap s.journal.del
        tombs == [p \in Kept |-> deleted[p]]
    IN  [s EXCEPT !.active = [p \in (DOMAIN s.active \ Moved) \cup Back |->
                                 IF p \in Back THEN deleted[p] ELSE s.active[p]],
                  !.deleted = tombs, !.tombs = tombs,
                  !.nexts = IF @ < s.journal.snaps THEN s.journal.snaps ELSE @]

\* Fault: the ids of deleted entries are not counted as in use.
FromPersistedStateActive(d) ==
    LET ids == EntryIds(d.active) \cup {0}
        s == [active |-> d.active, deleted |-> d.deleted, tombs |-> d.deleted,
              blocks |-> d.blocks, next |-> Max(ids), recycled |-> <<>>,
              versions |-> d.versions, nextv |-> Max({v.vid : v \in AllVersions(d)} \cup {0}),
              journal |-> d.journal, txn |-> NoTxn, clean |-> TRUE, wal |-> d.wal,
              snaps |-> d.snaps, nexts |-> d.nexts, dirty |-> {}]
    IN  ReconcileFromJournal(s)

\* from_persisted_state: an open transaction is aborted and the volume counts as
\* cleanly unmounted; the free inode ids start over after the largest in use.
FromPersistedState(d) ==
    LET ids == EntryIds(d.active) \cup EntryIds(d.deleted) \cup {0}
        vids == {v.vid : v \in AllVersions(d)} \cup {0}
        s == [active |-> d.active, deleted |-> d.deleted, tombs |-> d.deleted,
              blocks |-> d.blocks, next |-> Max(ids), recycled |-> <<>>,
              versions |-> d.versions, nextv |-> Max(vids),
              journal |-> d.journal, txn |-> NoTxn, clean |-> TRUE, wal |-> d.wal,
              snaps |-> d.snaps, nexts |-> d.nexts, dirty |-> {}]
    IN  IF Journaling THEN ReconcileFromJournal(s) ELSE s

LoadImage(d) == RecoverPendingWal(FromPersistedState(d))

\* The length of the bytes as stored: a nonce and a tag make them longer.
StoredLen(b) == Len(b.data) + (IF b.enc THEN 2 ELSE 0)

\* Fault: an entry whose name the journal does not know is dropped.
ReconciledPurging(d) ==
    [d EXCEPT !.active = [p \in DOMAIN d.active \cap d.journal.act |-> d.active[p]],
              !.deleted = [p \in DOMAIN d.deleted \cap d.journal.del |-> d.deleted[p]]]

\* reconcile_persisted_state, the offline twin of ReconcileFromJournal: an active
\* entry wins over a restored one, and every size becomes the stored length.
Reconciled(d) ==
    LET Moved == DOMAIN d.active \cap d.journal.del
        all == [p \in DOMAIN d.deleted \cup Moved |->
                   IF p \in DOMAIN d.deleted THEN d.deleted[p] ELSE d.active[p]]
        Back == (DOMAIN all \cap d.journal.act) \ (DOMAIN d.active \ Moved)
        Sized(i) == IF i.kind = "dir" THEN i
                    ELSE [i EXCEPT !.size = IF i.id \in DOMAIN d.blocks
                                            THEN StoredLen(d.blocks[i.id]) ELSE 0]
        active == [p \in (DOMAIN d.active \ Moved) \cup Back |->
                      Sized(IF p \in Back THEN all[p] ELSE d.active[p])]
        deleted == [p \in DOMAIN all \cap d.journal.del |-> Sized(all[p])]
        Known == EntryIds(active) \cup EntryIds(deleted)
    IN  [d EXCEPT !.active = active, !.deleted = deleted,
                  !.blocks = [id \in DOMAIN d.blocks \cap Known |-> d.blocks[id]],
                  !.nexts = IF @ < d.journal.snaps THEN d.journal.snaps ELSE @]

\* repair_volume_image_superblocks: when the reconciliation changed anything the
\* image is written again, from the state alone: without the bytes of the files.
RepairImage(d) ==
    LET r == Reconciled(d)
    IN  IF r = d THEN d ELSE [r EXCEPT !.blocks = [id \in DOMAIN r.blocks |-> Blank]]

\* deep_fsck: entries whose bytes are missing, do not decode under their flags or
\* have another length than the inode says, and records no entry owns.
DeepFsck(s) ==
    [bad |-> {p \in Countable(s) :
                 \/ s.active[p].id \notin DOMAIN s.blocks
                 \/ ~ReadFile(s, p).ok
                 \/ Len(ReadFile(s, p).data) # s.active[p].size},
     orphans |-> DOMAIN s.blocks \ (EntryIds(s.active) \cup EntryIds(s.deleted))]

\* CoreFsService::format
Formatted ==
    [active |-> << >>, deleted |-> << >>, tombs |-> << >>, blocks |-> << >>,
     next |-> 0, recycled |-> <<>>, versions |-> [p \in Paths |-> <<>>], nextv |-> 0,
     journal |-> EmptyReplay, txn |-> NoTxn, clean |-> TRUE, wal |-> NoWal,
     snaps |-> << >>, nexts |-> 0, dirty |-> {}]
===========================================================================
