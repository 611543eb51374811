---------------------------- MODULE FileService ----------------------------
(***************************************************************************)
(* The file service as a state machine: one action per public call of      *)
(* CoreFsService, the save of the image and the next load from it.  A      *)
(* caller creates entries under an existing directory and removes a        *)
(* directory once it is empty, as both mounts and the shell do.            *)
(***************************************************************************)
EXTENDS ServiceOps

CONSTANTS
    Bytes,       \* the non-zero byte values of the contents
    Contents,    \* the contents a caller writes
    MaxLen,      \* longest file content
    Ops,         \* the calls the environment makes
    Avoid,       \* call patterns a run keeps out (see README)
    MaxCalls,    \* calls before the last load
    MaxInode     \* inode numbers

ASSUME ContentsAreBytes == Contents \subseteq Seq(Int) /\ Bytes \subseteq Int /\ MaxLen \in Nat

VARIABLES
    svc,     \* the running service
    img,     \* the persisted state of the last save
    calls,   \* calls made
    last     \* the last step: "failed" for a call that returned an error, "ended" for one
             \* that may end the life of an inode, else "kept"

vars == <<svc, img, calls, last>>

Top(p) == Len(p) = 1

\* The caller's view: a new entry lies in an existing directory ...
Placeable(p) == Top(p) \/ KindOf(svc, Front(p)) = "dir"

\* ... and a directory with entries is not removed.
Removable(p) == \A q \in DOMAIN svc.active : Under(p, q) => q = p

\* A name the journal knows as deleted or that still has a tombstone.
Spent(p) == p \in DOMAIN svc.deleted \cup svc.journal.del

Fresh(p) == "reuse" \in Avoid => ~Spent(p)

Call(name, r) ==
    /\ name \in Ops
    /\ calls < MaxCalls
    /\ r.s.next <= MaxInode
    /\ svc' = r.s
    /\ calls' = calls + 1
    /\ last' = IF ~r.ok THEN "failed" ELSE IF name \in {"secure", "expunge"} THEN "ended" ELSE "kept"
    /\ UNCHANGED img

Init ==
    /\ svc = Formatted
    /\ img = PersistedState(Formatted)
    /\ calls = 0
    /\ last = "kept"

Create == \E p \in Paths, data \in Contents :
    Placeable(p) /\ Fresh(p) /\ Call("create", CreateFile(svc, p, data))

Mkdir == \E p \in Paths :
    Placeable(p) /\ Fresh(p) /\ Call("mkdir", CreateDirectory(svc, p))

Symlink == \E p \in Paths, target \in Contents :
    Placeable(p) /\ Fresh(p) /\ Call("symlink", CreateSymlink(svc, p, target))

Write == \E p \in Paths, data \in Contents : Call("write", WriteFile(svc, p, data))

WriteRange == \E p \in Paths, off \in 0..MaxLen - 1, b \in Bytes :
    Call("range", WriteFileRange(svc, p, off, <<b>>))

Truncate == \E p \in Paths, n \in 0..MaxLen : Call("truncate", TruncateFile(svc, p, n))

Extend == \E p \in Paths, b \in Bytes :
    /\ Has(svc, p) => svc.active[p].size < MaxLen
    /\ Call("extend", ExtendFile(svc, p, <<b>>))

Delete == \E p \in Paths, secure \in BOOLEAN :
    /\ Removable(p)
    /\ (secure /\ "secure_dir" \in Avoid) => KindOf(svc, p) # "dir"
    /\ Call(IF secure THEN "secure" ELSE "delete", DeleteFile(svc, p, secure))

\* An image holds no bytes of deleted files: a tombstone that was loaded from one
\* has lost them.
LostBytes(p) ==
    /\ p \in DOMAIN svc.deleted
    /\ svc.deleted[p].id \in DOMAIN svc.blocks
    /\ svc.blocks[svc.deleted[p].id] = Blank

Restore == \E p \in Paths :
    /\ Placeable(p)
    /\ "loaded_tombstone" \in Avoid => ~LostBytes(p)
    /\ Call("restore", RestoreFile(svc, p))

Expunge == \E p \in Paths : Call("expunge", ExpungeFile(svc, p))

Chmod == \E p \in Paths : Call("chmod", SetMode(svc, p, 1))

Rename == \E from \in Paths, to \in Paths :
    /\ \A p \in DOMAIN svc.active : Under(from, p) => Rebase(p, from, to) \in Paths
    /\ ~IsStrictPrefix(from, to)
    /\ Placeable(to) /\ Removable(to)
    /\ "reuse" \in Avoid => ~Has(svc, to)
    /\ \A p \in DOMAIN svc.active : Under(from, p) => Fresh(Rebase(p, from, to))
    /\ Call("rename", RenameEntry(svc, from, to))

Snapshot == \E scope \in {<<>>} \cup Paths :
    /\ DOMAIN svc.snaps = {}
    /\ Call("snapshot", Done(CreateSnapshotScoped(svc, scope)))

DropSnapshot == \E id \in 0..svc.nexts : Call("drop_snapshot", DeleteSnapshot(svc, id))

\* A file whose stored form is not the one a write would give it is the result
\* of a range write, a resize or an extension.
PipelineForm(snap) ==
    \A p \in DOMAIN snap : snap[p].inode.kind = "file" =>
        /\ snap[p].inode.comp = Stored(snap[p].data).comp
        /\ snap[p].inode.enc = Stored(snap[p].data).enc

Rollback == \E id \in DOMAIN svc.snaps :
    /\ "mixed_form" \in Avoid => PipelineForm(svc.snaps[id])
    /\ \A p \in DOMAIN svc.snaps[id] : Has(svc, p) \/ (Placeable(p) /\ Fresh(p))
    /\ Call("rollback", RestoreSnapshot(svc, id))

Clone == \E from \in Paths, to \in Paths :
    Placeable(to) /\ Fresh(to) /\ Call("clone", CloneFile(svc, from, to))

CloneDir == \E from \in Paths, to \in Paths :
    /\ Placeable(to) /\ ~IsPrefix(from, to)
    /\ \A p \in DOMAIN svc.active :
          Under(from, p) => Rebase(p, from, to) \in Paths /\ Fresh(Rebase(p, from, to))
    /\ Call("clone_tree", CloneTree(svc, from, to))

\* save_image_to_path: the image is written aside and renamed into place
SaveImage ==
    /\ "save" \in Ops
    /\ img # PersistedState(svc)
    /\ img' = PersistedState(svc)
    /\ svc' = [svc EXCEPT !.dirty = {}]
    /\ last' = "kept"
    /\ UNCHANGED calls

\* load_image_from_path, by the next process; what was not saved is gone
Reload ==
    /\ "save" \in Ops
    /\ LoadImage(img).ok
    /\ svc' = LoadImage(img).s
    /\ svc' # svc
    /\ last' = "ended"
    /\ UNCHANGED <<img, calls>>

\* repair-image, on the saved image while no service runs on it
Repair ==
    /\ "repair" \in Ops
    /\ "rewrite" \in Avoid => RepairImage(img) = img
    /\ img' = RepairImage(img)
    /\ last' = "kept"
    /\ UNCHANGED <<svc, calls>>

Next ==
    \/ Create \/ Mkdir \/ Symlink \/ Write \/ WriteRange \/ Truncate \/ Extend
    \/ Delete \/ Restore \/ Expunge \/ Chmod \/ Rename
    \/ Snapshot \/ DropSnapshot \/ Rollback \/ Clone \/ CloneDir
    \/ SaveImage \/ Reload \/ Repair

Spec == Init /\ [][Next]_vars

---------------------------------------------------------------------------
(* Properties.                                                             *)

TypeOK ==
    /\ DOMAIN svc.active \subseteq Paths
    /\ DOMAIN svc.deleted \subseteq Paths
    /\ svc.dirty \subseteq 1..MaxInode
    /\ svc.next \in 0..MaxInode
    /\ calls \in 0..MaxCalls

\* What a caller sees of the tree: the kind, mode and bytes of every entry.
View(s) == [p \in DOMAIN s.active |->
               [kind |-> s.active[p].kind, mode |-> s.active[p].mode, bytes |-> ReadFile(s, p)]]

\* The offline reconciliation of a repair and the one of a load, written apart,
\* leave the same names active and the same names deleted.
RepairAgreesWithLoad(d) ==
    /\ DOMAIN Reconciled(d).active = DOMAIN FromPersistedState(d).active
    /\ DOMAIN Reconciled(d).deleted = DOMAIN FromPersistedState(d).deleted

\* A saved service loads with the same tree and the same deleted names: the
\* journal reconciliation of the load, and the one that repair-image makes on the
\* saved state, take nothing away and bring nothing back.
ReloadKeeps ==
    LET d == PersistedState(svc)
        r == LoadImage(d)
    IN  /\ r.ok /\ View(r.s) = View(svc) /\ DOMAIN r.s.deleted = DOMAIN svc.deleted
        /\ RepairAgreesWithLoad(d)

\* A repair keeps what a load of the image gives: a volume that loads has the
\* same tree and the same bytes after it.
RepairKeepsContents == View(LoadImage(RepairImage(img)).s) = View(LoadImage(img).s)

\* An inode number belongs to at most one entry, deleted ones included, and a
\* number on the recycling list to none: release, reload and specific ids agree.
OneOwner ==
    /\ \A p, q \in DOMAIN svc.active : svc.active[p].id = svc.active[q].id => p = q
    /\ \A p, q \in DOMAIN svc.deleted : svc.deleted[p].id = svc.deleted[q].id => p = q
    /\ EntryIds(svc.active) \cap EntryIds(svc.deleted) = {}
    /\ ToSet(svc.recycled) \cap (EntryIds(svc.active) \cup EntryIds(svc.deleted)) = {}

\* The service's own deep check finds nothing: every file decodes under the flags
\* and to the length of its inode, and every block record has an owner.
FsckClean == DeepFsck(svc) = [bad |-> {}, orphans |-> {}]

\* The recovery service and the deleted section of the catalog, two maps kept by
\* separate calls, name the same inodes.
TombstonesAgree == svc.tombs = svc.deleted

\* The catalog, the recovery service, the inode allocator and the block records,
\* each changed by calls of its own, tell the same story after every call.
CatalogSound == OneOwner /\ TombstonesAgree /\ FsckClean

\* The service when a rollback comes to p: the entries before it are done.
RolledBackTo(id, p) ==
    LET earlier == {PathSeq[k] : k \in 1 .. (CHOOSE k \in DOMAIN PathSeq : PathSeq[k] = p) - 1}
    IN  RestoreSnapshot([svc EXCEPT !.snaps[id] = Restrict(@, DOMAIN @ \cap earlier)], id).s

\* The quota is asked for a new file and for the growth of a file, never for a
\* write that shrinks one or keeps its size.
QuotaRefuses(s, p, size) ==
    IF Has(s, p) THEN size > s.active[p].size /\ ~QuotaOk(s, 0, size - s.active[p].size)
    ELSE ~QuotaOk(s, 1, size)

\* Going back to a snapshot gives every captured file its captured bytes,
\* whatever was written, moved or deleted since.  Only a file that there is no
\* room for, by the quota at the moment its turn comes, stays as it was.
SnapshotComesBack ==
    \A id \in DOMAIN svc.snaps :
        LET snap == svc.snaps[id]
            s == RestoreSnapshot(svc, id).s
        IN  ("mixed_form" \in Avoid => PipelineForm(snap)) =>
            \A p \in DOMAIN snap :
                (snap[p].inode.kind = "file" /\ KindOf(svc, p) \in {"file", "none"}) =>
                    ReadFile(s, p) =
                        IF QuotaRefuses(RolledBackTo(id, p), p, Len(snap[p].data))
                        THEN ReadFile(svc, p)
                        ELSE [ok |-> TRUE, data |-> snap[p].data]

\* The bytes of an entry the last image holds are in the dirty set once they
\* differ from it: the partial persist takes every other inode from its cache.
DirtyCoversChanges ==
    \A p \in DOMAIN img.active, q \in DOMAIN svc.active :
        LET id == img.active[p].id
        IN  (svc.active[q].id = id /\ id \in DOMAIN img.blocks /\ id \in DOMAIN svc.blocks
             /\ svc.blocks[id] # img.blocks[id]) => id \in svc.dirty

\* A call that returned an error left the tree and the deleted section alone, and
\* only a secure delete, an expunge and a load end the life of an inode: after
\* every other call its bytes are reached through an entry or a tombstone.
NothingVanishes ==
    [][/\ last' = "failed" => (View(svc') = View(svc) /\ svc'.deleted = svc.deleted)
       /\ last' # "ended" =>
            \A id \in EntryIds(svc.active) \cup EntryIds(svc.deleted) :
                id \in EntryIds(svc'.active) \cup EntryIds(svc'.deleted)]_vars
===========================================================================
