---------------------------- MODULE ImagePersist ----------------------------
(* The callers that keep a volume in an image: the WinFsp mount (partial     *)
(* persist through the device image cache), the FUSE mount of an image file  *)
(* and of a device (incremental persist), DeviceVolumeSession (whole image   *)
(* in place) and VolumeSession (temporary file and rename).                  *)
(*                                                                           *)
(* Writes reach the device in ascending order, a failed persist leaves a     *)
(* prefix of them; what is not synced, a power loss may take cell by cell.   *)
EXTENDS VolumeImage

CONSTANTS
  Inodes,       \* inode numbers files may get
  Contents,     \* contents a write may give a file
  Callers,      \* who owns the volume: subset of AllCallers
  Targets,      \* what media damage may hit
  Avoid,        \* names of the sequences this instance leaves out
  MaxOps,       \* bound: changes to the files
  MaxPersists,  \* bound: persists, finished or not
  MaxLost,      \* bound: cells a power loss takes or leaves
  MaxFaults     \* bound: failed persists, power losses and damages

VARIABLES
  caller,       \* who owns the volume
  up,           \* the volume is mounted or its session open
  st,           \* the files in memory: size, bytes, active or deleted
  dirty,        \* inodes whose contents changed since the last persist
  cache,        \* DeviceImageCache, or None
  dev,          \* what the device holds
  pend,         \* unsynced addresses, with what they held at the last sync
  prev,         \* the file before the last rename, or None
  acked,        \* the files a persist or a mount answered for, or None
  offered,      \* the files the device may hold: all that persists tried since
  hurt,         \* the files of the image that was damaged, or None
  fixed,        \* the damaged image has been repaired
  skipped,      \* a persist since the mount skipped what a failed batch left
  ops, gen, faults

vars == <<caller, up, st, dirty, cache, dev, pend, prev, acked, offered, hurt, fixed, skipped, ops, gen, faults>>

AllCallers == {"winfsp", "fuse", "device", "whole", "session"}

ASSUME KnownCallers == Callers \subseteq AllCallers

-----------------------------------------------------------------------------
Live(files) == {i \in DOMAIN files : files[i].live}

AllBlockBytes == [i \in Live(st) |-> st[i].data]
DirtyBlockBytes == [i \in Live(st) \cap dirty |-> st[i].data]

\* The image the caller builds: the FUSE device backing has no bytes to give,
\* the WinFsp mount only those of the dirty inodes, if the cache has the rest.
Built ==
  LET bytes == IF caller = "device" THEN <<>> ELSE AllBlockBytes
      part == IF caller = "winfsp" /\ Has(cache) THEN BuildWithPartial(st, DirtyBlockBytes, cache, gen) ELSE <<>>
  IN  FoldLeft(LAMBDA full, p : p, BuildWithBytes(st, bytes, gen), part)

FullImage(b) ==
  LET cells == FullBytes(b)
  IN  [a \in 0 .. (AlignUp(1 + Max(DOMAIN cells)) - 1) |-> Cell(cells, a)]

Queued(b) == IF Has(cache) THEN IncrementalWrites(b, cache) ELSE FullImage(b)

\* The writes that change a cell.
Effective(q) == Restrict(q, {a \in DOMAIN q : Cell(dev, a) # q[a]})

NewCache(b) ==
  IF caller \in {"whole", "session"} THEN NoCache
  ELSE IF Has(cache) THEN ApplyCacheUpdates(b, cache) ELSE FromBuilt(b)

\* An append-only DATA segment that would have to move is an error.
Refused(b) == Has(cache) /\ Shifted(b, cache)

\* The cached descriptors are those of the last full build or of the mount.
StaleDescriptors == caller = "winfsp" /\ Has(cache)
  /\ cache.desc # cache.segs["BLKD"].pay[2][2]

\* A failed batch left cells that the next persist does not write again.
LeftOver(q) == Has(cache) /\ ~(DOMAIN pend \subseteq DOMAIN q)

MayPersist(b, q) ==
  /\ ~Refused(b)
  /\ "stale_descriptors" \in Avoid => ~StaleDescriptors

-----------------------------------------------------------------------------
Init ==
  LET empty == FullImage(BuildWithBytes(<<>>, <<>>, 0))
  IN  /\ caller \in Callers
      /\ up = TRUE /\ st = <<>> /\ dirty = {} /\ dev = empty
      /\ cache = IF caller = "winfsp" THEN FromImageBytes(empty, Load(empty).dir) ELSE NoCache
      /\ pend = <<>> /\ prev = None
      /\ acked = <<"some", <<>>>> /\ offered = {<<>>}
      /\ hurt = None /\ fixed = FALSE /\ skipped = FALSE
      /\ ops = 0 /\ gen = 1 /\ faults = 0

Changed(files) ==
  /\ up /\ ops < MaxOps
  /\ st' = files /\ ops' = ops + 1
  /\ UNCHANGED <<caller, up, cache, dev, pend, prev, acked, offered, hurt, fixed, skipped, gen, faults>>

Write(i, d) ==
  /\ i \in DOMAIN st => st[i].live /\ st[i].data # d
  /\ Changed((i :> [size |-> Len(d), data |-> d, live |-> TRUE]) @@ st)
  /\ dirty' = dirty \cup {i}

\* A deleted file keeps its record; its bytes are saved no more.
Delete(i) ==
  /\ i \in Live(st)
  /\ Changed([st EXCEPT ![i].live = FALSE])
  /\ UNCHANGED dirty

\* The persist returns Ok: everything written and synced.
Persist ==
  /\ up /\ caller # "session" /\ gen < MaxPersists
  /\ \E b \in {Built} : \E q \in {Queued(b)} :
       /\ MayPersist(b, q)
       /\ dev' = q @@ dev /\ pend' = <<>>
       /\ cache' = NewCache(b)
       /\ skipped' = (skipped \/ LeftOver(q))
  /\ dirty' = {}
  /\ acked' = <<"some", st>> /\ offered' = {st}
  /\ gen' = gen + 1
  /\ UNCHANGED <<caller, up, st, prev, hurt, fixed, ops, faults>>

\* A write or the sync fails: the cells below address n are written.  The
\* cache is updated between the last write and the sync.
PersistFails ==
  /\ up /\ caller # "session" /\ gen < MaxPersists /\ faults < MaxFaults
  /\ \E b \in {Built} : \E q \in {Queued(b)} : \E w \in {Effective(q)} :
       /\ MayPersist(b, q)
       /\ \E n \in DOMAIN w \cup {1 + Max(DOMAIN q)} :
            LET done == {a \in DOMAIN w : a < n}
            IN  /\ dev' = Restrict(w, done) @@ dev
                /\ pend' = pend @@ [a \in done |-> Cell(dev, a)]
                /\ cache' = IF done = DOMAIN w /\ Has(cache) THEN ApplyCacheUpdates(b, cache) ELSE cache
       /\ skipped' = (skipped \/ LeftOver(q))
  /\ acked' = None /\ offered' = offered \cup {st}
  /\ gen' = gen + 1 /\ faults' = faults + 1
  /\ UNCHANGED <<caller, up, st, dirty, prev, hurt, fixed, ops>>

\* VolumeSession::flush: a new file, renamed over the old one; nothing synced.
FlushAndRename ==
  /\ up /\ caller = "session" /\ gen < MaxPersists
  /\ \E image \in {FullBytes(Built)} :
       dev' = image /\ pend' = [a \in DOMAIN image |-> <<"zero">>]
  /\ prev' = <<"some", dev>>
  /\ acked' = <<"some", st>> /\ offered' = {st} \cup (IF acked = None THEN {} ELSE {acked[2]})
  /\ dirty' = {} /\ gen' = gen + 1
  /\ UNCHANGED <<caller, up, st, cache, hurt, fixed, skipped, ops, faults>>

\* The process ends; nothing is lost but memory.
Exit ==
  /\ up /\ up' = FALSE
  /\ st' = <<>> /\ dirty' = {} /\ cache' = NoCache
  /\ UNCHANGED <<caller, dev, pend, prev, acked, offered, hurt, fixed, skipped, ops, gen, faults>>

\* Images that do not load are not told apart: no step leads on from them.
Remains(d) == IF Load(d).ok THEN d ELSE <<>>

\* Cells a power loss takes: few of them, or all but a few.
Losses(S) == UNION {{L, S \ L} : L \in UNION {kSubset(n, S) : n \in 0 .. MaxLost}}

Crashed(d) ==
  /\ faults' = faults + 1
  /\ dev' = Remains(d)
  /\ pend' = <<>> /\ prev' = None /\ acked' = None
  /\ up' = FALSE /\ st' = <<>> /\ dirty' = {} /\ cache' = NoCache
  /\ skipped' = FALSE
  /\ UNCHANGED <<caller, hurt, fixed, ops>>

\* Power is lost during a persist: each cell written since the last sync may
\* hold again what it held then.
PowerLoss ==
  /\ up /\ caller # "session" /\ gen < MaxPersists /\ faults < MaxFaults
  /\ \E b \in {Built} : \E q \in {Queued(b)} :
       /\ MayPersist(b, q)
       /\ \E old \in {pend @@ [a \in DOMAIN Effective(q) |-> Cell(dev, a)]} :
            \E lost \in Losses(DOMAIN old) : Crashed(Restrict(old, lost) @@ q @@ dev)
  /\ offered' = offered \cup {st} /\ gen' = gen + 1

\* Power is lost after a rename: the new file may miss any of its cells, or the
\* old file may be back.
RenameLost ==
  /\ prev # None /\ faults < MaxFaults /\ UNCHANGED <<offered, gen>>
  /\ \/ Crashed(prev[2])
     \/ \E lost \in Losses(DOMAIN pend) : Crashed(Restrict(pend, lost) @@ dev)

Mount ==
  /\ ~up
  /\ \E image \in {Load(dev)} :
       /\ image.ok
       /\ st' = image.files /\ acked' = <<"some", image.files>>
       /\ offered' = offered \cup {image.files}
       /\ cache' = IF caller = "winfsp" THEN FromImageBytes(dev, image.dir) ELSE NoCache
  /\ up' = TRUE /\ dirty' = {} /\ hurt' = None /\ fixed' = FALSE /\ skipped' = FALSE
  /\ UNCHANGED <<caller, dev, pend, prev, ops, gen, faults>>

-----------------------------------------------------------------------------
(* Damage to the medium while the volume is offline, and repair-image.       *)

DirectoryHit(dir, k) == [n \in 1 .. Len(dir) |->
  IF dir[n].kind = k THEN [dir[n] EXCEPT !.kind = "????"] ELSE dir[n]]

\* Every inode has its bytes in the image: without the descriptors the sizes
\* alone cut DATA into files.
BytesInPlace == \A f \in Range(Load(dev).files) : Len(f.data) = f.size

Damage(t) ==
  /\ ~up /\ faults < MaxFaults /\ pend = <<>> /\ acked # None /\ hurt = None
  /\ "unsaved_bytes" \in Avoid /\ t = "BLKD" => BytesInPlace
  /\ \E dir \in {LoadDirectory(dev)[2]} :
       dev' = CASE t = "head" -> (0 :> <<"bad">>) @@ dev
                [] t = "entry" -> (0 :> <<"head", DirectoryHit(dir, "META")>>) @@ dev
                [] t = "BLKD" -> (FindSegment(dir, t).off + 1 :> <<"bad">>) @@ dev
                [] OTHER -> (FindSegment(dir, t).off :> <<"bad">>) @@ dev
  /\ hurt' = acked
  /\ acked' = IF t \in {"SUPR", "SUP2"} /\ Load(dev).copies = 2 THEN acked ELSE None
  /\ faults' = faults + 1
  /\ UNCHANGED <<caller, up, st, dirty, cache, pend, prev, offered, fixed, skipped, ops, gen>>

Repair ==
  /\ ~up /\ hurt # None /\ ~fixed /\ gen < MaxPersists
  /\ \E new \in {Repaired(dev, gen)} :
       /\ new # None
       /\ dev' = new[2]
       /\ acked' = IF new[2] = dev THEN acked ELSE None
  /\ fixed' = TRUE /\ gen' = gen + 1
  /\ UNCHANGED <<caller, up, st, dirty, cache, pend, prev, offered, hurt, skipped, ops, faults>>

Next ==
  \/ \E i \in Inodes, d \in Contents : Write(i, d)
  \/ \E i \in Inodes : Delete(i)
  \/ Persist \/ PersistFails \/ FlushAndRename
  \/ Exit \/ PowerLoss \/ RenameLost \/ Mount
  \/ \E t \in Targets : Damage(t)
  \/ Repair

Spec == Init /\ [][Next]_vars

-----------------------------------------------------------------------------
\* What a load has to give back of the files: of a deleted file only its row,
\* and from the FUSE device backing no bytes.
Saved(files) ==
  [i \in DOMAIN files |->
     [files[i] EXCEPT !.data = IF files[i].live /\ caller # "device" THEN @ ELSE <<>>]]

\* Types of the variables: files are records, the cache names every segment,
\* unsynced addresses are addresses of the device.
TypeOK ==
  /\ caller \in Callers /\ {up, fixed, skipped} \subseteq BOOLEAN
  /\ DOMAIN st \subseteq Inodes /\ dirty \subseteq Inodes
  /\ \A i \in DOMAIN st : st[i].size \in Nat /\ st[i].live \in BOOLEAN
  /\ Has(cache) => DOMAIN cache.segs = ToSet(Kinds)
  /\ DOMAIN pend \subseteq DOMAIN dev
  /\ ops \in 0 .. MaxOps /\ gen \in 1 .. MaxPersists /\ faults \in 0 .. MaxFaults

\* The mount went on after a failed batch, on a cache that was not updated.
WentOn == "failed_batch" \in Avoid /\ skipped

\* After a persist returned Ok, and until the next one touches the device, the
\* image loads and gives back the files as they were, through a restart, a
\* power loss and the damage of one superblock copy.
PersistedLoads ==
  acked # None /\ ~WentOn
    => LET image == Load(dev) IN image.ok /\ Saved(image.files) = Saved(acked[2])

\* Whatever a failed persist or a power loss left on the device, an image that
\* the loader accepts holds the files of one persist and never a mixture.
AcceptedIsWhole ==
  LET image == Load(dev)
  IN  image.ok /\ hurt = None => Saved(image.files) \in {Saved(f) : f \in offered}

\* What the device image cache says of a segment is what the device holds.
CacheTrue ==
  up /\ pend = <<>> /\ ~WentOn
    => \A k \in DOMAIN cache.segs :
         Cells(dev, cache.segs[k].off, Len(cache.segs[k].pay)) = cache.segs[k].pay

Rows(files) == [i \in DOMAIN files |-> <<files[i].size, files[i].live>>]

\* repair-image can rewrite a volume that lost its directory, one superblock
\* copy or its block descriptors, and every inode comes back with its number,
\* its size and whether it is deleted.  Its bytes do not: the rewrite is built
\* without any.
RepairRecoversInodes ==
  /\ hurt # None /\ ~fixed /\ ~up => Repaired(dev, gen) # None
  /\ fixed /\ ~up /\ pend = <<>> /\ acked = None
       => LET image == Load(dev)
          IN  image.ok /\ image.copies = 2 /\ Rows(image.files) = Rows(hurt[2])

\* Healing a damaged superblock copy changes no file.
RepairKeepsBytes ==
  fixed /\ ~up /\ pend = <<>>
    => LET image == Load(dev) IN image.ok => Saved(image.files) = Saved(hurt[2])

\* A persist of a mounted volume is not refused while the device works.
NeverRefused == up => ~Refused(Built)

\* A volume whose owner is gone still loads, whatever write of a persist was torn.
SurvivesPowerLoss == ~up /\ hurt = None => Load(dev).ok
=============================================================================
