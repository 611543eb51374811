--------------------------- MODULE FileServiceProofs ---------------------------
(***************************************************************************)
(* Proofs about the file service, for every set of paths and contents,     *)
(* every quota, version budget and pipeline switch, and any sequence of    *)
(* calls, saves and loads: the maps of the catalog, the recovery service,  *)
(* the inode allocator and the block records agree, a saved service loads  *)
(* as it was, the dirty set covers every change, and no inode vanishes.    *)
(***************************************************************************)
EXTENDS FileService, WellFoundedInduction, TLAPS

-----------------------------------------------------------------------------
(* The invariant *)

\* What the callers keep out (README): names used again, rollbacks to a mixed
\* stored form, repairs that rewrite, tombstones loaded without their bytes.
Careful == {"reuse", "mixed_form", "rewrite", "loaded_tombstone"} \subseteq Avoid

Fields == {"active", "deleted", "tombs", "blocks", "next", "recycled", "versions", "nextv",
           "journal", "txn", "clean", "wal", "snaps", "nexts", "dirty"}

\* The target of a link is never compressed or encrypted.
Inode == {i \in [id : Nat, kind : {"file", "dir", "link"}, size : Nat,
                 comp : BOOLEAN, enc : BOOLEAN, mode : Nat] :
             i.kind = "link" => i.comp = FALSE /\ i.enc = FALSE}
Block == [comp : BOOLEAN, enc : BOOLEAN, data : Seq(Int)]
Replay == [act : SUBSET Paths, del : SUBSET Paths, snaps : Nat]

Entries(f) == DOMAIN f \subseteq Paths /\ f \in [DOMAIN f -> Inode]
Captures(f) == DOMAIN f \subseteq Paths /\ f \in [DOMAIN f -> [inode : Inode, data : Seq(Int)]]

\* The service record; no call leaves a transaction or a volume log open.
Typed(s) ==
    /\ DOMAIN s = Fields
    /\ Entries(s.active) /\ Entries(s.deleted)
    /\ s.tombs = s.deleted
    /\ s.blocks \in [DOMAIN s.blocks -> Block]
    /\ s.next \in Nat /\ s.recycled \in Seq(Nat)
    /\ s.journal \in Replay /\ s.txn = NoTxn /\ s.wal = NoWal
    /\ \A id \in DOMAIN s.snaps : Captures(s.snaps[id])

\* Every inode number in use has one owner: an active entry, a deleted one, or
\* the recycling list; the numbers above `next' are unused.
Owners(s) ==
    /\ \A p, q \in DOMAIN s.active : s.active[p].id = s.active[q].id => p = q
    /\ \A p, q \in DOMAIN s.deleted : s.deleted[p].id = s.deleted[q].id => p = q
    /\ \A p \in DOMAIN s.active, q \in DOMAIN s.deleted : s.active[p].id # s.deleted[q].id
    /\ \A p \in DOMAIN s.active : s.active[p].id \in 1..s.next
    /\ \A p \in DOMAIN s.deleted : s.deleted[p].id \in 1..s.next
    /\ \A k \in 1..Len(s.recycled) :
          /\ s.recycled[k] \in 1..s.next
          /\ \A p \in DOMAIN s.active : s.active[p].id # s.recycled[k]
          /\ \A p \in DOMAIN s.deleted : s.deleted[p].id # s.recycled[k]
          /\ \A j \in 1..Len(s.recycled) : s.recycled[j] = s.recycled[k] => j = k

\* The bytes b are stored in the form and with the length the inode i says.
Fits(i, b) == i.comp = b.comp /\ i.enc = b.enc /\ Len(b.data) = i.size

\* An active entry other than a directory has its bytes; those of a deleted one
\* may have been left out of the image it was loaded from.
Held(s) ==
    /\ \A p \in DOMAIN s.active :
          IF s.active[p].kind = "dir" THEN s.active[p].id \notin DOMAIN s.blocks
          ELSE s.active[p].id \in DOMAIN s.blocks /\ Fits(s.active[p], s.blocks[s.active[p].id])
    /\ \A p \in DOMAIN s.deleted :
          IF s.deleted[p].kind = "dir" THEN s.deleted[p].id \notin DOMAIN s.blocks
          ELSE /\ s.deleted[p].id \in DOMAIN s.blocks
               /\ \/ Fits(s.deleted[p], s.blocks[s.deleted[p].id])
                  \/ s.blocks[s.deleted[p].id] = Blank
    /\ DOMAIN s.blocks \subseteq EntryIds(s.active) \cup EntryIds(s.deleted)

\* The journal agrees with the two sections of the catalog.
Named(s) ==
    /\ DOMAIN s.active \cap DOMAIN s.deleted = {}
    /\ DOMAIN s.active \cap s.journal.del = {}
    /\ DOMAIN s.deleted \cap s.journal.act = {}
    /\ Journaling => DOMAIN s.deleted \subseteq s.journal.del

IsDir(s, p) == p \in DOMAIN s.active /\ s.active[p].kind = "dir"

\* Every entry lies in a directory.
Tree(s) == \A p \in DOMAIN s.active : Top(p) \/ IsDir(s, Front(p))

Sound(s) == Typed(s) /\ Owners(s) /\ Held(s) /\ Named(s) /\ Tree(s)

\* The image is what a sound service saved.
SavedSound == \E s : Sound(s) /\ img = PersistedState(s)

\* An inode of the image that is not dirty is active and has the bytes the image
\* has: no other call may have given its number to another file.
Clean(s, d) ==
    \A p \in DOMAIN d.active :
        LET id == d.active[p].id
        IN  id \in DOMAIN d.blocks =>
                \/ id \in s.dirty
                \/ /\ id \in DOMAIN s.blocks /\ s.blocks[id] = d.blocks[id]
                   /\ id \in EntryIds(s.active)

Inv == Sound(svc) /\ SavedSound /\ Clean(svc, img)

-----------------------------------------------------------------------------
(* Numbers *)

Name == UNION {ToSet(p) : p \in Paths}

Less == {p \in Nat \X Nat : p[1] < p[2]}

\* A non-empty set of numbers has a least one.
LEMMA LeastNat ==
  ASSUME NEW T \in SUBSET Nat, T # {}
  PROVE  \E x \in T : \A y \in T : x <= y
<1>1. IsWellFoundedOn(Less, Nat)
  BY NatLessThanWellFounded DEF OpToRel, Less
<1>2. PICK x \in T : \A y \in T : ~(<<y, x>> \in Less)
  BY <1>1, WFMin
<1>3. \A y \in T : ~(y < x)
  <2> SUFFICES ASSUME NEW y \in T, y < x PROVE FALSE
    OBVIOUS
  <2>1. <<y, x>> \in Less
    BY DEF Less
  <2> QED
    BY <1>2, <2>1
<1> QED
  BY <1>3

\* A set of numbers that holds 0 and, below n, the successor of each of its
\* elements, holds all numbers up to n.
LEMMA UpTo ==
  ASSUME NEW n \in Nat, NEW T, 0 \in T, \A m \in 1..n : m - 1 \in T => m \in T
  PROVE  \A m \in 0..n : m \in T
<1> DEFINE B == {m \in 0..n : m \notin T}
<1> SUFFICES ASSUME B # {} PROVE FALSE
  OBVIOUS
<1>1. B \in SUBSET Nat
  OBVIOUS
<1>2. PICK m \in B : \A y \in B : m <= y
  BY <1>1, LeastNat
<1>3. m \in 0..n /\ m \notin T /\ m # 0
  BY <1>2
<1>4. m \in 1..n /\ m - 1 \in 0..n /\ ~(m <= m - 1)
  BY <1>3
<1>5. m - 1 \in T
  BY <1>2, <1>4
<1> QED
  BY <1>3, <1>4, <1>5

\* A set of numbers with an upper bound has a greatest one.
LEMMA GreatestNat ==
  ASSUME NEW T \in SUBSET Nat, T # {}, NEW n \in Nat, \A y \in T : y <= n
  PROVE  \E x \in T : \A y \in T : x >= y
<1> DEFINE D == {d \in Nat : \E y \in T : d = n - y}
<1>1. D # {}
  <2>1. PICK y \in T : TRUE
    OBVIOUS
  <2>2. n - y \in D
    BY <2>1
  <2> QED
    BY <2>2
<1>2. PICK d \in D : \A c \in D : d <= c
  BY <1>1, LeastNat
<1>3. PICK x \in T : d = n - x
  BY <1>2
<1>4. ASSUME NEW y \in T PROVE x >= y
  <2>1. n - y \in D
    OBVIOUS
  <2>2. n - x <= n - y
    BY <1>2, <1>3, <2>1
  <2> QED
    BY <2>2
<1> QED
  BY <1>4

\* Max is the greatest number of a set.
LEMMA MaxIs ==
  ASSUME NEW T \in SUBSET Nat, T # {}, NEW n \in Nat, \A y \in T : y <= n
  PROVE  Max(T) \in T /\ \A y \in T : Max(T) >= y
<1>1. \E x \in T : \A y \in T : x >= y
  BY GreatestNat
<1> QED
  BY <1>1 DEF Max

-----------------------------------------------------------------------------
(* The fields of a service after a call *)

\* t is s with these entries, tombstones, bytes, free numbers, journal and
\* dirty set; its versions may differ.
Becomes(s, t, A, D, B, n, R, J, M) ==
    /\ DOMAIN t = Fields
    /\ t.active = A /\ t.deleted = D /\ t.tombs = D /\ t.blocks = B
    /\ t.next = n /\ t.recycled = R /\ t.journal = J /\ t.dirty = M
    /\ t.txn = s.txn /\ t.wal = s.wal /\ t.snaps = s.snaps

\* t is s but for its versions.
Same(s, t) == Becomes(s, t, s.active, s.deleted, s.blocks, s.next, s.recycled, s.journal, s.dirty)

\* store_version and the pruning change the versions only.
LEMMA StoreVersionIs ==
  ASSUME NEW s, Typed(s), NEW p, NEW data
  PROVE  Same(s, StoreVersion(s, p, data))
<1>1. DOMAIN s = Fields /\ s.tombs = s.deleted
  BY DEF Typed
<1>2. ASSUME NEW n, NEW v PROVE Same(s, [s EXCEPT !.nextv = n, !.versions = v])
  BY <1>1 DEF Same, Becomes, Fields
<1>3. CASE KeepLatest = 0
  BY <1>1, <1>3 DEF StoreVersion, Same, Becomes
<1>4. CASE KeepLatest # 0
  <2>1. ASSUME NEW t, Same(s, t) PROVE Same(s, PruneToBudget(t))
    BY <2>1 DEF PruneToBudget, Same, Becomes, Fields
  <2>2. ASSUME NEW n, NEW k PROVE Same(s, [s EXCEPT !.nextv = n, !.versions[p] = k])
    BY <1>1 DEF Same, Becomes, Fields
  <2> QED
    BY <1>4, <2>1, <2>2 DEF StoreVersion
<1> QED
  BY <1>3, <1>4

\* The journal after an entry of the given kind.
Replayed(J, op, p) ==
    [act |-> IF op = "active" THEN J.act \cup {p} ELSE IF op \in {"delete", "secure"} THEN J.act \ {p} ELSE J.act,
     del |-> IF op \in {"active", "secure"} THEN J.del \ {p} ELSE IF op = "delete" THEN J.del \cup {p} ELSE J.del,
     snaps |-> IF op = "snapshot" THEN J.snaps + 1 ELSE J.snaps]

\* JournalService::record outside a transaction.
LEMMA RecordIs ==
  ASSUME NEW s, DOMAIN s = Fields, s.txn = NoTxn, s.journal \in Replay, s.tombs = s.deleted,
         NEW p, NEW op \in {"active", "delete", "secure", "snapshot"}
  PROVE  Becomes(s, Record(s, op, p), s.active, s.deleted, s.blocks, s.next, s.recycled,
                 Replayed(s.journal, op, p), s.dirty)
<1>1. ReplayEntry(s.journal, [op |-> op, path |-> p]) = Replayed(s.journal, op, p)
  BY DEF ReplayEntry, Replayed, Replay
<1>2. Record(s, op, p) = [s EXCEPT !.journal = ReplayEntry(@, [op |-> op, path |-> p])]
  BY DEF Record
<1> QED
  BY <1>1, <1>2 DEF Becomes, Fields

-----------------------------------------------------------------------------
(* The inode allocator *)

\* g is s with the number id taken out of the allocator.
Granted(s, g, id) ==
    /\ Sound(s)
    /\ Becomes(s, g, s.active, s.deleted, s.blocks, g.next, g.recycled, s.journal, s.dirty)
    /\ g.next \in Nat /\ s.next <= g.next /\ g.recycled \in Seq(Nat)
    /\ id \in 1..g.next
    /\ \A p \in DOMAIN s.active : s.active[p].id # id
    /\ \A p \in DOMAIN s.deleted : s.deleted[p].id # id
    /\ \A k \in 1..Len(g.recycled) :
          /\ g.recycled[k] \in 1..g.next /\ g.recycled[k] # id
          /\ \A p \in DOMAIN s.active : s.active[p].id # g.recycled[k]
          /\ \A p \in DOMAIN s.deleted : s.deleted[p].id # g.recycled[k]
          /\ \A j \in 1..Len(g.recycled) : g.recycled[j] = g.recycled[k] => j = k

\* What Allocate gives: a number no entry has, from the recycling list or above `next'.
LEMMA AllocateIs ==
  ASSUME NEW s, Sound(s)
  PROVE  Granted(s, Allocate(s).s, Allocate(s).id)
<1> DEFINE R == s.recycled
<1>1. DOMAIN s = Fields /\ R \in Seq(Nat) /\ s.next \in Nat /\ s.tombs = s.deleted
  BY DEF Sound, Typed
<1>2. CASE R # <<>>
  <2>1. Allocate(s).id = Head(R) /\ Allocate(s).s = [s EXCEPT !.recycled = Tail(R)]
    BY <1>2 DEF Allocate
  <2>2. Becomes(s, Allocate(s).s, s.active, s.deleted, s.blocks, s.next, Tail(R), s.journal, s.dirty)
    BY <1>1, <2>1 DEF Becomes, Fields
  <2>3. /\ Head(R) = R[1] /\ Tail(R) \in Seq(Nat) /\ Len(Tail(R)) = Len(R) - 1 /\ Len(R) \in Nat /\ Len(R) > 0
        /\ \A k \in 1..Len(Tail(R)) : Tail(R)[k] = R[k + 1]
    BY <1>1, <1>2
  <2>4. ASSUME NEW k \in 1..Len(Tail(R))
        PROVE  /\ k + 1 \in 1..Len(R) /\ 1 \in 1..Len(R) /\ Tail(R)[k] = R[k + 1]
               /\ \A j \in 1..Len(Tail(R)) : j + 1 \in 1..Len(R) /\ Tail(R)[j] = R[j + 1]
    BY <2>3
  <2>5. ASSUME NEW k \in 1..Len(Tail(R))
        PROVE  /\ Tail(R)[k] \in 1..s.next /\ Tail(R)[k] # Head(R)
               /\ \A p \in DOMAIN s.active : s.active[p].id # Tail(R)[k]
               /\ \A p \in DOMAIN s.deleted : s.deleted[p].id # Tail(R)[k]
               /\ \A j \in 1..Len(Tail(R)) : Tail(R)[j] = Tail(R)[k] => j = k
    <3>1. /\ k + 1 \in 1..Len(R) /\ 1 \in 1..Len(R) /\ Tail(R)[k] = R[k + 1]
          /\ \A j \in 1..Len(Tail(R)) : j + 1 \in 1..Len(R) /\ Tail(R)[j] = R[j + 1]
      BY <2>4
    <3>2. k + 1 # 1 /\ \A j \in 1..Len(Tail(R)) : j + 1 = k + 1 => j = k
      BY <2>3
    <3> QED
      BY <2>3, <3>1, <3>2 DEF Sound, Owners
  <2>6. /\ R[1] \in 1..s.next
        /\ \A p \in DOMAIN s.active : s.active[p].id # R[1]
        /\ \A p \in DOMAIN s.deleted : s.deleted[p].id # R[1]
    <3>1. 1 \in 1..Len(R)
      BY <2>3
    <3> QED
      BY <3>1 DEF Sound, Owners
  <2>7. Allocate(s).s.next = s.next /\ Allocate(s).s.recycled = Tail(R)
    BY <2>2 DEF Becomes
  <2> HIDE DEF R
  <2> QED
    BY <1>1, <2>1, <2>2, <2>3, <2>5, <2>6, <2>7 DEF Granted
<1>3. CASE R = <<>>
  <2>1. Allocate(s).id = s.next + 1 /\ Allocate(s).s = [s EXCEPT !.next = s.next + 1]
    BY <1>3 DEF Allocate
  <2>2. Becomes(s, Allocate(s).s, s.active, s.deleted, s.blocks, s.next + 1, R, s.journal, s.dirty)
    BY <1>1, <2>1 DEF Becomes, Fields
  <2>3. Len(R) = 0
    BY <1>3
  <2>4. \A i \in 1..s.next : i # s.next + 1
    BY <1>1
  <2>5. /\ \A p \in DOMAIN s.active : s.active[p].id # s.next + 1
        /\ \A p \in DOMAIN s.deleted : s.deleted[p].id # s.next + 1
    BY <2>4 DEF Sound, Owners
  <2>6. Allocate(s).s.next = s.next + 1 /\ Allocate(s).s.recycled = R
    BY <2>2 DEF Becomes
  <2>7. 1..0 = {} /\ s.next + 1 \in 1..s.next + 1 /\ s.next <= s.next + 1 /\ s.next + 1 \in Nat
    BY <1>1
  <2> QED
    BY <1>1, <2>1, <2>2, <2>3, <2>5, <2>6, <2>7 DEF Granted
<1> QED
  BY <1>2, <1>3

\* Taking the same number again by its value changes nothing.
LEMMA SpecificIs ==
  ASSUME NEW s, NEW g, NEW id, Granted(s, g, id)
  PROVE  /\ AllocateSpecific(g, id).next = g.next /\ AllocateSpecific(g, id).recycled = g.recycled
         /\ Granted(s, AllocateSpecific(g, id), id)
         /\ Same(g, AllocateSpecific(g, id))
<1> DEFINE t == AllocateSpecific(g, id)
<1>1. /\ DOMAIN g = Fields /\ g.tombs = g.deleted
      /\ \A k \in 1..Len(g.recycled) : g.recycled[k] # id
      /\ ~(id > g.next)
  BY DEF Granted, Becomes
<1>2. RemoveFirst(g.recycled, id) = g.recycled
  BY <1>1 DEF RemoveFirst
<1>3. t = [g EXCEPT !.recycled = g.recycled, !.next = g.next]
  BY <1>1, <1>2 DEF AllocateSpecific
<1>4. Same(g, t)
  BY <1>1, <1>3 DEF Same, Becomes, Fields
<1>5. Granted(s, t, id)
  BY <1>4 DEF Granted, Same, Becomes
<1> QED
  BY <1>4, <1>5 DEF Same, Becomes

\* A service that lost a number is sound.
LEMMA GrantedSound ==
  ASSUME NEW s, NEW g, NEW id, Granted(s, g, id)
  PROVE  Sound(g)
<1>1. Typed(g)
  BY DEF Granted, Becomes, Sound, Typed
<1>2. Owners(g)
  <2>1. \A i \in 1..s.next : i \in 1..g.next
    BY DEF Granted, Sound, Typed
  <2> QED
    BY <2>1 DEF Granted, Becomes, Sound, Owners
<1>3. Held(g)
  BY DEF Granted, Becomes, Sound, Held
<1>4. Named(g)
  BY DEF Granted, Becomes, Sound, Named
<1>5. Tree(g)
  BY DEF Granted, Becomes, Sound, Tree, IsDir
<1> QED
  BY <1>1, <1>2, <1>3, <1>4, <1>5 DEF Sound

-----------------------------------------------------------------------------
(* What a call may do to the inodes *)

\* Every inode number of s is still owned by an entry or a tombstone of t.
Kept(s, t) ==
    EntryIds(s.active) \cup EntryIds(s.deleted) \subseteq EntryIds(t.active) \cup EntryIds(t.deleted)

\* An active inode of s is dirty in t, or active with the bytes it had.
Marked(s, t) ==
    /\ s.dirty \subseteq t.dirty
    /\ \A id \in EntryIds(s.active) \cap DOMAIN s.blocks :
          \/ id \in t.dirty
          \/ id \in DOMAIN t.blocks /\ t.blocks[id] = s.blocks[id] /\ id \in EntryIds(t.active)

\* The effects on the inodes add up.
LEMMA KeptTwice ==
  ASSUME NEW s, NEW t, NEW u, Kept(s, t), Kept(t, u)
  PROVE  Kept(s, u)
  BY DEF Kept

\* The same for the dirty set.
LEMMA MarkedTwice ==
  ASSUME NEW s, NEW t, NEW u, Marked(s, t), Marked(t, u)
  PROVE  Marked(s, u)
  BY DEF Marked

\* A call that leaves the entries and their bytes alone.
LEMMA SameEntries ==
  ASSUME NEW s, NEW t, t.active = s.active, t.deleted = s.deleted, t.blocks = s.blocks, s.dirty \subseteq t.dirty
  PROVE  Kept(s, t) /\ Marked(s, t)
  BY DEF Kept, Marked

\* What was clean stays clean.
LEMMA CleanStays ==
  ASSUME NEW s, NEW t, NEW d, Clean(s, d), Marked(s, t)
  PROVE  Clean(t, d)
  BY DEF Clean, Marked

\* B is the block records of s with bytes for a new inode, unless it is a directory.
WithBytes(s, i, B) ==
    \/ i.kind = "dir" /\ B = s.blocks
    \/ i.kind # "dir" /\ \E b \in Block : B = Put(s.blocks, i.id, b) /\ Fits(i, b)

\* A new entry under a free name with a number just taken.
LEMMA AddEntry ==
  ASSUME NEW s, NEW g, NEW id, Granted(s, g, id),
         NEW p \in Paths, p \notin DOMAIN s.active, p \notin DOMAIN s.deleted, p \notin s.journal.del,
         Top(p) \/ IsDir(s, Front(p)),
         NEW i \in Inode, i.id = id, NEW B, NEW J, NEW M, s.dirty \subseteq M,
         WithBytes(s, i, B),
         J \in {s.journal, Replayed(s.journal, "active", p)},
         NEW t, Becomes(s, t, Put(s.active, p, i), s.deleted, B, g.next, g.recycled, J, M)
  PROVE  Sound(t) /\ Kept(s, t) /\ Marked(s, t)
<1>1. /\ Entries(s.active) /\ Entries(s.deleted) /\ s.blocks \in [DOMAIN s.blocks -> Block]
      /\ s.journal \in Replay /\ s.txn = NoTxn /\ s.wal = NoWal
      /\ \A k \in DOMAIN s.snaps : Captures(s.snaps[k])
  BY DEF Granted, Sound, Typed
<1>2. /\ DOMAIN t.active = DOMAIN s.active \cup {p}
      /\ t.active \in [DOMAIN t.active -> Inode]
      /\ t.active[p] = i
      /\ \A x \in DOMAIN s.active : x # p /\ t.active[x] = s.active[x]
  <2>1. s.active \in [DOMAIN s.active -> Inode]
    BY <1>1 DEF Entries
  <2>2. t.active = Put(s.active, p, i)
    BY DEF Becomes
  <2> QED
    BY <2>1, <2>2 DEF Put
<1>3. /\ DOMAIN t = Fields /\ t.deleted = s.deleted /\ t.tombs = s.deleted /\ t.blocks = B
      /\ t.next = g.next /\ t.recycled = g.recycled /\ t.journal = J /\ t.dirty = M
      /\ t.txn = s.txn /\ t.wal = s.wal /\ t.snaps = s.snaps
  BY DEF Becomes
<1>4. id \notin DOMAIN s.blocks
  BY DEF Granted, Sound, Held, EntryIds
<1>5. /\ B \in [DOMAIN B -> Block]
      /\ \A k \in DOMAIN s.blocks : k \in DOMAIN B /\ B[k] = s.blocks[k] /\ k # id
      /\ DOMAIN B \subseteq DOMAIN s.blocks \cup {id}
      /\ IF i.kind = "dir" THEN id \notin DOMAIN B ELSE id \in DOMAIN B /\ Fits(i, B[id])
  <2>1. CASE i.kind = "dir" /\ B = s.blocks
    BY <1>1, <1>4, <2>1
  <2>2. CASE i.kind # "dir" /\ \E b \in Block : B = Put(s.blocks, i.id, b) /\ Fits(i, b)
    <3>1. PICK b \in Block : B = Put(s.blocks, id, b) /\ Fits(i, b)
      BY <2>2
    <3>2. /\ DOMAIN B = DOMAIN s.blocks \cup {id} /\ B \in [DOMAIN B -> Block]
          /\ B[id] = b /\ \A k \in DOMAIN s.blocks : k # id => B[k] = s.blocks[k]
      BY <1>1, <3>1 DEF Put
    <3> QED
      BY <1>4, <2>2, <3>1, <3>2
  <2> QED
    BY <2>1, <2>2 DEF WithBytes
<1>6. J \in Replay /\ p \notin J.del /\ J.del \subseteq s.journal.del
      /\ J.act \subseteq s.journal.act \cup {p} /\ (s.journal.del \subseteq J.del \cup {p})
  BY <1>1 DEF Replay, Replayed
<1>7. Typed(t)
  <2>1. g.next \in Nat /\ g.recycled \in Seq(Nat)
    BY DEF Granted
  <2>2. DOMAIN t.active \subseteq Paths
    BY <1>1, <1>2 DEF Entries
  <2> QED
    BY <1>1, <1>2, <1>3, <1>5, <1>6, <2>1, <2>2 DEF Typed, Entries
<1>8. Owners(t)
  <2>1. ASSUME NEW x \in DOMAIN t.active
        PROVE  t.active[x].id \in 1..t.next /\ \A y \in DOMAIN t.active : t.active[x].id = t.active[y].id => x = y
    <3>1. \A k \in 1..s.next : k \in 1..g.next
      BY DEF Granted, Sound, Typed
    <3>2. /\ \A y \in DOMAIN s.active : s.active[y].id # id /\ s.active[y].id \in 1..s.next
          /\ \A y, z \in DOMAIN s.active : s.active[y].id = s.active[z].id => y = z
          /\ id \in 1..g.next
      BY DEF Granted, Sound, Owners
    <3>3. CASE x = p
      BY <1>2, <1>3, <3>2, <3>3
    <3>4. CASE x # p
      BY <1>2, <1>3, <3>1, <3>2, <3>4
    <3> QED
      BY <3>3, <3>4
  <2>2. ASSUME NEW x \in DOMAIN t.deleted
        PROVE  /\ t.deleted[x].id \in 1..t.next
               /\ \A y \in DOMAIN t.deleted : t.deleted[x].id = t.deleted[y].id => x = y
               /\ \A y \in DOMAIN t.active : t.active[y].id # t.deleted[x].id
    <3>1. \A k \in 1..s.next : k \in 1..g.next
      BY DEF Granted, Sound, Typed
    <3> QED
      BY <1>2, <1>3, <3>1 DEF Granted, Sound, Owners
  <2>3. ASSUME NEW k \in 1..Len(t.recycled)
        PROVE  /\ t.recycled[k] \in 1..t.next
               /\ \A x \in DOMAIN t.active : t.active[x].id # t.recycled[k]
               /\ \A x \in DOMAIN t.deleted : t.deleted[x].id # t.recycled[k]
               /\ \A j \in 1..Len(t.recycled) : t.recycled[j] = t.recycled[k] => j = k
    BY <1>2, <1>3 DEF Granted
  <2> QED
    BY <2>1, <2>2, <2>3 DEF Owners
<1>9. Held(t)
  <2>1. \A x \in DOMAIN t.active :
           IF t.active[x].kind = "dir" THEN t.active[x].id \notin DOMAIN t.blocks
           ELSE t.active[x].id \in DOMAIN t.blocks /\ Fits(t.active[x], t.blocks[t.active[x].id])
    BY <1>2, <1>3, <1>5 DEF Granted, Sound, Held
  <2>2. \A x \in DOMAIN t.deleted :
           IF t.deleted[x].kind = "dir" THEN t.deleted[x].id \notin DOMAIN t.blocks
           ELSE /\ t.deleted[x].id \in DOMAIN t.blocks
                /\ \/ Fits(t.deleted[x], t.blocks[t.deleted[x].id])
                   \/ t.blocks[t.deleted[x].id] = Blank
    BY <1>3, <1>5 DEF Granted, Sound, Held
  <2>3. DOMAIN t.blocks \subseteq EntryIds(t.active) \cup EntryIds(t.deleted)
    BY <1>2, <1>3, <1>5 DEF Granted, Sound, Held, EntryIds
  <2> QED
    BY <2>1, <2>2, <2>3 DEF Held
<1>10. Named(t)
  BY <1>2, <1>3, <1>6 DEF Named, Granted, Sound
<1>11. Tree(t)
  BY <1>2 DEF Granted, Sound, Tree, IsDir
<1>12. Kept(s, t) /\ Marked(s, t)
  BY <1>2, <1>3, <1>5 DEF Kept, Marked, EntryIds
<1> QED
  BY <1>7, <1>8, <1>9, <1>10, <1>11, <1>12 DEF Sound

-----------------------------------------------------------------------------
(* New entries *)

\* A name a caller may give to an entry: unspent, in an existing directory.
Nameable(s, p) ==
    /\ p \in Paths /\ p \notin DOMAIN s.deleted /\ p \notin s.journal.del
    /\ Top(p) \/ IsDir(s, Front(p))

\* t has the entries of s, of the same kinds, and no name less to give.
Grows(s, t) ==
    /\ t.deleted = s.deleted /\ t.snaps = s.snaps /\ t.journal.del \subseteq s.journal.del
    /\ \A x \in DOMAIN s.active : x \in DOMAIN t.active /\ t.active[x].kind = s.active[x].kind

\* A call that returned an error left the entries and their bytes alone.
FailsSafe(s, r) ==
    ~r.ok => r.s.active = s.active /\ r.s.deleted = s.deleted /\ r.s.blocks = s.blocks

Effect(s, r) == Sound(r.s) /\ Kept(s, r.s) /\ Marked(s, r.s) /\ FailsSafe(s, r)

\* The call failed and changed nothing.
LEMMA FailIs ==
  ASSUME NEW s, Sound(s)
  PROVE  Effect(s, Fail(s)) /\ Grows(s, Fail(s).s)
  BY SameEntries DEF Fail, Effect, FailsSafe, Grows

\* The call failed after it had taken a number.
LEMMA FailGranted ==
  ASSUME NEW s, NEW g, NEW id, Granted(s, g, id)
  PROVE  Effect(s, Fail(g)) /\ Grows(s, Fail(g).s)
<1>1. Sound(g)
  BY GrantedSound
<1>2. /\ g.active = s.active /\ g.deleted = s.deleted /\ g.blocks = s.blocks /\ g.dirty = s.dirty
      /\ g.journal = s.journal /\ g.snaps = s.snaps
  BY DEF Granted, Becomes
<1> QED
  BY <1>1, <1>2, SameEntries DEF Fail, Effect, FailsSafe, Grows

\* The stored form of plain bytes.
LEMMA StoredIs ==
  ASSUME NEW data \in Seq(Int)
  PROVE  Stored(data) \in Block /\ Stored(data).data = data
  BY Switches DEF Stored, Block

\* Bytes stored as they are.
LEMMA PlainIs ==
  ASSUME NEW data \in Seq(Int)
  PROVE  Plain(data) \in Block
  BY DEF Plain, Block

\* A new inode describes the bytes that are stored for it.
LEMMA NewInodeIs ==
  ASSUME NEW id \in Nat, NEW kind \in {"file", "dir", "link"}, NEW data \in Seq(Int)
  PROVE  /\ NewInode(id, kind, data) \in Inode
         /\ NewInode(id, kind, data).id = id /\ NewInode(id, kind, data).kind = kind
         /\ kind = "file" => Fits(NewInode(id, kind, data), Stored(data))
         /\ kind = "link" => Fits(NewInode(id, kind, data), Plain(data))
<1>1. Stored(data).comp \in BOOLEAN /\ Stored(data).enc \in BOOLEAN /\ Len(data) \in Nat
  BY StoredIs DEF Block
<1>2. NewInode(id, kind, data) \in Inode
  BY <1>1 DEF NewInode, Inode
<1>3. kind = "file" => Fits(NewInode(id, kind, data), Stored(data))
  BY <1>1, StoredIs DEF NewInode, Fits
<1>4. kind = "link" => Fits(NewInode(id, kind, data), Plain(data))
  BY DEF NewInode, Fits, Plain
<1> QED
  BY <1>2, <1>3, <1>4 DEF NewInode

\* t is s with the entry p more.
Gains(s, t, p, i) ==
    /\ Effect(s, Done(t)) /\ Grows(s, t)
    /\ DOMAIN t.active = DOMAIN s.active \cup {p} /\ t.active[p] = i

\* A new entry with a number just taken, and its record in the journal.
LEMMA NewEntryIs ==
  ASSUME NEW s, NEW g, NEW id, Granted(s, g, id), NEW p, Nameable(s, p), p \notin DOMAIN s.active,
         NEW i \in Inode, i.id = id, NEW B, NEW M, s.dirty \subseteq M,
         WithBytes(s, i, B),
         NEW w, Becomes(s, w, Put(s.active, p, i), s.deleted, B, g.next, g.recycled, s.journal, M),
         NEW t \in {w, Record(w, "active", p)}
  PROVE  Gains(s, t, p, i)
<1>1. PICK J \in {s.journal, Replayed(s.journal, "active", p)} :
         Becomes(s, t, Put(s.active, p, i), s.deleted, B, g.next, g.recycled, J, M)
  <2>1. DOMAIN w = Fields /\ w.txn = NoTxn /\ w.journal \in Replay /\ w.tombs = w.deleted
    BY DEF Becomes, Granted, Sound, Typed
  <2>2. Becomes(w, Record(w, "active", p), w.active, w.deleted, w.blocks, w.next, w.recycled,
                Replayed(w.journal, "active", p), w.dirty)
    BY <2>1, RecordIs
  <2> QED
    BY <2>2 DEF Becomes
<1>2. Sound(t) /\ Kept(s, t) /\ Marked(s, t)
  BY <1>1, AddEntry DEF Nameable
<1>3. /\ t.active = Put(s.active, p, i) /\ t.deleted = s.deleted /\ t.snaps = s.snaps
      /\ t.journal.del \subseteq s.journal.del
  BY <1>1 DEF Becomes, Replayed
<1>4. Grows(s, t) /\ DOMAIN t.active = DOMAIN s.active \cup {p} /\ t.active[p] = i
  BY <1>3 DEF Put, Grows
<1> QED
  BY <1>2, <1>4 DEF Gains, Effect, FailsSafe, Done

\* create_file_with_inode, with a number just taken.
LEMMA CreateFileWithInodeIs ==
  ASSUME NEW s, NEW g, NEW id, Granted(s, g, id), NEW p, Nameable(s, p), NEW data \in Seq(Int)
  PROVE  LET r == CreateFileWithInode(g, p, data, id)
         IN  /\ Effect(s, r) /\ Grows(s, r.s)
             /\ r.ok => Gains(s, r.s, p, NewInode(id, "file", data))
<1> DEFINE r == CreateFileWithInode(g, p, data, id)
<1>1. g.active = s.active /\ Typed(s) /\ id \in Nat
  BY DEF Granted, Becomes, Sound, Typed
<1>2. CASE Has(g, p) \/ ~QuotaOk(g, 1, Len(data))
  <2>1. r = Fail(g)
    BY <1>2 DEF CreateFileWithInode
  <2> QED
    BY <2>1, FailGranted DEF Fail
<1>3. CASE ~(Has(g, p) \/ ~QuotaOk(g, 1, Len(data)))
  <2> DEFINE a == AllocateSpecific(g, id)
  <2> DEFINE v == StoreVersion(a, p, data)
  <2> DEFINE i == NewInode(id, "file", data)
  <2> DEFINE w == [v EXCEPT !.blocks = Put(@, id, Stored(data)), !.active = Put(@, p, i), !.dirty = @ \cup {id}]
  <2>1. r = Done(Record(w, "active", p))
    BY <1>3 DEF CreateFileWithInode
  <2>2. Granted(s, a, id) /\ Same(g, a)
    BY SpecificIs
  <2>3. Same(a, v)
    BY <2>2, GrantedSound, StoreVersionIs DEF Sound
  <2> HIDE DEF v, a
  <2>4. Becomes(s, v, s.active, s.deleted, s.blocks, g.next, g.recycled, s.journal, s.dirty)
    BY <2>2, <2>3 DEF Same, Becomes, Granted, Sound, Typed
  <2> HIDE DEF i
  <2>5. Becomes(s, w, Put(s.active, p, i), s.deleted, Put(s.blocks, id, Stored(data)), g.next, g.recycled,
                s.journal, s.dirty \cup {id})
    BY <2>4 DEF Becomes, Fields
  <2>6. /\ i \in Inode /\ i.id = id /\ p \notin DOMAIN s.active
        /\ i.kind # "dir" /\ Stored(data) \in Block /\ Fits(i, Stored(data))
    BY <1>1, <1>3, NewInodeIs, StoredIs DEF i, Has
  <2>7. WithBytes(s, i, Put(s.blocks, id, Stored(data))) /\ s.dirty \subseteq s.dirty \cup {id}
    BY <2>6 DEF WithBytes
  <2> DEFINE t == Record(w, "active", p)
  <2> HIDE DEF w
  <2>8. t \in {w, Record(w, "active", p)}
    OBVIOUS
  <2> HIDE DEF t
  <2>9. Gains(s, t, p, i)
    BY <2>5, <2>6, <2>7, <2>8, NewEntryIs
  <2> QED
    BY <2>1, <2>9 DEF Gains, Done, i, t
<1> QED
  BY <1>2, <1>3

\* What a call that makes the entry p of the given kind does.
Makes(s, r, p, kind) ==
    /\ Effect(s, r) /\ Grows(s, r.s)
    /\ r.ok => DOMAIN r.s.active = DOMAIN s.active \cup {p} /\ r.s.active[p].kind = kind

\* A file is made under a free name, or nothing is.
LEMMA CreateFileIs ==
  ASSUME NEW s, Sound(s), NEW p, Nameable(s, p), NEW data \in Seq(Int)
  PROVE  /\ Makes(s, CreateFile(s, p, data), p, "file")
         /\ CreateFile(s, p, data).ok =>
              \E id : CreateFile(s, p, data).s.active[p] = NewInode(id, "file", data)
<1>1. Granted(s, Allocate(s).s, Allocate(s).id)
  BY AllocateIs
<1>2. CreateFile(s, p, data) = CreateFileWithInode(Allocate(s).s, p, data, Allocate(s).id)
  BY DEF CreateFile
<1> DEFINE g == Allocate(s).s
           id == Allocate(s).id
           r == CreateFileWithInode(g, p, data, id)
<1> HIDE DEF g, id
<1>3. /\ Effect(s, r) /\ Grows(s, r.s)
      /\ r.ok => Gains(s, r.s, p, NewInode(id, "file", data))
  BY <1>1, CreateFileWithInodeIs DEF g, id
<1>4. NewInode(id, "file", data).kind = "file"
  BY DEF NewInode
<1> QED
  BY <1>2, <1>3, <1>4 DEF Makes, Gains, g, id

\* A directory is made exactly when the name is free.
LEMMA CreateDirectoryIs ==
  ASSUME NEW s, Sound(s), NEW p, Nameable(s, p)
  PROVE  /\ Makes(s, CreateDirectory(s, p), p, "dir")
         /\ CreateDirectory(s, p).ok <=> p \notin DOMAIN s.active
<1> DEFINE g == Allocate(s).s
           id == Allocate(s).id
           i == NewInode(id, "dir", <<>>)
           a == AllocateSpecific(g, id)
           w == [a EXCEPT !.active = Put(@, p, i)]
<1>1. Granted(s, g, id)
  BY AllocateIs
<1> HIDE DEF g, id
<1>2. CreateDirectory(s, p) = CreateDirectoryWithInode(g, p, id)
  BY DEF CreateDirectory, g, id
<1>3. g.active = s.active /\ id \in Nat
  BY <1>1 DEF Granted, Becomes
<1>4. CASE p \in DOMAIN s.active
  <2>1. CreateDirectory(s, p) = Fail(g)
    BY <1>2, <1>3, <1>4 DEF CreateDirectoryWithInode, Has
  <2> QED
    BY <1>1, <1>4, <2>1, FailGranted DEF Makes, Fail
<1>5. CASE p \notin DOMAIN s.active
  <2>1. CreateDirectory(s, p) = Done(Record(w, "active", p))
    BY <1>2, <1>3, <1>5 DEF CreateDirectoryWithInode, Has
  <2>2. Granted(s, a, id) /\ a.next = g.next /\ a.recycled = g.recycled
    BY <1>1, SpecificIs
  <2> HIDE DEF a
  <2>3. \A data \in Seq(Int) : NewInode(id, "dir", data) \in Inode
    BY <1>3, NewInodeIs
  <2>4. i \in Inode /\ i.id = id /\ i.kind = "dir" /\ WithBytes(s, i, s.blocks)
    <3>1. <<>> \in Seq(Int)
      OBVIOUS
    <3>2. i \in Inode
      BY <2>3, <3>1, Zenon
    <3>3. i.id = id /\ i.kind = "dir"
      BY DEF NewInode
    <3> QED
      BY <3>2, <3>3 DEF WithBytes
  <2> HIDE DEF i
  <2>5. Becomes(s, w, Put(s.active, p, i), s.deleted, s.blocks, a.next, a.recycled, s.journal, s.dirty)
    BY <2>2 DEF Granted, Becomes, Fields
  <2> DEFINE t == Record(w, "active", p)
  <2> HIDE DEF w
  <2>6. t \in {w, Record(w, "active", p)} /\ s.dirty \subseteq s.dirty
    OBVIOUS
  <2> HIDE DEF t
  <2>7. Gains(s, t, p, i)
    BY <1>5, <2>2, <2>4, <2>5, <2>6, NewEntryIs
  <2> QED
    BY <1>5, <2>1, <2>4, <2>7 DEF Makes, Gains, Done, t
<1> QED
  BY <1>4, <1>5

\* A link is made exactly when the name is free.
LEMMA CreateSymlinkIs ==
  ASSUME NEW s, Sound(s), NEW p, Nameable(s, p), NEW target \in Seq(Int)
  PROVE  /\ Makes(s, CreateSymlink(s, p, target), p, "link")
         /\ CreateSymlink(s, p, target).ok <=> p \notin DOMAIN s.active
<1>1. CASE p \in DOMAIN s.active
  BY <1>1, FailIs DEF CreateSymlink, Has, Fail, Makes
<1>2. CASE p \notin DOMAIN s.active
  <2> DEFINE g == Allocate(s).s
             id == Allocate(s).id
             i == NewInode(id, "link", target)
             w == [g EXCEPT !.blocks = Put(@, id, Plain(target)), !.active = Put(@, p, i),
                            !.dirty = @ \cup {id}]
  <2>1. Granted(s, g, id)
    BY AllocateIs
  <2>2. CreateSymlink(s, p, target) = Done(Record(w, "active", p))
    BY <1>2 DEF CreateSymlink, Has, Plain
  <2> HIDE DEF g, id
  <2>3. id \in Nat
    BY <2>1 DEF Granted
  <2>4. /\ i \in Inode /\ i.id = id /\ i.kind = "link"
        /\ Fits(i, Plain(target)) /\ Plain(target) \in Block
    BY <2>3, NewInodeIs, PlainIs
  <2> HIDE DEF i
  <2>5. Becomes(s, w, Put(s.active, p, i), s.deleted, Put(s.blocks, id, Plain(target)), g.next, g.recycled,
                s.journal, s.dirty \cup {id})
    BY <2>1 DEF Granted, Becomes, Fields
  <2>6. WithBytes(s, i, Put(s.blocks, id, Plain(target))) /\ s.dirty \subseteq s.dirty \cup {id}
    BY <2>4 DEF WithBytes
  <2> DEFINE t == Record(w, "active", p)
  <2> HIDE DEF w
  <2>7. t \in {w, Record(w, "active", p)}
    OBVIOUS
  <2> HIDE DEF t
  <2>8. Gains(s, t, p, i)
    BY <1>2, <2>1, <2>4, <2>5, <2>6, <2>7, NewEntryIs
  <2> QED
    BY <1>2, <2>2, <2>4, <2>8 DEF Makes, Gains, Done, t
<1> QED
  BY <1>1, <1>2

\* read_file gives the bytes of every entry but a directory.
LEMMA ReadFileIs ==
  ASSUME NEW s, Sound(s), NEW p \in DOMAIN s.active
  PROVE  /\ p \in Paths /\ s.active[p] \in Inode
         /\ s.active[p].kind # "dir" =>
              /\ s.active[p].id \in DOMAIN s.blocks /\ s.blocks[s.active[p].id] \in Block
              /\ Fits(s.active[p], s.blocks[s.active[p].id])
              /\ ReadFile(s, p) = [ok |-> TRUE, data |-> s.blocks[s.active[p].id].data]
         /\ s.active[p].kind = "dir" => ReadFile(s, p) = [ok |-> FALSE, data |-> <<>>]
         /\ ReadFile(s, p).data \in Seq(Int)
<1>1. p \in Paths /\ s.active[p] \in Inode /\ s.blocks \in [DOMAIN s.blocks -> Block]
  BY DEF Sound, Typed, Entries
<1>2. CASE s.active[p].kind = "dir"
  <2>1. s.active[p].id \notin DOMAIN s.blocks
    BY <1>2 DEF Sound, Held
  <2>2. ReadFile(s, p) = [ok |-> FALSE, data |-> <<>>]
    BY <2>1 DEF ReadFile
  <2>3. ReadFile(s, p).data = <<>> /\ <<>> \in Seq(Int)
    BY <2>2
  <2> QED
    BY <1>1, <1>2, <2>2, <2>3
<1>3. CASE s.active[p].kind # "dir"
  <2>1. /\ s.active[p].id \in DOMAIN s.blocks /\ s.blocks[s.active[p].id] \in Block
        /\ Fits(s.active[p], s.blocks[s.active[p].id])
    BY <1>1, <1>3 DEF Sound, Held
  <2>2. ReadFile(s, p) = [ok |-> TRUE, data |-> s.blocks[s.active[p].id].data]
    BY <2>1 DEF ReadFile, Has, Fits
  <2>3. s.blocks[s.active[p].id].data \in Seq(Int)
    BY <2>1 DEF Block
  <2> QED
    BY <1>1, <1>3, <2>1, <2>2, <2>3
<1> QED
  BY <1>2, <1>3

\* A clone is a new file with bytes of its own.
LEMMA CloneFileIs ==
  ASSUME NEW s, Sound(s), NEW from, NEW p, Nameable(s, p)
  PROVE  Makes(s, CloneFile(s, from, p), p, "file")
<1>1. CASE KindOf(s, from) # "file" \/ Has(s, p)
  <2>1. CloneFile(s, from, p) = Fail(s)
    BY <1>1 DEF CloneFile
  <2> QED
    BY <2>1, FailIs DEF Makes, Fail
<1>2. CASE ~(KindOf(s, from) # "file" \/ Has(s, p))
  <2> DEFINE src == s.active[from]
  <2>1. from \in DOMAIN s.active /\ src.kind = "file" /\ p \notin DOMAIN s.active
    BY <1>2 DEF KindOf, Has
  <2>2. /\ src \in Inode /\ src.id \in DOMAIN s.blocks /\ s.blocks[src.id] \in Block
        /\ Fits(src, s.blocks[src.id]) /\ ReadFile(s, from).ok /\ ReadFile(s, from).data \in Seq(Int)
    BY <2>1, ReadFileIs
  <2>3. CASE ~CopyOnWrite
    <3>1. CloneFile(s, from, p) = CreateFile(s, p, ReadFile(s, from).data)
      BY <1>2, <2>2, <2>3 DEF CloneFile
    <3> QED
      BY <2>2, <3>1, CreateFileIs
  <2>4. CASE CopyOnWrite
    <3>1. CASE ~QuotaOk(s, 1, src.size)
      <4>1. CloneFile(s, from, p) = Fail(s)
        BY <1>2, <2>4, <3>1 DEF CloneFile
      <4> QED
        BY <4>1, FailIs DEF Makes, Fail
    <3>2. CASE QuotaOk(s, 1, src.size)
      <4> DEFINE g == Allocate(s).s
                 id == Allocate(s).id
                 i == [src EXCEPT !.id = id]
                 B == Put(s.blocks, id, s.blocks[src.id])
                 t == [g EXCEPT !.blocks = Put(@, id, s.blocks[src.id]), !.active = Put(@, p, i)]
      <4>1. CloneFile(s, from, p) = Done(t)
        BY <1>2, <2>2, <2>4, <3>2 DEF CloneFile
      <4>2. Granted(s, g, id)
        BY AllocateIs
      <4> HIDE DEF g, id
      <4>3. id \in Nat
        BY <4>2 DEF Granted
      <4> HIDE DEF src
      <4>4. /\ i \in Inode /\ i.id = id /\ i.kind = "file" /\ Fits(i, s.blocks[src.id])
        BY <2>1, <2>2, <4>3 DEF Inode, Fits
      <4> HIDE DEF i
      <4>5. Becomes(s, t, Put(s.active, p, i), s.deleted, B, g.next, g.recycled, s.journal, s.dirty)
        BY <4>2 DEF Granted, Becomes, Fields
      <4>6. WithBytes(s, i, B)
        BY <2>2, <4>4 DEF WithBytes
      <4> HIDE DEF t, B
      <4>7. t \in {t, Record(t, "active", p)} /\ s.dirty \subseteq s.dirty
        OBVIOUS
      <4>8. Gains(s, t, p, i)
        BY <2>1, <4>2, <4>4, <4>5, <4>6, <4>7, NewEntryIs
      <4> QED
        BY <4>1, <4>4, <4>8 DEF Makes, Gains, Done
    <3> QED
      BY <3>1, <3>2
  <2> QED
    BY <2>3, <2>4
<1> QED
  BY <1>1, <1>2

-----------------------------------------------------------------------------
(* Entries that change *)

\* The entry p gets other attributes, and bytes that fit them.
LEMMA ChangeEntry ==
  ASSUME NEW s, Sound(s), NEW p \in DOMAIN s.active, NEW i \in Inode,
         i.id = s.active[p].id, i.kind = s.active[p].kind,
         NEW b \in Block, i.kind # "dir" => Fits(i, b),
         NEW B, B = IF i.kind = "dir" THEN s.blocks ELSE Put(s.blocks, i.id, b),
         NEW M, s.dirty \subseteq M, i.kind = "dir" \/ i.id \in M \/ b = s.blocks[i.id],
         NEW J \in {s.journal, Replayed(s.journal, "active", p)},
         NEW t, Becomes(s, t, [s.active EXCEPT ![p] = i], s.deleted, B, s.next, s.recycled, J, M)
  PROVE  Gains(s, t, p, i)
<1>1. /\ DOMAIN t = Fields /\ t.deleted = s.deleted /\ t.tombs = s.deleted /\ t.blocks = B
      /\ t.next = s.next /\ t.recycled = s.recycled /\ t.journal = J /\ t.dirty = M
      /\ t.txn = s.txn /\ t.wal = s.wal /\ t.snaps = s.snaps
  BY DEF Becomes
<1>2. /\ Entries(s.active) /\ Entries(s.deleted) /\ s.blocks \in [DOMAIN s.blocks -> Block]
      /\ s.next \in Nat /\ s.recycled \in Seq(Nat)
      /\ s.journal \in Replay /\ s.txn = NoTxn /\ s.wal = NoWal
      /\ \A k \in DOMAIN s.snaps : Captures(s.snaps[k])
  BY DEF Sound, Typed
<1>3. /\ DOMAIN t.active = DOMAIN s.active /\ t.active \in [DOMAIN t.active -> Inode] /\ t.active[p] = i
      /\ \A x \in DOMAIN s.active : x # p => t.active[x] = s.active[x]
      /\ \A x \in DOMAIN s.active : t.active[x].id = s.active[x].id /\ t.active[x].kind = s.active[x].kind
  <2>1. s.active \in [DOMAIN s.active -> Inode]
    BY <1>2 DEF Entries
  <2>2. t.active = [s.active EXCEPT ![p] = i]
    BY DEF Becomes
  <2> QED
    BY <2>1, <2>2
<1>4. EntryIds(t.active) = EntryIds(s.active)
  BY <1>3 DEF EntryIds
<1>5. /\ DOMAIN B = DOMAIN s.blocks /\ B \in [DOMAIN B -> Block]
      /\ \A k \in DOMAIN s.blocks : k # i.id => B[k] = s.blocks[k]
      /\ i.kind # "dir" => i.id \in DOMAIN B /\ B[i.id] = b
      /\ i.kind = "dir" => B = s.blocks
  <2>1. i.kind # "dir" => i.id \in DOMAIN s.blocks
    BY DEF Sound, Held
  <2> QED
    BY <1>2, <2>1 DEF Put
<1>6. J \in Replay /\ J.del \subseteq s.journal.del /\ J.act \subseteq s.journal.act \cup {p}
      /\ (s.journal.del \subseteq J.del \cup {p})
  <2>1. p \in Paths
    BY <1>2 DEF Entries
  <2> QED
    BY <1>2, <2>1 DEF Replay, Replayed
<1>7. Typed(t)
  BY <1>1, <1>2, <1>3, <1>5, <1>6 DEF Typed, Entries
<1>8. Owners(t)
  <2>1. Owners(s)
    BY DEF Sound
  <2>2. /\ \A x, y \in DOMAIN t.active : t.active[x].id = t.active[y].id => x = y
        /\ \A x \in DOMAIN t.active, y \in DOMAIN t.deleted : t.active[x].id # t.deleted[y].id
        /\ \A x \in DOMAIN t.active : t.active[x].id \in 1..t.next
    BY <1>1, <1>3, <2>1 DEF Owners
  <2>3. \A k \in 1..Len(t.recycled) :
           /\ t.recycled[k] \in 1..t.next
           /\ \A x \in DOMAIN t.active : t.active[x].id # t.recycled[k]
           /\ \A x \in DOMAIN t.deleted : t.deleted[x].id # t.recycled[k]
           /\ \A j \in 1..Len(t.recycled) : t.recycled[j] = t.recycled[k] => j = k
    BY <1>1, <1>3, <2>1 DEF Owners
  <2>4. /\ \A x, y \in DOMAIN t.deleted : t.deleted[x].id = t.deleted[y].id => x = y
        /\ \A x \in DOMAIN t.deleted : t.deleted[x].id \in 1..t.next
    BY <1>1, <2>1 DEF Owners
  <2> QED
    BY <2>2, <2>3, <2>4 DEF Owners
<1>9. Held(t)
  <2>0. Owners(s) /\ Held(s)
    BY DEF Sound
  <2>1. ASSUME NEW x \in DOMAIN t.active
        PROVE  IF t.active[x].kind = "dir" THEN t.active[x].id \notin DOMAIN t.blocks
               ELSE t.active[x].id \in DOMAIN t.blocks /\ Fits(t.active[x], t.blocks[t.active[x].id])
    <3>1. CASE x = p
      <4>1. s.active[p].kind = "dir" => s.active[p].id \notin DOMAIN s.blocks
        BY <2>0 DEF Held
      <4> QED
        BY <1>1, <1>3, <1>5, <3>1, <4>1
    <3>2. CASE x # p
      <4>1. s.active[x].id # i.id
        BY <1>3, <2>0, <3>2 DEF Owners
      <4>2. x \in DOMAIN s.active /\ t.active[x] = s.active[x]
        BY <1>3, <3>2
      <4>3. IF s.active[x].kind = "dir" THEN s.active[x].id \notin DOMAIN s.blocks
            ELSE s.active[x].id \in DOMAIN s.blocks /\ Fits(s.active[x], s.blocks[s.active[x].id])
        BY <2>0, <4>2 DEF Held
      <4> QED
        BY <1>1, <1>5, <4>1, <4>2, <4>3
    <3> QED
      BY <3>1, <3>2
  <2>2. ASSUME NEW x \in DOMAIN t.deleted
        PROVE  IF t.deleted[x].kind = "dir" THEN t.deleted[x].id \notin DOMAIN t.blocks
               ELSE /\ t.deleted[x].id \in DOMAIN t.blocks
                    /\ \/ Fits(t.deleted[x], t.blocks[t.deleted[x].id])
                       \/ t.blocks[t.deleted[x].id] = Blank
    <3>1. s.deleted[x].id # i.id
      BY <1>1, <2>0 DEF Owners
    <3>2. IF s.deleted[x].kind = "dir" THEN s.deleted[x].id \notin DOMAIN s.blocks
          ELSE /\ s.deleted[x].id \in DOMAIN s.blocks
               /\ \/ Fits(s.deleted[x], s.blocks[s.deleted[x].id])
                  \/ s.blocks[s.deleted[x].id] = Blank
      BY <1>1, <2>0 DEF Held
    <3> QED
      BY <1>1, <1>5, <3>1, <3>2
  <2>3. DOMAIN t.blocks \subseteq EntryIds(t.active) \cup EntryIds(t.deleted)
    BY <1>1, <1>4, <1>5, <2>0 DEF Held
  <2> QED
    BY <2>1, <2>2, <2>3 DEF Held
<1>10. Named(t)
  BY <1>1, <1>3, <1>6 DEF Named, Sound
<1>11. Tree(t)
  BY <1>3 DEF Sound, Tree, IsDir
<1>12. Kept(s, t) /\ Marked(s, t)
  BY <1>1, <1>4, <1>5 DEF Kept, Marked
<1>13. Grows(s, t)
  BY <1>1, <1>3, <1>6 DEF Grows
<1> QED
  BY <1>3, <1>7, <1>8, <1>9, <1>10, <1>11, <1>12, <1>13 DEF Gains, Effect, FailsSafe, Done, Sound

\* A record put where it lies changes nothing.
LEMMA PutSame ==
  ASSUME NEW X, NEW f, f \in [DOMAIN f -> X], NEW k \in DOMAIN f
  PROVE  Put(f, k, f[k]) = f
<1>1. DOMAIN f \cup {k} = DOMAIN f
  OBVIOUS
<1> QED
  BY <1>1 DEF Put

\* The attributes of a file whose bytes are b.
WithForm(i, b) == [i EXCEPT !.size = Len(b.data), !.comp = b.comp, !.enc = b.enc]

\* An inode that says how its bytes are stored.
LEMMA WithFormIs ==
  ASSUME NEW i \in Inode, i.kind = "file", NEW b \in Block
  PROVE  /\ WithForm(i, b) \in Inode /\ WithForm(i, b).id = i.id /\ WithForm(i, b).kind = "file"
         /\ Fits(WithForm(i, b), b)
<1>1. b.comp \in BOOLEAN /\ b.enc \in BOOLEAN /\ Len(b.data) \in Nat
  BY DEF Block
<1> QED
  BY <1>1 DEF WithForm, Inode, Fits

\* The bytes of a file change, after the versions may have.
LEMMA SetContentIs ==
  ASSUME NEW s, Sound(s), NEW v, Same(s, v), NEW p \in DOMAIN s.active, s.active[p].kind = "file",
         NEW b \in Block,
         NEW t \in {SetContent(v, p, b), Record(SetContent(v, p, b), "active", p)}
  PROVE  Gains(s, t, p, WithForm(s.active[p], b))
<1> DEFINE i == WithForm(s.active[p], b)
           w == SetContent(v, p, b)
           B == Put(s.blocks, i.id, b)
           M == s.dirty \cup {i.id}
<1>1. s.active[p] \in Inode
  BY DEF Sound, Typed, Entries
<1>2. i \in Inode /\ i.id = s.active[p].id /\ i.kind = "file" /\ Fits(i, b)
  BY <1>1, WithFormIs
<1>3. Becomes(s, w, [s.active EXCEPT ![p] = i], s.deleted, B, s.next, s.recycled, s.journal, M)
  BY <1>2 DEF SetContent, Same, Becomes, Fields, WithForm
<1> HIDE DEF i, w
<1>4. PICK J \in {s.journal, Replayed(s.journal, "active", p)} :
         Becomes(s, t, [s.active EXCEPT ![p] = i], s.deleted, B, s.next, s.recycled, J, M)
  <2>1. DOMAIN w = Fields /\ w.txn = NoTxn /\ w.journal \in Replay /\ w.tombs = w.deleted
    BY <1>3 DEF Becomes, Sound, Typed
  <2>2. Becomes(w, Record(w, "active", p), w.active, w.deleted, w.blocks, w.next, w.recycled,
                Replayed(w.journal, "active", p), w.dirty)
    BY <2>1, RecordIs
  <2> QED
    BY <1>3, <2>2 DEF Becomes, w
<1>5. /\ B = IF i.kind = "dir" THEN s.blocks ELSE Put(s.blocks, i.id, b)
      /\ s.dirty \subseteq M /\ (i.kind = "dir" \/ i.id \in M \/ b = s.blocks[i.id])
  BY <1>2
<1> HIDE DEF B, M
<1> QED
  BY <1>2, <1>4, <1>5, ChangeEntry DEF i

\* What writes a file makes the file.
LEMMA GainsMakes ==
  ASSUME NEW s, NEW t, NEW p, NEW i, Gains(s, t, p, i)
  PROVE  Makes(s, Done(t), p, i.kind)
  BY DEF Gains, Makes, Done

\* A write changes one file, and says how its bytes are stored now.
LEMMA WriteFileIs ==
  ASSUME NEW s, Sound(s), NEW p, NEW data \in Seq(Int)
  PROVE  /\ Makes(s, WriteFile(s, p, data), p, "file")
         /\ WriteFile(s, p, data).ok => WriteFile(s, p, data).s.active[p] = WithForm(s.active[p], Stored(data))
<1>1. CASE ~Writable(s, p, Len(data))
  BY <1>1, FailIs DEF WriteFile, Fail, Makes
<1>2. CASE Writable(s, p, Len(data))
  <2> DEFINE v == StoreVersion(s, p, data)
             t == Record(SetContent(v, p, Stored(data)), "active", p)
             i == WithForm(s.active[p], Stored(data))
  <2>1. WriteFile(s, p, data) = Done(t)
    BY <1>2 DEF WriteFile
  <2>2. p \in DOMAIN s.active /\ s.active[p].kind = "file" /\ s.active[p] \in Inode
    BY <1>2 DEF Writable, KindOf, Has, Sound, Typed, Entries
  <2>3. Same(s, v)
    BY StoreVersionIs DEF Sound
  <2> HIDE DEF v
  <2>4. Stored(data) \in Block /\ t \in {SetContent(v, p, Stored(data)), t}
    BY StoredIs
  <2>5. Gains(s, t, p, i)
    BY <2>2, <2>3, <2>4, SetContentIs
  <2>6. i.kind = "file"
    BY <2>2, <2>4, WithFormIs
  <2> HIDE DEF t, i
  <2>7. Makes(s, Done(t), p, "file") /\ Done(t).s.active[p] = i
    BY <2>5, <2>6, GainsMakes DEF Gains, Done
  <2> QED
    BY <2>1, <2>7 DEF i
<1> QED
  BY <1>1, <1>2

\* A range write or a resize changes one file, by either of its two ways.
LEMMA RewriteFileIs ==
  ASSUME NEW s, Sound(s), NEW p, NEW data \in Seq(Int)
  PROVE  /\ Makes(s, RewriteFile(s, p, data), p, "file")
         /\ RewriteFile(s, p, data).ok /\ ~Piped(s, p) =>
              RewriteFile(s, p, data).s = SetContent(StoreVersion(s, p, ReadFile(s, p).data), p, Plain(data))
<1> DEFINE old == ReadFile(s, p)
<1>1. CASE ~Writable(s, p, Len(data)) \/ ((Piped(s, p) \/ KeepLatest > 0) /\ ~old.ok)
  BY <1>1, FailIs DEF RewriteFile, Fail, Makes
<1>2. CASE ~(~Writable(s, p, Len(data)) \/ ((Piped(s, p) \/ KeepLatest > 0) /\ ~old.ok)) /\ Piped(s, p)
  <2>1. RewriteFile(s, p, data) = WriteFile(s, p, data)
    BY <1>2 DEF RewriteFile
  <2> QED
    BY <1>2, <2>1, WriteFileIs
<1>3. CASE ~(~Writable(s, p, Len(data)) \/ ((Piped(s, p) \/ KeepLatest > 0) /\ ~old.ok)) /\ ~Piped(s, p)
  <2> DEFINE v == StoreVersion(s, p, old.data)
             t == SetContent(v, p, Plain(data))
             i == WithForm(s.active[p], Plain(data))
  <2>1. RewriteFile(s, p, data) = Done(t)
    BY <1>3 DEF RewriteFile
  <2>2. p \in DOMAIN s.active /\ s.active[p].kind = "file" /\ s.active[p] \in Inode
    BY <1>3 DEF Writable, KindOf, Has, Sound, Typed, Entries
  <2>3. Same(s, v)
    BY StoreVersionIs DEF Sound
  <2> HIDE DEF v
  <2>4. Plain(data) \in Block /\ t \in {t, Record(SetContent(v, p, Plain(data)), "active", p)}
    BY PlainIs
  <2>5. Gains(s, t, p, i)
    BY <2>2, <2>3, <2>4, SetContentIs
  <2>6. i.kind = "file"
    BY <2>2, <2>4, WithFormIs
  <2> HIDE DEF i
  <2>7. Makes(s, Done(t), p, "file") /\ Done(t).s = t
    BY <2>5, <2>6, GainsMakes DEF Done
  <2> QED
    BY <2>1, <2>7 DEF v
<1> QED
  BY <1>1, <1>2, <1>3

\* copy_from_slice and resize give bytes.
LEMMA PatchedIs ==
  ASSUME NEW data \in Seq(Int), NEW off \in Nat, NEW bytes \in Seq(Int), NEW n \in Nat
  PROVE  Patched(data, off, bytes) \in Seq(Int) /\ Resized(data, n) \in Seq(Int)
<1> DEFINE m == IF off + Len(bytes) > Len(data) THEN off + Len(bytes) ELSE Len(data)
<1>1. m \in Nat /\ Len(bytes) \in Nat /\ Len(data) \in Nat
  OBVIOUS
<1> HIDE DEF m
<1>2. ASSUME NEW j \in 1..m
      PROVE  (IF j \in off + 1 .. off + Len(bytes) THEN bytes[j - off]
              ELSE IF j <= Len(data) THEN data[j] ELSE 0) \in Int
  BY <1>1
<1>3. Patched(data, off, bytes) = [j \in 1..m |->
         IF j \in off + 1 .. off + Len(bytes) THEN bytes[j - off]
         ELSE IF j <= Len(data) THEN data[j] ELSE 0]
  BY DEF Patched, m
<1>4. Patched(data, off, bytes) \in [1..m -> Int]
  BY <1>2, <1>3
<1>5. ASSUME NEW j \in 1..n PROVE (IF j <= Len(data) THEN data[j] ELSE 0) \in Int
  BY <1>1
<1>6. Resized(data, n) \in [1..n -> Int]
  BY <1>5 DEF Resized
<1>7. \A k \in Nat : \A f \in [1..k -> Int] : f \in Seq(Int)
  OBVIOUS
<1> QED
  BY <1>1, <1>4, <1>6, <1>7

\* A range write that changed no byte may leave the dirty set as it was.
LEMMA WriteFileRangeIs ==
  ASSUME NEW s, Sound(s), NEW p, NEW off \in Nat, NEW bytes \in Seq(Int)
  PROVE  Makes(s, WriteFileRange(s, p, off, bytes), p, "file")
<1>1. CASE KindOf(s, p) # "file"
  BY <1>1, FailIs DEF WriteFileRange, Fail, Makes
<1>2. CASE KindOf(s, p) = "file"
  <2> DEFINE old == ReadFile(s, p).data
             new == Patched(old, off, bytes)
             r == RewriteFile(s, p, new)
             i == WithForm(s.active[p], Plain(new))
  <2>1. p \in DOMAIN s.active /\ s.active[p].kind = "file"
    BY <1>2 DEF KindOf, Has
  <2>2. /\ s.active[p].id \in DOMAIN s.blocks /\ s.blocks[s.active[p].id] \in Block
        /\ Fits(s.active[p], s.blocks[s.active[p].id]) /\ s.active[p] \in Inode
        /\ old = s.blocks[s.active[p].id].data /\ old \in Seq(Int)
    BY <2>1, ReadFileIs
  <2>3. new \in Seq(Int)
    BY <2>2, PatchedIs
  <2>4. Makes(s, r, p, "file") /\ (r.ok /\ ~Piped(s, p) =>
          r.s = SetContent(StoreVersion(s, p, old), p, Plain(new)))
    BY <2>3, RewriteFileIs
  <2>5. CASE ~(r.ok /\ ~Piped(s, p) /\ new = old /\ Len(bytes) < Len(old))
    <3>1. WriteFileRange(s, p, off, bytes) = r
      BY <1>2, <2>5 DEF WriteFileRange
    <3> QED
      BY <2>4, <3>1
  <2>6. CASE r.ok /\ ~Piped(s, p) /\ new = old /\ Len(bytes) < Len(old)
    <3> DEFINE v == StoreVersion(s, p, old)
               b == s.blocks[s.active[p].id]
               B == Put(s.blocks, i.id, b)
               t == [r.s EXCEPT !.dirty = s.dirty]
    <3>1. WriteFileRange(s, p, off, bytes) = Done(t)
      BY <1>2, <2>6 DEF WriteFileRange
    <3>2. Plain(new) = b
      BY <2>2, <2>6 DEF Piped, Plain, Block, Fits
    <3>3. i \in Inode /\ i.id = s.active[p].id /\ i.kind = "file" /\ Fits(i, b)
      BY <2>1, <2>2, <3>2, WithFormIs
    <3>4. Same(s, v)
      BY StoreVersionIs DEF Sound
    <3>5. t = [SetContent(v, p, b) EXCEPT !.dirty = s.dirty]
      BY <2>4, <2>6, <3>2
    <3> HIDE DEF v
    <3>6. i = WithForm(s.active[p], b)
      BY <3>2
    <3> HIDE DEF t, i, new, old, r
    <3>7. Becomes(s, t, [s.active EXCEPT ![p] = i], s.deleted, B, s.next, s.recycled, s.journal, s.dirty)
      BY <3>3, <3>4, <3>5, <3>6 DEF SetContent, Same, Becomes, Fields, WithForm
    <3>8. /\ B = IF i.kind = "dir" THEN s.blocks ELSE Put(s.blocks, i.id, b)
          /\ s.dirty \subseteq s.dirty /\ (i.kind = "dir" \/ i.id \in s.dirty \/ b = s.blocks[i.id])
      BY <3>3
    <3>9. s.journal \in {s.journal, Replayed(s.journal, "active", p)}
      OBVIOUS
    <3> HIDE DEF B
    <3>10. Gains(s, t, p, i)
      BY <2>1, <2>2, <3>3, <3>7, <3>8, <3>9, ChangeEntry
    <3> QED
      BY <3>1, <3>3, <3>10, GainsMakes
  <2> QED
    BY <2>5, <2>6
<1> QED
  BY <1>1, <1>2

\* A truncation changes one file.
LEMMA TruncateFileIs ==
  ASSUME NEW s, Sound(s), NEW p, NEW n \in Nat
  PROVE  Makes(s, TruncateFile(s, p, n), p, "file")
<1>1. CASE KindOf(s, p) # "file"
  BY <1>1, FailIs DEF TruncateFile, Fail, Makes
<1>2. CASE KindOf(s, p) = "file"
  <2>1. ReadFile(s, p).data \in Seq(Int)
    BY <1>2, ReadFileIs DEF KindOf, Has
  <2>2. Resized(ReadFile(s, p).data, n) \in Seq(Int)
    BY <2>1, PatchedIs
  <2> QED
    BY <1>2, <2>2, RewriteFileIs DEF TruncateFile
<1> QED
  BY <1>1, <1>2

\* An extension changes one file, to the plain stored form.
LEMMA ExtendFileIs ==
  ASSUME NEW s, Sound(s), NEW p, NEW extra \in Seq(Int)
  PROVE  Makes(s, ExtendFile(s, p, extra), p, "file")
<1> DEFINE old == ReadFile(s, p)
<1>1. CASE KindOf(s, p) # "file" \/ (Piped(s, p) /\ ~old.ok)
  <2>1. ExtendFile(s, p, extra) = Fail(s)
    BY <1>1 DEF ExtendFile
  <2> QED
    BY <2>1, FailIs DEF Fail, Makes
<1>2. CASE ~(KindOf(s, p) # "file" \/ (Piped(s, p) /\ ~old.ok))
  <2> DEFINE new == old.data \o extra
             t == SetContent(s, p, Plain(new))
             i == WithForm(s.active[p], Plain(new))
  <2>1. ExtendFile(s, p, extra) = Done(t)
    BY <1>2 DEF ExtendFile
  <2>2. p \in DOMAIN s.active /\ s.active[p].kind = "file"
    BY <1>2 DEF KindOf, Has
  <2>3. old.data \in Seq(Int) /\ s.active[p] \in Inode
    BY <2>2, ReadFileIs
  <2>4. new \in Seq(Int)
    BY <2>3
  <2> HIDE DEF new
  <2>5. Plain(new) \in Block /\ t \in {t, Record(SetContent(s, p, Plain(new)), "active", p)}
    BY <2>4, PlainIs
  <2>6. Same(s, s)
    BY DEF Same, Becomes, Sound, Typed
  <2>7. Gains(s, t, p, i)
    BY <2>2, <2>5, <2>6, SetContentIs
  <2>8. i.kind = "file"
    BY <2>2, <2>3, <2>5, WithFormIs
  <2> HIDE DEF i
  <2> QED
    BY <2>1, <2>7, <2>8, GainsMakes
<1> QED
  BY <1>1, <1>2

\* The attributes of an entry change; its bytes still fit them.
LEMMA SetAttributes ==
  ASSUME NEW s, Sound(s), NEW p \in DOMAIN s.active, NEW i \in Inode,
         i.id = s.active[p].id, i.kind = s.active[p].kind,
         i.kind # "dir" => Fits(i, s.blocks[i.id]),
         NEW t, t = [s EXCEPT !.active = [s.active EXCEPT ![p] = i]]
  PROVE  Gains(s, t, p, i)
<1> DEFINE b == IF i.kind = "dir" THEN Blank ELSE s.blocks[i.id]
<1>1. s.active[p] \in Inode /\ s.blocks \in [DOMAIN s.blocks -> Block] /\ DOMAIN s = Fields /\ s.tombs = s.deleted
  BY DEF Sound, Typed, Entries
<1>2. Becomes(s, t, [s.active EXCEPT ![p] = i], s.deleted, s.blocks, s.next, s.recycled, s.journal, s.dirty)
  BY <1>1 DEF Becomes, Fields
<1>3. i.kind # "dir" => i.id \in DOMAIN s.blocks
  BY DEF Sound, Held
<1>4. Blank \in Block
  BY DEF Blank, Block
<1>5. b \in Block /\ (i.kind # "dir" => Fits(i, b))
  BY <1>1, <1>3, <1>4
<1>6. s.blocks = IF i.kind = "dir" THEN s.blocks ELSE Put(s.blocks, i.id, b)
  BY <1>1, <1>3, PutSame
<1>7. /\ s.dirty \subseteq s.dirty /\ (i.kind = "dir" \/ i.id \in s.dirty \/ b = s.blocks[i.id])
      /\ s.journal \in {s.journal, Replayed(s.journal, "active", p)}
  OBVIOUS
<1> HIDE DEF b
<1> QED
  BY <1>2, <1>5, <1>6, <1>7, ChangeEntry

\* A change of the mode leaves the bytes alone.
LEMMA SetModeIs ==
  ASSUME NEW s, Sound(s), NEW p, NEW mode \in Nat
  PROVE  Effect(s, SetMode(s, p, mode))
<1>1. CASE p \notin DOMAIN s.active
  BY <1>1, FailIs DEF SetMode, Has
<1>2. CASE p \in DOMAIN s.active
  <2> DEFINE i == [s.active[p] EXCEPT !.mode = mode]
             t == [s EXCEPT !.active = [s.active EXCEPT ![p] = i]]
  <2>1. SetMode(s, p, mode) = Done(t)
    BY <1>2 DEF SetMode, Has
  <2>2. /\ s.active[p] \in Inode
        /\ s.active[p].kind # "dir" => Fits(s.active[p], s.blocks[s.active[p].id])
    BY <1>2, ReadFileIs
  <2>3. /\ i \in Inode /\ i.id = s.active[p].id /\ i.kind = s.active[p].kind
        /\ i.kind # "dir" => Fits(i, s.blocks[i.id])
    BY <2>2 DEF Inode, Fits
  <2> HIDE DEF i
  <2>4. Gains(s, t, p, i)
    BY <1>2, <2>3, SetAttributes
  <2> QED
    BY <2>1, <2>4 DEF Gains
<1> QED
  BY <1>1, <1>2

-----------------------------------------------------------------------------
(* Entries that go and come back *)

\* What lies in a directory has its name as a prefix.
LEMMA FrontIsPrefix ==
  ASSUME NEW p \in Paths, ~Top(p)
  PROVE  Under(Front(p), p) /\ Front(p) # p
<1>1. p \in Seq(ToSet(p)) /\ p # <<>>
  BY PathsInOrder
<1>2. Len(p) \in Nat /\ Len(p) > 1
  <2> DEFINE m == Len(p)
  <2>1. m \in Nat /\ m # 0
    BY <1>1
  <2>2. m # 1
    BY DEF Top
  <2> HIDE DEF m
  <2>3. m > 1
    BY <2>1, <2>2
  <2> QED
    BY <2>1, <2>3 DEF m
<1> DEFINE n == Len(p) - 1
<1>3. n \in 1..Len(p) /\ n # Len(p)
  BY <1>2
<1>4. Front(p) = SubSeq(p, 1, n)
  BY DEF Front
<1> HIDE DEF n
<1>5. SubSeq(p, 1, n) \in Seq(ToSet(p)) /\ Len(SubSeq(p, 1, n)) = n
      /\ \A k \in 1..n : SubSeq(p, 1, n)[k] = p[k]
  BY <1>1, <1>2, <1>3
<1>6. SubSeq(SubSeq(p, 1, n), 1, n) = SubSeq(p, 1, n)
  BY <1>1, <1>3, <1>5
<1> QED
  BY <1>2, <1>3, <1>4, <1>5, <1>6 DEF Under, IsPrefix

\* No active entry lies under p but p itself.
Bare(s, p) == \A q \in DOMAIN s.active : Under(p, q) => q = p

\* The tree without an entry that has none under it.
LEMMA TreeWithout ==
  ASSUME NEW s, Sound(s), NEW p \in DOMAIN s.active, Bare(s, p), NEW t, t.active = Drop(s.active, p)
  PROVE  Tree(t)
<1>1. ASSUME NEW x \in DOMAIN t.active, ~Top(x) PROVE IsDir(t, Front(x))
  <2>1. x \in DOMAIN s.active /\ x # p /\ x \in Paths
    BY <1>1 DEF Drop, Sound, Typed, Entries
  <2>2. IsDir(s, Front(x))
    BY <1>1, <2>1 DEF Sound, Tree
  <2>3. Front(x) # p
    BY <1>1, <2>1, FrontIsPrefix DEF Bare
  <2> QED
    BY <2>2, <2>3 DEF Drop, IsDir
<1> QED
  BY <1>1 DEF Tree

\* The entry p moves to the recovery service.
LEMMA SoftDelete ==
  ASSUME NEW s, Sound(s), NEW p \in DOMAIN s.active, Bare(s, p),
         NEW M, s.dirty \cup {s.active[p].id} \subseteq M,
         NEW t, Becomes(s, t, Drop(s.active, p), Put(s.deleted, p, s.active[p]), s.blocks, s.next, s.recycled,
                        Replayed(s.journal, "delete", p), M)
  PROVE  Effect(s, Done(t))
<1> DEFINE i == s.active[p]
<1>1. /\ DOMAIN t = Fields /\ t.deleted = t.tombs /\ t.blocks = s.blocks
      /\ t.next = s.next /\ t.recycled = s.recycled /\ t.dirty = M
      /\ t.txn = s.txn /\ t.wal = s.wal /\ t.snaps = s.snaps
      /\ t.active = Drop(s.active, p) /\ t.deleted = Put(s.deleted, p, i)
      /\ t.journal = Replayed(s.journal, "delete", p)
  BY DEF Becomes
<1>2. /\ Entries(s.active) /\ Entries(s.deleted) /\ s.blocks \in [DOMAIN s.blocks -> Block]
      /\ s.next \in Nat /\ s.recycled \in Seq(Nat)
      /\ s.journal \in Replay /\ s.txn = NoTxn /\ s.wal = NoWal
      /\ \A k \in DOMAIN s.snaps : Captures(s.snaps[k])
  BY DEF Sound, Typed
<1>3. p \in Paths /\ i \in Inode /\ p \notin DOMAIN s.deleted
  BY <1>2 DEF Entries, Sound, Named
<1>4. /\ DOMAIN t.active = DOMAIN s.active \ {p} /\ Entries(t.active)
      /\ \A x \in DOMAIN t.active : x \in DOMAIN s.active /\ x # p /\ t.active[x] = s.active[x]
  BY <1>1, <1>2 DEF Drop, Entries
<1>5. /\ DOMAIN t.deleted = DOMAIN s.deleted \cup {p} /\ Entries(t.deleted) /\ t.deleted[p] = i
      /\ \A x \in DOMAIN s.deleted : x # p /\ t.deleted[x] = s.deleted[x]
  BY <1>1, <1>2, <1>3 DEF Put, Entries
<1>6. t.journal \in Replay /\ t.journal.del = s.journal.del \cup {p} /\ t.journal.act = s.journal.act \ {p}
  BY <1>1, <1>2, <1>3 DEF Replay, Replayed
<1> HIDE DEF i
<1>7. Typed(t)
  BY <1>1, <1>2, <1>4, <1>5, <1>6 DEF Typed
<1>8. Owners(t)
  <2>1. ASSUME NEW x \in DOMAIN t.active
        PROVE  /\ t.active[x].id \in 1..t.next
               /\ \A y \in DOMAIN t.active : t.active[x].id = t.active[y].id => x = y
               /\ \A y \in DOMAIN t.deleted : t.active[x].id # t.deleted[y].id
    BY <1>1, <1>4, <1>5 DEF Sound, Owners, i
  <2>2. ASSUME NEW x \in DOMAIN t.deleted
        PROVE  /\ t.deleted[x].id \in 1..t.next
               /\ \A y \in DOMAIN t.deleted : t.deleted[x].id = t.deleted[y].id => x = y
    BY <1>1, <1>5 DEF Sound, Owners, i
  <2>3. ASSUME NEW k \in 1..Len(t.recycled)
        PROVE  /\ t.recycled[k] \in 1..t.next
               /\ \A x \in DOMAIN t.active : t.active[x].id # t.recycled[k]
               /\ \A x \in DOMAIN t.deleted : t.deleted[x].id # t.recycled[k]
               /\ \A j \in 1..Len(t.recycled) : t.recycled[j] = t.recycled[k] => j = k
    BY <1>1, <1>4, <1>5 DEF Sound, Owners, i
  <2> QED
    BY <2>1, <2>2, <2>3 DEF Owners
<1>9. EntryIds(t.active) \cup EntryIds(t.deleted) = EntryIds(s.active) \cup EntryIds(s.deleted)
  <2>1. EntryIds(s.active) \subseteq EntryIds(t.active) \cup {i.id}
    BY <1>4 DEF EntryIds, i
  <2>2. EntryIds(t.active) \subseteq EntryIds(s.active) /\ i.id \in EntryIds(s.active)
    BY <1>4 DEF EntryIds, i
  <2>3. EntryIds(t.deleted) = EntryIds(s.deleted) \cup {i.id}
    BY <1>5 DEF EntryIds
  <2> QED
    BY <2>1, <2>2, <2>3
<1>10. Held(t)
  <2>1. \A x \in DOMAIN t.active :
           IF t.active[x].kind = "dir" THEN t.active[x].id \notin DOMAIN t.blocks
           ELSE t.active[x].id \in DOMAIN t.blocks /\ Fits(t.active[x], t.blocks[t.active[x].id])
    BY <1>1, <1>4 DEF Sound, Held
  <2>2. \A x \in DOMAIN t.deleted :
           IF t.deleted[x].kind = "dir" THEN t.deleted[x].id \notin DOMAIN t.blocks
           ELSE /\ t.deleted[x].id \in DOMAIN t.blocks
                /\ \/ Fits(t.deleted[x], t.blocks[t.deleted[x].id])
                   \/ t.blocks[t.deleted[x].id] = Blank
    BY <1>1, <1>5 DEF Sound, Held, i
  <2>3. DOMAIN t.blocks \subseteq EntryIds(t.active) \cup EntryIds(t.deleted)
    BY <1>1, <1>9 DEF Sound, Held
  <2> QED
    BY <2>1, <2>2, <2>3 DEF Held
<1>11. Named(t)
  BY <1>4, <1>5, <1>6 DEF Named, Sound
<1>12. Tree(t)
  BY <1>1, TreeWithout
<1>13. Kept(s, t)
  BY <1>9 DEF Kept
<1>14. Marked(s, t)
  <2>1. EntryIds(s.active) \subseteq EntryIds(t.active) \cup {i.id}
    BY <1>4 DEF EntryIds, i
  <2> QED
    BY <1>1, <2>1 DEF Marked, i
<1> QED
  BY <1>7, <1>8, <1>10, <1>11, <1>12, <1>13, <1>14 DEF Effect, FailsSafe, Done, Sound

\* The entry p ends, its bytes with it.  The number of a directory, which has
\* none, is not given back.
LEMMA SecureDelete ==
  ASSUME NEW s, Sound(s), NEW p \in DOMAIN s.active, Bare(s, p),
         NEW R, R \in {s.recycled, Append(s.recycled, s.active[p].id)},
         NEW J \in {s.journal, Replayed(s.journal, "secure", p)},
         NEW B, B = Drop(s.blocks, s.active[p].id),
         NEW M, s.dirty \subseteq M, s.active[p].id \in DOMAIN s.blocks => s.active[p].id \in M,
         NEW t, Becomes(s, t, Drop(s.active, p), s.deleted, B, s.next, R, J, M)
  PROVE  Sound(t) /\ Marked(s, t)
<1> DEFINE i == s.active[p]
<1>1. /\ DOMAIN t = Fields /\ t.deleted = t.tombs /\ t.blocks = B
      /\ t.next = s.next /\ t.recycled = R /\ t.dirty = M
      /\ t.txn = s.txn /\ t.wal = s.wal /\ t.snaps = s.snaps
      /\ t.active = Drop(s.active, p) /\ t.deleted = s.deleted /\ t.journal = J
  BY DEF Becomes
<1>2. /\ Entries(s.active) /\ Entries(s.deleted) /\ s.blocks \in [DOMAIN s.blocks -> Block]
      /\ s.next \in Nat /\ s.recycled \in Seq(Nat)
      /\ s.journal \in Replay /\ s.txn = NoTxn /\ s.wal = NoWal
      /\ \A k \in DOMAIN s.snaps : Captures(s.snaps[k])
  BY DEF Sound, Typed
<1>3. p \in Paths /\ i \in Inode /\ p \notin DOMAIN s.deleted /\ i.id \in 1..s.next /\ i.id \in Nat
  BY <1>2 DEF Entries, Sound, Named, Owners, Inode
<1>4. /\ DOMAIN t.active = DOMAIN s.active \ {p} /\ Entries(t.active)
      /\ \A x \in DOMAIN t.active : x \in DOMAIN s.active /\ x # p /\ t.active[x] = s.active[x]
  BY <1>1, <1>2 DEF Drop, Entries
<1>5. /\ DOMAIN B = DOMAIN s.blocks \ {i.id} /\ B \in [DOMAIN B -> Block]
      /\ \A k \in DOMAIN B : B[k] = s.blocks[k]
  BY <1>2 DEF Drop
<1>6. t.journal \in Replay /\ t.journal.del \subseteq s.journal.del /\ t.journal.act \subseteq s.journal.act
      /\ (s.journal.del \subseteq t.journal.del \cup {p})
  BY <1>1, <1>2, <1>3 DEF Replay, Replayed
<1> HIDE DEF i
<1>7. /\ R \in Seq(Nat)
      /\ \A k \in 1..Len(R) : \/ k \in 1..Len(s.recycled) /\ R[k] = s.recycled[k]
                              \/ k = Len(s.recycled) + 1 /\ R[k] = i.id
      /\ \A k \in 1..Len(R) : k \in Nat
  <2> DEFINE Q == s.recycled
  <2>1. Q \in Seq(Nat) /\ i.id \in Nat /\ R \in {Q, Append(Q, i.id)} /\ Len(Q) \in Nat
    BY <1>2, <1>3 DEF i
  <2> HIDE DEF Q
  <2>2. /\ R \in Seq(Nat) /\ Len(R) \in Nat
        /\ \A k \in 1..Len(R) : (k \in 1..Len(Q) /\ R[k] = Q[k]) \/ (k = Len(Q) + 1 /\ R[k] = i.id)
    <3>1. CASE R = Q
      BY <2>1, <3>1
    <3>2. CASE R = Append(Q, i.id)
      BY <2>1, <3>2
    <3> QED
      BY <2>1, <3>1, <3>2
  <2> QED
    BY <2>2 DEF Q
<1>8. Typed(t)
  BY <1>1, <1>2, <1>4, <1>5, <1>6, <1>7 DEF Typed
<1>9. \A x \in DOMAIN t.active : t.active[x].id # i.id
  BY <1>4 DEF Sound, Owners, i
<1>10. \A x \in DOMAIN t.deleted : t.deleted[x].id # i.id
  BY <1>1 DEF Sound, Owners, i
<1>11. Owners(t)
  <2>1. ASSUME NEW x \in DOMAIN t.active
        PROVE  /\ t.active[x].id \in 1..t.next
               /\ \A y \in DOMAIN t.active : t.active[x].id = t.active[y].id => x = y
               /\ \A y \in DOMAIN t.deleted : t.active[x].id # t.deleted[y].id
    BY <1>1, <1>4 DEF Sound, Owners
  <2>2. ASSUME NEW x \in DOMAIN t.deleted
        PROVE  /\ t.deleted[x].id \in 1..t.next
               /\ \A y \in DOMAIN t.deleted : t.deleted[x].id = t.deleted[y].id => x = y
    BY <1>1 DEF Sound, Owners
  <2>3. ASSUME NEW k \in 1..Len(t.recycled)
        PROVE  /\ t.recycled[k] \in 1..t.next
               /\ \A x \in DOMAIN t.active : t.active[x].id # t.recycled[k]
               /\ \A x \in DOMAIN t.deleted : t.deleted[x].id # t.recycled[k]
               /\ \A j \in 1..Len(t.recycled) : t.recycled[j] = t.recycled[k] => j = k
    <3>1. \A j \in 1..Len(s.recycled) :
             /\ s.recycled[j] # i.id /\ s.recycled[j] \in 1..s.next
             /\ \A l \in 1..Len(s.recycled) : s.recycled[l] = s.recycled[j] => l = j
             /\ \A x \in DOMAIN s.active : s.active[x].id # s.recycled[j]
             /\ \A x \in DOMAIN s.deleted : s.deleted[x].id # s.recycled[j]
      BY DEF Sound, Owners, i
    <3>2. t.recycled[k] \in 1..t.next
      BY <1>1, <1>3, <1>7, <3>1
    <3>3. \A x \in DOMAIN t.active : t.active[x].id # t.recycled[k]
      BY <1>1, <1>4, <1>7, <1>9, <3>1
    <3>4. \A x \in DOMAIN t.deleted : t.deleted[x].id # t.recycled[k]
      BY <1>1, <1>7, <1>10, <3>1
    <3>5. \A j \in 1..Len(t.recycled) : t.recycled[j] = t.recycled[k] => j = k
      BY <1>1, <1>7, <3>1
    <3> QED
      BY <3>2, <3>3, <3>4, <3>5
  <2> QED
    BY <2>1, <2>2, <2>3 DEF Owners
<1>12. EntryIds(s.active) \subseteq EntryIds(t.active) \cup {i.id}
  BY <1>4 DEF EntryIds, i
<1>13. Held(t)
  <2>1. \A x \in DOMAIN t.active :
           IF t.active[x].kind = "dir" THEN t.active[x].id \notin DOMAIN t.blocks
           ELSE t.active[x].id \in DOMAIN t.blocks /\ Fits(t.active[x], t.blocks[t.active[x].id])
    BY <1>1, <1>4, <1>5, <1>9 DEF Sound, Held
  <2>2. \A x \in DOMAIN t.deleted :
           IF t.deleted[x].kind = "dir" THEN t.deleted[x].id \notin DOMAIN t.blocks
           ELSE /\ t.deleted[x].id \in DOMAIN t.blocks
                /\ \/ Fits(t.deleted[x], t.blocks[t.deleted[x].id])
                   \/ t.blocks[t.deleted[x].id] = Blank
    <3>1. \A x \in DOMAIN s.deleted :
             IF s.deleted[x].kind = "dir" THEN s.deleted[x].id \notin DOMAIN s.blocks
             ELSE /\ s.deleted[x].id \in DOMAIN s.blocks
                  /\ \/ Fits(s.deleted[x], s.blocks[s.deleted[x].id])
                     \/ s.blocks[s.deleted[x].id] = Blank
      BY DEF Sound, Held
    <3> QED
      BY <1>1, <1>5, <1>10, <3>1
  <2>3. DOMAIN t.blocks \subseteq EntryIds(t.active) \cup EntryIds(t.deleted)
    BY <1>1, <1>5, <1>12 DEF Sound, Held
  <2> QED
    BY <2>1, <2>2, <2>3 DEF Held
<1>14. Named(t)
  BY <1>1, <1>3, <1>4, <1>6 DEF Named, Sound
<1>15. Tree(t)
  BY <1>1, TreeWithout
<1>16. Marked(s, t)
  BY <1>1, <1>5, <1>12 DEF Marked, i
<1> QED
  BY <1>8, <1>11, <1>13, <1>14, <1>15, <1>16 DEF Sound

\* Both ways to delete an entry that has none under it.
LEMMA DeleteFileIs ==
  ASSUME NEW s, Sound(s), NEW p, Bare(s, p)
  PROVE  /\ Effect(s, DeleteFile(s, p, FALSE))
         /\ LET r == DeleteFile(s, p, TRUE)
            IN  Sound(r.s) /\ Marked(s, r.s) /\ (KindOf(s, p) # "dir" => FailsSafe(s, r) /\ (~r.ok => r.s = s))
<1> DEFINE soft == DeleteFile(s, p, FALSE)
           r == DeleteFile(s, p, TRUE)
           Goal == /\ Effect(s, soft) /\ Sound(r.s) /\ Marked(s, r.s)
                   /\ KindOf(s, p) # "dir" => FailsSafe(s, r) /\ (~r.ok => r.s = s)
<1>1. ASSUME p \notin DOMAIN s.active PROVE Goal
  <2>1. soft = Fail(s) /\ r = Fail(s)
    BY <1>1 DEF DeleteFile, Has
  <2> HIDE DEF soft, r
  <2> QED
    BY <2>1, FailIs DEF Effect, Fail
<1>2. ASSUME p \in DOMAIN s.active PROVE Goal
  <2> DEFINE i == s.active[p]
             gone == [s EXCEPT !.active = Drop(@, p)]
             wiped == [gone EXCEPT !.tombs = Drop(@, p), !.deleted = Drop(@, p)]
  <2>1. /\ DOMAIN s = Fields /\ s.txn = NoTxn /\ s.journal \in Replay /\ s.tombs = s.deleted
        /\ s.blocks \in [DOMAIN s.blocks -> Block] /\ s.deleted \in [DOMAIN s.deleted -> Inode]
        /\ p \notin DOMAIN s.deleted
    BY <1>2 DEF Sound, Typed, Entries, Named
  <2>2. Effect(s, soft)
    <3> DEFINE w == [gone EXCEPT !.tombs = Put(@, p, i), !.deleted = Put(@, p, i), !.dirty = @ \cup {i.id}]
               t == Record(w, "delete", p)
               M == s.dirty \cup {i.id}
    <3>1. soft = Done(t)
      BY <1>2 DEF DeleteFile, Has
    <3>2. /\ DOMAIN w = Fields /\ w.txn = NoTxn /\ w.journal = s.journal /\ w.tombs = w.deleted
          /\ w.active = Drop(s.active, p) /\ w.deleted = Put(s.deleted, p, i) /\ w.blocks = s.blocks
          /\ w.next = s.next /\ w.recycled = s.recycled /\ w.dirty = M
          /\ w.txn = s.txn /\ w.wal = s.wal /\ w.snaps = s.snaps
      BY <2>1 DEF Fields
    <3> HIDE DEF w
    <3>3. Becomes(w, t, w.active, w.deleted, w.blocks, w.next, w.recycled, Replayed(w.journal, "delete", p), w.dirty)
      BY <2>1, <3>2, RecordIs
    <3>4. Becomes(s, t, Drop(s.active, p), Put(s.deleted, p, s.active[p]), s.blocks, s.next, s.recycled,
                  Replayed(s.journal, "delete", p), M)
      BY <3>2, <3>3 DEF Becomes
    <3>5. s.dirty \cup {s.active[p].id} \subseteq M
      OBVIOUS
    <3> HIDE DEF t, M
    <3> HIDE DEF soft
    <3> QED
      BY <1>2, <3>1, <3>4, <3>5, SoftDelete
  <2>3. Drop(s.deleted, p) = s.deleted
    BY <2>1 DEF Drop
  <2>4. /\ DOMAIN wiped = Fields /\ wiped.active = Drop(s.active, p) /\ wiped.deleted = s.deleted
        /\ wiped.tombs = s.deleted /\ wiped.blocks = s.blocks /\ wiped.next = s.next
        /\ wiped.recycled = s.recycled /\ wiped.journal = s.journal /\ wiped.dirty = s.dirty
        /\ wiped.txn = s.txn /\ wiped.wal = s.wal /\ wiped.snaps = s.snaps
    BY <2>1, <2>3 DEF Fields
  <2> DEFINE B == Drop(s.blocks, i.id)
  <2>5. ASSUME i.id \notin DOMAIN s.blocks PROVE Goal
    <3>1. r = Fail(wiped)
      BY <1>2, <2>5 DEF DeleteFile, Has
    <3> HIDE DEF wiped
    <3>2. B = s.blocks
      BY <2>1, <2>5 DEF Drop
    <3>3. Becomes(s, wiped, Drop(s.active, p), s.deleted, B, s.next, s.recycled, s.journal, s.dirty)
      BY <2>4, <3>2 DEF Becomes
    <3>4. /\ s.recycled \in {s.recycled, Append(s.recycled, s.active[p].id)}
          /\ s.journal \in {s.journal, Replayed(s.journal, "secure", p)}
          /\ B = Drop(s.blocks, s.active[p].id)
          /\ s.dirty \subseteq s.dirty /\ (s.active[p].id \in DOMAIN s.blocks => s.active[p].id \in s.dirty)
      BY <2>5
    <3> HIDE DEF B
    <3>5. Sound(wiped) /\ Marked(s, wiped)
      BY <1>2, <3>3, <3>4, SecureDelete
    <3>6. KindOf(s, p) = "dir"
      BY <1>2, <2>5 DEF KindOf, Has, Sound, Held
    <3> HIDE DEF soft, r
    <3> QED
      BY <2>2, <3>1, <3>5, <3>6 DEF Fail
  <2>6. ASSUME i.id \in DOMAIN s.blocks PROVE Goal
    <3> DEFINE R == Append(s.recycled, i.id)
               M == s.dirty \cup {i.id}
               w == [Release(wiped, i.id) EXCEPT !.blocks = Drop(@, i.id), !.dirty = @ \cup {i.id}]
               t == Record(w, "secure", p)
    <3>1. r = Done(t)
      BY <1>2, <2>6 DEF DeleteFile, Has, Release
    <3> HIDE DEF wiped
    <3>2. /\ DOMAIN w = Fields /\ w.txn = NoTxn /\ w.journal = s.journal /\ w.tombs = w.deleted
          /\ w.active = Drop(s.active, p) /\ w.deleted = s.deleted /\ w.blocks = B
          /\ w.next = s.next /\ w.recycled = R /\ w.dirty = M
          /\ w.txn = s.txn /\ w.wal = s.wal /\ w.snaps = s.snaps
      BY <2>1, <2>4 DEF Fields, Release
    <3> HIDE DEF w
    <3>3. Becomes(w, t, w.active, w.deleted, w.blocks, w.next, w.recycled, Replayed(w.journal, "secure", p), w.dirty)
      BY <2>1, <3>2, RecordIs
    <3>4. Becomes(s, t, Drop(s.active, p), s.deleted, B, s.next, R, Replayed(s.journal, "secure", p), M)
      BY <3>2, <3>3 DEF Becomes
    <3>5. /\ R \in {s.recycled, Append(s.recycled, s.active[p].id)}
          /\ Replayed(s.journal, "secure", p) \in {s.journal, Replayed(s.journal, "secure", p)}
          /\ B = Drop(s.blocks, s.active[p].id)
          /\ s.dirty \subseteq M /\ (s.active[p].id \in DOMAIN s.blocks => s.active[p].id \in M)
      OBVIOUS
    <3> HIDE DEF B, R, M, t
    <3>6. Sound(t) /\ Marked(s, t)
      BY <1>2, <3>4, <3>5, SecureDelete
    <3> HIDE DEF soft, r
    <3> QED
      BY <2>2, <3>1, <3>6 DEF Done, FailsSafe
  <2> HIDE DEF soft, r
  <2> QED
    BY <2>5, <2>6
<1>3. Goal
  BY <1>1, <1>2
<1> QED
  BY <1>3, Zenon

\* A tombstone with its bytes comes back under its name.
LEMMA RestoreFileIs ==
  ASSUME NEW s, Sound(s), NEW p, Top(p) \/ IsDir(s, Front(p)),
         p \in DOMAIN s.deleted /\ s.deleted[p].id \in DOMAIN s.blocks => s.blocks[s.deleted[p].id] # Blank
  PROVE  Effect(s, RestoreFile(s, p))
<1>1. /\ DOMAIN s = Fields /\ Entries(s.active) /\ Entries(s.deleted) /\ s.blocks \in [DOMAIN s.blocks -> Block]
      /\ s.next \in Nat /\ s.recycled \in Seq(Nat) /\ s.tombs = s.deleted
      /\ s.journal \in Replay /\ s.txn = NoTxn /\ s.wal = NoWal
      /\ \A k \in DOMAIN s.snaps : Captures(s.snaps[k])
  BY DEF Sound, Typed
<1>2. CASE p \notin DOMAIN s.deleted
  <2>1. RestoreFile(s, p) = Fail(s)
    BY <1>1, <1>2 DEF RestoreFile
  <2> QED
    BY <2>1, FailIs
<1>3. CASE p \in DOMAIN s.deleted
  <2> DEFINE i == s.deleted[p]
             D == Drop(s.deleted, p)
             M == s.dirty \cup {i.id}
             w == [s EXCEPT !.active = Put(@, p, i), !.tombs = Drop(@, p), !.deleted = Drop(@, p), !.dirty = @ \cup {i.id}]
             t == Record(w, "active", p)
  <2>1. RestoreFile(s, p) = Done(t)
    BY <1>1, <1>3 DEF RestoreFile
  <2>2. /\ DOMAIN w = Fields /\ w.txn = NoTxn /\ w.journal = s.journal /\ w.tombs = w.deleted
        /\ w.active = Put(s.active, p, i) /\ w.deleted = D /\ w.blocks = s.blocks
        /\ w.next = s.next /\ w.recycled = s.recycled /\ w.dirty = M
        /\ w.txn = s.txn /\ w.wal = s.wal /\ w.snaps = s.snaps
    BY <1>1 DEF Fields
  <2> HIDE DEF w
  <2>3. Becomes(w, t, w.active, w.deleted, w.blocks, w.next, w.recycled, Replayed(w.journal, "active", p), w.dirty)
    BY <1>1, <2>2, RecordIs
  <2> HIDE DEF t
  <2>4. /\ DOMAIN t = Fields /\ t.active = Put(s.active, p, i) /\ t.deleted = D /\ t.tombs = D
        /\ t.blocks = s.blocks /\ t.next = s.next /\ t.recycled = s.recycled /\ t.dirty = M
        /\ t.journal = Replayed(s.journal, "active", p)
        /\ t.txn = s.txn /\ t.wal = s.wal /\ t.snaps = s.snaps
    BY <2>2, <2>3 DEF Becomes
  <2>5. p \in Paths /\ i \in Inode /\ p \notin DOMAIN s.active
    BY <1>1, <1>3 DEF Entries, Sound, Named
  <2>6. /\ DOMAIN t.active = DOMAIN s.active \cup {p} /\ Entries(t.active) /\ t.active[p] = i
        /\ \A x \in DOMAIN s.active : x # p /\ t.active[x] = s.active[x]
    BY <1>1, <2>4, <2>5 DEF Put, Entries
  <2>7. /\ DOMAIN t.deleted = DOMAIN s.deleted \ {p} /\ Entries(t.deleted)
        /\ \A x \in DOMAIN t.deleted : x \in DOMAIN s.deleted /\ x # p /\ t.deleted[x] = s.deleted[x]
    BY <1>1, <2>4 DEF Drop, Entries
  <2>8. t.journal \in Replay /\ t.journal.del = s.journal.del \ {p} /\ t.journal.act = s.journal.act \cup {p}
    BY <1>1, <2>4, <2>5 DEF Replay, Replayed
  <2> HIDE DEF i, D, M
  <2>9. Typed(t)
    BY <1>1, <2>4, <2>6, <2>7, <2>8 DEF Typed
  <2>10. Owners(t)
    <3>1. ASSUME NEW x \in DOMAIN t.active
          PROVE  /\ t.active[x].id \in 1..t.next
                 /\ \A y \in DOMAIN t.active : t.active[x].id = t.active[y].id => x = y
                 /\ \A y \in DOMAIN t.deleted : t.active[x].id # t.deleted[y].id
      BY <1>3, <2>4, <2>6, <2>7 DEF Sound, Owners, i
    <3>2. ASSUME NEW x \in DOMAIN t.deleted
          PROVE  /\ t.deleted[x].id \in 1..t.next
                 /\ \A y \in DOMAIN t.deleted : t.deleted[x].id = t.deleted[y].id => x = y
      BY <2>4, <2>7 DEF Sound, Owners
    <3>3. ASSUME NEW k \in 1..Len(t.recycled)
          PROVE  /\ t.recycled[k] \in 1..t.next
                 /\ \A x \in DOMAIN t.active : t.active[x].id # t.recycled[k]
                 /\ \A x \in DOMAIN t.deleted : t.deleted[x].id # t.recycled[k]
                 /\ \A j \in 1..Len(t.recycled) : t.recycled[j] = t.recycled[k] => j = k
      BY <1>3, <2>4, <2>6, <2>7 DEF Sound, Owners, i
    <3> QED
      BY <3>1, <3>2, <3>3 DEF Owners
  <2>11. EntryIds(t.active) \cup EntryIds(t.deleted) = EntryIds(s.active) \cup EntryIds(s.deleted)
         /\ EntryIds(s.active) \subseteq EntryIds(t.active)
    <3>1. EntryIds(s.deleted) \subseteq EntryIds(t.deleted) \cup {i.id}
      BY <2>7 DEF EntryIds, i
    <3>2. EntryIds(t.deleted) \subseteq EntryIds(s.deleted) /\ i.id \in EntryIds(s.deleted)
      BY <1>3, <2>7 DEF EntryIds, i
    <3>3. EntryIds(t.active) = EntryIds(s.active) \cup {i.id}
      BY <2>6 DEF EntryIds
    <3> QED
      BY <3>1, <3>2, <3>3
  <2>12. Held(t)
    <3>1. \A x \in DOMAIN t.active :
             IF t.active[x].kind = "dir" THEN t.active[x].id \notin DOMAIN t.blocks
             ELSE t.active[x].id \in DOMAIN t.blocks /\ Fits(t.active[x], t.blocks[t.active[x].id])
      BY <1>3, <2>4, <2>6 DEF Sound, Held, i
    <3>2. \A x \in DOMAIN t.deleted :
             IF t.deleted[x].kind = "dir" THEN t.deleted[x].id \notin DOMAIN t.blocks
             ELSE /\ t.deleted[x].id \in DOMAIN t.blocks
                  /\ \/ Fits(t.deleted[x], t.blocks[t.deleted[x].id])
                     \/ t.blocks[t.deleted[x].id] = Blank
      BY <2>4, <2>7 DEF Sound, Held
    <3>3. DOMAIN t.blocks \subseteq EntryIds(t.active) \cup EntryIds(t.deleted)
      BY <2>4, <2>11 DEF Sound, Held
    <3> QED
      BY <3>1, <3>2, <3>3 DEF Held
  <2>13. Named(t)
    BY <2>6, <2>7, <2>8 DEF Named, Sound
  <2>14. Tree(t)
    BY <2>6 DEF Sound, Tree, IsDir
  <2>15. Kept(s, t) /\ Marked(s, t)
    BY <2>4, <2>11 DEF Kept, Marked, M
  <2> QED
    BY <2>1, <2>9, <2>10, <2>12, <2>13, <2>14, <2>15 DEF Effect, FailsSafe, Done, Sound
<1> QED
  BY <1>2, <1>3

\* An expunged inode is gone, with its bytes and its number.
LEMMA ExpungeFileIs ==
  ASSUME NEW s, Sound(s), NEW p
  PROVE  LET r == ExpungeFile(s, p)
         IN  Sound(r.s) /\ Marked(s, r.s) /\ FailsSafe(s, r)
<1>1. /\ DOMAIN s = Fields /\ Entries(s.active) /\ Entries(s.deleted) /\ s.blocks \in [DOMAIN s.blocks -> Block]
      /\ s.next \in Nat /\ s.recycled \in Seq(Nat) /\ s.tombs = s.deleted
      /\ s.journal \in Replay /\ s.txn = NoTxn /\ s.wal = NoWal
      /\ \A k \in DOMAIN s.snaps : Captures(s.snaps[k])
  BY DEF Sound, Typed
<1>2. CASE p \notin DOMAIN s.deleted
  <2>1. ExpungeFile(s, p) = Fail(s)
    BY <1>1, <1>2 DEF ExpungeFile
  <2> QED
    BY <2>1, FailIs DEF Effect, Fail
<1>3. CASE p \in DOMAIN s.deleted
  <2> DEFINE Q == s.recycled
             id == s.deleted[p].id
             B == Drop(s.blocks, id)
             R == Append(Q, id)
             t == [Release(s, id) EXCEPT !.deleted = Drop(@, p), !.tombs = Drop(@, p), !.blocks = Drop(@, id)]
  <2>1. ExpungeFile(s, p) = Done(t)
    BY <1>3 DEF ExpungeFile
  <2>2. /\ DOMAIN t = Fields /\ t.active = s.active /\ t.deleted = Drop(s.deleted, p) /\ t.tombs = t.deleted
        /\ t.blocks = B /\ t.next = s.next /\ t.recycled = R /\ t.dirty = s.dirty
        /\ t.journal = s.journal /\ t.txn = s.txn /\ t.wal = s.wal /\ t.snaps = s.snaps
    BY <1>1 DEF Fields, Release
  <2> HIDE DEF t
  <2>3. id \in 1..s.next /\ id \in Nat
    BY <1>1, <1>3 DEF Sound, Owners
  <2>4. /\ DOMAIN t.deleted = DOMAIN s.deleted \ {p} /\ Entries(t.deleted)
        /\ \A x \in DOMAIN t.deleted : x \in DOMAIN s.deleted /\ x # p /\ t.deleted[x] = s.deleted[x]
    BY <1>1, <2>2 DEF Drop, Entries
  <2>5. /\ DOMAIN B = DOMAIN s.blocks \ {id} /\ B \in [DOMAIN B -> Block]
        /\ \A k \in DOMAIN B : B[k] = s.blocks[k]
    BY <1>1 DEF Drop
  <2>6. /\ \A x \in DOMAIN s.active : s.active[x].id # id
        /\ \A x \in DOMAIN t.deleted : t.deleted[x].id # id
        /\ \A j \in 1..Len(Q) : Q[j] # id
    BY <1>3, <2>4 DEF Sound, Owners
  <2> HIDE DEF id
  <2>7. /\ R \in Seq(Nat) /\ Len(R) \in Nat
        /\ \A k \in 1..Len(R) : (k \in 1..Len(Q) /\ R[k] = Q[k]) \/ (k = Len(Q) + 1 /\ R[k] = id)
    <3>1. Q \in Seq(Nat) /\ id \in Nat
      BY <1>1, <2>3
    <3> HIDE DEF Q
    <3> QED
      BY <3>1
  <2> HIDE DEF R
  <2>8. Typed(t)
    BY <1>1, <2>2, <2>4, <2>5, <2>7 DEF Typed
  <2>9. Owners(t)
    <3>1. \A k \in 1..Len(Q) :
             /\ Q[k] \in 1..s.next
             /\ \A x \in DOMAIN s.active : s.active[x].id # Q[k]
             /\ \A x \in DOMAIN s.deleted : s.deleted[x].id # Q[k]
             /\ \A j \in 1..Len(Q) : Q[j] = Q[k] => j = k
      BY DEF Sound, Owners
    <3>2. ASSUME NEW k \in 1..Len(R)
          PROVE  /\ R[k] \in 1..s.next
                 /\ \A x \in DOMAIN t.active : t.active[x].id # R[k]
                 /\ \A x \in DOMAIN t.deleted : t.deleted[x].id # R[k]
                 /\ \A j \in 1..Len(R) : R[j] = R[k] => j = k
      <4>1. (k \in 1..Len(Q) /\ R[k] = Q[k]) \/ (k = Len(Q) + 1 /\ R[k] = id)
        BY <2>7
      <4>2. R[k] \in 1..s.next
        BY <2>3, <3>1, <4>1
      <4>3. /\ \A x \in DOMAIN t.active : t.active[x].id # R[k]
            /\ \A x \in DOMAIN t.deleted : t.deleted[x].id # R[k]
        BY <2>2, <2>4, <2>6, <3>1, <4>1
      <4>4. ASSUME NEW j \in 1..Len(R), R[j] = R[k]
            PROVE  j = k
        <5>1. (j \in 1..Len(Q) /\ R[j] = Q[j]) \/ (j = Len(Q) + 1 /\ R[j] = id)
          BY <2>7
        <5> QED
          BY <2>6, <3>1, <4>1, <4>4, <5>1
      <4> QED
        BY <4>2, <4>3, <4>4
    <3>3. /\ \A x, y \in DOMAIN t.active : t.active[x].id = t.active[y].id => x = y
          /\ \A x, y \in DOMAIN t.deleted : t.deleted[x].id = t.deleted[y].id => x = y
          /\ \A x \in DOMAIN t.active, y \in DOMAIN t.deleted : t.active[x].id # t.deleted[y].id
          /\ \A x \in DOMAIN t.active : t.active[x].id \in 1..t.next
          /\ \A x \in DOMAIN t.deleted : t.deleted[x].id \in 1..t.next
      BY <2>2, <2>4 DEF Sound, Owners
    <3> QED
      BY <2>2, <3>2, <3>3 DEF Owners
  <2>10. EntryIds(s.deleted) \subseteq EntryIds(t.deleted) \cup {id}
    BY <2>4 DEF EntryIds, id
  <2>11. Held(t)
    <3>1. \A x \in DOMAIN t.active :
             IF t.active[x].kind = "dir" THEN t.active[x].id \notin DOMAIN t.blocks
             ELSE t.active[x].id \in DOMAIN t.blocks /\ Fits(t.active[x], t.blocks[t.active[x].id])
      BY <2>2, <2>5, <2>6 DEF Sound, Held
    <3>2. \A x \in DOMAIN t.deleted :
             IF t.deleted[x].kind = "dir" THEN t.deleted[x].id \notin DOMAIN t.blocks
             ELSE /\ t.deleted[x].id \in DOMAIN t.blocks
                  /\ \/ Fits(t.deleted[x], t.blocks[t.deleted[x].id])
                     \/ t.blocks[t.deleted[x].id] = Blank
      BY <2>2, <2>4, <2>5, <2>6 DEF Sound, Held
    <3>3. DOMAIN t.blocks \subseteq EntryIds(t.active) \cup EntryIds(t.deleted)
      BY <2>2, <2>5, <2>10 DEF Sound, Held
    <3> QED
      BY <3>1, <3>2, <3>3 DEF Held
  <2>12. Named(t)
    BY <2>2, <2>4 DEF Named, Sound
  <2>13. Tree(t)
    BY <2>2 DEF Sound, Tree, IsDir
  <2>14. Marked(s, t)
    BY <2>2, <2>5, <2>6 DEF Marked, EntryIds
  <2> QED
    BY <2>1, <2>8, <2>9, <2>11, <2>12, <2>13, <2>14 DEF FailsSafe, Done, Sound
<1> QED
  BY <1>2, <1>3

-----------------------------------------------------------------------------
(* Calls made of several *)

\* t comes from s by calls that make entries or write them.
Follows(s, t) == Sound(t) /\ Kept(s, t) /\ Marked(s, t) /\ Grows(s, t)

\* Calls that make or write entries, one after the other.
LEMMA FollowsTwice ==
  ASSUME NEW s, NEW t, NEW u, Follows(s, t), Follows(t, u)
  PROVE  Follows(s, u)
<1>1. Kept(s, u) /\ Marked(s, u)
  BY KeptTwice, MarkedTwice DEF Follows
<1>2. Grows(s, u)
  BY DEF Follows, Grows
<1> QED
  BY <1>1, <1>2 DEF Follows

\* No call at all.
LEMMA FollowsItself ==
  ASSUME NEW s, Sound(s)
  PROVE  Follows(s, s)
  BY SameEntries DEF Follows, Grows

\* A name that may be given stays one, unless it is given.
LEMMA NameableStays ==
  ASSUME NEW s, NEW t, Follows(s, t), NEW p, Nameable(s, p)
  PROVE  Nameable(t, p)
  BY DEF Follows, Grows, Nameable, IsDir

\* One call that makes an entry.
LEMMA MakesFollows ==
  ASSUME NEW s, NEW r, NEW p, NEW kind, Makes(s, r, p, kind)
  PROVE  Follows(s, r.s)
  BY DEF Makes, Effect, Follows

\* One more entry.
LEMMA GainsFollows ==
  ASSUME NEW s, NEW t, NEW p, NEW i, Gains(s, t, p, i)
  PROVE  Follows(s, t)
  BY DEF Gains, Effect, Follows, Done

\* A captured entry comes back in the form a write gives it.
Pipeline(e) == e.inode.kind = "file" => e.inode.comp = Stored(e.data).comp /\ e.inode.enc = Stored(e.data).enc

\* A captured entry is made again, written, or there already; then it takes the captured
\* metadata.
LEMMA RestoreEntryIs ==
  ASSUME NEW s, Sound(s), NEW p, Has(s, p) \/ Nameable(s, p),
         NEW e \in [inode : Inode, data : Seq(Int)], Pipeline(e)
  PROVE  Follows(s, RestoreEntry(s, p, e).s)
<1> DEFINE kind == e.inode.kind
           data == e.data
           c == e.inode
<1>1. /\ c \in Inode /\ data \in Seq(Int) /\ kind \in {"file", "dir", "link"}
      /\ kind = "link" => c.comp = FALSE /\ c.enc = FALSE
      /\ c.comp \in BOOLEAN /\ c.enc \in BOOLEAN /\ c.mode \in Nat
  BY DEF Inode
<1> DEFINE dir == CreateDirectory(s, p)
           link == CreateSymlink(s, p, data)
           file == CreateFile(s, p, data)
           write == WriteFile(s, p, data)
           r == CASE KindOf(s, p) = "none" /\ kind = "dir"  -> dir
                  [] KindOf(s, p) = "none" /\ kind = "link" -> link
                  [] KindOf(s, p) = "none" /\ kind = "file" -> file
                  [] KindOf(s, p) = "file" /\ kind = "file" -> write
                  [] KindOf(s, p) = kind /\ kind # "file"   -> Done(s)
                  [] OTHER -> Fail(s)
           F(i) == [i EXCEPT !.comp = c.comp, !.enc = c.enc, !.mode = c.mode]
           i0 == r.s.active[p]
           A == [r.s.active EXCEPT ![p] = F(i0)]
           t == [r.s EXCEPT !.active = A]
<1>2. RestoreEntry(s, p, e) = IF ~r.ok THEN r ELSE Done(t)
  BY DEF RestoreEntry
<1>3. ~Has(s, p) <=> KindOf(s, p) = "none"
  BY DEF KindOf, Has, Sound, Typed, Entries, Inode
<1>4. /\ ~Has(s, p) => Nameable(s, p)
      /\ Has(s, p) => p \in DOMAIN s.active /\ s.active[p].kind = KindOf(s, p) /\ s.active[p] \in Inode
  BY DEF KindOf, Has, Sound, Typed, Entries

\* The entry has the captured kind, and its form is the captured one.
<1> DEFINE Ready(x) ==
             /\ Follows(s, x.s)
             /\ x.ok => /\ p \in DOMAIN x.s.active /\ x.s.active[p].kind = kind
                        /\ kind = "file" => x.s.active[p].comp = c.comp /\ x.s.active[p].enc = c.enc
<1> HIDE DEF dir, link, file, write, F
<1>5. ASSUME ~Has(s, p), kind = "dir" PROVE Ready(dir)
  <2>1. Makes(s, dir, p, "dir")
    BY <1>4, <1>5, CreateDirectoryIs DEF dir
  <2> QED
    BY <1>5, <2>1, MakesFollows DEF Makes
<1>6. ASSUME ~Has(s, p), kind = "link" PROVE Ready(link)
  <2>1. Makes(s, link, p, "link")
    BY <1>1, <1>4, <1>6, CreateSymlinkIs DEF link
  <2> QED
    BY <1>6, <2>1, MakesFollows DEF Makes
<1>7. ASSUME ~Has(s, p), kind = "file" PROVE Ready(file)
  <2>1. Makes(s, file, p, "file") /\ (file.ok => \E id : file.s.active[p] = NewInode(id, "file", data))
    BY <1>1, <1>4, <1>7, CreateFileIs DEF file
  <2>2. Stored(data).comp \in BOOLEAN /\ Stored(data).enc \in BOOLEAN
    BY <1>1, StoredIs DEF Block
  <2>3. \A id : /\ NewInode(id, "file", data).comp = Stored(data).comp
                /\ NewInode(id, "file", data).enc = Stored(data).enc
    BY <2>2 DEF NewInode
  <2> QED
    BY <1>7, <2>1, <2>3, MakesFollows DEF Makes, Pipeline
<1>8. ASSUME KindOf(s, p) = "file", kind = "file" PROVE Ready(write)
  <2>1. /\ Makes(s, write, p, "file")
        /\ write.ok => write.s.active[p] = WithForm(s.active[p], Stored(data))
    BY <1>1, WriteFileIs DEF write
  <2>2. p \in DOMAIN s.active /\ s.active[p] \in Inode
    BY <1>3, <1>4, <1>8
  <2>3. /\ WithForm(s.active[p], Stored(data)).comp = Stored(data).comp
        /\ WithForm(s.active[p], Stored(data)).enc = Stored(data).enc
    BY <2>2 DEF WithForm, Inode
  <2> QED
    BY <1>8, <2>1, <2>3, MakesFollows DEF Makes, Pipeline
<1>9. KindOf(s, p) = kind /\ kind # "file" => Ready(Done(s))
  <2> SUFFICES ASSUME KindOf(s, p) = kind, kind # "file" PROVE Ready(Done(s))
    OBVIOUS
  <2>1. Done(s).s = s /\ Follows(s, s)
    BY FollowsItself DEF Done
  <2>2. p \in DOMAIN s.active /\ s.active[p].kind = kind
    BY <1>1, <1>3, <1>4
  <2> QED
    BY <2>1, <2>2
<1>10. Ready(Fail(s))
  <2>1. Fail(s).s = s /\ ~Fail(s).ok /\ Follows(s, s)
    BY FollowsItself DEF Fail
  <2> QED
    BY <2>1
<1>11. Ready(r)
  <2> HIDE DEF Ready
  <2> QED
    BY <1>3, <1>5, <1>6, <1>7, <1>8, <1>9, <1>10
<1> HIDE DEF r
<1>12. CASE ~r.ok
  BY <1>2, <1>11, <1>12
<1>13. CASE r.ok
  <2>1. Sound(r.s) /\ p \in DOMAIN r.s.active /\ i0.kind = kind
    BY <1>11, <1>13 DEF Follows
  <2>2. /\ i0 \in Inode
        /\ i0.kind # "dir" => Fits(i0, r.s.blocks[i0.id])
    BY <2>1, ReadFileIs
  <2> DEFINE i == F(i0)
  <2>3. /\ i \in Inode /\ i.id = i0.id /\ i.kind = i0.kind /\ i.comp = c.comp /\ i.enc = c.enc /\ i.size = i0.size
    BY <1>1, <2>1, <2>2 DEF Inode, F
  <2>4. i.kind # "dir" => i0.comp = c.comp /\ i0.enc = c.enc
    <3>1. CASE kind = "file"
      BY <1>11, <1>13, <3>1
    <3>2. CASE kind = "link"
      BY <1>1, <2>1, <2>2, <3>2 DEF Inode
    <3> QED
      BY <1>1, <2>1, <2>3, <3>1, <3>2
  <2>5. i.kind # "dir" => Fits(i, r.s.blocks[i.id])
    BY <2>2, <2>3, <2>4 DEF Fits
  <2> HIDE DEF i0, i
  <2>6. t = [r.s EXCEPT !.active = [r.s.active EXCEPT ![p] = i]]
    BY DEF i
  <2> HIDE DEF t
  <2>7. Gains(r.s, t, p, i)
    BY <2>1, <2>3, <2>5, <2>6, SetAttributes DEF i0
  <2>8. Follows(s, t)
    BY <1>11, <2>7, GainsFollows, FollowsTwice
  <2> QED
    BY <1>2, <1>13, <2>8 DEF Done
<1> QED
  BY <1>12, <1>13

\* The services between the entries that a rollback restores.
LEMMA RestoreChain ==
  ASSUME NEW s, NEW id \in DOMAIN s.snaps
  PROVE  \E w : /\ w[0] = s
                /\ \A k \in 1..Len(PathSeq) : w[k] = IF PathSeq[k] \in DOMAIN s.snaps[id]
                        THEN RestoreEntry(w[k - 1], PathSeq[k], s.snaps[id][PathSeq[k]]).s ELSE w[k - 1]
                /\ RestoreSnapshot(s, id) = Done(w[Len(PathSeq)])
<1> DEFINE Step(x, k) == IF PathSeq[k] \in DOMAIN s.snaps[id]
                        THEN RestoreEntry(x, PathSeq[k], s.snaps[id][PathSeq[k]]).s ELSE x
           L == Len(PathSeq)
           IsChain(w, m) == w = [k \in 0..m |-> IF k = 0 THEN s ELSE Step(w[k - 1], k)]
<1>1. RestoreSnapshot(s, id) = Done((CHOOSE w : IsChain(w, L))[L])
  BY DEF RestoreSnapshot
<1>2. L \in Nat
  BY PathsInOrder
<1> HIDE DEF Step, L
<1>3. \E w : IsChain(w, 0)
  <2> DEFINE w == [k \in 0..0 |-> s]
  <2>1. IsChain(w, 0)
    OBVIOUS
  <2> QED
    BY <2>1
<1>4. ASSUME NEW m \in Nat, NEW u, IsChain(u, m) PROVE \E w : IsChain(w, m + 1)
  <2> DEFINE w == [k \in 0..m + 1 |-> IF k = m + 1 THEN Step(u[m], m + 1) ELSE u[k]]
  <2>1. \A k \in 0..m : u[k] = IF k = 0 THEN s ELSE Step(u[k - 1], k)
    BY <1>4
  <2>2. /\ \A k \in 0..m : w[k] = u[k]
        /\ w[m + 1] = Step(u[m], m + 1)
        /\ \A k \in 1..m + 1 : w[k - 1] = u[k - 1]
    OBVIOUS
  <2>3. ASSUME NEW k \in 0..m + 1 PROVE w[k] = IF k = 0 THEN s ELSE Step(w[k - 1], k)
    <3> HIDE DEF w
    <3>1. CASE k = m + 1
      BY <2>2, <3>1
    <3>2. CASE k \in 0..m
      BY <2>1, <2>2, <3>2
    <3> QED
      BY <3>1, <3>2
  <2>4. IsChain(w, m + 1)
    BY <2>3
  <2> QED
    BY <2>4
<1>5. \E w : IsChain(w, L)
  <2> DEFINE T == {m \in Nat : \E w : IsChain(w, m)}
  <2> HIDE DEF IsChain
  <2>1. 0 \in T
    BY <1>3
  <2>2. ASSUME NEW m \in 1..L, m - 1 \in T PROVE m \in T
    <3>1. m - 1 \in Nat /\ (m - 1) + 1 = m /\ m \in Nat
      BY <1>2
    <3>2. \E w : IsChain(w, (m - 1) + 1)
      BY <1>4, <2>2, <3>1
    <3> QED
      BY <3>1, <3>2
  <2> HIDE DEF T
  <2>3. \A m \in 0..L : m \in T
    BY <1>2, <2>1, <2>2, UpTo
  <2>4. L \in 0..L
    BY <1>2
  <2> QED
    BY <2>3, <2>4 DEF T
<1> DEFINE F == CHOOSE w : IsChain(w, L)
<1>6. IsChain(F, L)
  BY <1>5
<1> HIDE DEF F
<1>7. F[0] = s /\ \A k \in 1..L : F[k] = Step(F[k - 1], k)
  <2>1. \A k \in 0..L : F[k] = IF k = 0 THEN s ELSE Step(F[k - 1], k)
    BY <1>6
  <2>2. 0 \in 0..L /\ \A k \in 1..L : k \in 0..L /\ k # 0
    BY <1>2
  <2> QED
    BY <2>1, <2>2
<1>8. RestoreSnapshot(s, id) = Done(F[L])
  BY <1>1 DEF F
<1> QED
  BY <1>7, <1>8 DEF L, Step

\* The services between the entries that a clone of a directory makes.
LEMMA CloneChain ==
  ASSUME NEW s, NEW from, NEW to, ~(KindOf(s, from) # "dir" \/ Has(s, to))
  PROVE  \E w : /\ w[0] = s
                /\ \A k \in 1..Len(PathSeq) : w[k] = IF Has(s, PathSeq[k]) /\ Under(from, PathSeq[k])
                        THEN CloneEntry(w[k - 1], PathSeq[k], Rebase(PathSeq[k], from, to)) ELSE w[k - 1]
                /\ CloneTree(s, from, to) = Done(w[Len(PathSeq)])
<1> DEFINE Step(x, k) == IF Has(s, PathSeq[k]) /\ Under(from, PathSeq[k])
                        THEN CloneEntry(x, PathSeq[k], Rebase(PathSeq[k], from, to)) ELSE x
           L == Len(PathSeq)
           IsChain(w, m) == w = [k \in 0..m |-> IF k = 0 THEN s ELSE Step(w[k - 1], k)]
<1>1. CloneTree(s, from, to) = Done((CHOOSE w : IsChain(w, L))[L])
  BY DEF CloneTree
<1>2. L \in Nat
  BY PathsInOrder
<1> HIDE DEF Step, L
<1>3. \E w : IsChain(w, 0)
  <2> DEFINE w == [k \in 0..0 |-> s]
  <2>1. IsChain(w, 0)
    OBVIOUS
  <2> QED
    BY <2>1
<1>4. ASSUME NEW m \in Nat, NEW u, IsChain(u, m) PROVE \E w : IsChain(w, m + 1)
  <2> DEFINE w == [k \in 0..m + 1 |-> IF k = m + 1 THEN Step(u[m], m + 1) ELSE u[k]]
  <2>1. \A k \in 0..m : u[k] = IF k = 0 THEN s ELSE Step(u[k - 1], k)
    BY <1>4
  <2>2. /\ \A k \in 0..m : w[k] = u[k]
        /\ w[m + 1] = Step(u[m], m + 1)
        /\ \A k \in 1..m + 1 : w[k - 1] = u[k - 1]
    OBVIOUS
  <2>3. ASSUME NEW k \in 0..m + 1 PROVE w[k] = IF k = 0 THEN s ELSE Step(w[k - 1], k)
    <3> HIDE DEF w
    <3>1. CASE k = m + 1
      BY <2>2, <3>1
    <3>2. CASE k \in 0..m
      BY <2>1, <2>2, <3>2
    <3> QED
      BY <3>1, <3>2
  <2>4. IsChain(w, m + 1)
    BY <2>3
  <2> QED
    BY <2>4
<1>5. \E w : IsChain(w, L)
  <2> DEFINE T == {m \in Nat : \E w : IsChain(w, m)}
  <2> HIDE DEF IsChain
  <2>1. 0 \in T
    BY <1>3
  <2>2. ASSUME NEW m \in 1..L, m - 1 \in T PROVE m \in T
    <3>1. m - 1 \in Nat /\ (m - 1) + 1 = m /\ m \in Nat
      BY <1>2
    <3>2. \E w : IsChain(w, (m - 1) + 1)
      BY <1>4, <2>2, <3>1
    <3> QED
      BY <3>1, <3>2
  <2> HIDE DEF T
  <2>3. \A m \in 0..L : m \in T
    BY <1>2, <2>1, <2>2, UpTo
  <2>4. L \in 0..L
    BY <1>2
  <2> QED
    BY <2>3, <2>4 DEF T
<1> DEFINE F == CHOOSE w : IsChain(w, L)
<1>6. IsChain(F, L)
  BY <1>5
<1> HIDE DEF F
<1>7. F[0] = s /\ \A k \in 1..L : F[k] = Step(F[k - 1], k)
  <2>1. \A k \in 0..L : F[k] = IF k = 0 THEN s ELSE Step(F[k - 1], k)
    BY <1>6
  <2>2. 0 \in 0..L /\ \A k \in 1..L : k \in 0..L /\ k # 0
    BY <1>2
  <2> QED
    BY <2>1, <2>2
<1>8. CloneTree(s, from, to) = Done(F[L])
  BY <1>1 DEF F
<1> QED
  BY <1>7, <1>8 DEF L, Step

\* The catalogs between the entries that a rename moves.
LEMMA MoveChain ==
  ASSUME NEW entries, DOMAIN entries \subseteq Paths, NEW from \in Seq(Name), NEW to \in Seq(Name)
  PROVE  \E w : /\ w[0] = entries
                /\ \A k \in 1..Len(PathSeq) : w[k] = IF PathSeq[k] \in DOMAIN entries /\ Under(from, PathSeq[k])
                        THEN MoveEntry(w[k - 1], PathSeq[k], Rebase(PathSeq[k], from, to)) ELSE w[k - 1]
                /\ MoveEntries(entries, from, to) = w[Len(PathSeq)]
<1> DEFINE Step(x, k) == IF PathSeq[k] \in DOMAIN entries /\ Under(from, PathSeq[k])
                        THEN MoveEntry(x, PathSeq[k], Rebase(PathSeq[k], from, to)) ELSE x
           L == Len(PathSeq)
           IsChain(w, m) == w = [k \in 0..m |-> IF k = 0 THEN entries ELSE Step(w[k - 1], k)]
<1>1. MoveEntries(entries, from, to) = (CHOOSE w : IsChain(w, L))[L]
  BY DEF MoveEntries
<1>2. L \in Nat
  BY PathsInOrder
<1> HIDE DEF Step, L
<1>3. \E w : IsChain(w, 0)
  <2> DEFINE w == [k \in 0..0 |-> entries]
  <2>1. IsChain(w, 0)
    OBVIOUS
  <2> QED
    BY <2>1
<1>4. ASSUME NEW m \in Nat, NEW u, IsChain(u, m) PROVE \E w : IsChain(w, m + 1)
  <2> DEFINE w == [k \in 0..m + 1 |-> IF k = m + 1 THEN Step(u[m], m + 1) ELSE u[k]]
  <2>1. \A k \in 0..m : u[k] = IF k = 0 THEN entries ELSE Step(u[k - 1], k)
    BY <1>4
  <2>2. /\ \A k \in 0..m : w[k] = u[k]
        /\ w[m + 1] = Step(u[m], m + 1)
        /\ \A k \in 1..m + 1 : w[k - 1] = u[k - 1]
    OBVIOUS
  <2>3. ASSUME NEW k \in 0..m + 1 PROVE w[k] = IF k = 0 THEN entries ELSE Step(w[k - 1], k)
    <3> HIDE DEF w
    <3>1. CASE k = m + 1
      BY <2>2, <3>1
    <3>2. CASE k \in 0..m
      BY <2>1, <2>2, <3>2
    <3> QED
      BY <3>1, <3>2
  <2>4. IsChain(w, m + 1)
    BY <2>3
  <2> QED
    BY <2>4
<1>5. \E w : IsChain(w, L)
  <2> DEFINE T == {m \in Nat : \E w : IsChain(w, m)}
  <2> HIDE DEF IsChain
  <2>1. 0 \in T
    BY <1>3
  <2>2. ASSUME NEW m \in 1..L, m - 1 \in T PROVE m \in T
    <3>1. m - 1 \in Nat /\ (m - 1) + 1 = m /\ m \in Nat
      BY <1>2
    <3>2. \E w : IsChain(w, (m - 1) + 1)
      BY <1>4, <2>2, <3>1
    <3> QED
      BY <3>1, <3>2
  <2> HIDE DEF T
  <2>3. \A m \in 0..L : m \in T
    BY <1>2, <2>1, <2>2, UpTo
  <2>4. L \in 0..L
    BY <1>2
  <2> QED
    BY <2>3, <2>4 DEF T
<1> DEFINE F == CHOOSE w : IsChain(w, L)
<1>6. IsChain(F, L)
  BY <1>5
<1> HIDE DEF F
<1>7. F[0] = entries /\ \A k \in 1..L : F[k] = Step(F[k - 1], k)
  <2>1. \A k \in 0..L : F[k] = IF k = 0 THEN entries ELSE Step(F[k - 1], k)
    BY <1>6
  <2>2. 0 \in 0..L /\ \A k \in 1..L : k \in 0..L /\ k # 0
    BY <1>2
  <2> QED
    BY <2>1, <2>2
<1>8. MoveEntries(entries, from, to) = F[L]
  BY <1>1 DEF F
<1> QED
  BY <1>7, <1>8 DEF L, Step

\* A rollback restores entry after entry; what it may not restore it leaves alone.
LEMMA RestoreSnapshotIs ==
  ASSUME NEW s, Sound(s), NEW id \in DOMAIN s.snaps,
         \A p \in DOMAIN s.snaps[id] : (Has(s, p) \/ Nameable(s, p)) /\ Pipeline(s.snaps[id][p])
  PROVE  Effect(s, RestoreSnapshot(s, id))
<1> DEFINE snap == s.snaps[id]
           N == Len(PathSeq)
<1>1. Captures(snap) /\ N \in Nat
  BY PathsInOrder DEF Sound, Typed
<1>2. PICK w :
         /\ w[0] = s
         /\ \A k \in 1..N : w[k] = IF PathSeq[k] \in DOMAIN snap
                                   THEN RestoreEntry(w[k - 1], PathSeq[k], snap[PathSeq[k]]).s ELSE w[k - 1]
         /\ RestoreSnapshot(s, id) = Done(w[N])
  BY RestoreChain
<1> HIDE DEF N
<1> DEFINE T == {k \in 0..N : Follows(s, w[k])}
<1>3. 0 \in T
  BY <1>1, <1>2, FollowsItself
<1>4. ASSUME NEW k \in 1..N, k - 1 \in T PROVE k \in T
  <2> DEFINE p == PathSeq[k]
             u == w[k - 1]
  <2>1. Follows(s, u) /\ Sound(u) /\ k \in 0..N
    BY <1>1, <1>4 DEF Follows
  <2>2. CASE p \notin DOMAIN snap
    BY <1>2, <2>1, <2>2
  <2>3. CASE p \in DOMAIN snap
    <3>1. w[k] = RestoreEntry(u, p, snap[p]).s
      BY <1>2, <2>3
    <3>2. snap[p] \in [inode : Inode, data : Seq(Int)] /\ Pipeline(snap[p])
      BY <1>1, <2>3 DEF Captures
    <3>3. Has(u, p) \/ Nameable(u, p)
      <4>1. CASE Has(s, p)
        BY <2>1, <4>1 DEF Follows, Grows, Has
      <4>2. CASE Nameable(s, p)
        BY <2>1, <4>2, NameableStays
      <4> QED
        BY <2>3, <4>1, <4>2
    <3> HIDE DEF p, u, snap
    <3>4. Follows(u, w[k])
      BY <2>1, <3>1, <3>2, <3>3, RestoreEntryIs
    <3> QED
      BY <2>1, <3>4, FollowsTwice
  <2> QED
    BY <2>2, <2>3
<1> HIDE DEF T
<1>5. \A k \in 0..N : k \in T
  BY <1>1, <1>3, <1>4, UpTo
<1>6. Follows(s, w[N])
  BY <1>1, <1>5 DEF T
<1> QED
  BY <1>2, <1>6 DEF Follows, Effect, FailsSafe, Done

\* A service that differs in its snapshots only.
LEMMA SnapsChange ==
  ASSUME NEW s, Sound(s), NEW t, DOMAIN t = Fields,
         t.active = s.active, t.deleted = s.deleted, t.tombs = s.tombs, t.blocks = s.blocks,
         t.next = s.next, t.recycled = s.recycled, t.dirty = s.dirty, t.txn = s.txn, t.wal = s.wal,
         t.journal \in Replay, t.journal.act = s.journal.act, t.journal.del = s.journal.del,
         \A id \in DOMAIN t.snaps : Captures(t.snaps[id])
  PROVE  Effect(s, Done(t))
<1>1. Typed(t)
  BY DEF Sound, Typed
<1>2. Owners(t) /\ Held(t) /\ Named(t)
  BY DEF Sound, Owners, Held, Named
<1>3. Tree(t)
  BY DEF Sound, Tree, IsDir
<1>4. Kept(s, t) /\ Marked(s, t)
  BY SameEntries
<1> QED
  BY <1>1, <1>2, <1>3, <1>4 DEF Effect, FailsSafe, Done, Sound

\* A snapshot captures what the entries read as.
LEMMA CreateSnapshotIs ==
  ASSUME NEW s, Sound(s), NEW scope
  PROVE  Effect(s, Done(CreateSnapshotScoped(s, scope)))
<1> DEFINE snap == Captured(s, scope)
           w == [s EXCEPT !.nexts = @ + 1, !.snaps = Put(@, s.nexts + 1, snap)]
           t == Record(w, "snapshot", <<>>)
<1>1. DOMAIN s = Fields /\ s.txn = NoTxn /\ s.journal \in Replay /\ s.tombs = s.deleted
      /\ \A id \in DOMAIN s.snaps : Captures(s.snaps[id])
  BY DEF Sound, Typed
<1>2. Captures(snap)
  <2>1. ASSUME NEW p \in DOMAIN snap
        PROVE  p \in Paths /\ snap[p] \in [inode : Inode, data : Seq(Int)]
    <3>1. p \in DOMAIN s.active /\ snap[p] = [inode |-> s.active[p], data |-> ReadFile(s, p).data]
      BY DEF Captured
    <3> HIDE DEF snap
    <3> QED
      BY <3>1, ReadFileIs
  <2>2. snap = [p \in DOMAIN snap |-> snap[p]]
    BY DEF Captured
  <2> HIDE DEF snap
  <2> QED
    BY <2>1, <2>2 DEF Captures
<1> HIDE DEF snap
<1>3. CreateSnapshotScoped(s, scope) = t
  BY DEF CreateSnapshotScoped, snap
<1>4. /\ DOMAIN w = Fields /\ w.txn = NoTxn /\ w.journal = s.journal /\ w.tombs = w.deleted
      /\ w.active = s.active /\ w.deleted = s.deleted /\ w.tombs = s.tombs /\ w.blocks = s.blocks
      /\ w.next = s.next /\ w.recycled = s.recycled /\ w.dirty = s.dirty /\ w.txn = s.txn /\ w.wal = s.wal
      /\ w.snaps = Put(s.snaps, s.nexts + 1, snap)
  BY <1>1 DEF Fields
<1> HIDE DEF w
<1>5. Becomes(w, t, w.active, w.deleted, w.blocks, w.next, w.recycled, Replayed(w.journal, "snapshot", <<>>), w.dirty)
  BY <1>1, <1>4, RecordIs
<1>6. \A id \in DOMAIN w.snaps : Captures(w.snaps[id])
  BY <1>1, <1>2, <1>4 DEF Put
<1>7. /\ Replayed(s.journal, "snapshot", <<>>) \in Replay
      /\ Replayed(s.journal, "snapshot", <<>>).act = s.journal.act
      /\ Replayed(s.journal, "snapshot", <<>>).del = s.journal.del
  BY <1>1 DEF Replay, Replayed
<1> HIDE DEF t
<1>8. Effect(s, Done(t))
  BY <1>1, <1>4, <1>5, <1>6, <1>7, SnapsChange DEF Becomes
<1> QED
  BY <1>3, <1>8

\* A snapshot goes, the entries stay.
LEMMA DeleteSnapshotIs ==
  ASSUME NEW s, Sound(s), NEW id
  PROVE  Effect(s, DeleteSnapshot(s, id))
<1>1. CASE id \notin DOMAIN s.snaps
  BY <1>1, FailIs DEF DeleteSnapshot
<1>2. CASE id \in DOMAIN s.snaps
  <2> DEFINE t == [s EXCEPT !.snaps = Drop(@, id)]
  <2>1. DeleteSnapshot(s, id) = Done(t)
    BY <1>2 DEF DeleteSnapshot
  <2>2. DOMAIN s = Fields /\ s.journal \in Replay /\ \A k \in DOMAIN s.snaps : Captures(s.snaps[k])
    BY DEF Sound, Typed
  <2>3. /\ DOMAIN t = Fields
        /\ t.active = s.active /\ t.deleted = s.deleted /\ t.tombs = s.tombs /\ t.blocks = s.blocks
        /\ t.next = s.next /\ t.recycled = s.recycled /\ t.dirty = s.dirty /\ t.txn = s.txn /\ t.wal = s.wal
        /\ t.journal = s.journal /\ t.snaps = Drop(s.snaps, id)
    BY <2>2 DEF Fields
  <2>4. \A k \in DOMAIN t.snaps : Captures(t.snaps[k])
    BY <2>2, <2>3 DEF Drop
  <2> HIDE DEF t
  <2>5. Effect(s, Done(t))
    BY <2>2, <2>3, <2>4, SnapsChange
  <2> QED
    BY <2>1, <2>5
<1> QED
  BY <1>1, <1>2

-----------------------------------------------------------------------------
(* Paths *)

\* A path is a non-empty sequence of names.
LEMMA PathsAre ==
  ASSUME NEW p \in Paths
  PROVE  p \in Seq(Name) /\ Len(p) \in Nat /\ Len(p) > 0
<1>1. p \in Seq(ToSet(p)) /\ p # <<>> /\ ToSet(p) \subseteq Name
  BY PathsInOrder DEF Name
<1> DEFINE X == ToSet(p)
<1> HIDE DEF X
<1>2. \A q \in Seq(X) : X \subseteq Name => q \in Seq(Name)
  OBVIOUS
<1>3. p \in Seq(Name)
  BY <1>1, <1>2 DEF X
<1>4. \A q \in Seq(Name) : Len(q) \in Nat /\ (q # <<>> => Len(q) > 0)
  OBVIOUS
<1> QED
  BY <1>1, <1>3, <1>4

\* Prefixes, one name after another.
LEMMA UnderIs ==
  ASSUME NEW a \in Seq(Name), NEW p \in Seq(Name)
  PROVE  Under(a, p) <=> Len(a) <= Len(p) /\ \A j \in 1..Len(a) : a[j] = p[j]
<1>1. Len(a) \in Nat /\ Len(p) \in Nat
  OBVIOUS
<1>2. SubSeq(a, 1, Len(a)) = a
  OBVIOUS
<1>3. ASSUME Len(a) <= Len(p)
      PROVE  a = SubSeq(p, 1, Len(a)) <=> \A j \in 1..Len(a) : a[j] = p[j]
  <2> DEFINE q == SubSeq(p, 1, Len(a))
  <2>1. q \in Seq(Name) /\ Len(q) = Len(a) /\ \A j \in 1..Len(a) : q[j] = p[j]
    BY <1>1, <1>3
  <2> HIDE DEF q
  <2>2. a = q <=> \A j \in 1..Len(a) : a[j] = q[j]
    BY <2>1
  <2> QED
    BY <2>1, <2>2 DEF q
<1> QED
  BY <1>1, <1>2, <1>3 DEF Under, IsPrefix

\* The parent of a path.
LEMMA FrontIs ==
  ASSUME NEW p \in Seq(Name), Len(p) > 0
  PROVE  /\ Front(p) \in Seq(Name) /\ Len(Front(p)) = Len(p) - 1
         /\ \A j \in 1..Len(p) - 1 : Front(p)[j] = p[j]
<1> DEFINE n == Len(p) - 1
           q == SubSeq(p, 1, n)
<1>1. Len(p) \in Nat /\ n \in Nat /\ n <= Len(p) /\ \A j \in 1..n : j \in 1..Len(p)
  OBVIOUS
<1> HIDE DEF n
<1>2. q \in Seq(Name) /\ Len(q) = n /\ \A j \in 1..n : q[j] = p[j]
  BY <1>1
<1> HIDE DEF q
<1>3. Front(p) = q
  BY DEF Front, n, q
<1> QED
  BY <1>2, <1>3 DEF n

\* A path under from, under another name.
LEMMA RebaseIs ==
  ASSUME NEW a \in Seq(Name), NEW b \in Seq(Name), NEW p \in Seq(Name), Under(a, p)
  PROVE  LET q == Rebase(p, a, b)
         IN  /\ q \in Seq(Name) /\ Len(q) = Len(b) + Len(p) - Len(a)
             /\ \A j \in 1..Len(b) : q[j] = b[j]
             /\ \A j \in 1..Len(p) - Len(a) : q[Len(b) + j] = p[Len(a) + j]
<1> DEFINE m == Len(a)
           n == Len(p)
           l == Len(b)
           r == SubSeq(p, m + 1, n)
           q == b \o r
<1>1. m \in Nat /\ n \in Nat /\ l \in Nat /\ m <= n
  BY UnderIs
<1>2. r \in Seq(Name) /\ Len(r) = n - m /\ \A j \in 1..n - m : r[j] = p[m + j]
  <2>1. m + 1 \in Nat /\ m + 1 <= n + 1 /\ m + 1 >= 1
    BY <1>1
  <2>2. \A j \in m + 1 .. n : j \in 1..n
    BY <1>1
  <2> QED
    BY <1>1, <2>1, <2>2
<1> HIDE DEF r
<1>3. q \in Seq(Name) /\ Len(q) = l + (n - m) /\ (\A j \in 1..l : q[j] = b[j])
      /\ \A j \in 1..n - m : q[l + j] = r[j]
  <2>1. q \in Seq(Name) /\ Len(q) = l + Len(r)
    <3>1. \A c, d \in Seq(Name) : c \o d \in Seq(Name) /\ Len(c \o d) = Len(c) + Len(d)
      OBVIOUS
    <3>2. r \in Seq(Name)
      BY <1>2
    <3> QED
      BY <3>1, <3>2
  <2>2. \A c, d \in Seq(Name) : \A j \in 1..Len(c) + Len(d) :
           (c \o d)[j] = IF j <= Len(c) THEN c[j] ELSE d[j - Len(c)]
    OBVIOUS
  <2>3. \A j \in 1..l + Len(r) : q[j] = IF j <= l THEN b[j] ELSE r[j - l]
    BY <1>2, <2>2
  <2> HIDE DEF q
  <2>4. ASSUME NEW j \in 1..l PROVE q[j] = b[j]
    <3>1. j \in 1..l + Len(r) /\ j <= l
      BY <1>1, <1>2
    <3> QED
      BY <2>3, <3>1
  <2>5. ASSUME NEW j \in 1..n - m PROVE q[l + j] = r[j]
    <3>1. l + j \in 1..l + Len(r) /\ (l + j) - l = j /\ ~(l + j <= l)
      BY <1>1, <1>2
    <3> QED
      BY <2>3, <3>1
  <2> QED
    BY <1>2, <2>1, <2>4, <2>5
<1>4. Rebase(p, a, b) = q
  BY DEF Rebase, r
<1> HIDE DEF q
<1>5. Len(q) = l + n - m
  BY <1>1, <1>3
<1> QED
  BY <1>2, <1>3, <1>4, <1>5

\* Two paths with the same names are the same.
LEMMA SamePath ==
  ASSUME NEW p \in Seq(Name), NEW q \in Seq(Name), Len(p) = Len(q), \A j \in 1..Len(p) : p[j] = q[j]
  PROVE  p = q
OBVIOUS

\* Two paths do not move to the same name.
LEMMA RebaseInjective ==
  ASSUME NEW a \in Seq(Name), NEW b \in Seq(Name), NEW p \in Seq(Name), NEW q \in Seq(Name),
         Under(a, p), Under(a, q), Rebase(p, a, b) = Rebase(q, a, b)
  PROVE  p = q
<1> DEFINE r == Rebase(p, a, b)
           r2 == Rebase(q, a, b)
<1>1. /\ Len(r) = Len(b) + Len(p) - Len(a) /\ Len(r) = Len(b) + Len(q) - Len(a)
      /\ \A j \in 1..Len(p) - Len(a) : r[Len(b) + j] = p[Len(a) + j]
      /\ \A j \in 1..Len(q) - Len(a) : r[Len(b) + j] = q[Len(a) + j]
  <2>1. /\ Len(r) = Len(b) + Len(p) - Len(a)
        /\ \A j \in 1..Len(p) - Len(a) : r[Len(b) + j] = p[Len(a) + j]
    BY RebaseIs
  <2>2. /\ Len(r2) = Len(b) + Len(q) - Len(a)
        /\ \A j \in 1..Len(q) - Len(a) : r2[Len(b) + j] = q[Len(a) + j]
    BY RebaseIs
  <2>3. r = r2
    OBVIOUS
  <2> HIDE DEF r, r2
  <2> QED
    BY <2>1, <2>2, <2>3
<1>2. Len(a) \in Nat /\ Len(b) \in Nat /\ Len(p) \in Nat /\ Len(q) \in Nat
  OBVIOUS
<1>3. Len(p) = Len(q)
  <2>1. \A i, j, k, l \in Nat : i + j - k = i + l - k => j = l
    OBVIOUS
  <2>2. Len(b) + Len(p) - Len(a) = Len(b) + Len(q) - Len(a)
    BY <1>1
  <2> QED
    BY <1>2, <2>1, <2>2
<1>4. Len(a) <= Len(p) /\ \A j \in 1..Len(a) : p[j] = a[j] /\ q[j] = a[j]
  BY UnderIs
<1> HIDE DEF r
<1>5. ASSUME NEW j \in 1..Len(p) PROVE p[j] = q[j]
  <2>1. CASE j <= Len(a)
    <3>1. j \in 1..Len(a)
      BY <1>2, <2>1
    <3> QED
      BY <1>4, <3>1
  <2>2. CASE ~(j <= Len(a))
    <3> DEFINE i == j - Len(a)
    <3>1. i \in 1..Len(p) - Len(a) /\ Len(a) + i = j
      BY <1>2, <2>2
    <3> HIDE DEF i
    <3> QED
      BY <1>1, <1>3, <3>1
  <2> QED
    BY <2>1, <2>2
<1> QED
  BY <1>3, <1>5, SamePath

\* A moved path lies under the new name.
LEMMA RebaseUnder ==
  ASSUME NEW a \in Seq(Name), NEW b \in Seq(Name), NEW p \in Seq(Name), Under(a, p)
  PROVE  Under(b, Rebase(p, a, b))
<1> DEFINE q == Rebase(p, a, b)
<1>1. /\ q \in Seq(Name) /\ Len(q) = Len(b) + Len(p) - Len(a)
      /\ \A j \in 1..Len(b) : q[j] = b[j]
  BY RebaseIs
<1>2. Len(a) \in Nat /\ Len(b) \in Nat /\ Len(p) \in Nat /\ Len(a) <= Len(p)
  BY UnderIs
<1> HIDE DEF q
<1>3. Len(b) <= Len(q)
  BY <1>1, <1>2
<1>4. Under(b, q)
  BY <1>1, <1>3, UnderIs
<1> QED
  BY <1>4 DEF q

\* The moved entry itself takes the new name.
LEMMA RebaseItself ==
  ASSUME NEW a \in Seq(Name), NEW b \in Seq(Name)
  PROVE  Under(a, a) /\ Rebase(a, a, b) = b
<1>1. Under(a, a)
  BY UnderIs
<1> DEFINE q == Rebase(a, a, b)
<1>2. q \in Seq(Name) /\ Len(q) = Len(b) + Len(a) - Len(a) /\ \A j \in 1..Len(b) : q[j] = b[j]
  BY <1>1, RebaseIs
<1> HIDE DEF q
<1>3. Len(q) = Len(b)
  BY <1>2
<1>4. q = b
  BY <1>2, <1>3, SamePath
<1> QED
  BY <1>1, <1>4 DEF q

\* A path whose parent lies under a lies under a.
LEMMA UnderFront ==
  ASSUME NEW a \in Seq(Name), NEW p \in Seq(Name), Len(p) > 0, Under(a, Front(p))
  PROVE  Under(a, p)
<1>1. Front(p) \in Seq(Name) /\ Len(Front(p)) = Len(p) - 1 /\ \A j \in 1..Len(p) - 1 : Front(p)[j] = p[j]
  BY FrontIs
<1>2. Len(a) <= Len(Front(p)) /\ \A j \in 1..Len(a) : a[j] = Front(p)[j]
  BY <1>1, UnderIs
<1>3. Len(a) \in Nat /\ Len(p) \in Nat
  OBVIOUS
<1>4. Len(a) <= Len(p) /\ \A j \in 1..Len(a) : j \in 1..Len(p) - 1
  BY <1>1, <1>2, <1>3
<1>5. \A j \in 1..Len(a) : a[j] = p[j]
  BY <1>1, <1>2, <1>4
<1> QED
  BY <1>4, <1>5, UnderIs

\* The parent of a path strictly under a.
LEMMA FrontUnder ==
  ASSUME NEW a \in Seq(Name), NEW p \in Seq(Name), Under(a, p), p # a
  PROVE  Len(p) > Len(a) /\ Under(a, Front(p))
<1>1. Len(a) \in Nat /\ Len(p) \in Nat /\ Len(a) <= Len(p) /\ \A j \in 1..Len(a) : a[j] = p[j]
  BY UnderIs
<1>2. Len(p) > Len(a)
  <2>1. CASE Len(a) = Len(p)
    BY <1>1, <2>1, SamePath
  <2> QED
    BY <1>1, <2>1
<1>3. Front(p) \in Seq(Name) /\ Len(Front(p)) = Len(p) - 1 /\ \A j \in 1..Len(p) - 1 : Front(p)[j] = p[j]
  BY <1>1, <1>2, FrontIs
<1>4. Len(a) <= Len(Front(p)) /\ \A j \in 1..Len(a) : j \in 1..Len(p) - 1
  BY <1>1, <1>2, <1>3
<1>5. \A j \in 1..Len(a) : a[j] = Front(p)[j]
  BY <1>1, <1>3, <1>4
<1> QED
  BY <1>2, <1>3, <1>4, <1>5, UnderIs

\* The parent of a moved path is its moved parent.
LEMMA RebaseFront ==
  ASSUME NEW a \in Seq(Name), NEW b \in Seq(Name), NEW p \in Seq(Name), Under(a, p), p # a
  PROVE  Front(Rebase(p, a, b)) = Rebase(Front(p), a, b)
<1> DEFINE q == Rebase(p, a, b)
           f == Front(q)
           g == Front(p)
           r == Rebase(g, a, b)
           l == Len(b)
           m == Len(a)
           n == Len(p)
<1>1. n > m /\ Under(a, g) /\ n \in Nat /\ m \in Nat /\ l \in Nat
  BY FrontUnder
<1>2. /\ q \in Seq(Name) /\ Len(q) = l + n - m
      /\ \A j \in 1..l : q[j] = b[j]
      /\ \A j \in 1..n - m : q[l + j] = p[m + j]
  BY RebaseIs
<1>3. g \in Seq(Name) /\ Len(g) = n - 1 /\ \A j \in 1..n - 1 : g[j] = p[j]
  BY <1>1, FrontIs
<1>4. /\ r \in Seq(Name) /\ Len(r) = l + Len(g) - m
      /\ \A j \in 1..l : r[j] = b[j]
      /\ \A j \in 1..Len(g) - m : r[l + j] = g[m + j]
  BY <1>1, <1>3, RebaseIs
<1>5. Len(q) > 0
  BY <1>1, <1>2
<1>6. f \in Seq(Name) /\ Len(f) = Len(q) - 1 /\ \A j \in 1..Len(q) - 1 : f[j] = q[j]
  BY <1>2, <1>5, FrontIs
<1> HIDE DEF q, f, g, r
<1>7. Len(f) = Len(r) /\ Len(f) = l + (n - 1) - m
  BY <1>1, <1>2, <1>3, <1>4, <1>6
<1>8. ASSUME NEW j \in 1..Len(f) PROVE f[j] = r[j]
  <2>1. f[j] = q[j]
    BY <1>6
  <2>2. CASE j <= l
    <3>1. j \in 1..l
      BY <1>1, <2>2
    <3> QED
      BY <1>2, <1>4, <2>1, <3>1
  <2>3. CASE ~(j <= l)
    <3> DEFINE i == j - l
    <3>1. /\ i \in 1..n - m /\ i \in 1..Len(g) - m /\ l + i = j /\ m + i \in 1..n - 1
      BY <1>1, <1>3, <1>7, <2>3
    <3> HIDE DEF i
    <3>2. q[j] = p[m + i] /\ r[j] = g[m + i]
      BY <1>2, <1>4, <3>1
    <3> QED
      BY <1>3, <2>1, <3>1, <3>2
  <2> QED
    BY <2>2, <2>3
<1>9. f = r
  BY <1>4, <1>6, <1>7, <1>8, SamePath
<1> QED
  BY <1>9 DEF f, g, q, r

\* Nothing lies under a name that is not in use.
LEMMA NothingUnder ==
  ASSUME NEW s, Sound(s), NEW a \in Paths, a \notin DOMAIN s.active
  PROVE  \A p \in DOMAIN s.active : ~Under(a, p)
<1> DEFINE T == {Len(p) : p \in {q \in DOMAIN s.active : Under(a, q)}}
<1> SUFFICES ASSUME NEW x \in DOMAIN s.active, Under(a, x) PROVE FALSE
  OBVIOUS
<1>1. DOMAIN s.active \subseteq Paths
  BY DEF Sound, Typed, Entries
<1>2. T \in SUBSET Nat /\ Len(x) \in T
  BY <1>1, PathsAre
<1>3. PICK n \in T : \A k \in T : n <= k
  BY <1>2, LeastNat
<1>4. PICK p \in DOMAIN s.active : Under(a, p) /\ n = Len(p)
  BY <1>3
<1>5. p \in Seq(Name) /\ a \in Seq(Name) /\ p # a /\ Len(p) \in Nat /\ Len(a) \in Nat /\ Len(a) > 0
  BY <1>1, <1>4, PathsAre
<1>6. Len(p) > Len(a) /\ Under(a, Front(p))
  BY <1>4, <1>5, FrontUnder
<1>7. ~Top(p)
  BY <1>5, <1>6 DEF Top
<1>8. Front(p) \in DOMAIN s.active
  BY <1>4, <1>7 DEF Sound, Tree, IsDir
<1>9. Len(Front(p)) = Len(p) - 1
  BY <1>5, <1>6, FrontIs
<1>10. Len(Front(p)) \in T
  BY <1>6, <1>8
<1>11. n <= Len(Front(p))
  BY <1>3, <1>10
<1> HIDE DEF T
<1> QED
  BY <1>4, <1>5, <1>9, <1>11

-----------------------------------------------------------------------------
(* Renaming and cloning a tree *)

\* The name of p once the first k paths have moved, and once all have.
MovedName(p, from, to, k) ==
    IF Under(from, p) /\ \E j \in 1..k : PathSeq[j] = p THEN Rebase(p, from, to) ELSE p

NewName(p, from, to) == IF Under(from, p) THEN Rebase(p, from, to) ELSE p

\* E is the entries A under the names that the first k moves gave them.
HasMoved(A, E, from, to, k) ==
    /\ E \in [DOMAIN E -> Inode]
    /\ \A x \in DOMAIN A : MovedName(x, from, to, k) \in DOMAIN E /\ E[MovedName(x, from, to, k)] = A[x]
    /\ \A y \in DOMAIN E : \E x \in DOMAIN A : y = MovedName(x, from, to, k)

\* Each path is listed, and once.
LEMMA PathSeqIs ==
  /\ Len(PathSeq) \in Nat
  /\ \A k \in 1..Len(PathSeq) : PathSeq[k] \in Paths
  /\ \A j, k \in 1..Len(PathSeq) : PathSeq[j] = PathSeq[k] => j = k
  /\ \A p \in Paths : \E k \in 1..Len(PathSeq) : PathSeq[k] = p
<1>1. PathSeq \in Seq(Paths) /\ IsInjective(PathSeq)
  BY PathsInOrder
<1>2. DOMAIN PathSeq = 1..Len(PathSeq) /\ Len(PathSeq) \in Nat
  BY <1>1
<1>3. \A j, k \in DOMAIN PathSeq : PathSeq[j] = PathSeq[k] => j = k
  BY <1>1 DEF IsInjective
<1>4. Paths = {PathSeq[k] : k \in DOMAIN PathSeq}
  BY DEF Paths, ToSet
<1> QED
  BY <1>2, <1>3, <1>4

\* One more move: the entry is taken out under its old name and put in under the new.
LEMMA MoveEntryIs ==
  ASSUME NEW A, DOMAIN A \subseteq Paths, NEW from \in Seq(Name), NEW to \in Seq(Name),
         \A p \in DOMAIN A : Under(from, p) => Rebase(p, from, to) \notin DOMAIN A,
         NEW k \in 1..Len(PathSeq), NEW E, HasMoved(A, E, from, to, k - 1)
  PROVE  HasMoved(A, IF PathSeq[k] \in DOMAIN A /\ Under(from, PathSeq[k])
                     THEN MoveEntry(E, PathSeq[k], Rebase(PathSeq[k], from, to)) ELSE E, from, to, k)
<1> DEFINE p == PathSeq[k]
           q == Rebase(p, from, to)
           O(x) == MovedName(x, from, to, k - 1)
           N(x) == MovedName(x, from, to, k)
<1>1. \A j \in 1..k - 1 : j \in 1..k /\ PathSeq[j] # p
  BY PathSeqIs
<1>2. \A j \in 1..k : j \in 1..k - 1 \/ j = k
  BY PathSeqIs
<1>3. k \in 1..k
  BY PathSeqIs
<1>4. /\ E \in [DOMAIN E -> Inode]
      /\ \A x \in DOMAIN A : O(x) \in DOMAIN E /\ E[O(x)] = A[x]
      /\ \A y \in DOMAIN E : \E x \in DOMAIN A : y = O(x)
  BY DEF HasMoved
<1>5. CASE ~(p \in DOMAIN A /\ Under(from, p))
  <2>1. \A x \in DOMAIN A : N(x) = O(x)
    BY <1>1, <1>2, <1>5 DEF MovedName
  <2> QED
    BY <1>4, <1>5, <2>1 DEF HasMoved
<1>6. CASE p \in DOMAIN A /\ Under(from, p)
  <2>1. O(p) = p /\ N(p) = q
    BY <1>1, <1>3, <1>6 DEF MovedName
  <2>2. \A x \in DOMAIN A : x # p => N(x) = O(x)
    BY <1>1, <1>2 DEF MovedName
  <2>3. \A x \in DOMAIN A : x # p => O(x) # p /\ O(x) # q
    <3> SUFFICES ASSUME NEW x \in DOMAIN A, x # p PROVE O(x) # p /\ O(x) # q
      OBVIOUS
    <3>1. O(x) = x \/ (Under(from, x) /\ O(x) = Rebase(x, from, to))
      BY DEF MovedName
    <3>2. q \notin DOMAIN A
      BY <1>6
    <3>3. Under(from, x) => Rebase(x, from, to) \notin DOMAIN A /\ Rebase(x, from, to) # q
      BY <1>6, PathsAre, RebaseInjective
    <3> QED
      BY <1>6, <3>1, <3>2, <3>3
  <2> DEFINE F == MoveEntry(E, p, q)
  <2> HIDE DEF O, N, q, p
  <2>4. p \in DOMAIN E /\ E[p] = A[p] /\ E[p] \in Inode
    BY <1>4, <1>6, <2>1
  <2>5. /\ DOMAIN F = (DOMAIN E \ {p}) \cup {q} /\ F \in [DOMAIN F -> Inode] /\ F[q] = A[p]
        /\ \A y \in DOMAIN E : y # p /\ y # q => F[y] = E[y]
    BY <1>4, <2>4 DEF MoveEntry, Put, Drop
  <2> HIDE DEF F
  <2>6. \A x \in DOMAIN A : N(x) \in DOMAIN F /\ F[N(x)] = A[x]
    BY <1>4, <2>1, <2>2, <2>3, <2>5
  <2>7. \A y \in DOMAIN F : \E x \in DOMAIN A : y = N(x)
    BY <1>4, <1>6, <2>1, <2>2, <2>5
  <2>8. HasMoved(A, F, from, to, k)
    BY <2>5, <2>6, <2>7 DEF HasMoved, N
  <2> QED
    BY <1>6, <2>8 DEF F, p, q
<1> QED
  BY <1>5, <1>6

\* After all moves every entry has its new name, and there is no other.
LEMMA MoveEntriesIs ==
  ASSUME NEW A, DOMAIN A \subseteq Paths, A \in [DOMAIN A -> Inode],
         NEW from \in Seq(Name), NEW to \in Seq(Name),
         \A p \in DOMAIN A : Under(from, p) => Rebase(p, from, to) \notin DOMAIN A
  PROVE  LET E == MoveEntries(A, from, to)
         IN  /\ E \in [DOMAIN E -> Inode]
             /\ \A x \in DOMAIN A : NewName(x, from, to) \in DOMAIN E /\ E[NewName(x, from, to)] = A[x]
             /\ \A y \in DOMAIN E : \E x \in DOMAIN A : y = NewName(x, from, to)
<1>0. PICK w : /\ w[0] = A
               /\ \A k \in 1..Len(PathSeq) : w[k] = IF PathSeq[k] \in DOMAIN A /\ Under(from, PathSeq[k])
                       THEN MoveEntry(w[k - 1], PathSeq[k], Rebase(PathSeq[k], from, to)) ELSE w[k - 1]
               /\ MoveEntries(A, from, to) = w[Len(PathSeq)]
  BY MoveChain
<1> DEFINE n == Len(PathSeq)
           Step(x, k) == IF PathSeq[k] \in DOMAIN A /\ Under(from, PathSeq[k])
                         THEN MoveEntry(x, PathSeq[k], Rebase(PathSeq[k], from, to)) ELSE x
<1>1. /\ w[0] = A
      /\ \A k \in 1..n : w[k] = Step(w[k - 1], k)
      /\ MoveEntries(A, from, to) = w[n]
  BY <1>0
<1> DEFINE T == {k \in 0..n : HasMoved(A, w[k], from, to, k)}
<1>2. n \in Nat
  BY PathSeqIs
<1>3. 0 \in T
  <2>1. \A x : MovedName(x, from, to, 0) = x
    BY DEF MovedName
  <2> QED
    BY <1>1, <1>2, <2>1 DEF HasMoved
<1>4. ASSUME NEW k \in 1..n, k - 1 \in T PROVE k \in T
  <2>1. HasMoved(A, w[k - 1], from, to, k - 1) /\ k \in 0..n
    BY <1>2, <1>4
  <2>2. HasMoved(A, Step(w[k - 1], k), from, to, k)
    BY <2>1, MoveEntryIs
  <2> QED
    BY <1>1, <2>1, <2>2
<1> HIDE DEF T
<1>5. \A k \in 0..n : k \in T
  BY <1>2, <1>3, <1>4, UpTo
<1>6. HasMoved(A, w[n], from, to, n)
  BY <1>2, <1>5 DEF T
<1>7. \A x \in DOMAIN A : MovedName(x, from, to, n) = NewName(x, from, to)
  BY PathSeqIs DEF MovedName, NewName
<1> DEFINE E == w[n]
<1>8. MoveEntries(A, from, to) = E
  BY <1>1
<1> HIDE DEF E, n
<1>9. /\ E \in [DOMAIN E -> Inode]
      /\ \A x \in DOMAIN A : MovedName(x, from, to, n) \in DOMAIN E /\ E[MovedName(x, from, to, n)] = A[x]
      /\ \A y \in DOMAIN E : \E x \in DOMAIN A : y = MovedName(x, from, to, n)
  BY <1>6 DEF HasMoved, E
<1> QED
  BY <1>7, <1>8, <1>9

\* A rename gives every entry under from its new name, and touches nothing else.
LEMMA RenameEntryIs ==
  ASSUME NEW s, Sound(s), NEW from \in Paths, NEW to \in Paths, to \notin DOMAIN s.active,
         ~IsStrictPrefix(from, to), Top(to) \/ IsDir(s, Front(to)),
         \A p \in DOMAIN s.active : Under(from, p) =>
            LET q == Rebase(p, from, to)
            IN  q \in Paths /\ q \notin DOMAIN s.deleted /\ q \notin s.journal.del
  PROVE  Effect(s, RenameEntry(s, from, to))
<1>1. CASE ~Has(s, from)
  BY <1>1, FailIs DEF RenameEntry
<1>2. CASE Has(s, from)
  <2> DEFINE A == s.active
             E == MoveEntries(A, from, to)
             N(x) == NewName(x, from, to)
             t == [s EXCEPT !.active = E]
  <2>1. RenameEntry(s, from, to) = Done(t)
    BY <1>2 DEF RenameEntry, Has
  <2>2. DOMAIN A \subseteq Paths /\ A \in [DOMAIN A -> Inode]
    BY DEF Sound, Typed, Entries
  <2>3. from \in Seq(Name) /\ to \in Seq(Name) /\ Len(from) > 0 /\ Len(to) > 0
    BY PathsAre
  <2>4. \A p \in DOMAIN A : p \in Seq(Name)
    BY <2>2, PathsAre
  <2>5. \A p \in DOMAIN A : Under(from, p) => Rebase(p, from, to) \notin DOMAIN A
    <3>1. \A p \in DOMAIN s.active : ~Under(to, p)
      BY NothingUnder
    <3> QED
      BY <2>3, <2>4, <3>1, RebaseUnder
  <2>6. /\ E \in [DOMAIN E -> Inode]
        /\ \A x \in DOMAIN A : N(x) \in DOMAIN E /\ E[N(x)] = A[x]
        /\ \A y \in DOMAIN E : \E x \in DOMAIN A : y = N(x)
    BY <2>2, <2>3, <2>5, MoveEntriesIs
  <2>7. \A x \in DOMAIN A : N(x) \in Paths /\ N(x) \notin DOMAIN s.deleted /\ N(x) \notin s.journal.del
    BY <2>2 DEF NewName, Sound, Named
  <2>8. \A x \in DOMAIN A : ~Under(from, x) => N(x) = x
    BY DEF NewName
  <2>9. \A x \in DOMAIN A : Under(from, x) => N(x) = Rebase(x, from, to)
    BY DEF NewName
  <2>10. DOMAIN s = Fields
    BY DEF Sound, Typed
  <2>11. /\ DOMAIN t = Fields /\ t.active = E /\ t.deleted = s.deleted /\ t.tombs = s.tombs
         /\ t.blocks = s.blocks /\ t.next = s.next /\ t.recycled = s.recycled /\ t.journal = s.journal
         /\ t.dirty = s.dirty /\ t.txn = s.txn /\ t.wal = s.wal /\ t.snaps = s.snaps
    BY <2>10 DEF Fields
  <2> HIDE DEF t
  <2>12. Tree(t)
    <3> SUFFICES ASSUME NEW y \in DOMAIN E PROVE Top(y) \/ IsDir(t, Front(y))
      BY <2>11 DEF Tree
    <3>1. PICK x \in DOMAIN A : y = N(x)
      BY <2>6
    <3>2. Top(x) \/ (Front(x) \in DOMAIN A /\ A[Front(x)].kind = "dir")
      BY DEF Sound, Tree, IsDir
    <3>3. x \in Seq(Name) /\ Len(x) > 0
      BY <2>2, PathsAre
    <3>4. ASSUME NEW d \in DOMAIN A, A[d].kind = "dir" PROVE IsDir(t, N(d))
      BY <2>6, <2>11, <3>4 DEF IsDir
    <3>5. CASE ~Under(from, x)
      <4>1. y = x
        BY <2>8, <3>1, <3>5
      <4>2. ~Under(from, Front(x))
        BY <2>3, <3>3, <3>5, UnderFront
      <4>3. Front(x) \in DOMAIN A => N(Front(x)) = Front(x)
        BY <2>8, <4>2
      <4> HIDE DEF N
      <4> QED
        BY <3>2, <3>4, <4>1, <4>3
    <3>6. CASE Under(from, x) /\ x # from
      <4>1. Len(x) > Len(from) /\ Under(from, Front(x))
        BY <2>3, <3>3, <3>6, FrontUnder
      <4>2. Front(Rebase(x, from, to)) = Rebase(Front(x), from, to)
        BY <2>3, <3>3, <3>6, RebaseFront
      <4>3. ~Top(x)
        BY <2>3, <3>3, <4>1 DEF Top
      <4>4. Front(x) \in DOMAIN A => N(Front(x)) = Rebase(Front(x), from, to)
        BY <2>9, <4>1
      <4>5. y = Rebase(x, from, to)
        BY <2>9, <3>1, <3>6
      <4> HIDE DEF N
      <4> QED
        BY <3>2, <3>4, <4>2, <4>3, <4>4, <4>5
    <3>7. CASE x = from
      <4>1. y = to
        BY <2>3, <2>9, <3>1, <3>7, RebaseItself
      <4>2. ASSUME ~Top(to) PROVE Front(to) \in DOMAIN A /\ A[Front(to)].kind = "dir" /\ ~Under(from, Front(to))
        <5>1. IsDir(s, Front(to))
          BY <4>2
        <5>2. ASSUME Under(from, Front(to)) PROVE FALSE
          <6>1. Under(from, to)
            BY <2>3, <5>2, UnderFront
          <6>2. from = to
            BY <6>1 DEF Under, IsStrictPrefix
          <6> QED
            BY <1>2, <6>2 DEF Has
        <5> QED
          BY <5>1, <5>2 DEF IsDir
      <4>3. ~Top(to) => N(Front(to)) = Front(to)
        BY <2>8, <4>2
      <4> HIDE DEF N
      <4> QED
        BY <3>4, <4>1, <4>2, <4>3
    <3> QED
      BY <3>5, <3>6, <3>7
  <2> HIDE DEF A, E, N
  <2>13. Typed(t)
    <3>1. DOMAIN E \subseteq Paths
      BY <2>6, <2>7
    <3> QED
      BY <2>6, <2>11, <3>1 DEF Sound, Typed, Entries
  <2>14. EntryIds(t.active) = EntryIds(s.active)
    <3>1. \A y \in DOMAIN E : \E x \in DOMAIN A : E[y] = A[x]
      BY <2>6
    <3> QED
      BY <2>6, <2>11, <3>1 DEF EntryIds, A
  <2>15. \A y, z \in DOMAIN E : E[y].id = E[z].id => y = z
    <3> SUFFICES ASSUME NEW y \in DOMAIN E, NEW z \in DOMAIN E, E[y].id = E[z].id PROVE y = z
      OBVIOUS
    <3>1. PICK a \in DOMAIN A : y = N(a)
      BY <2>6
    <3>2. PICK b \in DOMAIN A : z = N(b)
      BY <2>6
    <3>3. A[a].id = A[b].id
      BY <2>6, <3>1, <3>2
    <3>4. a = b
      BY <3>3 DEF Sound, Owners, A
    <3> QED
      BY <3>1, <3>2, <3>4
  <2>16. \A y \in DOMAIN E : \E x \in DOMAIN A : E[y] = A[x] /\ y = N(x)
    BY <2>6
  <2>17. Owners(t)
    BY <2>11, <2>15, <2>16 DEF Sound, Owners, A
  <2>18. Held(t)
    <3>1. DOMAIN t.blocks \subseteq EntryIds(t.active) \cup EntryIds(t.deleted)
      BY <2>11, <2>14 DEF Sound, Held
    <3> QED
      BY <2>11, <2>16, <3>1 DEF Sound, Held, A
  <2>19. Named(t)
    BY <2>7, <2>11, <2>16 DEF Sound, Named, A
  <2>20. Kept(s, t) /\ Marked(s, t)
    BY <2>11, <2>14 DEF Kept, Marked
  <2> QED
    BY <2>1, <2>12, <2>13, <2>17, <2>18, <2>19, <2>20 DEF Effect, FailsSafe, Done, Sound
<1> QED
  BY <1>1, <1>2

\* u is s after the first k entries under from were cloned: the directories
\* among them are there under their new names, and nothing else is new.
HasCloned(s, u, from, to, k) ==
    /\ Follows(s, u)
    /\ \A j \in 1..k : (IsDir(s, PathSeq[j]) /\ Under(from, PathSeq[j])) => IsDir(u, Rebase(PathSeq[j], from, to))
    /\ \A y \in DOMAIN u.active \ DOMAIN s.active :
          \E j \in 1..k : Under(from, PathSeq[j]) /\ y = Rebase(PathSeq[j], from, to)

\* The copy of one entry.
LEMMA CloneEntryIs ==
  ASSUME NEW s, Sound(s), NEW p \in DOMAIN s.active, NEW q, Nameable(s, q), q \notin DOMAIN s.active
  PROVE  LET t == CloneEntry(s, p, q)
         IN  /\ Follows(s, t) /\ DOMAIN t.active \subseteq DOMAIN s.active \cup {q}
             /\ s.active[p].kind = "dir" => IsDir(t, q)
<1>1. s.active[p] \in Inode /\ ReadFile(s, p).data \in Seq(Int) /\ KindOf(s, p) = s.active[p].kind
  BY ReadFileIs DEF KindOf, Has
<1>2. ASSUME NEW r, NEW kind, Makes(s, r, q, kind)
      PROVE  /\ Follows(s, r.s) /\ DOMAIN r.s.active \subseteq DOMAIN s.active \cup {q}
             /\ r.ok => DOMAIN r.s.active = DOMAIN s.active \cup {q} /\ r.s.active[q].kind = kind
  <2>1. Follows(s, r.s)
    BY <1>2, MakesFollows
  <2>2. ~r.ok => r.s.active = s.active
    BY <1>2 DEF Makes, Effect, FailsSafe
  <2> QED
    BY <1>2, <2>1, <2>2 DEF Makes
<1>3. CASE s.active[p].kind = "dir"
  <2> DEFINE r == CreateDirectory(s, q)
  <2>1. Makes(s, r, q, "dir") /\ (r.ok <=> q \notin DOMAIN s.active)
    BY CreateDirectoryIs
  <2>2. r.ok
    BY <2>1
  <2>3. CloneEntry(s, p, q) = r.s
    BY <1>1, <1>3 DEF CloneEntry
  <2> HIDE DEF r
  <2> QED
    BY <1>2, <2>1, <2>2, <2>3 DEF IsDir
<1>4. CASE s.active[p].kind = "file"
  <2> DEFINE r == CloneFile(s, p, q)
  <2>1. Makes(s, r, q, "file")
    BY CloneFileIs
  <2>2. CloneEntry(s, p, q) = r.s
    BY <1>1, <1>4 DEF CloneEntry
  <2> HIDE DEF r
  <2> QED
    BY <1>2, <1>4, <2>1, <2>2
<1>5. CASE s.active[p].kind = "link"
  <2> DEFINE r == CreateSymlink(s, q, ReadFile(s, p).data)
  <2>1. Makes(s, r, q, "link")
    BY <1>1, CreateSymlinkIs
  <2>2. CloneEntry(s, p, q) = r.s
    BY <1>1, <1>5 DEF CloneEntry
  <2> HIDE DEF r
  <2> QED
    BY <1>2, <1>5, <2>1, <2>2
<1> QED
  BY <1>1, <1>3, <1>4, <1>5 DEF Inode

\* The parent of what is cloned next is there: a directory comes before its entries.
LEMMA CloneStep ==
  ASSUME NEW s, Sound(s), NEW from \in Paths, NEW to \in Paths, to \notin DOMAIN s.active,
         Top(to) \/ IsDir(s, Front(to)), NEW k \in 1..Len(PathSeq),
         PathSeq[k] \in DOMAIN s.active, Under(from, PathSeq[k]),
         LET q == Rebase(PathSeq[k], from, to)
         IN  q \in Paths /\ q \notin DOMAIN s.deleted /\ q \notin s.journal.del,
         NEW u, HasCloned(s, u, from, to, k - 1)
  PROVE  HasCloned(s, CloneEntry(u, PathSeq[k], Rebase(PathSeq[k], from, to)), from, to, k)
<1> DEFINE p == PathSeq[k]
           q == Rebase(p, from, to)
           t == CloneEntry(u, p, q)
<1>1. from \in Seq(Name) /\ to \in Seq(Name) /\ p \in Seq(Name) /\ Len(p) > 0 /\ Len(from) > 0
  BY PathsAre, PathSeqIs
<1>2. Follows(s, u) /\ Sound(u)
  BY DEF HasCloned, Follows
<1>3. p \in DOMAIN u.active /\ u.active[p].kind = s.active[p].kind
  BY <1>2 DEF Follows, Grows
<1>4. q \notin DOMAIN s.active
  <2>1. \A x \in DOMAIN s.active : ~Under(to, x)
    BY NothingUnder
  <2> QED
    BY <1>1, <2>1, RebaseUnder
<1>5. q \notin DOMAIN u.active
  <2> SUFFICES ASSUME q \in DOMAIN u.active PROVE FALSE
    OBVIOUS
  <2>1. PICK j \in 1..k - 1 : Under(from, PathSeq[j]) /\ q = Rebase(PathSeq[j], from, to)
    BY <1>4 DEF HasCloned
  <2>2. j \in 1..Len(PathSeq) /\ j # k
    BY PathSeqIs
  <2>3. PathSeq[j] \in Seq(Name)
    BY <2>2, PathsAre, PathSeqIs
  <2>4. PathSeq[j] = p
    BY <1>1, <2>1, <2>3, RebaseInjective
  <2> QED
    BY <2>2, <2>4, PathSeqIs
<1>6. ASSUME NEW x, IsDir(s, x) PROVE IsDir(u, x)
  BY <1>2, <1>6 DEF Follows, Grows, IsDir
<1>7. Top(q) \/ IsDir(u, Front(q))
  <2>1. CASE p = from
    <3>1. q = to
      BY <1>1, <2>1, RebaseItself
    <3> QED
      BY <1>6, <3>1
  <2>2. CASE p # from
    <3>1. Len(p) > Len(from) /\ Under(from, Front(p)) /\ Front(q) = Rebase(Front(p), from, to)
      BY <1>1, <2>2, FrontUnder, RebaseFront
    <3>2. ~Top(p)
      BY <1>1, <3>1 DEF Top
    <3>3. IsDir(s, Front(p)) /\ Front(p) \in Paths
      BY <3>2 DEF Sound, Tree, Typed, Entries, IsDir
    <3>4. PICK j \in 1..Len(PathSeq) : PathSeq[j] = Front(p)
      BY <3>3, PathSeqIs
    <3>5. IsStrictPrefix(PathSeq[j], PathSeq[k])
      <4>1. IsPrefix(Front(p), p) /\ Front(p) # p
        BY <3>2, PathSeqIs, FrontIsPrefix DEF Under
      <4> QED
        BY <3>4, <4>1 DEF IsStrictPrefix
    <3>6. DOMAIN PathSeq = 1..Len(PathSeq)
      BY PathsInOrder
    <3>7. j < k
      BY <3>5, <3>6, PathsInOrder
    <3>8. j \in 1..k - 1
      BY <3>7, PathSeqIs
    <3>9. IsDir(u, Rebase(PathSeq[j], from, to))
      BY <3>1, <3>3, <3>4, <3>8 DEF HasCloned
    <3> QED
      BY <3>1, <3>4, <3>9
  <2> QED
    BY <2>1, <2>2
<1>8. Nameable(u, q)
  BY <1>2, <1>7 DEF Nameable, Follows, Grows
<1>9. /\ Follows(u, t) /\ DOMAIN t.active \subseteq DOMAIN u.active \cup {q}
      /\ u.active[p].kind = "dir" => IsDir(t, q)
  BY <1>2, <1>3, <1>5, <1>8, CloneEntryIs
<1> HIDE DEF p, q, t
<1>10. Follows(s, t)
  BY <1>2, <1>9, FollowsTwice
<1>11. ASSUME NEW x, IsDir(u, x) PROVE IsDir(t, x)
  BY <1>9, <1>11 DEF Follows, Grows, IsDir
<1>12. \A j \in 1..k : j \in 1..k - 1 \/ j = k
  BY PathSeqIs
<1>13. k \in 1..k /\ \A j \in 1..k - 1 : j \in 1..k
  BY PathSeqIs
<1>14. ASSUME NEW j \in 1..k, IsDir(s, PathSeq[j]), Under(from, PathSeq[j])
       PROVE  IsDir(t, Rebase(PathSeq[j], from, to))
  <2>1. CASE j = k
    BY <1>3, <1>9, <1>14, <2>1 DEF IsDir, p, q
  <2>2. CASE j \in 1..k - 1
    BY <1>11, <1>14, <2>2 DEF HasCloned
  <2> QED
    BY <1>12, <2>1, <2>2
<1>15. ASSUME NEW y \in DOMAIN t.active \ DOMAIN s.active
       PROVE  \E j \in 1..k : Under(from, PathSeq[j]) /\ y = Rebase(PathSeq[j], from, to)
  <2>1. CASE y = q
    BY <1>13, <2>1 DEF p, q
  <2>2. CASE y # q
    <3>1. y \in DOMAIN u.active \ DOMAIN s.active
      BY <1>9, <2>2
    <3> QED
      BY <1>13, <3>1 DEF HasCloned
  <2> QED
    BY <2>1, <2>2
<1>16. HasCloned(s, t, from, to, k)
  BY <1>10, <1>14, <1>15 DEF HasCloned
<1> QED
  BY <1>16 DEF p, q, t

\* A clone of a directory makes new entries only.
LEMMA CloneTreeIs ==
  ASSUME NEW s, Sound(s), NEW from \in Paths, NEW to \in Paths, Top(to) \/ IsDir(s, Front(to)),
         \A p \in DOMAIN s.active : Under(from, p) =>
            LET q == Rebase(p, from, to)
            IN  q \in Paths /\ q \notin DOMAIN s.deleted /\ q \notin s.journal.del
  PROVE  Effect(s, CloneTree(s, from, to))
<1>1. CASE KindOf(s, from) # "dir" \/ Has(s, to)
  BY <1>1, FailIs DEF CloneTree
<1>2. CASE ~(KindOf(s, from) # "dir" \/ Has(s, to))
  <2>1. PICK w :
           /\ w[0] = s
           /\ \A k \in 1..Len(PathSeq) : w[k] = IF Has(s, PathSeq[k]) /\ Under(from, PathSeq[k])
                   THEN CloneEntry(w[k - 1], PathSeq[k], Rebase(PathSeq[k], from, to)) ELSE w[k - 1]
           /\ CloneTree(s, from, to) = Done(w[Len(PathSeq)])
    BY <1>2, CloneChain
  <2> DEFINE n == Len(PathSeq)
             T == {k \in 0..n : HasCloned(s, w[k], from, to, k)}
  <2>2. n \in Nat
    BY PathSeqIs
  <2>3. 0 \in T
    <3>1. Follows(s, w[0]) /\ w[0] = s
      BY <2>1, FollowsItself
    <3> QED
      BY <2>2, <3>1 DEF HasCloned
  <2>4. ASSUME NEW k \in 1..n, k - 1 \in T PROVE k \in T
    <3>1. HasCloned(s, w[k - 1], from, to, k - 1) /\ k \in 0..n
      BY <2>2, <2>4
    <3>2. CASE Has(s, PathSeq[k]) /\ Under(from, PathSeq[k])
      <4>1. w[k] = CloneEntry(w[k - 1], PathSeq[k], Rebase(PathSeq[k], from, to))
        BY <2>1, <3>2
      <4>2. PathSeq[k] \in DOMAIN s.active /\ to \notin DOMAIN s.active
        BY <1>2, <3>2 DEF Has
      <4>3. LET q == Rebase(PathSeq[k], from, to)
            IN  q \in Paths /\ q \notin DOMAIN s.deleted /\ q \notin s.journal.del
        BY <3>2, <4>2
      <4>4. HasCloned(s, w[k], from, to, k)
        BY <3>1, <3>2, <4>1, <4>2, <4>3, CloneStep
      <4> QED
        BY <3>1, <4>4
    <3>3. CASE ~(Has(s, PathSeq[k]) /\ Under(from, PathSeq[k]))
      <4>1. w[k] = w[k - 1]
        BY <2>1, <3>3
      <4>2. ~(IsDir(s, PathSeq[k]) /\ Under(from, PathSeq[k]))
        BY <3>3 DEF IsDir, Has
      <4>3. (\A j \in 1..k : j \in 1..k - 1 \/ j = k) /\ \A j \in 1..k - 1 : j \in 1..k
        BY <2>2
      <4>4. HasCloned(s, w[k], from, to, k)
        BY <3>1, <4>1, <4>2, <4>3 DEF HasCloned
      <4> QED
        BY <3>1, <4>4
    <3> QED
      BY <3>2, <3>3
  <2> HIDE DEF T
  <2>5. \A k \in 0..n : k \in T
    BY <2>2, <2>3, <2>4, UpTo
  <2>6. Follows(s, w[n])
    BY <2>2, <2>5 DEF T, HasCloned
  <2> QED
    BY <2>1, <2>6 DEF Follows, Effect, FailsSafe, Done
<1> QED
  BY <1>1, <1>2

-----------------------------------------------------------------------------
(* Saving and loading *)

\* What of a service is in an image of it.
LEMMA PersistedIs ==
  ASSUME NEW s, Sound(s)
  PROVE  LET d == PersistedState(s)
         IN  /\ d.active = s.active /\ d.deleted = s.deleted /\ d.snaps = s.snaps /\ d.wal = NoWal
             /\ DOMAIN d.blocks = DOMAIN s.blocks /\ d.blocks \in [DOMAIN d.blocks -> Block]
             /\ \A id \in DOMAIN d.blocks :
                   d.blocks[id] = IF id \in EntryIds(s.active) THEN s.blocks[id] ELSE Blank
             /\ d.journal \in Replay
             /\ DOMAIN s.active \cap d.journal.del = {} /\ DOMAIN s.deleted \cap d.journal.act = {}
             /\ Journaling => DOMAIN s.deleted \subseteq d.journal.del
<1> DEFINE d == PersistedState(s)
<1>1. /\ d.active = s.active /\ d.deleted = s.deleted /\ d.snaps = s.snaps
      /\ d.blocks = [id \in DOMAIN s.blocks |-> IF id \in EntryIds(s.active) THEN s.blocks[id] ELSE Blank]
      /\ d.journal = IF Journaling THEN s.journal ELSE EmptyReplay
      /\ d.wal = IF Journaling THEN s.wal ELSE NoWal
  BY DEF PersistedState
<1> HIDE DEF d
<1>2. s.blocks \in [DOMAIN s.blocks -> Block] /\ s.journal \in Replay /\ s.wal = NoWal
  BY DEF Sound, Typed
<1>3. Blank \in Block
  BY DEF Blank, Block
<1>4. EmptyReplay \in Replay /\ EmptyReplay.act = {} /\ EmptyReplay.del = {}
  BY DEF EmptyReplay, Replay
<1>5. /\ DOMAIN d.blocks = DOMAIN s.blocks /\ d.blocks \in [DOMAIN d.blocks -> Block]
      /\ \A id \in DOMAIN d.blocks :
            d.blocks[id] = IF id \in EntryIds(s.active) THEN s.blocks[id] ELSE Blank
  BY <1>1, <1>2, <1>3
<1>6. /\ d.journal \in Replay
      /\ DOMAIN s.active \cap d.journal.del = {} /\ DOMAIN s.deleted \cap d.journal.act = {}
      /\ Journaling => DOMAIN s.deleted \subseteq d.journal.del
  BY <1>1, <1>2, <1>4 DEF Sound, Named
<1> QED
  BY <1>1, <1>2, <1>5, <1>6 DEF d

\* The service that a load makes of the image d before it follows the journal.
Opened(d, t) ==
    /\ DOMAIN t = Fields
    /\ t.active = d.active /\ t.deleted = d.deleted /\ t.tombs = d.deleted /\ t.blocks = d.blocks
    /\ t.next = Max(EntryIds(d.active) \cup EntryIds(d.deleted) \cup {0}) /\ t.recycled = <<>>
    /\ t.journal = d.journal /\ t.txn = NoTxn /\ t.wal = d.wal /\ t.snaps = d.snaps /\ t.dirty = {}

\* A load takes the entries as they were saved: the journal moves none of them.
LEMMA FromPersistedIs ==
  ASSUME NEW s, Sound(s)
  PROVE  Opened(PersistedState(s), FromPersistedState(PersistedState(s)))
<1> DEFINE d == PersistedState(s)
           u == [active |-> d.active, deleted |-> d.deleted, tombs |-> d.deleted,
                 blocks |-> d.blocks, next |-> Max(EntryIds(d.active) \cup EntryIds(d.deleted) \cup {0}),
                 recycled |-> <<>>, versions |-> d.versions,
                 nextv |-> Max({v.vid : v \in AllVersions(d)} \cup {0}),
                 journal |-> d.journal, txn |-> NoTxn, clean |-> TRUE, wal |-> d.wal,
                 snaps |-> d.snaps, nexts |-> d.nexts, dirty |-> {}]
<1>1. Opened(d, u)
  BY DEF Opened, Fields
<1>2. FromPersistedState(d) = IF Journaling THEN ReconcileFromJournal(u) ELSE u
  BY DEF FromPersistedState
<1>3. /\ DOMAIN d.active \cap d.journal.del = {} /\ DOMAIN d.deleted \cap d.journal.act = {}
      /\ Journaling => DOMAIN d.deleted \subseteq d.journal.del
      /\ d.active = [p \in DOMAIN d.active |-> d.active[p]]
      /\ d.deleted = [p \in DOMAIN d.deleted |-> d.deleted[p]]
  BY PersistedIs DEF Sound, Typed, Entries
<1> HIDE DEF u, d
<1>4. ASSUME Journaling PROVE Opened(d, ReconcileFromJournal(u))
  <2>1. u.active = d.active /\ u.deleted = d.deleted /\ u.journal = d.journal /\ DOMAIN u = Fields
    BY <1>1 DEF Opened
  <2> DEFINE Moved == {p \in DOMAIN u.active : p \in u.journal.del}
             deleted == [p \in DOMAIN u.deleted \cup Moved |->
                            IF p \in Moved THEN u.active[p] ELSE u.deleted[p]]
             Back == DOMAIN deleted \cap u.journal.act
             Stays == DOMAIN deleted \cap u.journal.del
             tombs == [p \in Stays |-> deleted[p]]
             active == [p \in (DOMAIN u.active \ Moved) \cup Back |->
                           IF p \in Back THEN deleted[p] ELSE u.active[p]]
  <2>2. ReconcileFromJournal(u) = [u EXCEPT !.active = active, !.deleted = tombs, !.tombs = tombs,
                                            !.nexts = IF @ < u.journal.snaps THEN u.journal.snaps ELSE @]
    BY DEF ReconcileFromJournal
  <2>3. Moved = {}
    BY <1>3, <2>1
  <2> HIDE DEF Moved
  <2>4. DOMAIN deleted = DOMAIN d.deleted /\ \A p \in DOMAIN d.deleted : deleted[p] = d.deleted[p]
    BY <2>1, <2>3
  <2> HIDE DEF deleted
  <2>5. Back = {} /\ Stays = DOMAIN d.deleted
    BY <1>3, <1>4, <2>1, <2>4
  <2> HIDE DEF Back, Stays
  <2>6. tombs = d.deleted
    BY <1>3, <2>4, <2>5
  <2>7. active = d.active
    BY <1>3, <2>1, <2>3, <2>5
  <2> HIDE DEF tombs, active
  <2>8. ASSUME NEW n, NEW v, v = [u EXCEPT !.active = active, !.deleted = tombs, !.tombs = tombs, !.nexts = n]
        PROVE  Opened(d, v)
    BY <1>1, <2>1, <2>6, <2>7, <2>8 DEF Opened, Fields
  <2> QED
    BY <2>2, <2>8
<1> QED
  BY <1>1, <1>2, <1>4 DEF d

\* The load of a saved service: the same entries, and the bytes of the active ones.
LEMMA LoadIs ==
  ASSUME NEW s, Sound(s)
  PROVE  LET d == PersistedState(s)
             r == LoadImage(d)
         IN  r.ok /\ r.s = FromPersistedState(d) /\ Opened(d, r.s) /\ Sound(r.s)
<1> DEFINE d == PersistedState(s)
           t == FromPersistedState(d)
<1>1. Opened(d, t)
  BY FromPersistedIs
<1>2. /\ d.active = s.active /\ d.deleted = s.deleted /\ d.snaps = s.snaps /\ d.wal = NoWal
      /\ DOMAIN d.blocks = DOMAIN s.blocks /\ d.blocks \in [DOMAIN d.blocks -> Block]
      /\ \A id \in DOMAIN d.blocks :
            d.blocks[id] = IF id \in EntryIds(s.active) THEN s.blocks[id] ELSE Blank
      /\ d.journal \in Replay
      /\ DOMAIN s.active \cap d.journal.del = {} /\ DOMAIN s.deleted \cap d.journal.act = {}
      /\ Journaling => DOMAIN s.deleted \subseteq d.journal.del
  BY PersistedIs
<1>3. LoadImage(d) = Done(t)
  <2>1. t.wal = NoWal
    BY <1>1, <1>2 DEF Opened
  <2> HIDE DEF t
  <2>2. RecoverPendingWal(t) = Done(t)
    BY <2>1 DEF RecoverPendingWal
  <2> QED
    BY <2>2 DEF LoadImage, t
<1> HIDE DEF d, t
<1> DEFINE I == EntryIds(s.active) \cup EntryIds(s.deleted) \cup {0}
<1>4. s.next \in Nat /\ \A i \in I : i \in 0..s.next
  <2>1. /\ s.next \in Nat
        /\ \A p \in DOMAIN s.active : s.active[p].id \in 1..s.next
        /\ \A p \in DOMAIN s.deleted : s.deleted[p].id \in 1..s.next
    BY DEF Sound, Typed, Owners
  <2> QED
    BY <2>1 DEF EntryIds
<1>5. t.next = Max(I)
  BY <1>1, <1>2 DEF Opened
<1>6. t.next \in I /\ \A i \in I : t.next >= i
  <2>1. I \in SUBSET Nat /\ I # {} /\ \A i \in I : i <= s.next
    BY <1>4
  <2> HIDE DEF I
  <2> QED
    BY <1>4, <1>5, <2>1, MaxIs
<1>7. /\ t.next \in Nat
      /\ \A p \in DOMAIN s.active : s.active[p].id \in 1..t.next
      /\ \A p \in DOMAIN s.deleted : s.deleted[p].id \in 1..t.next
  <2>1. /\ \A p \in DOMAIN s.active : s.active[p].id \in 1..s.next /\ s.active[p].id \in I
        /\ \A p \in DOMAIN s.deleted : s.deleted[p].id \in 1..s.next /\ s.deleted[p].id \in I
    BY DEF Sound, Owners, EntryIds
  <2>2. t.next \in Nat
    BY <1>4, <1>6
  <2> HIDE DEF I
  <2> QED
    BY <1>4, <1>6, <2>1, <2>2
<1>8. Typed(t)
  BY <1>1, <1>2, <1>7 DEF Opened, Sound, Typed
<1>9. Owners(t)
  <2>1. Len(t.recycled) = 0
    BY <1>1 DEF Opened
  <2>2. 1..Len(t.recycled) = {}
    BY <2>1
  <2>3. t.active = s.active /\ t.deleted = s.deleted
    BY <1>1, <1>2 DEF Opened
  <2>4. /\ \A p, q \in DOMAIN s.active : s.active[p].id = s.active[q].id => p = q
        /\ \A p, q \in DOMAIN s.deleted : s.deleted[p].id = s.deleted[q].id => p = q
        /\ \A p \in DOMAIN s.active, q \in DOMAIN s.deleted : s.active[p].id # s.deleted[q].id
    BY DEF Sound, Owners
  <2> QED
    BY <1>7, <2>2, <2>3, <2>4 DEF Owners
<1>10. Held(t)
  <2>1. \A p \in DOMAIN s.active : s.active[p].id \in EntryIds(s.active)
    BY DEF EntryIds
  <2>2. \A p \in DOMAIN s.deleted : s.deleted[p].id \notin EntryIds(s.active)
    BY DEF EntryIds, Sound, Owners
  <2>3. t.active = s.active /\ t.deleted = s.deleted /\ t.blocks = d.blocks
    BY <1>1, <1>2 DEF Opened
  <2> QED
    BY <1>2, <2>1, <2>2, <2>3 DEF Sound, Held
<1>11. Named(t)
  BY <1>1, <1>2 DEF Opened, Sound, Named
<1>12. Tree(t)
  BY <1>1, <1>2 DEF Opened, Sound, Tree, IsDir
<1> QED
  BY <1>1, <1>3, <1>8, <1>9, <1>10, <1>11, <1>12 DEF Sound, Done, d, t

-----------------------------------------------------------------------------
(* The steps *)

\* The formatted volume, and the image of it.
LEMMA InitInv ==
  ASSUME Init
  PROVE  Inv
<1> DEFINE s == Formatted
<1>1. /\ DOMAIN s = Fields /\ s.active = << >> /\ s.deleted = << >> /\ s.tombs = << >> /\ s.blocks = << >>
      /\ s.next = 0 /\ s.recycled = <<>> /\ s.journal = EmptyReplay /\ s.txn = NoTxn /\ s.wal = NoWal
      /\ s.snaps = << >>
  BY DEF Formatted, Fields
<1> HIDE DEF s
<1>2. EmptyReplay \in Replay /\ EmptyReplay.act = {} /\ EmptyReplay.del = {}
  BY DEF EmptyReplay, Replay
<1>3. DOMAIN << >> = {} /\ Len(<<>>) = 0 /\ 1..0 = {}
  OBVIOUS
<1>4. Typed(s)
  BY <1>1, <1>2, <1>3 DEF Typed, Entries
<1>5. Owners(s) /\ Held(s) /\ Named(s) /\ Tree(s)
  BY <1>1, <1>2, <1>3 DEF Owners, Held, Named, Tree
<1>6. Sound(s)
  BY <1>4, <1>5 DEF Sound
<1>7. svc = s /\ img = PersistedState(s)
  BY DEF Init, s
<1>8. DOMAIN img.active = {}
  BY <1>1, <1>3, <1>6, <1>7, PersistedIs
<1> QED
  BY <1>6, <1>7, <1>8 DEF Inv, SavedSound, Clean

\* A call of the service, and what it does to the inodes.  The secure delete of
\* a directory fails after it took the entry away.
Proper(name, r) ==
    /\ Call(name, r)
    /\ Sound(r.s) /\ Marked(svc, r.s)
    /\ name # "secure" \/ "secure_dir" \in Avoid => FailsSafe(svc, r)
    /\ name \in {"secure", "expunge"} \/ Kept(svc, r.s)

\* A call with the effects proved above.
LEMMA EffectIsProper ==
  ASSUME NEW r, Effect(svc, r), NEW name, Call(name, r)
  PROVE  Proper(name, r)
  BY DEF Effect, Proper

\* Where a caller may put an entry.
LEMMA PlaceableIs ==
  ASSUME NEW p, Placeable(p)
  PROVE  Top(p) \/ IsDir(svc, Front(p))
  BY DEF Placeable, KindOf, Has, IsDir

\* A careful caller takes no name the journal knows as deleted.
LEMMA FreshIs ==
  ASSUME Careful, NEW p, Fresh(p)
  PROVE  p \notin DOMAIN svc.deleted /\ p \notin svc.journal.del
  BY DEF Fresh, Spent, Careful

\* What a careful caller names is nameable.
LEMMA NameableIs ==
  ASSUME Careful, NEW p \in Paths, Placeable(p), Fresh(p)
  PROVE  Nameable(svc, p)
  BY PlaceableIs, FreshIs DEF Nameable

\* Every step is a proper call, a save, a load or a repair.
LEMMA NextIs ==
  ASSUME Careful, Sound(svc), Next
  PROVE  (\E name, r : Proper(name, r)) \/ SaveImage \/ Reload \/ Repair
<1>1. CASE Create
  <2>1. PICK p \in Paths, data \in Contents :
           Placeable(p) /\ Fresh(p) /\ Call("create", CreateFile(svc, p, data))
    BY <1>1 DEF Create
  <2>2. data \in Seq(Int) /\ Nameable(svc, p)
    BY <2>1, ContentsAreBytes, NameableIs
  <2>3. Effect(svc, CreateFile(svc, p, data))
    BY <2>2, CreateFileIs DEF Makes
  <2> QED
    BY <2>1, <2>3, EffectIsProper
<1>2. CASE Mkdir
  <2>1. PICK p \in Paths : Placeable(p) /\ Fresh(p) /\ Call("mkdir", CreateDirectory(svc, p))
    BY <1>2 DEF Mkdir
  <2>2. Effect(svc, CreateDirectory(svc, p))
    BY <2>1, NameableIs, CreateDirectoryIs DEF Makes
  <2> QED
    BY <2>1, <2>2, EffectIsProper
<1>3. CASE Symlink
  <2>1. PICK p \in Paths, target \in Contents :
           Placeable(p) /\ Fresh(p) /\ Call("symlink", CreateSymlink(svc, p, target))
    BY <1>3 DEF Symlink
  <2>2. target \in Seq(Int) /\ Nameable(svc, p)
    BY <2>1, ContentsAreBytes, NameableIs
  <2>3. Effect(svc, CreateSymlink(svc, p, target))
    BY <2>2, CreateSymlinkIs DEF Makes
  <2> QED
    BY <2>1, <2>3, EffectIsProper
<1>4. CASE Write
  <2>1. PICK p \in Paths, data \in Contents : Call("write", WriteFile(svc, p, data))
    BY <1>4 DEF Write
  <2>2. data \in Seq(Int)
    BY ContentsAreBytes
  <2>3. Effect(svc, WriteFile(svc, p, data))
    BY <2>2, WriteFileIs DEF Makes
  <2> QED
    BY <2>1, <2>3, EffectIsProper
<1>5. CASE WriteRange
  <2>1. PICK p \in Paths, off \in 0..MaxLen - 1, b \in Bytes : Call("range", WriteFileRange(svc, p, off, <<b>>))
    BY <1>5 DEF WriteRange
  <2>2. off \in Nat /\ <<b>> \in Seq(Int)
    BY ContentsAreBytes
  <2>3. Effect(svc, WriteFileRange(svc, p, off, <<b>>))
    BY <2>2, WriteFileRangeIs DEF Makes
  <2> QED
    BY <2>1, <2>3, EffectIsProper
<1>6. CASE Truncate
  <2>1. PICK p \in Paths, n \in 0..MaxLen : Call("truncate", TruncateFile(svc, p, n))
    BY <1>6 DEF Truncate
  <2>2. Effect(svc, TruncateFile(svc, p, n))
    BY TruncateFileIs DEF Makes
  <2> QED
    BY <2>1, <2>2, EffectIsProper
<1>7. CASE Extend
  <2>1. PICK p \in Paths, b \in Bytes : Call("extend", ExtendFile(svc, p, <<b>>))
    BY <1>7 DEF Extend
  <2>2. <<b>> \in Seq(Int)
    BY ContentsAreBytes
  <2>3. Effect(svc, ExtendFile(svc, p, <<b>>))
    BY <2>2, ExtendFileIs DEF Makes
  <2> QED
    BY <2>1, <2>3, EffectIsProper
<1>8. CASE Delete
  <2>1. PICK p \in Paths, secure \in BOOLEAN :
           /\ Removable(p)
           /\ (secure /\ "secure_dir" \in Avoid) => KindOf(svc, p) # "dir"
           /\ Call(IF secure THEN "secure" ELSE "delete", DeleteFile(svc, p, secure))
    BY <1>8 DEF Delete
  <2>2. Bare(svc, p)
    BY <2>1 DEF Bare, Removable
  <2>3. CASE secure = FALSE
    <3>1. Call("delete", DeleteFile(svc, p, FALSE))
      BY <2>1, <2>3
    <3>2. Effect(svc, DeleteFile(svc, p, FALSE))
      BY <2>2, DeleteFileIs
    <3> QED
      BY <3>1, <3>2, EffectIsProper
  <2>4. CASE secure = TRUE
    <3> DEFINE r == DeleteFile(svc, p, TRUE)
    <3>1. Call("secure", r) /\ ("secure_dir" \in Avoid => KindOf(svc, p) # "dir")
      BY <2>1, <2>4
    <3>2. Sound(r.s) /\ Marked(svc, r.s) /\ (KindOf(svc, p) # "dir" => FailsSafe(svc, r))
      BY <2>2, DeleteFileIs
    <3> HIDE DEF r
    <3>3. Proper("secure", r)
      BY <3>1, <3>2 DEF Proper
    <3> QED
      BY <3>3
  <2> QED
    BY <2>3, <2>4
<1>9. CASE Restore
  <2>1. PICK p \in Paths :
           Placeable(p) /\ ("loaded_tombstone" \in Avoid => ~LostBytes(p)) /\ Call("restore", RestoreFile(svc, p))
    BY <1>9 DEF Restore
  <2>2. Top(p) \/ IsDir(svc, Front(p))
    BY <2>1, PlaceableIs
  <2>3. p \in DOMAIN svc.deleted /\ svc.deleted[p].id \in DOMAIN svc.blocks => svc.blocks[svc.deleted[p].id] # Blank
    BY <2>1 DEF LostBytes, Careful
  <2>4. Effect(svc, RestoreFile(svc, p))
    BY <2>2, <2>3, RestoreFileIs
  <2> QED
    BY <2>1, <2>4, EffectIsProper
<1>10. CASE Expunge
  <2>1. PICK p \in Paths : Call("expunge", ExpungeFile(svc, p))
    BY <1>10 DEF Expunge
  <2> DEFINE r == ExpungeFile(svc, p)
  <2>2. Sound(r.s) /\ Marked(svc, r.s) /\ FailsSafe(svc, r)
    BY ExpungeFileIs
  <2> HIDE DEF r
  <2>3. Proper("expunge", r)
    BY <2>1, <2>2 DEF Proper, r
  <2> QED
    BY <2>3
<1>11. CASE Chmod
  <2>1. PICK p \in Paths : Call("chmod", SetMode(svc, p, 1))
    BY <1>11 DEF Chmod
  <2>2. Effect(svc, SetMode(svc, p, 1))
    BY SetModeIs
  <2> QED
    BY <2>1, <2>2, EffectIsProper
<1>12. CASE Rename
  <2>1. PICK from \in Paths, to \in Paths :
           /\ \A p \in DOMAIN svc.active : Under(from, p) => Rebase(p, from, to) \in Paths
           /\ ~IsStrictPrefix(from, to)
           /\ Placeable(to)
           /\ "reuse" \in Avoid => ~Has(svc, to)
           /\ \A p \in DOMAIN svc.active : Under(from, p) => Fresh(Rebase(p, from, to))
           /\ Call("rename", RenameEntry(svc, from, to))
    BY <1>12 DEF Rename
  <2>2. to \notin DOMAIN svc.active
    BY <2>1 DEF Careful, Has
  <2>3. Top(to) \/ IsDir(svc, Front(to))
    BY <2>1, PlaceableIs
  <2>4. \A p \in DOMAIN svc.active : Under(from, p) =>
           LET q == Rebase(p, from, to)
           IN  q \in Paths /\ q \notin DOMAIN svc.deleted /\ q \notin svc.journal.del
    BY <2>1, FreshIs
  <2>5. Effect(svc, RenameEntry(svc, from, to))
    BY <2>1, <2>2, <2>3, <2>4, RenameEntryIs
  <2> QED
    BY <2>1, <2>5, EffectIsProper
<1>13. CASE Snapshot
  <2>1. PICK scope \in {<<>>} \cup Paths : Call("snapshot", Done(CreateSnapshotScoped(svc, scope)))
    BY <1>13 DEF Snapshot
  <2>2. Effect(svc, Done(CreateSnapshotScoped(svc, scope)))
    BY CreateSnapshotIs
  <2> QED
    BY <2>1, <2>2, EffectIsProper
<1>14. CASE DropSnapshot
  <2>1. PICK id \in 0..svc.nexts : Call("drop_snapshot", DeleteSnapshot(svc, id))
    BY <1>14 DEF DropSnapshot
  <2>2. Effect(svc, DeleteSnapshot(svc, id))
    BY DeleteSnapshotIs
  <2> QED
    BY <2>1, <2>2, EffectIsProper
<1>15. CASE Rollback
  <2>1. PICK id \in DOMAIN svc.snaps :
           /\ "mixed_form" \in Avoid => PipelineForm(svc.snaps[id])
           /\ \A p \in DOMAIN svc.snaps[id] : Has(svc, p) \/ (Placeable(p) /\ Fresh(p))
           /\ Call("rollback", RestoreSnapshot(svc, id))
    BY <1>15 DEF Rollback
  <2>2. DOMAIN svc.snaps[id] \subseteq Paths
    BY DEF Sound, Typed, Captures
  <2>3. \A p \in DOMAIN svc.snaps[id] : Pipeline(svc.snaps[id][p])
    BY <2>1 DEF Careful, PipelineForm, Pipeline
  <2>4. \A p \in DOMAIN svc.snaps[id] : Has(svc, p) \/ Nameable(svc, p)
    BY <2>1, <2>2, NameableIs
  <2>5. Effect(svc, RestoreSnapshot(svc, id))
    BY <2>3, <2>4, RestoreSnapshotIs
  <2> QED
    BY <2>1, <2>5, EffectIsProper
<1>16. CASE Clone
  <2>1. PICK from \in Paths, to \in Paths : Placeable(to) /\ Fresh(to) /\ Call("clone", CloneFile(svc, from, to))
    BY <1>16 DEF Clone
  <2>2. Effect(svc, CloneFile(svc, from, to))
    BY <2>1, NameableIs, CloneFileIs DEF Makes
  <2> QED
    BY <2>1, <2>2, EffectIsProper
<1>17. CASE CloneDir
  <2>1. PICK from \in Paths, to \in Paths :
           /\ Placeable(to)
           /\ \A p \in DOMAIN svc.active :
                 Under(from, p) => Rebase(p, from, to) \in Paths /\ Fresh(Rebase(p, from, to))
           /\ Call("clone_tree", CloneTree(svc, from, to))
    BY <1>17 DEF CloneDir
  <2>2. Top(to) \/ IsDir(svc, Front(to))
    BY <2>1, PlaceableIs
  <2>3. \A p \in DOMAIN svc.active : Under(from, p) =>
           LET q == Rebase(p, from, to)
           IN  q \in Paths /\ q \notin DOMAIN svc.deleted /\ q \notin svc.journal.del
    BY <2>1, FreshIs
  <2>4. Effect(svc, CloneTree(svc, from, to))
    BY <2>2, <2>3, CloneTreeIs
  <2> QED
    BY <2>1, <2>4, EffectIsProper
<1> QED
  BY <1>1, <1>2, <1>3, <1>4, <1>5, <1>6, <1>7, <1>8, <1>9, <1>10, <1>11, <1>12, <1>13, <1>14,
     <1>15, <1>16, <1>17 DEF Next

\* Every step keeps the invariant.
LEMMA NextInv ==
  ASSUME Careful, Inv, [Next]_vars
  PROVE  Inv'
<1>1. CASE UNCHANGED vars
  BY <1>1 DEF vars, Inv, SavedSound
<1>2. ASSUME NEW name, NEW r, Proper(name, r) PROVE Inv'
  <2>1. svc' = r.s /\ img' = img /\ Sound(r.s) /\ Marked(svc, r.s)
    BY <1>2 DEF Proper, Call
  <2>2. Clean(r.s, img)
    BY <2>1, CleanStays DEF Inv
  <2> QED
    BY <2>1, <2>2 DEF Inv, SavedSound
<1>3. CASE SaveImage
  <2> DEFINE t == [svc EXCEPT !.dirty = {}]
             d == PersistedState(svc)
  <2>1. svc' = t /\ img' = d /\ Sound(svc)
    BY <1>3 DEF SaveImage, Inv
  <2>2. DOMAIN svc = Fields
    BY <2>1 DEF Sound, Typed
  <2>3. /\ DOMAIN t = Fields /\ t.active = svc.active /\ t.deleted = svc.deleted /\ t.tombs = svc.tombs
        /\ t.blocks = svc.blocks /\ t.next = svc.next /\ t.recycled = svc.recycled /\ t.journal = svc.journal
        /\ t.txn = svc.txn /\ t.wal = svc.wal /\ t.snaps = svc.snaps
    BY <2>2 DEF Fields
  <2> HIDE DEF t
  <2>4. Typed(t) /\ Owners(t)
    BY <2>1, <2>3 DEF Sound, Typed, Owners
  <2>5. Held(t) /\ Named(t)
    BY <2>1, <2>3 DEF Sound, Held, Named
  <2>6. Tree(t)
    BY <2>1, <2>3 DEF Sound, Tree, IsDir
  <2>7. Clean(t, d)
    <3>1. /\ d.active = svc.active /\ DOMAIN d.blocks = DOMAIN svc.blocks
          /\ \A id \in DOMAIN d.blocks :
                d.blocks[id] = IF id \in EntryIds(svc.active) THEN svc.blocks[id] ELSE Blank
      BY <2>1, PersistedIs
    <3>2. \A p \in DOMAIN svc.active : svc.active[p].id \in EntryIds(svc.active)
      BY DEF EntryIds
    <3> HIDE DEF d
    <3> QED
      BY <2>3, <3>1, <3>2 DEF Clean
  <2>8. (\E s : Sound(s) /\ img = PersistedState(s))'
    BY <2>1
  <2> QED
    BY <2>1, <2>4, <2>5, <2>6, <2>7, <2>8 DEF Inv, SavedSound, Sound
<1>4. CASE Reload
  <2>1. PICK s : Sound(s) /\ img = PersistedState(s)
    BY DEF Inv, SavedSound
  <2>2. svc' = LoadImage(img).s /\ img' = img
    BY <1>4 DEF Reload
  <2>3. Opened(img, svc') /\ Sound(svc')
    BY <2>1, <2>2, LoadIs
  <2>4. Clean(svc', img)
    BY <2>3 DEF Opened, Clean, EntryIds
  <2> QED
    BY <2>2, <2>3, <2>4 DEF Inv, SavedSound
<1>5. CASE Repair
  <2>1. svc' = svc /\ img' = img
    BY <1>5 DEF Repair, Careful
  <2> QED
    BY <2>1 DEF Inv, SavedSound
<1> QED
  BY <1>1, <1>2, <1>3, <1>4, <1>5, NextIs DEF Inv

\* For a careful caller the invariant holds after every step.
THEOREM Invariant ==
  ASSUME Careful
  PROVE  Spec => []Inv
<1>1. Init => Inv
  BY InitInv
<1>2. Inv /\ [Next]_vars => Inv'
  BY NextInv
<1> QED
  BY <1>1, <1>2, PTL DEF Spec

\* A sound service has consistent maps.
LEMMA SoundIsCatalogSound ==
  ASSUME Sound(svc)
  PROVE  CatalogSound
<1>1. OneOwner
  <2>1. /\ \A p, q \in DOMAIN svc.active : svc.active[p].id = svc.active[q].id => p = q
        /\ \A p, q \in DOMAIN svc.deleted : svc.deleted[p].id = svc.deleted[q].id => p = q
        /\ \A p \in DOMAIN svc.active, q \in DOMAIN svc.deleted : svc.active[p].id # svc.deleted[q].id
        /\ \A k \in 1..Len(svc.recycled) :
              /\ \A p \in DOMAIN svc.active : svc.active[p].id # svc.recycled[k]
              /\ \A p \in DOMAIN svc.deleted : svc.deleted[p].id # svc.recycled[k]
    BY DEF Sound, Owners
  <2>2. DOMAIN svc.recycled = 1..Len(svc.recycled)
    BY DEF Sound, Typed
  <2> QED
    BY <2>1, <2>2 DEF OneOwner, EntryIds, ToSet
<1>2. TombstonesAgree
  BY DEF TombstonesAgree, Sound, Typed
<1>3. FsckClean
  <2> DEFINE bad == {p \in Countable(svc) :
                        \/ svc.active[p].id \notin DOMAIN svc.blocks
                        \/ ~ReadFile(svc, p).ok
                        \/ Len(ReadFile(svc, p).data) # svc.active[p].size}
             orphans == DOMAIN svc.blocks \ (EntryIds(svc.active) \cup EntryIds(svc.deleted))
  <2>1. bad = {}
    <3>1. ASSUME NEW p \in Countable(svc)
          PROVE  /\ svc.active[p].id \in DOMAIN svc.blocks
                 /\ ReadFile(svc, p).ok /\ Len(ReadFile(svc, p).data) = svc.active[p].size
      <4>1. p \in DOMAIN svc.active /\ svc.active[p].kind # "dir"
        BY DEF Countable
      <4>2. /\ svc.active[p].id \in DOMAIN svc.blocks /\ Fits(svc.active[p], svc.blocks[svc.active[p].id])
            /\ ReadFile(svc, p) = [ok |-> TRUE, data |-> svc.blocks[svc.active[p].id].data]
        BY <4>1, ReadFileIs
      <4> QED
        BY <4>2 DEF Fits
    <3> QED
      BY <3>1
  <2>2. orphans = {}
    BY DEF Sound, Held
  <2>3. DeepFsck(svc) = [bad |-> bad, orphans |-> orphans]
    BY DEF DeepFsck
  <2> QED
    BY <2>1, <2>2, <2>3 DEF FsckClean
<1> QED
  BY <1>1, <1>2, <1>3 DEF CatalogSound

\* The maps agree after every call, save, load and repair: an inode number has
\* one owner, the recovery service and the deleted section name the same inodes,
\* and the deep check of the code finds nothing.
THEOREM CatalogAgrees ==
  ASSUME Careful
  PROVE  Spec => []CatalogSound
<1>1. Inv => CatalogSound
  BY SoundIsCatalogSound DEF Inv
<1> QED
  BY <1>1, Invariant, PTL

\* A saved service loads with the tree and the deleted names it had.
LEMMA LoadKeeps ==
  ASSUME NEW s, Sound(s)
  PROVE  LET r == LoadImage(PersistedState(s))
         IN  r.ok /\ View(r.s) = View(s) /\ DOMAIN r.s.deleted = DOMAIN s.deleted
<1> DEFINE d == PersistedState(s)
           r == LoadImage(d)
           t == r.s
<1>1. r.ok /\ Opened(d, t)
  BY LoadIs
<1>2. /\ d.active = s.active /\ d.deleted = s.deleted /\ DOMAIN d.blocks = DOMAIN s.blocks
      /\ \A id \in DOMAIN d.blocks : d.blocks[id] = IF id \in EntryIds(s.active) THEN s.blocks[id] ELSE Blank
  BY PersistedIs
<1> HIDE DEF d, r
<1>3. t.active = s.active /\ t.deleted = s.deleted /\ DOMAIN t.blocks = DOMAIN s.blocks
      /\ \A id \in EntryIds(s.active) \cap DOMAIN s.blocks : t.blocks[id] = s.blocks[id]
  BY <1>1, <1>2 DEF Opened
<1> HIDE DEF t
<1>4. ASSUME NEW p \in DOMAIN s.active PROVE ReadFile(t, p) = ReadFile(s, p)
  <2>1. s.active[p].id \in EntryIds(s.active)
    BY DEF EntryIds
  <2> QED
    BY <1>3, <2>1 DEF ReadFile, Has
<1>5. View(t) = View(s)
  BY <1>3, <1>4 DEF View
<1> QED
  BY <1>1, <1>3, <1>5 DEF d, r, t

\* The offline reconciliation of a saved service moves no name either.
LEMMA RepairAgrees ==
  ASSUME NEW s, Sound(s), Journaling
  PROVE  RepairAgreesWithLoad(PersistedState(s))
<1> DEFINE d == PersistedState(s)
<1>1. /\ d.active = s.active /\ d.deleted = s.deleted
      /\ DOMAIN s.active \cap d.journal.del = {} /\ DOMAIN s.deleted \cap d.journal.act = {}
      /\ DOMAIN s.deleted \subseteq d.journal.del
  BY PersistedIs
<1>2. Opened(d, FromPersistedState(d))
  BY FromPersistedIs
<1>3. DOMAIN d = {"active", "deleted", "blocks", "versions", "snaps", "nexts", "journal", "txn", "clean", "wal"}
  BY DEF PersistedState
<1> HIDE DEF d
<1>4. DOMAIN Reconciled(d).active = DOMAIN d.active /\ DOMAIN Reconciled(d).deleted = DOMAIN d.deleted
  <2> DEFINE Moved == DOMAIN d.active \cap d.journal.del
             all == [p \in DOMAIN d.deleted \cup Moved |->
                        IF p \in DOMAIN d.deleted THEN d.deleted[p] ELSE d.active[p]]
             Back == (DOMAIN all \cap d.journal.act) \ (DOMAIN d.active \ Moved)
             Sized(i) == IF i.kind = "dir" THEN i
                         ELSE [i EXCEPT !.size = IF i.id \in DOMAIN d.blocks
                                                 THEN StoredLen(d.blocks[i.id]) ELSE 0]
             active == [p \in (DOMAIN d.active \ Moved) \cup Back |->
                           Sized(IF p \in Back THEN all[p] ELSE d.active[p])]
             deleted == [p \in DOMAIN all \cap d.journal.del |-> Sized(all[p])]
             Known == EntryIds(active) \cup EntryIds(deleted)
             blocks == [id \in DOMAIN d.blocks \cap Known |-> d.blocks[id]]
  <2>1. Reconciled(d) = [d EXCEPT !.active = active, !.deleted = deleted, !.blocks = blocks,
                                  !.nexts = IF @ < d.journal.snaps THEN d.journal.snaps ELSE @]
    BY DEF Reconciled
  <2>2. Moved = {}
    BY <1>1
  <2>3. DOMAIN all = DOMAIN d.deleted
    BY <2>2
  <2>4. Back = {}
    BY <1>1, <2>3
  <2>5. DOMAIN active = DOMAIN d.active
    BY <2>2, <2>4
  <2>6. DOMAIN deleted = DOMAIN d.deleted
    BY <1>1, <2>3
  <2> HIDE DEF active, deleted, blocks
  <2> QED
    BY <1>3, <2>1, <2>5, <2>6
<1> QED
  BY <1>2, <1>4 DEF RepairAgreesWithLoad, Opened, d

\* A saved service loads with the same tree and the same deleted names, and the
\* load and the offline repair agree, in every state it can be saved in.  A volume
\* without a journal is left out: its repair drops every deleted name.
THEOREM ReloadIsFaithful ==
  ASSUME Careful, Journaling
  PROVE  Spec => []ReloadKeeps
<1>1. Inv => ReloadKeeps
  BY LoadKeeps, RepairAgrees DEF Inv, ReloadKeeps
<1> QED
  BY <1>1, Invariant, PTL

\* The dirty set covers every inode whose bytes are not those of the last image.
THEOREM ChangesAreDirty ==
  ASSUME Careful
  PROVE  Spec => []DirtyCoversChanges
<1>1. Inv => DirtyCoversChanges
  BY DEF Inv, Clean, DirtyCoversChanges
<1> QED
  BY <1>1, Invariant, PTL

\* A call that failed left the tree and the deleted section alone, and only a
\* secure delete, an expunge and a load end the life of an inode.
THEOREM NoInodeVanishes ==
  ASSUME Careful, "secure_dir" \in Avoid
  PROVE  Spec => NothingVanishes
<1> DEFINE A == /\ last' = "failed" => (View(svc') = View(svc) /\ svc'.deleted = svc.deleted)
                /\ last' # "ended" =>
                      \A id \in EntryIds(svc.active) \cup EntryIds(svc.deleted) :
                         id \in EntryIds(svc'.active) \cup EntryIds(svc'.deleted)
<1>1. ASSUME Inv, [Next]_vars PROVE [A]_vars
  <2>1. ASSUME NEW name, NEW r, Proper(name, r) PROVE A
    <3>1. /\ svc' = r.s /\ FailsSafe(svc, r)
          /\ last' = IF ~r.ok THEN "failed" ELSE IF name \in {"secure", "expunge"} THEN "ended" ELSE "kept"
          /\ name \in {"secure", "expunge"} \/ Kept(svc, r.s)
      BY <2>1 DEF Proper, Call
    <3>2. CASE ~r.ok
      <4>1. svc'.active = svc.active /\ svc'.deleted = svc.deleted /\ svc'.blocks = svc.blocks
        BY <3>1, <3>2 DEF FailsSafe
      <4>2. View(svc') = View(svc)
        BY <4>1 DEF View, ReadFile, Has
      <4> QED
        BY <4>1, <4>2
    <3>3. CASE r.ok
      <4>1. last' # "failed"
        BY <3>1, <3>3
      <4>2. last' # "ended" => Kept(svc, svc')
        BY <3>1, <3>3
      <4> QED
        BY <4>1, <4>2 DEF Kept
    <3> QED
      BY <3>2, <3>3
  <2>2. CASE SaveImage
    <3>1. svc' = [svc EXCEPT !.dirty = {}] /\ last' = "kept" /\ DOMAIN svc = Fields
      BY <1>1, <2>2 DEF SaveImage, Inv, Sound, Typed
    <3>2. svc'.active = svc.active /\ svc'.deleted = svc.deleted
      BY <3>1 DEF Fields
    <3> QED
      BY <3>1, <3>2
  <2>3. CASE Reload
    BY <2>3 DEF Reload
  <2>4. CASE Repair
    BY <2>4 DEF Repair
  <2> QED
    BY <1>1, <2>1, <2>2, <2>3, <2>4, NextIs DEF Inv
<1>2. Spec => [][A]_vars
  BY <1>1, Invariant, PTL DEF Spec
<1> QED
  BY <1>2 DEF NothingVanishes
================================================================================
