----------------------------- MODULE WinFspFlush -----------------------------
(***************************************************************************)
(* Write-back of a volume image mounted on Windows                         *)
(* (src/platform/windows/winfsp_backend.rs).  Dispatcher threads run the   *)
(* file operations, a background thread persists about once a second, and  *)
(* the foreground thread unmounts when the console asks it to.  They share *)
(* the service and the device, each behind a mutex, and two atomic flags   *)
(* read and written outside the mutexes.                                   *)
(*                                                                         *)
(* A version is the number of changes made to the service.  A persist      *)
(* writes what differs from the image cache, so one that returns Ok leaves *)
(* the image whole only while that cache is right: it is not after a batch *)
(* that failed half-way, nor are its block descriptors after a partial     *)
(* persist that moved a file's bytes (ImagePersist).  The cache's mutex is *)
(* taken only with the device's held and is left out.  No thread panics,   *)
(* so no mutex is poisoned.                                                *)
(***************************************************************************)
EXTENDS Integers

CONSTANTS
    Clients,     \* dispatcher threads
    Flusher,     \* the background thread
    Main,        \* the foreground thread
    NoOne,       \* holder of a free mutex
    Modes,       \* flush modes a mount may choose: TRUE strict, FALSE deferred
    MayStop,     \* the console stops the mount in this run
    MaxVersion,  \* bound: changes to the service
    MaxErr       \* bound: device errors

Threads == Clients \cup {Flusher, Main}
Mixed == -1

ASSUME ThreadAssumption ==
    /\ Flusher \notin Clients /\ Main \notin Clients /\ Flusher # Main
    /\ NoOne \notin Threads
    /\ Modes \subseteq BOOLEAN /\ MayStop \in BOOLEAN
    /\ MaxVersion \in Nat /\ MaxErr \in Nat

VARIABLES
    strict,     \* CoreFsState.flush_mode
    pc,         \* where each thread is
    svcLock,    \* holder of the service mutex
    devLock,    \* holder of the device mutex
    mem,        \* version of the service
    img,        \* version of the last persist that returned Ok, or Mixed
    whole,      \* the image loads and holds that version
    spoilt,     \* the image cache may differ from the device
    synced,     \* what the image holds is on stable storage
    dirty,      \* CoreFsState.dirty
    deferred,   \* CoreFsState.deferred_sync_dirty
    stop,       \* STOP_REQUESTED
    last,       \* the background thread is in its last pass
    snap,       \* version each thread's last persisted_state() captured
    own,        \* history: version of each thread's last completed change
    errs

vars == <<strict, pc, svcLock, devLock, mem, img, whole, spoilt, synced, dirty, deferred, stop, last, snap, own, errs>>

\* Places inside persist_if_dirty: the flag taken and the service mutex wanted,
\* the device mutex wanted, both held, image written, write failed.
Persisting == {"persist_lock", "persist_dev", "persist_write", "persist_wrote", "persist_failed"}

ClientPlaces == Persisting \cup {"idle", "change", "changed", "persist", "flush_info"}
FlusherPlaces == Persisting \cup {"top", "persist", "sync", "sync_dev", "done"}
MainPlaces == Persisting \cup {"stopping", "persist", "sync", "sync_dev", "join", "done"}

\* Where persist_if_dirty returns to.
AfterPersist(t) == IF t \in Clients THEN "flush_info" ELSE "sync"

\* A flush reports the error; the two other threads ignore it.
AfterFailure(t) == IF t \in Clients THEN "idle" ELSE "sync"

Goto(t, l) == pc' = [pc EXCEPT ![t] = l]

Init ==
    /\ strict \in Modes
    /\ pc = [t \in Threads |-> CASE t \in Clients -> "idle"
                                 [] t = Flusher -> "top"
                                 [] OTHER -> "stopping"]
    /\ svcLock = NoOne /\ devLock = NoOne
    /\ mem = 0 /\ img = 0
    /\ whole = TRUE /\ spoilt = FALSE
    /\ synced = TRUE
    /\ dirty = FALSE /\ deferred = FALSE /\ stop = FALSE /\ last = FALSE
    /\ snap = [t \in Threads |-> 0]
    /\ own = [t \in Threads |-> 0]
    /\ errs = 0

-----------------------------------------------------------------------------
(* File operations *)

\* create, cleanup, rename, set_file_size, write: take the service mutex ...
LockForChange(c) ==
    /\ pc[c] = "idle" /\ pc[Main] = "stopping"
    /\ svcLock = NoOne
    /\ svcLock' = c
    /\ Goto(c, "change")
    /\ UNCHANGED <<strict, devLock, mem, img, whole, spoilt, synced, dirty, deferred, stop, last, snap, own, errs>>

\* ... change the service, or return the error it gives (cleanup ignores it
\* and marks the service dirty all the same) ...
Change(c) ==
    /\ pc[c] = "change"
    /\ \/ /\ mem' \in {mem, mem + 1}
          /\ mem' <= MaxVersion
          /\ Goto(c, "changed")
          /\ UNCHANGED svcLock
       \/ /\ Goto(c, "idle")
          /\ svcLock' = NoOne
          /\ UNCHANGED mem
    /\ UNCHANGED <<strict, devLock, img, whole, spoilt, synced, dirty, deferred, stop, last, snap, own, errs>>

\* ... and mark it dirty before the mutex is released.
MarkDirty(c) ==
    /\ pc[c] = "changed"
    /\ dirty' = TRUE
    /\ own' = [own EXCEPT ![c] = mem]
    /\ svcLock' = NoOne
    /\ Goto(c, "idle")
    /\ UNCHANGED <<strict, devLock, mem, img, whole, spoilt, synced, deferred, stop, last, snap, errs>>

\* flush: persists in strict mode only, then reads the file's info.
Flush(c) ==
    /\ pc[c] = "idle" /\ pc[Main] = "stopping"
    /\ Goto(c, IF strict THEN "persist" ELSE "flush_info")
    /\ UNCHANGED <<strict, svcLock, devLock, mem, img, whole, spoilt, synced, dirty, deferred, stop, last, snap, own, errs>>

FlushInfo(c) ==
    /\ pc[c] = "flush_info"
    /\ svcLock = NoOne
    /\ Goto(c, "idle")
    /\ UNCHANGED <<strict, svcLock, devLock, mem, img, whole, spoilt, synced, dirty, deferred, stop, last, snap, own, errs>>

-----------------------------------------------------------------------------
(* persist_if_dirty *)

\* The flag is taken before any mutex: a caller that finds it clear returns Ok.
TakeDirty(t) ==
    /\ pc[t] = "persist"
    /\ dirty' = FALSE
    /\ Goto(t, IF dirty THEN "persist_lock" ELSE AfterPersist(t))
    /\ UNCHANGED <<strict, svcLock, devLock, mem, img, whole, spoilt, synced, deferred, stop, last, snap, own, errs>>

\* Fault: the state is captured without the service mutex.
CaptureUnlocked(t) ==
    /\ pc[t] = "persist_lock"
    /\ snap' = [snap EXCEPT ![t] = mem]
    /\ Goto(t, "persist_dev")
    /\ UNCHANGED <<strict, svcLock, devLock, mem, img, whole, spoilt, synced, dirty, deferred, stop, last, own, errs>>

LockService(t) ==
    /\ pc[t] = "persist_lock"
    /\ svcLock = NoOne
    /\ svcLock' = t
    /\ snap' = [snap EXCEPT ![t] = mem]
    /\ Goto(t, "persist_dev")
    /\ UNCHANGED <<strict, devLock, mem, img, whole, spoilt, synced, dirty, deferred, stop, last, own, errs>>

LockDevice(t) ==
    /\ pc[t] = "persist_dev"
    /\ devLock = NoOne
    /\ devLock' = t
    /\ Goto(t, "persist_write")
    /\ UNCHANGED <<strict, svcLock, mem, img, whole, spoilt, synced, dirty, deferred, stop, last, snap, own, errs>>

\* Every write is durable in strict mode; in deferred mode only a persist that
\* grew the file syncs.  The image comes out whole unless segments were skipped
\* or cut by a cache that is not right; a partial persist that moves a file's
\* bytes keeps the descriptors from before.
WriteImage(t) ==
    /\ pc[t] = "persist_write"
    /\ img' = snap[t]
    /\ whole' \in BOOLEAN
    /\ ~spoilt => whole'
    /\ spoilt' \in BOOLEAN
    /\ spoilt => spoilt'
    /\ synced' \in BOOLEAN
    /\ strict => synced'
    /\ Goto(t, "persist_wrote")
    /\ UNCHANGED <<strict, svcLock, devLock, mem, dirty, deferred, stop, last, snap, own, errs>>

\* A write fails, and the cache keeps what the device held before the batch; or
\* the sync behind the batch fails, with the cache already brought up to date.
WriteImageFails(t) ==
    /\ pc[t] = "persist_write"
    /\ errs < MaxErr
    /\ errs' = errs + 1
    /\ img' = Mixed
    /\ whole' = FALSE
    /\ spoilt' \in BOOLEAN
    /\ spoilt => spoilt'
    /\ synced' = strict
    /\ Goto(t, "persist_failed")
    /\ UNCHANGED <<strict, svcLock, devLock, mem, dirty, deferred, stop, last, snap, own>>

Unlock(t) ==
    /\ svcLock' = NoOne
    /\ devLock' = NoOne

\* Fault: a deferred persist does not ask for a sync.
ReturnUnflagged(t) ==
    /\ pc[t] = "persist_wrote"
    /\ Unlock(t)
    /\ Goto(t, AfterPersist(t))
    /\ UNCHANGED <<strict, mem, img, whole, spoilt, synced, dirty, deferred, stop, last, snap, own, errs>>

PersistReturns(t) ==
    /\ pc[t] = "persist_wrote"
    /\ deferred' = (deferred \/ ~strict)
    /\ Unlock(t)
    /\ Goto(t, AfterPersist(t))
    /\ UNCHANGED <<strict, mem, img, whole, spoilt, synced, dirty, stop, last, snap, own, errs>>

PersistFails(t) ==
    /\ pc[t] = "persist_failed"
    /\ dirty' = TRUE
    /\ Unlock(t)
    /\ Goto(t, AfterFailure(t))
    /\ UNCHANGED <<strict, mem, img, whole, spoilt, synced, deferred, stop, last, snap, own, errs>>

-----------------------------------------------------------------------------
(* sync_deferred, called by the background and the foreground thread *)

\* The background thread's last pass ends it, the others begin a new one.
AfterSync(t) == CASE t = Main -> "join"
                  [] t # Main /\ last -> "done"
                  [] OTHER -> "top"

TakeDeferred(t) ==
    /\ pc[t] = "sync"
    /\ deferred' = (deferred /\ strict)
    /\ Goto(t, IF deferred /\ ~strict THEN "sync_dev" ELSE AfterSync(t))
    /\ UNCHANGED <<strict, svcLock, devLock, mem, img, whole, spoilt, synced, dirty, stop, last, snap, own, errs>>

\* force_sync under the device mutex.
ForceSync(t) ==
    /\ pc[t] = "sync_dev"
    /\ devLock = NoOne
    /\ synced' = TRUE
    /\ Goto(t, AfterSync(t))
    /\ UNCHANGED <<strict, svcLock, devLock, mem, img, whole, spoilt, dirty, deferred, stop, last, snap, own, errs>>

ForceSyncFails(t) ==
    /\ pc[t] = "sync_dev"
    /\ devLock = NoOne
    /\ errs < MaxErr
    /\ errs' = errs + 1
    /\ deferred' = TRUE
    /\ Goto(t, AfterSync(t))
    /\ UNCHANGED <<strict, svcLock, devLock, mem, img, whole, spoilt, synced, dirty, stop, last, snap, own>>

-----------------------------------------------------------------------------
(* The background thread's loop, and the foreground thread's shutdown *)

\* Fault: the background thread persists when it is told to stop, not before.
PassAtStop ==
    /\ pc[Flusher] = "top" /\ stop
    /\ last' = stop
    /\ Goto(Flusher, "persist")
    /\ UNCHANGED <<strict, svcLock, devLock, mem, img, whole, spoilt, synced, dirty, deferred, stop, snap, own, errs>>

\* One pass a second while the mount runs, and one more once it is to stop.
NextPass ==
    /\ pc[Flusher] = "top"
    /\ last' = stop
    /\ Goto(Flusher, "persist")
    /\ UNCHANGED <<strict, svcLock, devLock, mem, img, whole, spoilt, synced, dirty, deferred, stop, snap, own, errs>>

\* The console handler.
RequestStop ==
    /\ MayStop /\ ~stop
    /\ stop' = TRUE
    /\ UNCHANGED <<strict, pc, svcLock, devLock, mem, img, whole, spoilt, synced, dirty, deferred, last, snap, own, errs>>

\* host.stop() returns when no file operation is running and lets none begin.
StopHost ==
    /\ pc[Main] = "stopping"
    /\ stop
    /\ \A c \in Clients : pc[c] = "idle"
    /\ Goto(Main, "persist")
    /\ UNCHANGED <<strict, svcLock, devLock, mem, img, whole, spoilt, synced, dirty, deferred, stop, last, snap, own, errs>>

\* Fault: the mount ends without waiting for the background thread.
LeaveFlusher ==
    /\ pc[Main] = "join"
    /\ Goto(Main, "done")
    /\ UNCHANGED <<strict, svcLock, devLock, mem, img, whole, spoilt, synced, dirty, deferred, stop, last, snap, own, errs>>

JoinFlusher ==
    /\ pc[Main] = "join"
    /\ pc[Flusher] = "done"
    /\ Goto(Main, "done")
    /\ UNCHANGED <<strict, svcLock, devLock, mem, img, whole, spoilt, synced, dirty, deferred, stop, last, snap, own, errs>>

\* The mount has ended.
Unmounted ==
    /\ pc[Main] = "done"
    /\ UNCHANGED vars

-----------------------------------------------------------------------------
Operation(c) == LockForChange(c) \/ Flush(c)

Working(c) == Change(c) \/ MarkDirty(c) \/ FlushInfo(c)

Persist(t) ==
    \/ TakeDirty(t) \/ LockService(t) \/ LockDevice(t) \/ WriteImage(t)
    \/ WriteImageFails(t) \/ PersistReturns(t) \/ PersistFails(t)

SyncDeferred(t) == TakeDeferred(t) \/ ForceSync(t) \/ ForceSyncFails(t)

Next ==
    \/ \E c \in Clients : Operation(c) \/ Working(c)
    \/ \E t \in Threads : Persist(t) \/ SyncDeferred(t)
    \/ NextPass \/ RequestStop \/ StopHost \/ JoinFlusher \/ Unmounted

\* The operating system runs every thread that can run, and a thread that wants
\* a mutex that keeps being released gets it in the end.  Nobody has to begin
\* a file operation or to stop the mount.
Fairness ==
    /\ \A c \in Clients : WF_vars(Working(c))
    /\ \A t \in Threads : SF_vars(Persist(t)) /\ SF_vars(SyncDeferred(t))
    /\ WF_vars(NextPass) /\ WF_vars(StopHost) /\ WF_vars(JoinFlusher)

Spec == Init /\ [][Next]_vars

FairSpec == Spec /\ Fairness

-----------------------------------------------------------------------------
(* Properties *)

\* Type invariant of the flags, the mutexes and the threads' places.
TypeOK ==
    /\ pc \in [Threads -> ClientPlaces \cup FlusherPlaces \cup MainPlaces]
    /\ \A c \in Clients : pc[c] \in ClientPlaces
    /\ pc[Flusher] \in FlusherPlaces /\ pc[Main] \in MainPlaces
    /\ svcLock \in Threads \cup {NoOne} /\ devLock \in Threads \cup {NoOne}
    /\ mem \in 0 .. MaxVersion
    /\ img \in -1 .. MaxVersion
    /\ strict \in BOOLEAN
    /\ whole \in BOOLEAN /\ spoilt \in BOOLEAN
    /\ synced \in BOOLEAN /\ dirty \in BOOLEAN /\ deferred \in BOOLEAN
    /\ stop \in BOOLEAN /\ last \in BOOLEAN
    /\ snap \in [Threads -> 0 .. MaxVersion] /\ own \in [Threads -> 0 .. MaxVersion]
    /\ errs \in 0 .. MaxErr

\* A change that no persist has returned Ok for is still announced: the dirty
\* flag is set, or a thread has taken it and will persist or set it again, or the
\* thread that made the change has not yet marked it.  The flag is taken before
\* the mutex and set while another thread may be about to capture the state, so
\* this rests on both mutexes.
NothingForgotten ==
    img # mem => \/ dirty
                 \/ \E t \in Threads : pc[t] \in Persisting
                 \/ \E c \in Clients : pc[c] = "changed"

\* In deferred mode a complete persist that is not on stable storage has its
\* sync pending: flagged, about to be flagged, or about to be done.
SyncPending ==
    ~synced /\ img # Mixed
    => deferred \/ \E t \in Threads : pc[t] \in {"persist_wrote", "sync_dev"}

\* When the mount ends without a device error, a persist has returned Ok for every
\* change and the image is on stable storage, whichever thread took the flags;
\* and the image is whole unless a persist moved bytes under cached descriptors.
UnmountPersists ==
    pc[Main] = "done" /\ errs = 0 => img = mem /\ synced /\ (whole \/ spoilt)

\* Strict mode: once persist_if_dirty has returned Ok to a flush, the changes
\* the same thread made before are in the image.
StrictFlush ==
    strict => \A c \in Clients : pc[c] = "flush_info" => img >= own[c]

\* After finitely many device errors, unless the mount is stopped first, whatever
\* was changed is covered by a persist that returned Ok and was synced, and the
\* image is whole while the cache is right.  It need not be after a batch that
\* failed half-way (the retry skips what the cache, which was not updated, takes
\* for written) or under descriptors from before a move.
EventuallyStored ==
    \A v \in 1 .. MaxVersion :
        mem >= v ~> stop \/ (img >= v /\ synced /\ (whole \/ spoilt))
=============================================================================
