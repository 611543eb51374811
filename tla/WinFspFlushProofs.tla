-------------------------- MODULE WinFspFlushProofs --------------------------
(***************************************************************************)
(* WinFspFlush for any number of file operation threads, changes and       *)
(* device errors: no change is forgotten, no sync is forgotten, and an     *)
(* unmount without device errors has stored everything.                    *)
(***************************************************************************)
EXTENDS WinFspFlush, TLAPS

-----------------------------------------------------------------------------
(* The inductive invariant *)

HoldService == {"change", "changed", "persist_dev", "persist_write",
                "persist_wrote", "persist_failed"}
HoldDevice == {"persist_write", "persist_wrote", "persist_failed"}

\* A thread inside a critical section is the holder of its mutex.
Mutexes ==
    \A t \in Threads : /\ pc[t] \in HoldService => svcLock = t
                       /\ pc[t] \in HoldDevice => devLock = t

\* What a persisting thread captured, and then wrote, is the service's version.
Current ==
    \A t \in Threads : /\ pc[t] \in {"persist_dev", "persist_write"} => snap[t] = mem
                       /\ pc[t] = "persist_wrote" => img = mem

\* Strict mode never leaves the image unsynced, and only a device error leaves
\* it incomplete; while the cache is right a persist that returns Ok makes it
\* whole.
Written == /\ strict => synced
           /\ img # Mixed => whole \/ spoilt
           /\ errs = 0 => img # Mixed
           /\ errs = 0 => \A t \in Threads : pc[t] # "persist_failed"

\* Once host.stop() has returned no file operation runs; after the foreground
\* thread has taken the flags, only the background thread can have set the
\* deferred one again, and it is about to take it.
Stopping ==
    /\ pc[Main] # "stopping" => \A c \in Clients : pc[c] = "idle"
    /\ pc[Main] = "done" => pc[Flusher] = "done"
    /\ errs = 0 /\ pc[Main] \notin {"stopping", "persist"} => ~dirty
    /\ /\ errs = 0 /\ ~strict /\ deferred
       /\ pc[Main] \in {"sync_dev", "join", "done"}
       => pc[Flusher] = "sync"

IInv == /\ TypeOK /\ Mutexes /\ Current /\ Written /\ Stopping
        /\ NothingForgotten /\ SyncPending

-----------------------------------------------------------------------------
(* Every step preserves each part *)

\* Every step keeps the threads in their own code and the counters in bounds.
LEMMA TypeStep ==
    TypeOK /\ [Next]_vars => TypeOK'
PROOF
<1> SUFFICES ASSUME TypeOK, [Next]_vars PROVE TypeOK'
  OBVIOUS
<1> USE ThreadAssumption DEF TypeOK, Threads, Mixed, Persisting, ClientPlaces, FlusherPlaces, MainPlaces
<1>1. ASSUME NEW c \in Clients, LockForChange(c) PROVE TypeOK'
  BY <1>1 DEF LockForChange, Goto
<1>2. ASSUME NEW c \in Clients, Change(c) PROVE TypeOK'
  BY <1>2 DEF Change, Goto
<1>3. ASSUME NEW c \in Clients, MarkDirty(c) PROVE TypeOK'
  BY <1>3 DEF MarkDirty, Goto
<1>4. ASSUME NEW c \in Clients, Flush(c) PROVE TypeOK'
  BY <1>4 DEF Flush, Goto
<1>5. ASSUME NEW c \in Clients, FlushInfo(c) PROVE TypeOK'
  BY <1>5 DEF FlushInfo, Goto
<1>6. ASSUME NEW t \in Threads, TakeDirty(t) PROVE TypeOK'
  <2>1. pc'[t] \in {"persist_lock", AfterPersist(t)} /\ pc' = [pc EXCEPT ![t] = pc'[t]]
    BY <1>6 DEF TakeDirty, Goto
  <2>2. /\ dirty' \in BOOLEAN
        /\ UNCHANGED <<strict, svcLock, devLock, mem, img, whole, spoilt, synced, deferred, stop, last, snap, own, errs>>
    BY <1>6 DEF TakeDirty
  <2>3. CASE t \in Clients
    BY <2>1, <2>2, <2>3 DEF AfterPersist
  <2>4. CASE t \notin Clients
    BY <2>1, <2>2, <2>4 DEF AfterPersist
  <2> QED
    BY <2>3, <2>4
<1>7. ASSUME NEW t \in Threads, LockService(t) PROVE TypeOK'
  BY <1>7 DEF LockService, Goto
<1>8. ASSUME NEW t \in Threads, LockDevice(t) PROVE TypeOK'
  BY <1>8 DEF LockDevice, Goto
<1>9. ASSUME NEW t \in Threads, WriteImage(t) PROVE TypeOK'
  BY <1>9 DEF WriteImage, Goto
<1>10. ASSUME NEW t \in Threads, WriteImageFails(t) PROVE TypeOK'
  <2>1. /\ whole' = FALSE /\ spoilt' \in BOOLEAN /\ synced' = strict
        /\ img' = -1 /\ errs' \in 0 .. MaxErr
        /\ pc' = [pc EXCEPT ![t] = "persist_failed"]
        /\ UNCHANGED <<strict, svcLock, devLock, mem, dirty, deferred, stop, last, snap, own>>
    BY <1>10 DEF WriteImageFails, Goto
  <2>2. whole' \in BOOLEAN /\ synced' \in BOOLEAN
    BY <2>1
  <2>3. pc' \in [Threads -> ClientPlaces \cup FlusherPlaces \cup MainPlaces]
    BY <2>1
  <2>4. /\ \A c \in Clients : pc'[c] \in ClientPlaces
        /\ pc'[Flusher] \in FlusherPlaces /\ pc'[Main] \in MainPlaces
    BY <2>1
  <2> QED
    BY <2>1, <2>2, <2>3, <2>4
<1>11. ASSUME NEW t \in Threads, PersistReturns(t) PROVE TypeOK'
  BY <1>11 DEF PersistReturns, AfterPersist, Unlock, Goto
<1>12. ASSUME NEW t \in Threads, PersistFails(t) PROVE TypeOK'
  BY <1>12 DEF PersistFails, AfterFailure, Unlock, Goto
<1>13. ASSUME NEW t \in Threads, TakeDeferred(t) PROVE TypeOK'
  BY <1>13 DEF TakeDeferred, AfterSync, Goto
<1>14. ASSUME NEW t \in Threads, ForceSync(t) PROVE TypeOK'
  BY <1>14 DEF ForceSync, AfterSync, Goto
<1>15. ASSUME NEW t \in Threads, ForceSyncFails(t) PROVE TypeOK'
  BY <1>15 DEF ForceSyncFails, AfterSync, Goto
<1>16. CASE NextPass
  BY <1>16 DEF NextPass, Goto
<1>17. CASE RequestStop
  BY <1>17 DEF RequestStop
<1>18. CASE StopHost
  BY <1>18 DEF StopHost, Goto
<1>19. CASE JoinFlusher
  BY <1>19 DEF JoinFlusher, Goto
<1>20. CASE Unmounted
  BY <1>20 DEF Unmounted, vars
<1>21. CASE UNCHANGED vars
  BY <1>21 DEF vars
<1> QED
  BY <1>1, <1>2, <1>3, <1>4, <1>5, <1>6, <1>7, <1>8, <1>9, <1>10, <1>11,
     <1>12, <1>13, <1>14, <1>15, <1>16, <1>17, <1>18, <1>19, <1>20, <1>21
     DEF Next, Operation, Working, Persist, SyncDeferred

\* Mutual exclusion: a mutex is entered only when it is free.
LEMMA MutexStep ==
    TypeOK /\ Mutexes /\ [Next]_vars => Mutexes'
PROOF
<1> SUFFICES ASSUME TypeOK, Mutexes, [Next]_vars PROVE Mutexes'
  OBVIOUS
<1> USE ThreadAssumption DEF TypeOK, Threads, Mutexes, HoldService, HoldDevice, Persisting, ClientPlaces, FlusherPlaces, MainPlaces
<1>1. ASSUME NEW c \in Clients, LockForChange(c) PROVE Mutexes'
  BY <1>1 DEF LockForChange, Goto
<1>2. ASSUME NEW c \in Clients, Change(c) PROVE Mutexes'
  BY <1>2 DEF Change, Goto
<1>3. ASSUME NEW c \in Clients, MarkDirty(c) PROVE Mutexes'
  BY <1>3 DEF MarkDirty, Goto
<1>4. ASSUME NEW c \in Clients, Flush(c) PROVE Mutexes'
  BY <1>4 DEF Flush, Goto
<1>5. ASSUME NEW c \in Clients, FlushInfo(c) PROVE Mutexes'
  BY <1>5 DEF FlushInfo, Goto
<1>6. ASSUME NEW t \in Threads, TakeDirty(t) PROVE Mutexes'
  BY <1>6 DEF TakeDirty, AfterPersist, Goto
<1>7. ASSUME NEW t \in Threads, LockService(t) PROVE Mutexes'
  BY <1>7 DEF LockService, Goto
<1>8. ASSUME NEW t \in Threads, LockDevice(t) PROVE Mutexes'
  BY <1>8 DEF LockDevice, Goto
<1>9. ASSUME NEW t \in Threads, WriteImage(t) PROVE Mutexes'
  BY <1>9 DEF WriteImage, Goto
<1>10. ASSUME NEW t \in Threads, WriteImageFails(t) PROVE Mutexes'
  BY <1>10 DEF WriteImageFails, Goto
<1>11. ASSUME NEW t \in Threads, PersistReturns(t) PROVE Mutexes'
  BY <1>11 DEF PersistReturns, AfterPersist, Unlock, Goto
<1>12. ASSUME NEW t \in Threads, PersistFails(t) PROVE Mutexes'
  BY <1>12 DEF PersistFails, AfterFailure, Unlock, Goto
<1>13. ASSUME NEW t \in Threads, TakeDeferred(t) PROVE Mutexes'
  BY <1>13 DEF TakeDeferred, AfterSync, Goto
<1>14. ASSUME NEW t \in Threads, ForceSync(t) PROVE Mutexes'
  BY <1>14 DEF ForceSync, AfterSync, Goto
<1>15. ASSUME NEW t \in Threads, ForceSyncFails(t) PROVE Mutexes'
  BY <1>15 DEF ForceSyncFails, AfterSync, Goto
<1>16. CASE NextPass
  BY <1>16 DEF NextPass, Goto
<1>17. CASE RequestStop
  BY <1>17 DEF RequestStop
<1>18. CASE StopHost
  BY <1>18 DEF StopHost, Goto
<1>19. CASE JoinFlusher
  BY <1>19 DEF JoinFlusher, Goto
<1>20. CASE Unmounted
  BY <1>20 DEF Unmounted, vars
<1>21. CASE UNCHANGED vars
  BY <1>21 DEF vars
<1> QED
  BY <1>1, <1>2, <1>3, <1>4, <1>5, <1>6, <1>7, <1>8, <1>9, <1>10, <1>11,
     <1>12, <1>13, <1>14, <1>15, <1>16, <1>17, <1>18, <1>19, <1>20, <1>21
     DEF Next, Operation, Working, Persist, SyncDeferred

\* The service does not change between a capture and the end of the write.
LEMMA CurrentStep ==
    TypeOK /\ Mutexes /\ Current /\ [Next]_vars => Current'
PROOF
<1> SUFFICES ASSUME TypeOK, Mutexes, Current, [Next]_vars PROVE Current'
  OBVIOUS
<1> USE ThreadAssumption DEF TypeOK, Threads, Mutexes, Current, HoldService, HoldDevice, Persisting, ClientPlaces, FlusherPlaces, MainPlaces
<1>1. ASSUME NEW c \in Clients, LockForChange(c) PROVE Current'
  BY <1>1 DEF LockForChange, Goto
<1>2. ASSUME NEW c \in Clients, Change(c) PROVE Current'
  BY <1>2 DEF Change, Goto
<1>3. ASSUME NEW c \in Clients, MarkDirty(c) PROVE Current'
  BY <1>3 DEF MarkDirty, Goto
<1>4. ASSUME NEW c \in Clients, Flush(c) PROVE Current'
  BY <1>4 DEF Flush, Goto
<1>5. ASSUME NEW c \in Clients, FlushInfo(c) PROVE Current'
  BY <1>5 DEF FlushInfo, Goto
<1>6. ASSUME NEW t \in Threads, TakeDirty(t) PROVE Current'
  BY <1>6 DEF TakeDirty, AfterPersist, Goto
<1>7. ASSUME NEW t \in Threads, LockService(t) PROVE Current'
  BY <1>7 DEF LockService, Goto
<1>8. ASSUME NEW t \in Threads, LockDevice(t) PROVE Current'
  BY <1>8 DEF LockDevice, Goto
<1>9. ASSUME NEW t \in Threads, WriteImage(t) PROVE Current'
  BY <1>9 DEF WriteImage, Goto
<1>10. ASSUME NEW t \in Threads, WriteImageFails(t) PROVE Current'
  BY <1>10 DEF WriteImageFails, Goto
<1>11. ASSUME NEW t \in Threads, PersistReturns(t) PROVE Current'
  BY <1>11 DEF PersistReturns, AfterPersist, Unlock, Goto
<1>12. ASSUME NEW t \in Threads, PersistFails(t) PROVE Current'
  BY <1>12 DEF PersistFails, AfterFailure, Unlock, Goto
<1>13. ASSUME NEW t \in Threads, TakeDeferred(t) PROVE Current'
  BY <1>13 DEF TakeDeferred, AfterSync, Goto
<1>14. ASSUME NEW t \in Threads, ForceSync(t) PROVE Current'
  BY <1>14 DEF ForceSync, AfterSync, Goto
<1>15. ASSUME NEW t \in Threads, ForceSyncFails(t) PROVE Current'
  BY <1>15 DEF ForceSyncFails, AfterSync, Goto
<1>16. CASE NextPass
  BY <1>16 DEF NextPass, Goto
<1>17. CASE RequestStop
  BY <1>17 DEF RequestStop
<1>18. CASE StopHost
  BY <1>18 DEF StopHost, Goto
<1>19. CASE JoinFlusher
  BY <1>19 DEF JoinFlusher, Goto
<1>20. CASE Unmounted
  BY <1>20 DEF Unmounted, vars
<1>21. CASE UNCHANGED vars
  BY <1>21 DEF vars
<1> QED
  BY <1>1, <1>2, <1>3, <1>4, <1>5, <1>6, <1>7, <1>8, <1>9, <1>10, <1>11,
     <1>12, <1>13, <1>14, <1>15, <1>16, <1>17, <1>18, <1>19, <1>20, <1>21
     DEF Next, Operation, Working, Persist, SyncDeferred

\* Only a device error leaves the image incomplete, and only deferred mode leaves
\* it unsynced.
LEMMA WrittenStep ==
    TypeOK /\ Current /\ Written /\ [Next]_vars => Written'
PROOF
<1> SUFFICES ASSUME TypeOK, Current, Written, [Next]_vars PROVE Written'
  OBVIOUS
<1> USE ThreadAssumption DEF TypeOK, Threads, Current, Written, Mixed, Persisting, ClientPlaces, FlusherPlaces, MainPlaces
<1>1. ASSUME NEW c \in Clients, LockForChange(c) PROVE Written'
  BY <1>1 DEF LockForChange, Goto
<1>2. ASSUME NEW c \in Clients, Change(c) PROVE Written'
  BY <1>2 DEF Change, Goto
<1>3. ASSUME NEW c \in Clients, MarkDirty(c) PROVE Written'
  BY <1>3 DEF MarkDirty, Goto
<1>4. ASSUME NEW c \in Clients, Flush(c) PROVE Written'
  BY <1>4 DEF Flush, Goto
<1>5. ASSUME NEW c \in Clients, FlushInfo(c) PROVE Written'
  BY <1>5 DEF FlushInfo, Goto
<1>6. ASSUME NEW t \in Threads, TakeDirty(t) PROVE Written'
  BY <1>6 DEF TakeDirty, AfterPersist, Goto
<1>7. ASSUME NEW t \in Threads, LockService(t) PROVE Written'
  BY <1>7 DEF LockService, Goto
<1>8. ASSUME NEW t \in Threads, LockDevice(t) PROVE Written'
  BY <1>8 DEF LockDevice, Goto
<1>9. ASSUME NEW t \in Threads, WriteImage(t) PROVE Written'
  BY <1>9 DEF WriteImage, Goto
<1>10. ASSUME NEW t \in Threads, WriteImageFails(t) PROVE Written'
  BY <1>10 DEF WriteImageFails, Goto
<1>11. ASSUME NEW t \in Threads, PersistReturns(t) PROVE Written'
  BY <1>11 DEF PersistReturns, AfterPersist, Unlock, Goto
<1>12. ASSUME NEW t \in Threads, PersistFails(t) PROVE Written'
  BY <1>12 DEF PersistFails, AfterFailure, Unlock, Goto
<1>13. ASSUME NEW t \in Threads, TakeDeferred(t) PROVE Written'
  BY <1>13 DEF TakeDeferred, AfterSync, Goto
<1>14. ASSUME NEW t \in Threads, ForceSync(t) PROVE Written'
  BY <1>14 DEF ForceSync, AfterSync, Goto
<1>15. ASSUME NEW t \in Threads, ForceSyncFails(t) PROVE Written'
  BY <1>15 DEF ForceSyncFails, AfterSync, Goto
<1>16. CASE NextPass
  BY <1>16 DEF NextPass, Goto
<1>17. CASE RequestStop
  BY <1>17 DEF RequestStop
<1>18. CASE StopHost
  BY <1>18 DEF StopHost, Goto
<1>19. CASE JoinFlusher
  BY <1>19 DEF JoinFlusher, Goto
<1>20. CASE Unmounted
  BY <1>20 DEF Unmounted, vars
<1>21. CASE UNCHANGED vars
  BY <1>21 DEF vars
<1> QED
  BY <1>1, <1>2, <1>3, <1>4, <1>5, <1>6, <1>7, <1>8, <1>9, <1>10, <1>11,
     <1>12, <1>13, <1>14, <1>15, <1>16, <1>17, <1>18, <1>19, <1>20, <1>21
     DEF Next, Operation, Working, Persist, SyncDeferred

\* The shutdown sequence.
LEMMA StoppingStep ==
    TypeOK /\ Written /\ Stopping /\ [Next]_vars => Stopping'
PROOF
<1> SUFFICES ASSUME TypeOK, Written, Stopping, [Next]_vars PROVE Stopping'
  OBVIOUS
<1> USE ThreadAssumption DEF TypeOK, Threads, Written, Stopping, Persisting, ClientPlaces, FlusherPlaces, MainPlaces
<1>1. ASSUME NEW c \in Clients, LockForChange(c) PROVE Stopping'
  BY <1>1 DEF LockForChange, Goto
<1>2. ASSUME NEW c \in Clients, Change(c) PROVE Stopping'
  BY <1>2 DEF Change, Goto
<1>3. ASSUME NEW c \in Clients, MarkDirty(c) PROVE Stopping'
  BY <1>3 DEF MarkDirty, Goto
<1>4. ASSUME NEW c \in Clients, Flush(c) PROVE Stopping'
  BY <1>4 DEF Flush, Goto
<1>5. ASSUME NEW c \in Clients, FlushInfo(c) PROVE Stopping'
  BY <1>5 DEF FlushInfo, Goto
<1>6. ASSUME NEW t \in Threads, TakeDirty(t) PROVE Stopping'
  BY <1>6 DEF TakeDirty, AfterPersist, Goto
<1>7. ASSUME NEW t \in Threads, LockService(t) PROVE Stopping'
  BY <1>7 DEF LockService, Goto
<1>8. ASSUME NEW t \in Threads, LockDevice(t) PROVE Stopping'
  BY <1>8 DEF LockDevice, Goto
<1>9. ASSUME NEW t \in Threads, WriteImage(t) PROVE Stopping'
  BY <1>9 DEF WriteImage, Goto
<1>10. ASSUME NEW t \in Threads, WriteImageFails(t) PROVE Stopping'
  BY <1>10 DEF WriteImageFails, Goto
<1>11. ASSUME NEW t \in Threads, PersistReturns(t) PROVE Stopping'
  BY <1>11 DEF PersistReturns, AfterPersist, Unlock, Goto
<1>12. ASSUME NEW t \in Threads, PersistFails(t) PROVE Stopping'
  BY <1>12 DEF PersistFails, AfterFailure, Unlock, Goto
<1>13. ASSUME NEW t \in Threads, TakeDeferred(t) PROVE Stopping'
  BY <1>13 DEF TakeDeferred, AfterSync, Goto
<1>14. ASSUME NEW t \in Threads, ForceSync(t) PROVE Stopping'
  BY <1>14 DEF ForceSync, AfterSync, Goto
<1>15. ASSUME NEW t \in Threads, ForceSyncFails(t) PROVE Stopping'
  BY <1>15 DEF ForceSyncFails, AfterSync, Goto
<1>16. CASE NextPass
  BY <1>16 DEF NextPass, Goto
<1>17. CASE RequestStop
  BY <1>17 DEF RequestStop
<1>18. CASE StopHost
  BY <1>18 DEF StopHost, Goto
<1>19. CASE JoinFlusher
  BY <1>19 DEF JoinFlusher, Goto
<1>20. CASE Unmounted
  BY <1>20 DEF Unmounted, vars
<1>21. CASE UNCHANGED vars
  BY <1>21 DEF vars
<1> QED
  BY <1>1, <1>2, <1>3, <1>4, <1>5, <1>6, <1>7, <1>8, <1>9, <1>10, <1>11,
     <1>12, <1>13, <1>14, <1>15, <1>16, <1>17, <1>18, <1>19, <1>20, <1>21
     DEF Next, Operation, Working, Persist, SyncDeferred

\* The dirty flag: who clears it persists what it announced or sets it again.
LEMMA ForgottenStep ==
    TypeOK /\ Current /\ NothingForgotten /\ [Next]_vars => NothingForgotten'
PROOF
<1> SUFFICES ASSUME TypeOK, Current, NothingForgotten, [Next]_vars PROVE NothingForgotten'
  OBVIOUS
<1> USE ThreadAssumption DEF TypeOK, Threads, Current, NothingForgotten, Persisting, ClientPlaces, FlusherPlaces, MainPlaces
<1>1. ASSUME NEW c \in Clients, LockForChange(c) PROVE NothingForgotten'
  BY <1>1 DEF LockForChange, Goto
<1>2. ASSUME NEW c \in Clients, Change(c) PROVE NothingForgotten'
  BY <1>2 DEF Change, Goto
<1>3. ASSUME NEW c \in Clients, MarkDirty(c) PROVE NothingForgotten'
  BY <1>3 DEF MarkDirty, Goto
<1>4. ASSUME NEW c \in Clients, Flush(c) PROVE NothingForgotten'
  BY <1>4 DEF Flush, Goto
<1>5. ASSUME NEW c \in Clients, FlushInfo(c) PROVE NothingForgotten'
  BY <1>5 DEF FlushInfo, Goto
<1>6. ASSUME NEW t \in Threads, TakeDirty(t) PROVE NothingForgotten'
  BY <1>6 DEF TakeDirty, AfterPersist, Goto
<1>7. ASSUME NEW t \in Threads, LockService(t) PROVE NothingForgotten'
  BY <1>7 DEF LockService, Goto
<1>8. ASSUME NEW t \in Threads, LockDevice(t) PROVE NothingForgotten'
  BY <1>8 DEF LockDevice, Goto
<1>9. ASSUME NEW t \in Threads, WriteImage(t) PROVE NothingForgotten'
  BY <1>9 DEF WriteImage, Goto
<1>10. ASSUME NEW t \in Threads, WriteImageFails(t) PROVE NothingForgotten'
  BY <1>10 DEF WriteImageFails, Goto
<1>11. ASSUME NEW t \in Threads, PersistReturns(t) PROVE NothingForgotten'
  BY <1>11 DEF PersistReturns, AfterPersist, Unlock, Goto
<1>12. ASSUME NEW t \in Threads, PersistFails(t) PROVE NothingForgotten'
  BY <1>12 DEF PersistFails, AfterFailure, Unlock, Goto
<1>13. ASSUME NEW t \in Threads, TakeDeferred(t) PROVE NothingForgotten'
  BY <1>13 DEF TakeDeferred, AfterSync, Goto
<1>14. ASSUME NEW t \in Threads, ForceSync(t) PROVE NothingForgotten'
  BY <1>14 DEF ForceSync, AfterSync, Goto
<1>15. ASSUME NEW t \in Threads, ForceSyncFails(t) PROVE NothingForgotten'
  BY <1>15 DEF ForceSyncFails, AfterSync, Goto
<1>16. CASE NextPass
  BY <1>16 DEF NextPass, Goto
<1>17. CASE RequestStop
  BY <1>17 DEF RequestStop
<1>18. CASE StopHost
  BY <1>18 DEF StopHost, Goto
<1>19. CASE JoinFlusher
  BY <1>19 DEF JoinFlusher, Goto
<1>20. CASE Unmounted
  BY <1>20 DEF Unmounted, vars
<1>21. CASE UNCHANGED vars
  BY <1>21 DEF vars
<1> QED
  BY <1>1, <1>2, <1>3, <1>4, <1>5, <1>6, <1>7, <1>8, <1>9, <1>10, <1>11,
     <1>12, <1>13, <1>14, <1>15, <1>16, <1>17, <1>18, <1>19, <1>20, <1>21
     DEF Next, Operation, Working, Persist, SyncDeferred

\* The deferred flag: who clears it syncs or sets it again.
LEMMA SyncStep ==
    TypeOK /\ Written /\ SyncPending /\ [Next]_vars => SyncPending'
PROOF
<1> SUFFICES ASSUME TypeOK, Written, SyncPending, [Next]_vars PROVE SyncPending'
  OBVIOUS
<1> USE ThreadAssumption DEF TypeOK, Threads, Written, SyncPending, Mixed, Persisting, ClientPlaces, FlusherPlaces, MainPlaces
<1>1. ASSUME NEW c \in Clients, LockForChange(c) PROVE SyncPending'
  BY <1>1 DEF LockForChange, Goto
<1>2. ASSUME NEW c \in Clients, Change(c) PROVE SyncPending'
  BY <1>2 DEF Change, Goto
<1>3. ASSUME NEW c \in Clients, MarkDirty(c) PROVE SyncPending'
  BY <1>3 DEF MarkDirty, Goto
<1>4. ASSUME NEW c \in Clients, Flush(c) PROVE SyncPending'
  BY <1>4 DEF Flush, Goto
<1>5. ASSUME NEW c \in Clients, FlushInfo(c) PROVE SyncPending'
  BY <1>5 DEF FlushInfo, Goto
<1>6. ASSUME NEW t \in Threads, TakeDirty(t) PROVE SyncPending'
  BY <1>6 DEF TakeDirty, AfterPersist, Goto
<1>7. ASSUME NEW t \in Threads, LockService(t) PROVE SyncPending'
  BY <1>7 DEF LockService, Goto
<1>8. ASSUME NEW t \in Threads, LockDevice(t) PROVE SyncPending'
  BY <1>8 DEF LockDevice, Goto
<1>9. ASSUME NEW t \in Threads, WriteImage(t) PROVE SyncPending'
  BY <1>9 DEF WriteImage, Goto
<1>10. ASSUME NEW t \in Threads, WriteImageFails(t) PROVE SyncPending'
  BY <1>10 DEF WriteImageFails, Goto
<1>11. ASSUME NEW t \in Threads, PersistReturns(t) PROVE SyncPending'
  BY <1>11 DEF PersistReturns, AfterPersist, Unlock, Goto
<1>12. ASSUME NEW t \in Threads, PersistFails(t) PROVE SyncPending'
  BY <1>12 DEF PersistFails, AfterFailure, Unlock, Goto
<1>13. ASSUME NEW t \in Threads, TakeDeferred(t) PROVE SyncPending'
  BY <1>13 DEF TakeDeferred, AfterSync, Goto
<1>14. ASSUME NEW t \in Threads, ForceSync(t) PROVE SyncPending'
  BY <1>14 DEF ForceSync, AfterSync, Goto
<1>15. ASSUME NEW t \in Threads, ForceSyncFails(t) PROVE SyncPending'
  BY <1>15 DEF ForceSyncFails, AfterSync, Goto
<1>16. CASE NextPass
  BY <1>16 DEF NextPass, Goto
<1>17. CASE RequestStop
  BY <1>17 DEF RequestStop
<1>18. CASE StopHost
  BY <1>18 DEF StopHost, Goto
<1>19. CASE JoinFlusher
  BY <1>19 DEF JoinFlusher, Goto
<1>20. CASE Unmounted
  BY <1>20 DEF Unmounted, vars
<1>21. CASE UNCHANGED vars
  BY <1>21 DEF vars
<1> QED
  BY <1>1, <1>2, <1>3, <1>4, <1>5, <1>6, <1>7, <1>8, <1>9, <1>10, <1>11,
     <1>12, <1>13, <1>14, <1>15, <1>16, <1>17, <1>18, <1>19, <1>20, <1>21
     DEF Next, Operation, Working, Persist, SyncDeferred

\* The inductive invariant holds when the mount begins.
LEMMA InductiveInit == Init => IInv
PROOF
<1> SUFFICES ASSUME Init PROVE IInv
  OBVIOUS
<1>1. /\ \A c \in Clients : c \in Threads /\ pc[c] = "idle"
      /\ Flusher \in Threads /\ pc[Flusher] = "top"
      /\ Main \in Threads /\ pc[Main] = "stopping"
  BY ThreadAssumption DEF Init, Threads
<1>2. \A t \in Threads : pc[t] \in {"idle", "top", "stopping"}
  BY <1>1 DEF Threads
<1>3. pc \in [Threads -> ClientPlaces \cup FlusherPlaces \cup MainPlaces]
  <2>1. pc = [t \in Threads |-> pc[t]]
    BY DEF Init
  <2>2. \A t \in Threads : pc[t] \in ClientPlaces \cup FlusherPlaces \cup MainPlaces
    BY <1>2 DEF ClientPlaces, FlusherPlaces, MainPlaces
  <2> QED
    BY <2>1, <2>2
<1>4. /\ svcLock = NoOne /\ devLock = NoOne
      /\ mem = 0 /\ img = 0 /\ errs = 0
      /\ whole = TRUE /\ spoilt = FALSE
      /\ synced = TRUE /\ dirty = FALSE /\ deferred = FALSE
      /\ stop = FALSE /\ last = FALSE
      /\ snap = [t \in Threads |-> 0] /\ own = [t \in Threads |-> 0]
  BY DEF Init
<1>5. TypeOK
  <2>1. /\ \A c \in Clients : pc[c] \in ClientPlaces
        /\ pc[Flusher] \in FlusherPlaces /\ pc[Main] \in MainPlaces
    BY <1>1 DEF ClientPlaces, FlusherPlaces, MainPlaces
  <2>2. /\ mem \in 0 .. MaxVersion /\ img \in -1 .. MaxVersion /\ errs \in 0 .. MaxErr
        /\ snap \in [Threads -> 0 .. MaxVersion] /\ own \in [Threads -> 0 .. MaxVersion]
    BY <1>4, ThreadAssumption
  <2>3. /\ whole \in BOOLEAN /\ spoilt \in BOOLEAN
        /\ synced \in BOOLEAN /\ dirty \in BOOLEAN /\ deferred \in BOOLEAN
        /\ stop \in BOOLEAN /\ last \in BOOLEAN
    BY <1>4
  <2>4. strict \in BOOLEAN
    BY ThreadAssumption DEF Init
  <2> QED
    BY <1>3, <1>4, <2>1, <2>2, <2>3, <2>4 DEF TypeOK
<1>6. Mutexes /\ Current
  <2> SUFFICES ASSUME NEW t \in Threads
               PROVE  /\ pc[t] \notin HoldService /\ pc[t] \notin HoldDevice
                      /\ pc[t] \notin {"persist_dev", "persist_write"}
                      /\ pc[t] # "persist_wrote"
    BY DEF Mutexes, Current
  <2>1. pc[t] = "idle" \/ pc[t] = "top" \/ pc[t] = "stopping"
    BY <1>2
  <2> QED
    BY <2>1 DEF HoldService, HoldDevice
<1>7. Written
  BY <1>2, <1>4 DEF Written, Mixed
<1>8. Stopping
  BY <1>1, <1>4 DEF Stopping
<1>9. NothingForgotten /\ SyncPending
  BY <1>4 DEF NothingForgotten, SyncPending
<1> QED
  BY <1>5, <1>6, <1>7, <1>8, <1>9 DEF IInv

\* Every step of every thread preserves the inductive invariant.
LEMMA InductiveStep == IInv /\ [Next]_vars => IInv'
PROOF
  BY TypeStep, MutexStep, CurrentStep, WrittenStep, StoppingStep, ForgottenStep,
     SyncStep DEF IInv

\* The inductive invariant holds throughout.
THEOREM Inductive == Spec => []IInv
PROOF
  BY InductiveInit, InductiveStep, PTL DEF Spec

\* Type correctness: every thread stays in its own code.
THEOREM TypeCorrect == Spec => []TypeOK
PROOF
<1>1. IInv => TypeOK
  BY DEF IInv
<1> QED
  BY <1>1, Inductive, PTL

\* persist_if_dirty and mark_dirty never lose a change, although the flag is
\* taken and set outside any common mutex.
THEOREM NeverForgotten == Spec => []NothingForgotten
PROOF
<1>1. IInv => NothingForgotten
  BY DEF IInv
<1> QED
  BY <1>1, Inductive, PTL

\* The same for the deferred sync.
THEOREM SyncNeverForgotten == Spec => []SyncPending
PROOF
<1>1. IInv => SyncPending
  BY DEF IInv
<1> QED
  BY <1>1, Inductive, PTL

\* An unmount without device errors leaves every change on stable storage, in an
\* image that is whole unless a persist moved bytes under cached descriptors: with
\* all threads at rest nothing but a set flag could announce a missing change,
\* and both flags have been taken.
THEOREM UnmountStores == Spec => []UnmountPersists
PROOF
<1>1. IInv => UnmountPersists
  <2> SUFFICES ASSUME IInv, pc[Main] = "done", errs = 0
               PROVE  img = mem /\ synced /\ (whole \/ spoilt)
    BY DEF UnmountPersists
  <2>1. /\ pc[Flusher] = "done"
        /\ \A c \in Clients : pc[c] = "idle"
        /\ ~dirty
    BY DEF IInv, Stopping
  <2>2. \A t \in Threads : pc[t] \in {"done", "idle"}
    BY <2>1 DEF Threads
  <2>3. img = mem
    BY <2>1, <2>2 DEF IInv, NothingForgotten, Persisting
  <2>4. ~synced => deferred /\ ~strict
    BY <2>2, ThreadAssumption DEF IInv, SyncPending, Written
  <2>5. ~(deferred /\ ~strict)
    BY <2>1 DEF IInv, Stopping
  <2>6. synced
    BY <2>4, <2>5
  <2>7. whole \/ spoilt
    BY DEF IInv, Written
  <2> QED
    BY <2>3, <2>6, <2>7
<1> QED
  BY <1>1, Inductive, PTL
=============================================================================
