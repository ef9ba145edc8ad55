---------------------------- MODULE MutexProofs -----------------------------
(***************************************************************************)
(* Exclusion, accounting of the sleepers and the lifetime of waiter records *)
(* of apth_mutex, for any set of threads.  They hold as long as nobody is   *)
(* cancelled inside apth_mutex_lock, which takes every wake-up for the      *)
(* hand-over (UntimedUncancelled); timedlock needs no such assumption.      *)
(***************************************************************************)
EXTENDS Mutex, QueueFacts

\* A client that uses apth_mutex_lock does not cancel the threads that do.
UntimedUncancelled == Untimed \cap Cancellable = {}

Slow(t) == loc[t] \in InSlowPath
Granted(t) == Slow(t) /\ ev[t] = "occurred"

\* The guard is held between steps only by the thread in its hand-over.
GuardHeld ==
  /\ \A t \in Threads : loc[t] = "handoff" <=> guard = t
  /\ target = NoThread <=> guard = NoThread

\* The waiters are the threads in the slow path that are not served yet.
QueueExact ==
  /\ NoDuplicates(waiters)
  /\ \A t \in Threads : InQueue(waiters, t) <=> Slow(t) /\ ev[t] = "pending"

\* The owner was told so, or has been handed the mutex and is on its way.
OwnerKnows ==
  /\ \A t \in Threads : owner = t => held[t] > 0 \/ Granted(t)
  /\ \A t \in Threads : Granted(t) => owner = t /\ lock_count = 1 /\ held[t] = 0
  /\ owner = NoThread => waiters = <<>>
  /\ type # "recursive" => lock_count <= 1

\* Only a passed deadline or a cancellation wakes a thread that is not served,
\* and a cancelled one is not in an untimed call.
WokenForAReason ==
  /\ \A t \in Threads : loc[t] = "woken" /\ ev[t] = "pending" =>
       timer[t] = "occurred" \/ cancelreq[t]
  /\ \A t \in Threads : cancelreq[t] => t \in Cancellable
  /\ \A t \in Threads : Slow(t) /\ timer[t] = "off" => t \in Untimed

IInv ==
  /\ MutexTypeOK /\ GuardHeld /\ QueueExact
  /\ OwnerKnows /\ MutualExclusion /\ WokenForAReason

-----------------------------------------------------------------------------
LEMMA Initially == SyncInit /\ MutexInit => IInv
  BY SyncConstants, MutexConstants, EmptyFacts
  DEF SyncInit, MutexInit, IInv, MutexTypeOK, SyncTypeOK, GuardHeld, QueueExact,
      OwnerKnows, MutualExclusion, WokenForAReason, Granted, Slow, InSlowPath

\* The mutex is free, or the caller's own and recursive: lock, timedlock and
\* trylock take it at once.
LEMMA TakesFree ==
  ASSUME IInv, NEW t \in Threads, loc[t] = "user", TakeFree(t)
  PROVE  IInv'
  BY SyncConstants
  DEF TakeFree, Gain, syncVars, IInv, MutexTypeOK, SyncTypeOK, GuardHeld, QueueExact,
      OwnerKnows, MutualExclusion, WokenForAReason, Granted, Slow, InSlowPath

LEMMA Relocks ==
  ASSUME IInv, NEW t \in Threads, loc[t] = "user", Relock(t)
  PROVE  IInv'
  BY SyncConstants
  DEF Relock, Gain, syncVars, IInv, MutexTypeOK, SyncTypeOK, GuardHeld, QueueExact,
      OwnerKnows, MutualExclusion, WokenForAReason, Granted, Slow, InSlowPath

\* The slow path appends the caller to the queue.
LEMMA Enqueues ==
  ASSUME IInv, NEW t \in Threads, NEW timed \in BOOLEAN,
         timed \/ t \in Untimed, loc[t] = "user", MutexEnqueue(t, timed)
  PROVE  IInv'
<1>1. ~InQueue(waiters, t)
  BY DEF IInv, QueueExact, Slow, InSlowPath
<1>2. /\ waiters' \in Seq(Threads) /\ NoDuplicates(waiters')
      /\ \A u : InQueue(waiters', u) <=> InQueue(waiters, u) \/ u = t
  BY <1>1, PushFacts DEF MutexEnqueue, IInv, MutexTypeOK, QueueExact
<1> QED
  BY <1>2, SyncConstants
  DEF MutexEnqueue, Block, IInv, MutexTypeOK, SyncTypeOK, GuardHeld, QueueExact,
      OwnerKnows, MutualExclusion, WokenForAReason, Granted, Slow, InSlowPath

\* Whoever returns from the slow path after the hand-over has the mutex.
LEMMA ServedReturns ==
  ASSUME IInv, NEW t \in Threads, loc[t] = "woken", ev[t] = "occurred", Leave(t), Gain(t),
         UNCHANGED <<guard, target, cancelreq, type, owner, lock_count, waiters>>
  PROVE  IInv'
<1>1. owner = t /\ lock_count = 1 /\ held[t] = 0
  BY DEF IInv, OwnerKnows, Granted, Slow, InSlowPath
<1>2. held' = [held EXCEPT ![t] = 1]
  BY <1>1 DEF Gain, IInv, MutexTypeOK
<1>3. MutexTypeOK' /\ GuardHeld' /\ QueueExact' /\ WokenForAReason'
  BY <1>2 DEF Leave, IInv, MutexTypeOK, SyncTypeOK, GuardHeld, QueueExact, WokenForAReason, Slow, InSlowPath
<1>4. OwnerKnows' /\ MutualExclusion'
  BY <1>1, <1>2, SyncConstants
  DEF Leave, IInv, MutexTypeOK, SyncTypeOK, OwnerKnows, MutualExclusion, Granted, Slow, InSlowPath
<1> QED
  BY <1>3, <1>4 DEF IInv

\* lock() returns: without cancellation only the hand-over woke it.
LEMMA LockReturns ==
  ASSUME IInv, UntimedUncancelled, NEW t \in Threads, MutexLockReturn(t)
  PROVE  IInv'
<1>1. ev[t] = "occurred"
  BY DEF MutexLockReturn, UntimedUncancelled, IInv, MutexTypeOK, SyncTypeOK, WokenForAReason, Slow, InSlowPath
<1> QED
  BY <1>1, ServedReturns DEF MutexLockReturn

\* timedlock() returns: it owns the mutex, or unlinks itself.
LEMMA TimedLockReturns ==
  ASSUME IInv, NEW t \in Threads, MutexTimedLockReturn(t)
  PROVE  IInv'
<1>1. CASE ev[t] = "occurred"
  BY <1>1, ServedReturns DEF MutexTimedLockReturn
<1>2. CASE ev[t] # "occurred"
  <2>1. PICK k \in 1..Len(waiters) : waiters[k] = t /\ waiters' = RemoveAt(waiters, k)
    BY <1>2 DEF MutexTimedLockReturn, Unlink
  <2>2. /\ waiters' \in Seq(Threads) /\ NoDuplicates(waiters')
        /\ \A u : InQueue(waiters', u) <=> InQueue(waiters, u) /\ u # t
    BY <2>1, RemoveFacts DEF IInv, MutexTypeOK, QueueExact
  <2>3. owner # NoThread
    BY <2>1, SyncConstants DEF IInv, MutexTypeOK, OwnerKnows
  <2> QED
    BY <1>2, <2>2, <2>3, SyncConstants
    DEF MutexTimedLockReturn, Leave, IInv, MutexTypeOK, SyncTypeOK, GuardHeld, QueueExact,
        OwnerKnows, MutualExclusion, WokenForAReason, Granted, Slow, InSlowPath
<1> QED
  BY <1>1, <1>2

\* The three ways unlock() goes on.
LEMMA UnlockFacts ==
  ASSUME IInv, NEW t \in Threads, MutexUnlock(t)
  PROVE  /\ owner = t /\ held[t] > 0 /\ lock_count = held[t]
         /\ ~(type = "recursive" /\ lock_count > 1) => held[t] = 1
  BY SyncConstants
  DEF MutexUnlock, IInv, MutexTypeOK, SyncTypeOK, OwnerKnows, MutualExclusion, Granted, Slow, InSlowPath

LEMMA Unlocks ==
  ASSUME IInv, NEW t \in Threads, MutexUnlock(t)
  PROVE  IInv'
<1>0. /\ owner = t /\ held[t] > 0 /\ lock_count = held[t]
      /\ ~(type = "recursive" /\ lock_count > 1) => held[t] = 1
  BY UnlockFacts
<1>1. CASE UnlockNested(t)
  BY <1>0, <1>1, SyncConstants
  DEF MutexUnlock, UnlockNested, Drop, syncVars, IInv, MutexTypeOK, SyncTypeOK, GuardHeld, QueueExact,
      OwnerKnows, MutualExclusion, WokenForAReason, Granted, Slow, InSlowPath
<1>2. CASE ~(type = "recursive" /\ lock_count > 1) /\ UnlockRelease(t)
  BY <1>0, <1>2, SyncConstants
  DEF MutexUnlock, UnlockRelease, Drop, syncVars, IInv, MutexTypeOK, SyncTypeOK, GuardHeld, QueueExact,
      OwnerKnows, MutualExclusion, WokenForAReason, Granted, Slow, InSlowPath
<1>3. CASE ~(type = "recursive" /\ lock_count > 1) /\ UnlockHandOff(t)
  <2> DEFINE w == Head(waiters)
  <2>1. /\ w \in Threads /\ InQueue(waiters, w)
        /\ waiters' \in Seq(Threads) /\ NoDuplicates(waiters')
        /\ \A u : InQueue(waiters', u) <=> InQueue(waiters, u) /\ u # w
    BY <1>3, PopFacts, EmptyFacts DEF UnlockHandOff, IInv, MutexTypeOK, QueueExact
  <2>2. /\ owner' = w /\ lock_count' = 1 /\ guard' = t /\ target' = w
        /\ loc' = [loc EXCEPT ![t] = "handoff"] /\ ev' = [ev EXCEPT ![w] = "occurred"]
        /\ held' = [held EXCEPT ![t] = @ - 1]
        /\ UNCHANGED <<timer, cancelreq, type>> /\ loc[t] = "user" /\ guard = NoThread
    BY <1>3 DEF MutexUnlock, UnlockHandOff, Publish, Drop, GuardFree
  <2> HIDE DEF w
  <2>3. Slow(w) /\ ev[w] = "pending" /\ w # t /\ held[w] = 0
    <3>1. Slow(w) /\ ev[w] = "pending"
      BY <2>1 DEF IInv, QueueExact
    <3>2. w # t
      BY <2>2, <3>1 DEF Slow, InSlowPath
    <3>3. held[w] \in Nat /\ ~(held[w] > 0)
      BY <1>0, <2>1, <3>2 DEF IInv, MutexTypeOK, MutualExclusion
    <3> QED
      BY <3>1, <3>2, <3>3
  <2>4. held' = [held EXCEPT ![t] = 0]
    <3>1. held[t] = 1
      BY <1>0, <1>3
    <3> QED
      BY <2>2, <3>1
  <2>5. MutexTypeOK'
    BY <2>1, <2>2, <2>4 DEF IInv, MutexTypeOK, SyncTypeOK
  <2>6. GuardHeld'
    BY <2>1, <2>2, <2>3, SyncConstants DEF IInv, MutexTypeOK, SyncTypeOK, GuardHeld, Slow, InSlowPath
  <2>7. QueueExact'
    BY <2>1, <2>2, <2>3 DEF IInv, MutexTypeOK, SyncTypeOK, QueueExact, Slow, InSlowPath
  <2>8. WokenForAReason'
    BY <2>1, <2>2, <2>3 DEF IInv, MutexTypeOK, SyncTypeOK, WokenForAReason, Slow, InSlowPath
  <2>9. OwnerKnows'
    <3>1. ASSUME NEW u \in Threads PROVE Granted(u)' <=> u = w
      BY <1>0, <2>1, <2>2, <2>3 DEF IInv, MutexTypeOK, SyncTypeOK, OwnerKnows, Granted, Slow, InSlowPath
    <3> QED
      BY <2>1, <2>2, <2>3, <2>4, <3>1, SyncConstants DEF IInv, MutexTypeOK, OwnerKnows
  <2>10. MutualExclusion'
    BY <1>0, <2>2, <2>3, <2>4 DEF IInv, MutexTypeOK, MutualExclusion
  <2> QED
    BY <2>5, <2>6, <2>7, <2>8, <2>9, <2>10 DEF IInv
<1> QED
  BY <1>1, <1>2, <1>3 DEF MutexUnlock

LEMMA HandOffEnds ==
  ASSUME IInv, NEW t \in Threads, MutexUnlockDone(t)
  PROVE  IInv'
  BY SyncConstants
  DEF MutexUnlockDone, EndHandOff, mutexVars, IInv, MutexTypeOK, SyncTypeOK, GuardHeld, QueueExact,
      OwnerKnows, MutualExclusion, WokenForAReason, Granted, Slow, InSlowPath

\* The event manager and apth_cancel.
LEMMA EnvironmentActs ==
  ASSUME IInv, NEW t \in Threads, MutexEnvironment(t)
  PROVE  IInv'
<1>0. MutexTypeOK /\ SyncTypeOK /\ WokenForAReason
  BY DEF IInv, MutexTypeOK
<1>1. CASE EventManager(t) /\ UNCHANGED mutexVars
  <2>1. /\ loc[t] = "waiting" /\ loc' = [loc EXCEPT ![t] = "woken"]
        /\ UNCHANGED <<guard, target, ev, cancelreq>>
    BY <1>1 DEF EventManager, WakeSync, WakeTimer, WakeCancel
  <2>2. timer' = timer \/ (timer[t] = "pending" /\ timer' = [timer EXCEPT ![t] = "occurred"])
    BY <1>1 DEF EventManager, WakeSync, WakeTimer, WakeCancel
  <2>3. ev[t] = "pending" => timer'[t] = "occurred" \/ cancelreq[t]
    BY <1>0, <1>1 DEF EventManager, WakeSync, WakeTimer, WakeCancel, SyncTypeOK
  <2>4. \A u \in Threads : u # t => loc'[u] = loc[u] /\ timer'[u] = timer[u]
    BY <1>0, <2>1, <2>2 DEF SyncTypeOK
  <2>5. \A u \in Threads : timer'[u] = "off" => timer[u] = "off"
    BY <1>0, <2>2 DEF SyncTypeOK
  <2>6. \A u \in Threads : Slow(u)' <=> Slow(u)
    BY <1>0, <2>1 DEF SyncTypeOK, Slow, InSlowPath
  <2>7. MutexTypeOK'
    BY <1>0, <1>1, <2>1, <2>2 DEF MutexTypeOK, SyncTypeOK, mutexVars
  <2>8. GuardHeld' /\ QueueExact'
    BY <1>0, <1>1, <2>1, <2>6 DEF IInv, SyncTypeOK, GuardHeld, QueueExact, mutexVars
  <2>9. OwnerKnows' /\ MutualExclusion'
    BY <1>1, <2>1, <2>6 DEF IInv, OwnerKnows, MutualExclusion, Granted, mutexVars
  <2>10. \A u \in Threads : loc'[u] = "woken" /\ ev'[u] = "pending" =>
           timer'[u] = "occurred" \/ cancelreq'[u]
    BY <1>0, <2>1, <2>3, <2>4 DEF WokenForAReason
  <2>11. WokenForAReason'
    BY <1>0, <2>1, <2>5, <2>6, <2>10 DEF WokenForAReason
  <2> QED
    BY <2>7, <2>8, <2>9, <2>11 DEF IInv
<1>2. CASE Cancel(t) /\ UNCHANGED mutexVars
  BY <1>0, <1>2
  DEF Cancel, mutexVars, IInv, MutexTypeOK, SyncTypeOK, GuardHeld, QueueExact, OwnerKnows,
      MutualExclusion, WokenForAReason, Granted, Slow
<1> QED
  BY <1>1, <1>2 DEF MutexEnvironment

\* One step of the mutex keeps the inductive invariant.
LEMMA Preserved ==
  ASSUME UntimedUncancelled, IInv, [MutexNext]_mutexAll
  PROVE  IInv'
<1>1. ASSUME NEW t \in Threads, t \in Untimed, MutexLock(t) PROVE IInv'
  BY <1>1, TakesFree, Relocks, Enqueues DEF MutexLock
<1>2. ASSUME NEW t \in Threads, MutexTimedLock(t) PROVE IInv'
  BY <1>2, TakesFree, Relocks, Enqueues DEF MutexTimedLock
<1>3. ASSUME NEW t \in Threads, MutexTryLock(t) PROVE IInv'
  BY <1>3, TakesFree, Relocks DEF MutexTryLock
<1>4. ASSUME NEW t \in Threads, MutexReturn(t) PROVE IInv'
  BY <1>4, LockReturns, TimedLockReturns DEF MutexReturn
<1>5. ASSUME NEW t \in Threads, MutexUnlock(t) \/ MutexUnlockDone(t) \/ MutexEnvironment(t) PROVE IInv'
  BY <1>5, Unlocks, HandOffEnds, EnvironmentActs
<1>6. CASE UNCHANGED mutexAll
  BY <1>6
  DEF mutexAll, syncVars, mutexVars, IInv, MutexTypeOK, SyncTypeOK, GuardHeld, QueueExact,
      OwnerKnows, MutualExclusion, WokenForAReason, Granted, Slow
<1> QED
  BY <1>1, <1>2, <1>3, <1>4, <1>5, <1>6 DEF MutexNext, MutexAcquire

LEMMA Invariance == UntimedUncancelled /\ MutexSpec => []IInv
<1> SUFFICES ASSUME UntimedUncancelled PROVE MutexSpec => []IInv
  OBVIOUS
<1>1. IInv /\ [MutexNext]_mutexAll => IInv'
  BY Preserved
<1> QED
  BY Initially, <1>1, PTL DEF MutexSpec

\* lock, timedlock and trylock exclude each other's callers, and the owner
\* and count fields say who has the mutex how often, for any set of threads
\* and any nesting.
THEOREM Exclusion == UntimedUncancelled /\ MutexSpec => []MutualExclusion
<1>1. IInv => MutualExclusion
  BY DEF IInv
<1> QED
  BY Invariance, <1>1, PTL

\* No thread in the slow path is lost from the queue, linked twice, or left
\* in it after the hand-over, and nobody is queued at a free mutex.
THEOREM QueueAccounted == UntimedUncancelled /\ MutexSpec => []EverySleeperAccounted
<1>1. IInv => EverySleeperAccounted
  <2> SUFFICES ASSUME IInv PROVE EverySleeperAccounted
    OBVIOUS
  <2>1. waiters # <<>> => owner # NoThread
    BY DEF IInv, OwnerKnows
  <2>2. ASSUME NEW t \in Threads, Slow(t), ev[t] = "pending"
        PROVE  \E i \in {k \in 1..Len(waiters) : waiters[k] = t} :
                 {k \in 1..Len(waiters) : waiters[k] = t} = {i}
    <3>1. PICK i \in 1..Len(waiters) : waiters[i] = t
      BY <2>2 DEF IInv, QueueExact, InQueue
    <3>2. \A k \in 1..Len(waiters) : waiters[k] = t => k = i
      BY <3>1 DEF IInv, QueueExact, NoDuplicates
    <3> QED
      BY <3>1, <3>2
  <2>3. ASSUME NEW t \in Threads, Slow(t), ev[t] # "pending"
        PROVE  {k \in 1..Len(waiters) : waiters[k] = t} = {} /\ owner = t
    BY <2>3 DEF IInv, MutexTypeOK, SyncTypeOK, QueueExact, InQueue, OwnerKnows, Granted
  <2> QED
    BY <2>1, <2>2, <2>3 DEF EverySleeperAccounted, Slow
<1> QED
  BY Invariance, <1>1, PTL

\* When destroy() finds no reason for EBUSY, no call is under way.
THEOREM DestroyIsSafe == UntimedUncancelled /\ MutexSpec => []DestroyFindsNoOneInside
<1>1. IInv => DestroyFindsNoOneInside
  BY EmptyFacts, SyncConstants
  DEF IInv, MutexTypeOK, SyncTypeOK, GuardHeld, QueueExact, OwnerKnows, Granted, Slow, InSlowPath,
      DestroyFindsNoOneInside, Destroyable, GuardFree
<1> QED
  BY Invariance, <1>1, PTL

\* The record that unlock() reads after it has published OCCURRED is alive if
\* its owner uses timed calls only: it needs the guard to return.
THEOREM TimedRecords == UntimedUncancelled /\ MutexSpec => []TimedRecordsLive
<1> SUFFICES ASSUME UntimedUncancelled PROVE MutexSpec => []TimedRecordsLive
  OBVIOUS
<1>2. SyncInit /\ MutexInit => TimedRecordsLive
  BY DEF SyncInit, TimedRecordsLive
<1>3. ASSUME IInv, TimedRecordsLive, [MutexNext]_mutexAll PROVE TimedRecordsLive'
  <2>1. target \in Threads \cup {NoThread} /\ loc \in [Threads -> {"user", "waiting", "woken", "handoff"}]
    BY <1>3 DEF IInv, MutexTypeOK, SyncTypeOK
  <2> USE <1>3, <2>1, SyncConstants DEF TimedRecordsLive, InSlowPath
  <2>2. ASSUME NEW t \in Threads, MutexAcquire(t) PROVE TimedRecordsLive'
    BY <2>2 DEF MutexAcquire, MutexLock, MutexTimedLock, MutexTryLock, TakeFree, Relock, MutexEnqueue, Block, syncVars
  <2>3. ASSUME NEW t \in Threads, MutexTimedLockReturn(t) PROVE TimedRecordsLive'
    BY <2>3 DEF MutexTimedLockReturn, Leave, GuardFree, IInv, GuardHeld
  <2>4. ASSUME NEW t \in Threads, MutexLockReturn(t) PROVE TimedRecordsLive'
    BY <2>4 DEF MutexLockReturn, Leave, IInv, WokenForAReason, Slow
  <2>5. ASSUME NEW t \in Threads, MutexUnlock(t) PROVE TimedRecordsLive'
    <3>1. CASE UnlockHandOff(t)
      <4>1. Head(waiters) \in Threads /\ Slow(Head(waiters))
        BY <3>1, EmptyFacts DEF UnlockHandOff, IInv, MutexTypeOK, QueueExact
      <4> QED
        BY <2>5, <3>1, <4>1 DEF MutexUnlock, UnlockHandOff, Publish, Slow
    <3> QED
      BY <2>5, <3>1 DEF MutexUnlock, UnlockNested, UnlockRelease, syncVars
  <2>6. ASSUME NEW t \in Threads, MutexUnlockDone(t) PROVE TimedRecordsLive'
    BY <2>6 DEF MutexUnlockDone, EndHandOff
  <2>7. ASSUME NEW t \in Threads, MutexEnvironment(t) PROVE TimedRecordsLive'
    BY <2>7 DEF MutexEnvironment, EventManager, WakeSync, WakeTimer, WakeCancel, Cancel
  <2>8. CASE UNCHANGED mutexAll
    BY <2>8 DEF mutexAll, syncVars
  <2> QED
    BY <2>2, <2>3, <2>4, <2>5, <2>6, <2>7, <2>8 DEF MutexNext, MutexReturn
<1> QED
  BY Invariance, <1>2, <1>3, PTL DEF MutexSpec

\* timedlock() reports a timeout only after its deadline or a cancellation.
THEOREM TimeoutsReal == UntimedUncancelled /\ MutexSpec => TimeoutOnlyAfterDeadline
<1> SUFFICES ASSUME UntimedUncancelled PROVE MutexSpec => TimeoutOnlyAfterDeadline
  OBVIOUS
<1>2. ASSUME IInv, [MutexNext]_mutexAll, NEW t \in Threads, GivesUp(t) PROVE Overdue(t)
  <2>1. loc \in [Threads -> {"user", "waiting", "woken", "handoff"}] /\ held[t] \in Nat
    BY <1>2 DEF IInv, MutexTypeOK, SyncTypeOK
  <2> USE <1>2, <2>1 DEF GivesUp
  <2>2. ASSUME NEW u \in Threads, MutexTimedLockReturn(u) PROVE Overdue(t)
    <3>1. u = t
      BY <2>2 DEF MutexTimedLockReturn, Leave
    <3>2. ev[t] # "occurred"
      BY <2>2, <3>1 DEF MutexTimedLockReturn, Gain, IInv, MutexTypeOK
    <3> QED
      BY <3>2 DEF IInv, MutexTypeOK, SyncTypeOK, WokenForAReason, Overdue
  <2>3. ASSUME NEW u \in Threads, MutexLockReturn(u) PROVE FALSE
    BY <2>3 DEF MutexLockReturn, Leave, Gain, IInv, MutexTypeOK
  <2>4. ASSUME NEW u \in Threads, MutexAcquire(u) PROVE FALSE
    BY <2>4 DEF MutexAcquire, MutexLock, MutexTimedLock, MutexTryLock, TakeFree, Relock, MutexEnqueue, Block, syncVars
  <2>5. ASSUME NEW u \in Threads, MutexUnlock(u) PROVE FALSE
    BY <2>5 DEF MutexUnlock, UnlockNested, UnlockRelease, UnlockHandOff, Publish, syncVars
  <2>6. ASSUME NEW u \in Threads, MutexUnlockDone(u) PROVE FALSE
    BY <2>6 DEF MutexUnlockDone, EndHandOff
  <2>7. ASSUME NEW u \in Threads, MutexEnvironment(u) PROVE FALSE
    BY <2>7 DEF MutexEnvironment, EventManager, WakeSync, WakeTimer, WakeCancel, Cancel
  <2>8. CASE UNCHANGED mutexAll
    BY <2>8 DEF mutexAll, syncVars
  <2> QED
    BY <2>2, <2>3, <2>4, <2>5, <2>6, <2>7, <2>8 DEF MutexNext, MutexReturn
<1>3. IInv /\ [MutexNext]_mutexAll => [\A t \in Threads : GivesUp(t) => Overdue(t)]_mutexAll
  BY <1>2
<1> QED
  BY Invariance, <1>3, PTL DEF MutexSpec, TimeoutOnlyAfterDeadline
=============================================================================
