------------------------------- MODULE Mutex --------------------------------
(***************************************************************************)
(* apth_mutex: an owner, a recursion count and a FIFO of stack-allocated    *)
(* waiters.  unlock() hands the mutex over to the first waiter: it makes    *)
(* that thread the owner before the thread has run again.                   *)
(***************************************************************************)
EXTENDS SyncWaiter

CONSTANTS MutexTypes,  \* the mutex types a client may initialise it with
          MaxDepth     \* bound on how deep the client nests a recursive mutex

ASSUME MutexConstants ==
  /\ MutexTypes \subseteq {"normal", "errorcheck", "recursive"}
  /\ MaxDepth \in Nat

VARIABLES type, owner, lock_count, waiters,
          held   \* how often each thread was told it has the mutex (ghost)

mutexVars == <<type, owner, lock_count, waiters, held>>
mutexAll == <<syncVars, mutexVars>>

\* apth_mutex_init
MutexInit ==
  /\ type \in MutexTypes
  /\ owner = NoThread
  /\ lock_count = 0
  /\ waiters = <<>>
  /\ held = [t \in Threads |-> 0]

Gain(t) == held' = [held EXCEPT ![t] = @ + 1]

\* The mutex is free: take it.
TakeFree(t) ==
  /\ owner = NoThread
  /\ owner' = t /\ lock_count' = 1 /\ Gain(t)
  /\ UNCHANGED <<type, waiters, syncVars>>

\* The caller already owns a recursive mutex.
Relock(t) ==
  /\ owner = t /\ type = "recursive" /\ lock_count < MaxDepth
  /\ lock_count' = lock_count + 1 /\ Gain(t)
  /\ UNCHANGED <<type, owner, waiters, syncVars>>

\* The slow path of lock and timedlock.
MutexEnqueue(t, timed) ==
  /\ owner # NoThread
  /\ owner = t => type = "normal"
  /\ waiters' = Append(waiters, t)
  /\ Block(t, timed)
  /\ UNCHANGED <<guard, target, cancelreq, type, owner, lock_count, held>>

\* A client that relocks its own normal mutex with lock() has deadlocked
\* itself, which POSIX leaves undefined; here it only does so with timedlock.
MutexLock(t) ==
  /\ loc[t] = "user" /\ GuardFree
  /\ \/ TakeFree(t)
     \/ Relock(t)
     \/ owner # t /\ MutexEnqueue(t, FALSE)

MutexTimedLock(t) ==
  /\ loc[t] = "user" /\ GuardFree
  /\ \/ TakeFree(t)
     \/ Relock(t)
     \/ MutexEnqueue(t, TRUE)

\* trylock returns EBUSY, which changes nothing, when the guard is taken.
MutexTryLock(t) ==
  /\ loc[t] = "user" /\ GuardFree
  /\ TakeFree(t) \/ Relock(t)

\* lock() comes back from the yield and returns 0 whatever woke it.
MutexLockReturn(t) ==
  /\ loc[t] = "woken" /\ timer[t] = "off"
  /\ Leave(t) /\ Gain(t)
  /\ UNCHANGED <<guard, target, cancelreq, type, owner, lock_count, waiters>>

\* Mutant: takes every wake-up for the hand-over.
TimedLockReturnBlind(t) ==
  /\ loc[t] = "woken" /\ timer[t] # "off" /\ GuardFree
  /\ Leave(t) /\ Gain(t)
  /\ waiters' = Remove(waiters, t)
  /\ UNCHANGED <<guard, target, cancelreq, type, owner, lock_count>>

\* Mutant: reports a timeout without a look at the event.
TimedLockReturnGivesUp(t) ==
  /\ loc[t] = "woken" /\ timer[t] # "off" /\ GuardFree
  /\ Leave(t)
  /\ waiters' = Remove(waiters, t)
  /\ UNCHANGED <<guard, target, cancelreq, type, owner, lock_count, held>>

\* timedlock() takes the guard again to see who was first, unlock or timer.
MutexTimedLockReturn(t) ==
  /\ loc[t] = "woken" /\ timer[t] # "off" /\ GuardFree
  /\ Leave(t)
  /\ \/ ev[t] = "occurred" /\ Gain(t) /\ UNCHANGED waiters
     \/ /\ ev[t] # "occurred"
        /\ Unlink(waiters, t, waiters')
        /\ UNCHANGED held
  /\ UNCHANGED <<guard, target, cancelreq, type, owner, lock_count>>

Drop(t) == held' = [held EXCEPT ![t] = @ - 1]

\* A nested unlock only counts down.
UnlockNested(t) ==
  /\ type = "recursive" /\ lock_count > 1
  /\ lock_count' = lock_count - 1
  /\ UNCHANGED <<owner, waiters, syncVars>>

UnlockRelease(t) ==
  /\ waiters = <<>>
  /\ owner' = NoThread /\ lock_count' = 0
  /\ UNCHANGED <<waiters, syncVars>>

\* Mutant: leaves the waiter in the queue.
UnlockHandOffLinked(t) ==
  /\ waiters # <<>>
  /\ owner' = Head(waiters) /\ lock_count' = 1
  /\ Publish(t, Head(waiters))
  /\ UNCHANGED waiters

\* The hand-over: pop the first waiter, make it the owner, publish OCCURRED.
UnlockHandOff(t) ==
  /\ waiters # <<>>
  /\ waiters' = Tail(waiters)
  /\ owner' = Head(waiters) /\ lock_count' = 1
  /\ Publish(t, Head(waiters))

\* Mutant: an errorcheck mutex does not check its owner.
UnlockUnchecked(t) ==
  /\ loc[t] = "user" /\ GuardFree
  /\ type # "errorcheck" => held[t] > 0
  /\ \/ UnlockNested(t)
     \/ ~(type = "recursive" /\ lock_count > 1) /\ UnlockRelease(t)
     \/ ~(type = "recursive" /\ lock_count > 1) /\ UnlockHandOff(t)
  /\ Drop(t)
  /\ UNCHANGED type

\* An errorcheck mutex refuses the unlock of a thread that does not own it;
\* of the other types the client must have been told that it has the mutex.
MutexUnlock(t) ==
  /\ loc[t] = "user" /\ GuardFree
  /\ IF type = "errorcheck" THEN owner = t ELSE held[t] > 0
  /\ \/ UnlockNested(t)
     \/ ~(type = "recursive" /\ lock_count > 1) /\ UnlockRelease(t)
     \/ ~(type = "recursive" /\ lock_count > 1) /\ UnlockHandOff(t)
  /\ Drop(t)
  /\ UNCHANGED type

MutexUnlockDone(t) == EndHandOff(t) /\ UNCHANGED mutexVars

MutexAcquire(t) ==
  \/ t \in Untimed /\ MutexLock(t)
  \/ MutexTimedLock(t) \/ MutexTryLock(t)

MutexReturn(t) == MutexLockReturn(t) \/ MutexTimedLockReturn(t)

MutexEnvironment(t) ==
  /\ EventManager(t) \/ Cancel(t)
  /\ UNCHANGED mutexVars

MutexNext == \E t \in Threads :
  \/ MutexAcquire(t) \/ MutexReturn(t)
  \/ MutexUnlock(t) \/ MutexUnlockDone(t)
  \/ MutexEnvironment(t)

MutexSpec == SyncInit /\ MutexInit /\ [][MutexNext]_mutexAll

-----------------------------------------------------------------------------
MutexTypeOK ==
  /\ SyncTypeOK
  /\ type \in {"normal", "errorcheck", "recursive"}
  /\ owner \in Threads \cup {NoThread}
  /\ lock_count \in Nat
  /\ waiters \in Seq(Threads)
  /\ held \in [Threads -> Nat]

\* A thread that lock, timedlock or trylock told it has the mutex is the
\* owner, with exactly as many unlocks to go as it was told acquisitions:
\* a hand-over never crowns somebody while another still believes it holds.
MutualExclusion ==
  \A t \in Threads : held[t] > 0 => owner = t /\ lock_count = held[t]

\* No sleeper is forgotten and none is handed the mutex twice: a thread in
\* the slow path is queued exactly once while its event is PENDING, and is
\* off the queue and the owner once it is OCCURRED; a free mutex has nobody
\* queued, so no one sleeps until a next unlock that need not come.
EverySleeperAccounted ==
  /\ \A t \in Threads : loc[t] \in InSlowPath =>
       LET places == {i \in 1..Len(waiters) : waiters[i] = t}
       IN  IF ev[t] = "pending" THEN \E i \in places : places = {i}
                                ELSE places = {} /\ owner = t
  /\ waiters # <<>> => owner # NoThread

\* apth_mutex_destroy() finds no reason for EBUSY.
Destroyable == GuardFree /\ owner = NoThread /\ waiters = <<>>

\* When destroy() succeeds nobody is left who would touch the mutex again
\* without a new call: no sleeper, and no timedlock about to retake the guard.
DestroyFindsNoOneInside ==
  Destroyable => \A t \in Threads : loc[t] = "user"

\* t returns ETIMEDOUT.
GivesUp(t) == loc[t] = "woken" /\ loc'[t] = "user" /\ held'[t] = held[t]

Overdue(t) == timer[t] = "occurred" \/ cancelreq[t]

\* timedlock() gives up only when its deadline has passed, or the caller is
\* being cancelled: a lock that was handed over is never reported lost.
TimeoutOnlyAfterDeadline ==
  [][\A t \in Threads : GivesUp(t) => Overdue(t)]_mutexAll

\* What t, or the event manager for it, does next inside the library.
MutexContinue(t) ==
  MutexReturn(t) \/ MutexUnlockDone(t) \/ (EventManager(t) /\ UNCHANGED mutexVars)
=============================================================================
