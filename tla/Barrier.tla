------------------------------ MODULE Barrier -------------------------------
(***************************************************************************)
(* apth_barrier: the last of threshold threads to arrive resets the count   *)
(* and wakes the others one after the other.                                *)
(***************************************************************************)
EXTENDS SyncWaiter, FiniteSets

CONSTANTS Threshold,  \* the count given to apth_barrier_init
          MaxRounds   \* bound on how often a thread arrives

ASSUME BarrierConstants ==
  /\ Threshold \in Nat \ {0} /\ MaxRounds \in Nat
  /\ IsFiniteSet(Threads)

VARIABLES count, bar_waiters,
          arrived,  \* how often each thread has entered wait (ghost)
          left      \* how often each thread has returned from it (ghost)

barrierVars == <<count, bar_waiters, arrived, left>>
barrierAll == <<syncVars, barrierVars>>

\* apth_barrier_init refuses a threshold of 0
BarrierInit ==
  /\ count = 0 /\ bar_waiters = <<>>
  /\ arrived = [t \in Threads |-> 0]
  /\ left = [t \in Threads |-> 0]

Through(t) == left' = [left EXCEPT ![t] = @ + 1]

\* Mutant: one arrival too few opens the barrier.
ArriveLastOneShort(t) ==
  /\ count + 2 >= Threshold
  /\ count' = 0
  /\ \/ /\ bar_waiters # <<>>
        /\ bar_waiters' = Tail(bar_waiters)
        /\ Publish(t, Head(bar_waiters))
        /\ UNCHANGED left
     \/ bar_waiters = <<>> /\ Through(t) /\ UNCHANGED <<bar_waiters, syncVars>>

\* The last thread to arrive starts a new generation and wakes the first
\* waiter, if the threshold left room for any.
ArriveLast(t) ==
  /\ count + 1 = Threshold
  /\ count' = 0
  /\ \/ /\ bar_waiters # <<>>
        /\ bar_waiters' = Tail(bar_waiters)
        /\ Publish(t, Head(bar_waiters))
        /\ UNCHANGED left
     \/ bar_waiters = <<>> /\ Through(t) /\ UNCHANGED <<bar_waiters, syncVars>>

ArriveEarly(t) ==
  /\ count + 1 # Threshold
  /\ count' = count + 1
  /\ bar_waiters' = Append(bar_waiters, t)
  /\ Block(t, FALSE)
  /\ UNCHANGED <<left, guard, target, cancelreq>>

BarrierWait(t) ==
  /\ loc[t] = "user" /\ GuardFree /\ arrived[t] < MaxRounds
  /\ arrived' = [arrived EXCEPT ![t] = @ + 1]
  /\ ArriveLast(t) \/ ArriveEarly(t)

\* The rest of the wake-all loop; the guard is held throughout.
WakeNext(t) ==
  /\ loc[t] = "handoff" /\ bar_waiters # <<>>
  /\ bar_waiters' = Tail(bar_waiters)
  /\ Publish(t, Head(bar_waiters))
  /\ UNCHANGED <<count, arrived, left>>

SerialReturn(t) ==
  /\ bar_waiters = <<>>
  /\ EndHandOff(t)
  /\ Through(t)
  /\ UNCHANGED <<count, bar_waiters, arrived>>

\* A waiter returns 0 whatever woke it.
BarrierWaitReturn(t) ==
  /\ loc[t] = "woken"
  /\ Leave(t)
  /\ Through(t)
  /\ UNCHANGED <<guard, target, cancelreq, count, bar_waiters, arrived>>

BarrierEnvironment(t) ==
  /\ EventManager(t) \/ Cancel(t)
  /\ UNCHANGED barrierVars

BarrierNext == \E t \in Threads :
  \/ BarrierWait(t) \/ WakeNext(t) \/ SerialReturn(t) \/ BarrierWaitReturn(t)
  \/ BarrierEnvironment(t)

BarrierSpec == SyncInit /\ BarrierInit /\ [][BarrierNext]_barrierAll

-----------------------------------------------------------------------------
BarrierTypeOK ==
  /\ SyncTypeOK
  /\ count \in 0..(Threshold - 1)
  /\ bar_waiters \in Seq(Threads)
  /\ arrived \in [Threads -> 0..MaxRounds]
  /\ left \in [Threads -> 0..MaxRounds]

Total(f) == MapThenSumSet(LAMBDA t : f[t], Threads)

NobodyCancelled == \A t \in Threads : ~cancelreq[t]

\* Nobody gets through early, not even a thread that races round into the
\* next generation while the last one is still being woken: unless a waiter
\* is cancelled, only complete groups of Threshold arrivals let threads out,
\* and when the participants are exactly Threshold, none leaves a round that
\* another has not entered.
NobodyLeavesEarly ==
  NobodyCancelled =>
    /\ Total(left) <= Threshold * (Total(arrived) \div Threshold)
    /\ Cardinality(Threads) = Threshold =>
         \A t, u \in Threads : left[t] <= arrived[u]

\* The count and the queue agree: whoever is counted is asleep in the queue,
\* so the arrival that completes the group wakes all of it.
CountedAreQueued ==
  NobodyCancelled /\ GuardFree =>
    /\ count = Len(bar_waiters)
    /\ \A t \in Threads : loc[t] \in InSlowPath /\ ev[t] = "pending"
         <=> Contains(bar_waiters, t)

\* What t, or the event manager for it, does next.
BarrierContinue(t) ==
  \/ BarrierWait(t) \/ WakeNext(t) \/ SerialReturn(t) \/ BarrierWaitReturn(t)
  \/ EventManager(t) /\ UNCHANGED barrierVars
=============================================================================
