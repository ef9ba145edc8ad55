-------------------------------- MODULE Sem ---------------------------------
(***************************************************************************)
(* apth_sem: a count and a FIFO of waiters.  post() gives its permit to the *)
(* first waiter directly and counts up only when nobody waits.              *)
(***************************************************************************)
EXTENDS SyncWaiter, FiniteSets

CONSTANTS InitValue,  \* the value given to apth_sem_init
          Modulus,    \* how many values the unsigned count has
          MaxPosts    \* bound on the posts of a behaviour

ASSUME SemConstants ==
  /\ InitValue \in Nat /\ MaxPosts \in Nat /\ Modulus \in Nat
  /\ InitValue < Modulus /\ IsFiniteSet(Threads)

VARIABLES value, sem_waiters,
          posted,  \* how many posts there were (ghost)
          taken    \* how many waits were told they have a permit (ghost)

semVars == <<value, sem_waiters, posted, taken>>
semAll == <<syncVars, semVars>>

\* apth_sem_init
SemInit ==
  /\ value = InitValue
  /\ sem_waiters = <<>>
  /\ posted = 0 /\ taken = 0

TakePermit(t) ==
  /\ value > 0
  /\ value' = value - 1 /\ taken' = taken + 1
  /\ UNCHANGED <<sem_waiters, posted, syncVars>>

SemEnqueue(t, timed) ==
  /\ value = 0
  /\ sem_waiters' = Append(sem_waiters, t)
  /\ Block(t, timed)
  /\ UNCHANGED <<guard, target, cancelreq, value, posted, taken>>

SemWait(t) ==
  /\ t \in Untimed /\ loc[t] = "user" /\ GuardFree
  /\ TakePermit(t) \/ SemEnqueue(t, FALSE)

SemTimedWait(t) ==
  /\ loc[t] = "user" /\ GuardFree
  /\ TakePermit(t) \/ SemEnqueue(t, TRUE)

\* trywait returns EAGAIN, which changes nothing, when the guard is taken.
SemTryWait(t) ==
  /\ loc[t] = "user" /\ GuardFree
  /\ TakePermit(t)

\* wait() comes back from the yield and returns 0 whatever woke it.
SemWaitReturn(t) ==
  /\ loc[t] = "woken" /\ timer[t] = "off"
  /\ Leave(t)
  /\ taken' = taken + 1
  /\ UNCHANGED <<guard, target, cancelreq, value, sem_waiters, posted>>

\* Mutant: reports a timeout although post() has granted a permit.
TimedWaitReturnGivesUp(t) ==
  /\ loc[t] = "woken" /\ timer[t] # "off" /\ GuardFree
  /\ Leave(t)
  /\ sem_waiters' = Remove(sem_waiters, t)
  /\ UNCHANGED <<guard, target, cancelreq, value, posted, taken>>

\* Mutant: reports success although the deadline was first.
TimedWaitReturnBlind(t) ==
  /\ loc[t] = "woken" /\ timer[t] # "off" /\ GuardFree
  /\ Leave(t)
  /\ taken' = taken + 1
  /\ sem_waiters' = Remove(sem_waiters, t)
  /\ UNCHANGED <<guard, target, cancelreq, value, posted>>

\* Mutant: settles the race without the guard.
TimedWaitReturnUnguarded(t) ==
  /\ loc[t] = "woken" /\ timer[t] # "off"
  /\ Leave(t)
  /\ taken' = IF ev[t] = "occurred" THEN taken + 1 ELSE taken
  /\ sem_waiters' = Remove(sem_waiters, t)
  /\ UNCHANGED <<guard, target, cancelreq, value, posted>>

\* timedwait() takes the guard again: was post or the timer first?
SemTimedWaitReturn(t) ==
  /\ loc[t] = "woken" /\ timer[t] # "off" /\ GuardFree
  /\ Leave(t)
  /\ \/ ev[t] = "occurred" /\ taken' = taken + 1 /\ UNCHANGED sem_waiters
     \/ /\ ev[t] # "occurred"
        /\ Unlink(sem_waiters, t, sem_waiters')
        /\ UNCHANGED taken
  /\ UNCHANGED <<guard, target, cancelreq, value, posted>>

SemPost(t) ==
  /\ loc[t] = "user" /\ GuardFree /\ posted < MaxPosts
  /\ posted' = posted + 1
  /\ \/ /\ sem_waiters # <<>>
        /\ sem_waiters' = Tail(sem_waiters)
        /\ Publish(t, Head(sem_waiters))
        /\ UNCHANGED value
     \/ /\ sem_waiters = <<>>
        /\ value' = (value + 1) % Modulus
        /\ UNCHANGED <<sem_waiters, syncVars>>
  /\ UNCHANGED taken

SemPostDone(t) == EndHandOff(t) /\ UNCHANGED semVars

SemReturn(t) == SemWaitReturn(t) \/ SemTimedWaitReturn(t)

SemEnvironment(t) ==
  /\ EventManager(t) \/ Cancel(t)
  /\ UNCHANGED semVars

SemNext == \E t \in Threads :
  \/ SemWait(t) \/ SemTimedWait(t) \/ SemTryWait(t) \/ SemReturn(t)
  \/ SemPost(t) \/ SemPostDone(t)
  \/ SemEnvironment(t)

SemSpec == SyncInit /\ SemInit /\ [][SemNext]_semAll

-----------------------------------------------------------------------------
SemTypeOK ==
  /\ SyncTypeOK
  /\ value \in 0..(Modulus - 1)
  /\ sem_waiters \in Seq(Threads)
  /\ posted \in 0..MaxPosts
  /\ taken \in Nat

\* The waits that post() has granted a permit and that have not returned yet.
PermitGranted == {t \in Threads : loc[t] \in InSlowPath /\ ev[t] = "occurred"}

\* Permits are neither lost nor invented, whoever wins the race between post
\* and a deadline: every permit there ever was is in the count, on its way to
\* a waiter, or taken.
PermitsConserved ==
  value + Cardinality(PermitGranted) + taken = InitValue + posted

\* Nobody sleeps while the count is positive, and whoever sleeps ungranted is
\* in the FIFO exactly once, so that a post can find it.
NoSleeperBesideAPermit ==
  /\ value > 0 => sem_waiters = <<>>
  /\ \A t \in Threads : loc[t] \in InSlowPath =>
       LET places == {i \in 1..Len(sem_waiters) : sem_waiters[i] = t}
       IN  IF ev[t] = "pending" THEN \E i \in places : places = {i}
                                ELSE places = {}

\* What t, or the event manager for it, does next inside the library.
SemContinue(t) ==
  SemReturn(t) \/ SemPostDone(t) \/ (EventManager(t) /\ UNCHANGED semVars)
=============================================================================
