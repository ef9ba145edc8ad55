----------------------------- MODULE SemProofs ------------------------------
(***************************************************************************)
(* apth_sem implements a counting semaphore whose operations are single     *)
(* steps, for any finite set of threads.  A permit that post() hands to a   *)
(* waiter counts as there until that wait returns, so that a post is over   *)
(* in its first step and a wait happens in its last.                        *)
(***************************************************************************)
EXTENDS Sem, QueueFacts, FiniteSetTheorems

\* A client that uses apth_sem_wait does not cancel the threads that do.
UntimedUncancelled == Untimed \cap Cancellable = {}

\* The unsigned count has room for the posts of a behaviour: apth_sem_post
\* does not look for EOVERFLOW.
CountHasRoom == InitValue + MaxPosts < Modulus

Permits == value + Cardinality(PermitGranted)
Atomic == INSTANCE Semaphore WITH permits <- Permits

Slow(t) == loc[t] \in InSlowPath

\* The guard is held between steps only by the thread in its hand-over.
GuardHeld ==
  /\ \A t \in Threads : loc[t] = "handoff" <=> guard = t
  /\ target = NoThread <=> guard = NoThread

\* The waiters are the threads in the slow path that are not served yet.
QueueExact ==
  /\ NoDuplicates(sem_waiters)
  /\ \A t \in Threads : InQueue(sem_waiters, t) <=> Slow(t) /\ ev[t] = "pending"

\* Only a passed deadline or a cancellation wakes a thread that is not served,
\* and a cancelled one is not in an untimed call.
WokenForAReason ==
  /\ \A t \in Threads : loc[t] = "woken" /\ ev[t] = "pending" =>
       timer[t] = "occurred" \/ cancelreq[t]
  /\ \A t \in Threads : cancelreq[t] => t \in Cancellable
  /\ \A t \in Threads : Slow(t) /\ timer[t] = "off" => t \in Untimed

Structure == SemTypeOK /\ GuardHeld /\ QueueExact /\ WokenForAReason

IInv == Structure /\ PermitsConserved /\ (value > 0 => sem_waiters = <<>>)

-----------------------------------------------------------------------------
LEMMA GrantedFinite ==
  /\ IsFiniteSet(PermitGranted) /\ Cardinality(PermitGranted) \in Nat
<1>1. PermitGranted \in SUBSET Threads
  BY DEF PermitGranted
<1>2. IsFiniteSet(PermitGranted)
  BY <1>1, SemConstants, FS_Subset
<1> QED
  BY <1>2, FS_CardinalityType

\* One granted thread more or less.
LEMMA Counting ==
  ASSUME NEW S, IsFiniteSet(S), NEW x
  PROVE  /\ x \notin S => Cardinality(S \cup {x}) = Cardinality(S) + 1
         /\ x \in S => Cardinality(S \ {x}) = Cardinality(S) - 1
  BY FS_AddElement, FS_RemoveElement

LEMMA Initially == SyncInit /\ SemInit => IInv /\ Atomic!Init
<1> SUFFICES ASSUME SyncInit, SemInit PROVE IInv /\ Atomic!Init
  OBVIOUS
<1>1. Structure
  BY SyncConstants, SemConstants, EmptyFacts
  DEF SyncInit, SemInit, Structure, SemTypeOK, SyncTypeOK, GuardHeld, QueueExact,
      WokenForAReason, Slow, InSlowPath
<1>2. Cardinality(PermitGranted) = 0
  <2>1. PermitGranted = {}
    BY DEF SyncInit, PermitGranted, InSlowPath
  <2> QED
    BY <2>1, FS_EmptySet, Zenon
<1>3. PermitsConserved /\ (value > 0 => sem_waiters = <<>>)
  BY <1>2, SemConstants DEF SemInit, PermitsConserved
<1>4. Atomic!Init
  BY <1>2, SemConstants DEF SemInit, Atomic!Init, Permits
<1> QED
  BY <1>1, <1>3, <1>4 DEF IInv

\* What a step does to the abstract semaphore.
AbstractStep == Atomic!Wait \/ Atomic!Post \/ UNCHANGED <<Permits, posted, taken>>

LEMMA TakesPermit ==
  ASSUME IInv, NEW t \in Threads, loc[t] = "user", TakePermit(t)
  PROVE  IInv' /\ AbstractStep
<1>1. Structure'
  BY SyncConstants, SemConstants
  DEF TakePermit, syncVars, IInv, Structure, SemTypeOK, SyncTypeOK, GuardHeld, QueueExact,
      WokenForAReason, Slow, InSlowPath
<1>2. PermitGranted' = PermitGranted
  BY DEF TakePermit, syncVars, PermitGranted
<1>3. Cardinality(PermitGranted') = Cardinality(PermitGranted)
  BY <1>2, Zenon
<1>4. /\ value \in Nat /\ value > 0 /\ value' = value - 1 /\ taken \in Nat /\ taken' = taken + 1
      /\ UNCHANGED <<sem_waiters, posted>> /\ sem_waiters = <<>> /\ posted \in Nat
      /\ Cardinality(PermitGranted) \in Nat
      /\ value + Cardinality(PermitGranted) + taken = InitValue + posted
  BY SemConstants, GrantedFinite
  DEF TakePermit, IInv, Structure, SemTypeOK, PermitsConserved
<1>5. PermitsConserved' /\ (value' > 0 => sem_waiters' = <<>>)
  BY <1>3, <1>4, SemConstants DEF PermitsConserved
<1>6. Atomic!Wait
  BY <1>3, <1>4 DEF Atomic!Wait, Permits
<1> QED
  BY <1>1, <1>5, <1>6 DEF IInv, AbstractStep

LEMMA Enqueues ==
  ASSUME IInv, NEW t \in Threads, NEW timed \in BOOLEAN, timed \/ t \in Untimed,
         loc[t] = "user", SemEnqueue(t, timed)
  PROVE  IInv' /\ AbstractStep
<1>1. ~InQueue(sem_waiters, t)
  BY DEF IInv, Structure, QueueExact, Slow, InSlowPath
<1>2. /\ sem_waiters' \in Seq(Threads) /\ NoDuplicates(sem_waiters')
      /\ \A u : InQueue(sem_waiters', u) <=> InQueue(sem_waiters, u) \/ u = t
  BY <1>1, PushFacts DEF SemEnqueue, IInv, Structure, SemTypeOK, QueueExact
<1>3. Structure'
  BY <1>2, SyncConstants
  DEF SemEnqueue, Block, IInv, Structure, SemTypeOK, SyncTypeOK, GuardHeld, QueueExact,
      WokenForAReason, Slow, InSlowPath
<1>4. PermitGranted' = PermitGranted
  BY DEF SemEnqueue, Block, IInv, Structure, SemTypeOK, SyncTypeOK, PermitGranted, InSlowPath
<1>5. Cardinality(PermitGranted') = Cardinality(PermitGranted)
  BY <1>4, Zenon
<1>6. value = 0 /\ UNCHANGED <<value, posted, taken>>
  BY DEF SemEnqueue
<1>7. PermitsConserved' /\ UNCHANGED <<Permits, posted, taken>>
  BY <1>5, <1>6 DEF IInv, PermitsConserved, Permits
<1> QED
  BY <1>3, <1>6, <1>7 DEF IInv, AbstractStep

-----------------------------------------------------------------------------
\* A wait that was granted its permit returns.
LEMMA ServedReturns ==
  ASSUME IInv, NEW t \in Threads, loc[t] = "woken", ev[t] = "occurred", Leave(t),
         taken' = taken + 1,
         UNCHANGED <<guard, target, cancelreq, value, sem_waiters, posted>>
  PROVE  IInv' /\ AbstractStep
<1>1. Structure'
  BY SyncConstants
  DEF Leave, IInv, Structure, SemTypeOK, SyncTypeOK, GuardHeld, QueueExact, WokenForAReason,
      Slow, InSlowPath
<1>2. t \in PermitGranted /\ PermitGranted' = PermitGranted \ {t}
  BY DEF Leave, IInv, Structure, SemTypeOK, SyncTypeOK, PermitGranted, InSlowPath
<1>3. Cardinality(PermitGranted \ {t}) = Cardinality(PermitGranted) - 1
  BY <1>2, GrantedFinite, Counting
<1>4. Cardinality(PermitGranted') = Cardinality(PermitGranted) - 1
  BY <1>2, <1>3, Zenon
<1>5. Cardinality(PermitGranted) # 0
  BY <1>2, GrantedFinite, FS_EmptySet
<1>6. /\ value \in Nat /\ taken \in Nat /\ posted \in Nat
      /\ Cardinality(PermitGranted) \in Nat
      /\ value + Cardinality(PermitGranted) + taken = InitValue + posted
      /\ value > 0 => sem_waiters = <<>>
  BY SemConstants, GrantedFinite DEF IInv, Structure, SemTypeOK, PermitsConserved
<1>7. PermitsConserved' /\ (value' > 0 => sem_waiters' = <<>>)
  BY <1>4, <1>6, SemConstants DEF PermitsConserved
<1>8. Atomic!Wait
  BY <1>4, <1>5, <1>6 DEF Atomic!Wait, Permits
<1> QED
  BY <1>1, <1>7, <1>8 DEF IInv, AbstractStep

\* wait() returns: without cancellation only the hand-over woke it.
LEMMA WaitReturns ==
  ASSUME IInv, UntimedUncancelled, NEW t \in Threads, SemWaitReturn(t)
  PROVE  IInv' /\ AbstractStep
<1>1. ev[t] = "occurred"
  BY DEF SemWaitReturn, UntimedUncancelled, IInv, Structure, SemTypeOK, SyncTypeOK,
         WokenForAReason, Slow, InSlowPath
<1> QED
  BY <1>1, ServedReturns DEF SemWaitReturn

\* timedwait() returns: it has its permit, or takes itself off the list.
LEMMA TimedWaitReturns ==
  ASSUME IInv, NEW t \in Threads, SemTimedWaitReturn(t)
  PROVE  IInv' /\ AbstractStep
<1>1. CASE ev[t] = "occurred"
  BY <1>1, ServedReturns DEF SemTimedWaitReturn
<1>2. CASE ev[t] # "occurred"
  <2>1. PICK k \in 1..Len(sem_waiters) : sem_waiters[k] = t /\ sem_waiters' = RemoveAt(sem_waiters, k)
    BY <1>2 DEF SemTimedWaitReturn, Unlink
  <2>2. /\ sem_waiters' \in Seq(Threads) /\ NoDuplicates(sem_waiters')
        /\ \A u : InQueue(sem_waiters', u) <=> InQueue(sem_waiters, u) /\ u # t
    BY <2>1, RemoveFacts DEF IInv, Structure, SemTypeOK, QueueExact
  <2>3. Structure'
    BY <1>2, <2>2, SyncConstants
    DEF SemTimedWaitReturn, Leave, IInv, Structure, SemTypeOK, SyncTypeOK, GuardHeld,
        QueueExact, WokenForAReason, Slow, InSlowPath
  <2>4. PermitGranted' = PermitGranted
    BY <1>2 DEF SemTimedWaitReturn, Leave, IInv, Structure, SemTypeOK, SyncTypeOK,
                PermitGranted, InSlowPath
  <2>5. Cardinality(PermitGranted') = Cardinality(PermitGranted)
    BY <2>4, Zenon
  <2>6. sem_waiters # <<>> /\ UNCHANGED <<value, posted, taken>>
    BY <1>2, <2>1 DEF SemTimedWaitReturn
  <2>7. PermitsConserved' /\ UNCHANGED <<Permits, posted, taken>>
    BY <2>5, <2>6 DEF IInv, PermitsConserved, Permits
  <2>8. ~(value' > 0)
    BY <2>6 DEF IInv
  <2> QED
    BY <2>3, <2>7, <2>8 DEF IInv, AbstractStep
<1> QED
  BY <1>1, <1>2

-----------------------------------------------------------------------------
\* post() counts up, or hands its permit to the first waiter.
LEMMA Posts ==
  ASSUME IInv, CountHasRoom, NEW t \in Threads, SemPost(t)
  PROVE  IInv' /\ AbstractStep
<1>0. /\ loc[t] = "user" /\ guard = NoThread /\ posted < MaxPosts
      /\ posted' = posted + 1 /\ UNCHANGED taken
  BY DEF SemPost, GuardFree
<1>1. /\ value \in Nat /\ value < Modulus /\ taken \in Nat /\ posted \in Nat
      /\ Cardinality(PermitGranted) \in Nat /\ posted' \in 0..MaxPosts
      /\ value + Cardinality(PermitGranted) + taken = InitValue + posted
      /\ value > 0 => sem_waiters = <<>>
  BY <1>0, SemConstants, GrantedFinite DEF IInv, Structure, SemTypeOK, PermitsConserved
<1>2. CASE sem_waiters # <<>>
  <2> DEFINE w == Head(sem_waiters)
  <2>1. Publish(t, w) /\ sem_waiters' = Tail(sem_waiters) /\ UNCHANGED value
    BY <1>2 DEF SemPost
  <2>2. /\ w \in Threads /\ InQueue(sem_waiters, w)
        /\ sem_waiters' \in Seq(Threads) /\ NoDuplicates(sem_waiters')
        /\ \A u : InQueue(sem_waiters', u) <=> InQueue(sem_waiters, u) /\ u # w
    BY <1>2, <2>1, PopFacts, EmptyFacts DEF IInv, Structure, SemTypeOK, QueueExact
  <2> HIDE DEF w
  <2>3. Slow(w) /\ ev[w] = "pending" /\ w # t
    BY <1>0, <2>2 DEF IInv, Structure, QueueExact, Slow, InSlowPath
  <2>4. SemTypeOK'
    BY <1>0, <1>1, <2>1, <2>2 DEF Publish, IInv, Structure, SemTypeOK, SyncTypeOK
  <2>5. GuardHeld'
    BY <1>0, <2>1, <2>2, <2>3, SyncConstants
    DEF Publish, IInv, Structure, SemTypeOK, SyncTypeOK, GuardHeld, Slow, InSlowPath
  <2>6. QueueExact' /\ WokenForAReason'
    BY <1>0, <2>1, <2>2, <2>3
    DEF Publish, IInv, Structure, SemTypeOK, SyncTypeOK, QueueExact, WokenForAReason, Slow,
        InSlowPath
  <2>7. w \notin PermitGranted /\ PermitGranted' = PermitGranted \cup {w}
    BY <1>0, <2>1, <2>2, <2>3
    DEF Publish, IInv, Structure, SemTypeOK, SyncTypeOK, PermitGranted, Slow, InSlowPath
  <2>8. Cardinality(PermitGranted \cup {w}) = Cardinality(PermitGranted) + 1
    BY <2>7, GrantedFinite, Counting
  <2>9. Cardinality(PermitGranted') = Cardinality(PermitGranted) + 1
    BY <2>7, <2>8, Zenon
  <2>10. PermitsConserved' /\ ~(value' > 0)
    BY <1>0, <1>1, <1>2, <2>1, <2>9, SemConstants DEF PermitsConserved
  <2>11. Atomic!Post
    BY <1>0, <1>1, <2>1, <2>9 DEF Atomic!Post, Permits
  <2> QED
    BY <2>4, <2>5, <2>6, <2>10, <2>11 DEF IInv, Structure, AbstractStep
<1>3. CASE sem_waiters = <<>>
  <2>1. value' = (value + 1) % Modulus /\ UNCHANGED <<sem_waiters, syncVars>>
    BY <1>3 DEF SemPost
  <2>2. value' = value + 1 /\ value' \in 0..(Modulus - 1)
    <3>1. value + 1 \in 0..(Modulus - 1) /\ Modulus \in Nat \ {0}
      BY <1>0, <1>1, SemConstants DEF CountHasRoom
    <3> QED
      BY <2>1, <3>1
  <2>3. Structure'
    BY <1>0, <1>1, <2>1, <2>2, SyncConstants
    DEF syncVars, IInv, Structure, SemTypeOK, SyncTypeOK, GuardHeld, QueueExact,
        WokenForAReason, Slow, InSlowPath
  <2>4. PermitGranted' = PermitGranted
    BY <2>1 DEF syncVars, PermitGranted
  <2>5. Cardinality(PermitGranted') = Cardinality(PermitGranted)
    BY <2>4, Zenon
  <2>6. PermitsConserved'
    BY <1>0, <1>1, <2>2, <2>5, SemConstants DEF PermitsConserved
  <2>7. Atomic!Post
    BY <1>0, <1>1, <2>2, <2>5 DEF Atomic!Post, Permits
  <2> QED
    BY <1>3, <2>1, <2>3, <2>6, <2>7 DEF IInv, AbstractStep
<1> QED
  BY <1>2, <1>3

\* The permits stay when the semaphore and the grants do.
LEMMA Stutters ==
  ASSUME IInv, Structure', UNCHANGED semVars, PermitGranted' = PermitGranted
  PROVE  IInv' /\ AbstractStep
<1>1. Cardinality(PermitGranted') = Cardinality(PermitGranted)
  BY Zenon
<1>2. UNCHANGED <<value, sem_waiters, posted, taken>>
  BY DEF semVars
<1>3. PermitsConserved' /\ UNCHANGED <<Permits, posted, taken>>
  BY <1>1, <1>2 DEF IInv, PermitsConserved, Permits
<1> QED
  BY <1>2, <1>3 DEF IInv, AbstractStep

LEMMA HandOffEnds ==
  ASSUME IInv, NEW t \in Threads, SemPostDone(t)
  PROVE  IInv' /\ AbstractStep
<1>1. Structure'
  BY SyncConstants
  DEF SemPostDone, EndHandOff, semVars, IInv, Structure, SemTypeOK, SyncTypeOK, GuardHeld,
      QueueExact, WokenForAReason, Slow, InSlowPath
<1>2. PermitGranted' = PermitGranted
  BY DEF SemPostDone, EndHandOff, IInv, Structure, SemTypeOK, SyncTypeOK, PermitGranted,
         InSlowPath
<1> QED
  BY <1>1, <1>2, Stutters DEF SemPostDone

\* The event manager and apth_cancel.
LEMMA EnvironmentActs ==
  ASSUME IInv, NEW t \in Threads, SemEnvironment(t)
  PROVE  IInv' /\ AbstractStep
<1>0. SemTypeOK /\ SyncTypeOK /\ WokenForAReason /\ UNCHANGED semVars
  BY DEF SemEnvironment, IInv, Structure, SemTypeOK
<1>1. CASE EventManager(t)
  <2>1. /\ loc[t] = "waiting" /\ loc' = [loc EXCEPT ![t] = "woken"]
        /\ UNCHANGED <<guard, target, ev, cancelreq>>
    BY <1>1 DEF EventManager, WakeSync, WakeTimer, WakeCancel
  <2>2. timer' = timer \/ (timer[t] = "pending" /\ timer' = [timer EXCEPT ![t] = "occurred"])
    BY <1>1 DEF EventManager, WakeSync, WakeTimer, WakeCancel
  <2>3. ev[t] = "pending" => timer'[t] = "occurred" \/ cancelreq[t]
    BY <1>0, <1>1 DEF EventManager, WakeSync, WakeTimer, WakeCancel, SyncTypeOK
  <2>4. \A u \in Threads : u # t => loc'[u] = loc[u] /\ timer'[u] = timer[u]
    BY <1>0, <2>1, <2>2 DEF SyncTypeOK
  <2>5. \A u \in Threads : timer'[u] = "off" => timer[u] = "off"
    BY <1>0, <2>2 DEF SyncTypeOK
  <2>6. \A u \in Threads : Slow(u)' <=> Slow(u)
    BY <1>0, <2>1 DEF SyncTypeOK, Slow, InSlowPath
  <2>7. SemTypeOK'
    BY <1>0, <2>1, <2>2 DEF SemTypeOK, SyncTypeOK, semVars
  <2>8. GuardHeld' /\ QueueExact'
    BY <1>0, <2>1, <2>6 DEF IInv, Structure, SyncTypeOK, GuardHeld, QueueExact, semVars
  <2>9. WokenForAReason'
    <3>1. \A u \in Threads : loc'[u] = "woken" /\ ev'[u] = "pending" =>
            timer'[u] = "occurred" \/ cancelreq'[u]
      BY <1>0, <2>1, <2>3, <2>4 DEF WokenForAReason
    <3> QED
      BY <1>0, <2>1, <2>5, <2>6, <3>1 DEF WokenForAReason
  <2>10. PermitGranted' = PermitGranted
    BY <2>1, <2>6 DEF PermitGranted, Slow
  <2> QED
    BY <1>0, <2>7, <2>8, <2>9, <2>10, Stutters DEF Structure
<1>2. CASE Cancel(t)
  <2>1. Structure'
    BY <1>0, <1>2
    DEF Cancel, semVars, IInv, Structure, SemTypeOK, SyncTypeOK, GuardHeld, QueueExact,
        WokenForAReason, Slow
  <2>2. PermitGranted' = PermitGranted
    BY <1>2 DEF Cancel, PermitGranted
  <2> QED
    BY <1>0, <2>1, <2>2, Stutters
<1> QED
  BY <1>1, <1>2 DEF SemEnvironment

\* One step keeps the inductive invariant and is a step of the abstract
\* semaphore or none.
LEMMA Preserved ==
  ASSUME UntimedUncancelled, CountHasRoom, IInv, [SemNext]_semAll
  PROVE  IInv' /\ AbstractStep
<1>1. ASSUME NEW t \in Threads, SemWait(t) \/ SemTimedWait(t) \/ SemTryWait(t)
      PROVE  IInv' /\ AbstractStep
  BY <1>1, TakesPermit, Enqueues DEF SemWait, SemTimedWait, SemTryWait
<1>2. ASSUME NEW t \in Threads, SemReturn(t) PROVE IInv' /\ AbstractStep
  BY <1>2, WaitReturns, TimedWaitReturns DEF SemReturn
<1>3. ASSUME NEW t \in Threads, SemPost(t) \/ SemPostDone(t) \/ SemEnvironment(t)
      PROVE  IInv' /\ AbstractStep
  BY <1>3, Posts, HandOffEnds, EnvironmentActs
<1>4. CASE UNCHANGED semAll
  <2>1. Structure'
    BY <1>4
    DEF semAll, syncVars, semVars, IInv, Structure, SemTypeOK, SyncTypeOK, GuardHeld,
        QueueExact, WokenForAReason, Slow
  <2>2. PermitGranted' = PermitGranted /\ UNCHANGED semVars
    BY <1>4 DEF semAll, syncVars, PermitGranted
  <2> QED
    BY <2>1, <2>2, Stutters
<1> QED
  BY <1>1, <1>2, <1>3, <1>4 DEF SemNext

\* apth_sem implements the atomic semaphore: whatever races there are between
\* posts, deadlines and returning waits, every wait that reports success took
\* one permit that was there and every post added one.
THEOREM SemImplements == UntimedUncancelled /\ CountHasRoom /\ SemSpec => Atomic!Spec
<1> SUFFICES ASSUME UntimedUncancelled, CountHasRoom PROVE SemSpec => Atomic!Spec
  OBVIOUS
<1>1. IInv /\ [SemNext]_semAll => IInv'
  BY Preserved
<1>2. IInv /\ [SemNext]_semAll =>
        [Atomic!Wait \/ Atomic!Post]_<<Permits, posted, taken>>
  BY Preserved DEF AbstractStep
<1> QED
  BY Initially, <1>1, <1>2, PTL DEF SemSpec, Atomic!Spec

\* No permit is lost or invented, and nobody sleeps beside one.
THEOREM SemConserves ==
  UntimedUncancelled /\ CountHasRoom /\ SemSpec => [](PermitsConserved /\ NoSleeperBesideAPermit)
<1> SUFFICES ASSUME UntimedUncancelled, CountHasRoom
             PROVE  SemSpec => [](PermitsConserved /\ NoSleeperBesideAPermit)
  OBVIOUS
<1>1. IInv /\ [SemNext]_semAll => IInv'
  BY Preserved
<1>2. IInv => PermitsConserved /\ NoSleeperBesideAPermit
  <2> SUFFICES ASSUME IInv PROVE NoSleeperBesideAPermit
    BY DEF IInv
  <2>1. ASSUME NEW t \in Threads, Slow(t), ev[t] = "pending"
        PROVE  \E i \in {k \in 1..Len(sem_waiters) : sem_waiters[k] = t} :
                 {k \in 1..Len(sem_waiters) : sem_waiters[k] = t} = {i}
    <3>1. PICK i \in 1..Len(sem_waiters) : sem_waiters[i] = t
      BY <2>1 DEF IInv, Structure, QueueExact, InQueue
    <3>2. \A k \in 1..Len(sem_waiters) : sem_waiters[k] = t => k = i
      BY <3>1 DEF IInv, Structure, QueueExact, NoDuplicates
    <3> QED
      BY <3>1, <3>2
  <2>2. ASSUME NEW t \in Threads, Slow(t), ev[t] # "pending"
        PROVE  {k \in 1..Len(sem_waiters) : sem_waiters[k] = t} = {}
    BY <2>2 DEF IInv, Structure, QueueExact, InQueue
  <2> QED
    BY <2>1, <2>2 DEF IInv, NoSleeperBesideAPermit, Slow
<1> QED
  BY Initially, <1>1, <1>2, PTL DEF SemSpec
=============================================================================
