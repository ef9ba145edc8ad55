---------------------------- MODULE RwlockProofs ----------------------------
(***************************************************************************)
(* Exclusion of apth_rwlock for any finite set of threads, readers that are *)
(* admitted in a loop and writers that give up included.  As with the mutex *)
(* nobody may be cancelled inside rdlock or wrlock, which take every        *)
(* wake-up for the hand-over; the timed calls need no such assumption.      *)
(***************************************************************************)
EXTENDS Rwlock, QueueFacts, FiniteSetTheorems

\* A client that uses rdlock or wrlock does not cancel the threads that do.
UntimedUncancelled == Untimed \cap Cancellable = {}

Slow(t) == loc[t] \in InSlowPath
Pending(t, mode) == Slow(t) /\ want[t] = mode /\ ev[t] = "pending"

\* The guard is held between steps only by the thread in its hand-over.
GuardHeld ==
  /\ \A t \in Threads : loc[t] = "handoff" <=> guard = t
  /\ target = NoThread <=> guard = NoThread

\* Each list holds the callers of its kind that are not served yet.
QueuesExact ==
  /\ NoDuplicates(rd_waiters) /\ NoDuplicates(wr_waiters)
  /\ \A t \in Threads : InQueue(rd_waiters, t) <=> Pending(t, "read")
  /\ \A t \in Threads : InQueue(wr_waiters, t) <=> Pending(t, "write")

\* A thread inside the library holds nothing, and wants something exactly
\* when it is in the slow path.
CallsKept ==
  /\ \A t \in Threads : loc[t] # "user" => rwheld[t] = "none"
  /\ \A t \in Threads : Slow(t) <=> want[t] # "none"

\* Only a passed deadline or a cancellation wakes a thread that is not served,
\* and a cancelled one is not in an untimed call.
WokenForAReason ==
  /\ \A t \in Threads : loc[t] = "woken" /\ ev[t] = "pending" =>
       timer[t] = "occurred" \/ cancelreq[t]
  /\ \A t \in Threads : cancelreq[t] => t \in Cancellable
  /\ \A t \in Threads : Slow(t) /\ timer[t] = "off" => t \in Untimed

Structure ==
  RwlockTypeOK /\ GuardHeld /\ QueuesExact /\ CallsKept /\ WokenForAReason

IInv == Structure /\ ReadersExcludeWriters /\ WaitingWritersExact

-----------------------------------------------------------------------------
(* Lengths and cardinalities *)

LEMMA RemoveShortens ==
  ASSUME NEW S, NEW q \in Seq(S), NEW k \in 1..Len(q)
  PROVE  Len(RemoveAt(q, k)) = Len(q) - 1 /\ Len(q) - 1 \in Nat
<1> DEFINE a == SubSeq(q, 1, k - 1)
           b == SubSeq(q, k + 1, Len(q))
<1>1. a \in Seq(S) /\ Len(a) = k - 1 /\ b \in Seq(S) /\ Len(b) = Len(q) - k
  OBVIOUS
<1>2. RemoveAt(q, k) = a \o b
  BY DEF RemoveAt
<1> HIDE DEF a, b
<1>3. Len(a \o b) = Len(a) + Len(b)
  BY <1>1, ConcatProperties
<1> QED
  BY <1>1, <1>2, <1>3

\* The threads that have the lock are finitely many.
LEMMA HoldersFinite ==
  ASSUME NEW mode
  PROVE  /\ IsFiniteSet(Holders(mode)) /\ Cardinality(Holders(mode)) \in Nat
         /\ Holders(mode) \in SUBSET Threads
         /\ Cardinality(Holders(mode)) = 0 <=> Holders(mode) = {}
<1>1. Holders(mode) \in SUBSET Threads
  BY DEF Holders
<1>2. IsFiniteSet(Holders(mode))
  BY <1>1, RwlockConstants, FS_Subset
<1> QED
  BY <1>1, <1>2, FS_CardinalityType, FS_EmptySet

\* One thread more or less, and one for another.
LEMMA Counting ==
  ASSUME NEW S, IsFiniteSet(S), NEW x
  PROVE  /\ x \notin S => Cardinality(S \cup {x}) = Cardinality(S) + 1
         /\ x \in S => Cardinality(S \ {x}) = Cardinality(S) - 1
  BY FS_AddElement, FS_RemoveElement

LEMMA Exchange ==
  ASSUME NEW S, IsFiniteSet(S), NEW x \in S, NEW y, y \notin S
  PROVE  Cardinality((S \ {x}) \cup {y}) = Cardinality(S)
<1>1. IsFiniteSet(S \ {x}) /\ Cardinality(S) \in Nat
  BY FS_RemoveElement, FS_CardinalityType
<1>2. Cardinality(S \ {x}) = Cardinality(S) - 1
  BY Counting
<1>3. Cardinality((S \ {x}) \cup {y}) = Cardinality(S \ {x}) + 1
  BY <1>1, Counting
<1> QED
  BY <1>1, <1>2, <1>3

LEMMA Initially == SyncInit /\ RwlockInit => IInv
<1> SUFFICES ASSUME SyncInit, RwlockInit PROVE IInv
  OBVIOUS
<1>1. Structure
  BY SyncConstants, RwlockConstants, EmptyFacts
  DEF SyncInit, RwlockInit, Structure, RwlockTypeOK, SyncTypeOK, GuardHeld, QueuesExact,
      CallsKept, WokenForAReason, Pending, Slow, InSlowPath
<1>2. Holders("read") = {} /\ Holders("write") = {}
  BY DEF SyncInit, RwlockInit, Holders, InSlowPath
<1>3. Cardinality({}) = 0 /\ Len(wr_waiters) = 0
  BY FS_EmptySet DEF RwlockInit
<1>4. ReadersExcludeWriters /\ WaitingWritersExact
  BY <1>2, <1>3 DEF RwlockInit, ReadersExcludeWriters, WaitingWritersExact
<1> QED
  BY <1>1, <1>4 DEF IInv

\* The counts stay right when the holders of a mode do, or gain or lose one.
LEMMA CountsKept ==
  ASSUME ReadersExcludeWriters, UNCHANGED <<readers, writers>>,
         Holders("read")' = Holders("read"), Holders("write")' = Holders("write")
  PROVE  ReadersExcludeWriters'
  BY DEF ReadersExcludeWriters

\* A count of zero means that nobody has the lock in that mode.
LEMMA NoHolder ==
  ASSUME ReadersExcludeWriters
  PROVE  /\ readers = 0 <=> Holders("read") = {}
         /\ writers = 0 <=> Holders("write") = {}
  BY HoldersFinite DEF ReadersExcludeWriters

-----------------------------------------------------------------------------
(* The calls that acquire *)

LEMMA TakesRead ==
  ASSUME IInv, NEW t \in Threads, Entering(t), TakeRead(t), UNCHANGED timedwrites
  PROVE  IInv'
<1>1. Structure'
  BY SyncConstants
  DEF Entering, TakeRead, syncVars, IInv, Structure, RwlockTypeOK, SyncTypeOK, GuardHeld,
      QueuesExact, CallsKept, WokenForAReason, Pending, Slow, InSlowPath
<1>2. t \notin Holders("read") /\ Holders("read")' = Holders("read") \cup {t}
  BY DEF Entering, TakeRead, syncVars, IInv, Structure, RwlockTypeOK, Holders, InSlowPath
<1>3. Holders("write")' = Holders("write")
  BY DEF Entering, TakeRead, syncVars, IInv, Structure, RwlockTypeOK, Holders, InSlowPath
<1>4. Cardinality(Holders("read")') = Cardinality(Holders("read")) + 1
  BY <1>2, Counting, HoldersFinite
<1>5. writers = 0 /\ writers' = 0 /\ readers' = readers + 1
  BY DEF TakeRead
<1>6. ReadersExcludeWriters'
  BY <1>3, <1>4, <1>5 DEF IInv, ReadersExcludeWriters
<1>7. WaitingWritersExact'
  BY DEF TakeRead, IInv, WaitingWritersExact
<1> QED
  BY <1>1, <1>6, <1>7 DEF IInv

LEMMA TakesWrite ==
  ASSUME IInv, NEW t \in Threads, Entering(t), TakeWrite(t), UNCHANGED timedwrites
  PROVE  IInv'
<1>1. Structure'
  BY SyncConstants
  DEF Entering, TakeWrite, syncVars, IInv, Structure, RwlockTypeOK, SyncTypeOK, GuardHeld,
      QueuesExact, CallsKept, WokenForAReason, Pending, Slow, InSlowPath
<1>2. t \notin Holders("write") /\ Holders("write")' = Holders("write") \cup {t}
  BY DEF Entering, TakeWrite, syncVars, IInv, Structure, RwlockTypeOK, Holders, InSlowPath
<1>3. Holders("read")' = Holders("read")
  BY DEF Entering, TakeWrite, syncVars, IInv, Structure, RwlockTypeOK, Holders, InSlowPath
<1>4. Cardinality(Holders("write")') = Cardinality(Holders("write")) + 1
  BY <1>2, Counting, HoldersFinite
<1>5. ReadersExcludeWriters' /\ WaitingWritersExact'
  BY <1>3, <1>4 DEF TakeWrite, IInv, ReadersExcludeWriters, WaitingWritersExact
<1> QED
  BY <1>1, <1>5 DEF IInv

\* The slow paths append the caller to the list of its kind.
LEMMA EnqueuesReader ==
  ASSUME IInv, NEW t \in Threads, NEW timed \in BOOLEAN, timed \/ t \in Untimed,
         Entering(t), EnqueueReader(t, timed), UNCHANGED timedwrites
  PROVE  IInv'
<1>1. ~InQueue(rd_waiters, t)
  BY DEF Entering, IInv, Structure, QueuesExact, Pending, Slow, InSlowPath
<1>2. /\ rd_waiters' \in Seq(Threads) /\ NoDuplicates(rd_waiters')
      /\ \A u : InQueue(rd_waiters', u) <=> InQueue(rd_waiters, u) \/ u = t
  BY <1>1, PushFacts DEF EnqueueReader, IInv, Structure, RwlockTypeOK, QueuesExact
<1>3. Structure'
  BY <1>2, SyncConstants
  DEF Entering, EnqueueReader, Block, counts, IInv, Structure, RwlockTypeOK, SyncTypeOK,
      GuardHeld, QueuesExact, CallsKept, WokenForAReason, Pending, Slow, InSlowPath
<1>4. \A mode : Holders(mode)' = Holders(mode)
  BY DEF Entering, EnqueueReader, Block, IInv, Structure, RwlockTypeOK, SyncTypeOK, Holders,
         InSlowPath
<1> QED
  BY <1>3, <1>4, CountsKept DEF EnqueueReader, counts, IInv, WaitingWritersExact

LEMMA EnqueuesWriter ==
  ASSUME IInv, NEW t \in Threads, NEW timed \in BOOLEAN, timed \/ t \in Untimed,
         Entering(t), EnqueueWriter(t, timed), UNCHANGED timedwrites
  PROVE  IInv'
<1>1. ~InQueue(wr_waiters, t)
  BY DEF Entering, IInv, Structure, QueuesExact, Pending, Slow, InSlowPath
<1>2. /\ wr_waiters' \in Seq(Threads) /\ NoDuplicates(wr_waiters')
      /\ \A u : InQueue(wr_waiters', u) <=> InQueue(wr_waiters, u) \/ u = t
  BY <1>1, PushFacts DEF EnqueueWriter, IInv, Structure, RwlockTypeOK, QueuesExact
<1>3. Structure'
  BY <1>2, SyncConstants
  DEF Entering, EnqueueWriter, Block, IInv, Structure, RwlockTypeOK, SyncTypeOK,
      GuardHeld, QueuesExact, CallsKept, WokenForAReason, Pending, Slow, InSlowPath
<1>4. \A mode : Holders(mode)' = Holders(mode)
  BY DEF Entering, EnqueueWriter, Block, IInv, Structure, RwlockTypeOK, SyncTypeOK, Holders,
         InSlowPath
<1>5. WaitingWritersExact'
  BY DEF EnqueueWriter, IInv, Structure, RwlockTypeOK, WaitingWritersExact
<1> QED
  BY <1>3, <1>4, <1>5, CountsKept DEF EnqueueWriter, IInv

-----------------------------------------------------------------------------
(* The returns from the slow path *)

\* Whoever was handed the lock has it before and after the return.
LEMMA ServedReturns ==
  ASSUME IInv, NEW t \in Threads, loc[t] = "woken", ev[t] = "occurred", Leave(t),
         rwheld' = [rwheld EXCEPT ![t] = want[t]], want' = [want EXCEPT ![t] = "none"],
         UNCHANGED <<counts, rd_waiters, wr_waiters, guard, target, cancelreq, timedwrites>>
  PROVE  IInv'
<1>1. want[t] \in {"read", "write"}
  BY DEF IInv, Structure, RwlockTypeOK, CallsKept, Slow, InSlowPath
<1>2. Structure'
  BY <1>1, SyncConstants
  DEF Leave, counts, IInv, Structure, RwlockTypeOK, SyncTypeOK, GuardHeld, QueuesExact,
      CallsKept, WokenForAReason, Pending, Slow, InSlowPath
<1>3. ASSUME NEW mode \in {"read", "write"} PROVE Holders(mode)' = Holders(mode)
  BY <1>1 DEF Leave, IInv, Structure, RwlockTypeOK, SyncTypeOK, CallsKept, Holders, InSlowPath
<1> QED
  BY <1>2, <1>3, CountsKept DEF counts, IInv, WaitingWritersExact

\* rdlock() or wrlock() returns: without cancellation only the hand-over
\* woke it.
LEMMA UntimedReturns ==
  ASSUME IInv, UntimedUncancelled, NEW t \in Threads, RwlockReturns(t), UNCHANGED timedwrites
  PROVE  IInv'
<1>1. ev[t] = "occurred"
  BY DEF RwlockReturns, UntimedUncancelled, IInv, Structure, RwlockTypeOK, SyncTypeOK,
         WokenForAReason, Slow, InSlowPath
<1> QED
  BY <1>1, ServedReturns DEF RwlockReturns, counts

\* A timed call that was not served takes itself off its list.
LEMMA GivesUp ==
  ASSUME IInv, NEW t \in Threads, loc[t] = "woken", ev[t] # "occurred", guard = NoThread,
         Leave(t), GiveUpRead(t) \/ GiveUpWrite(t), want' = [want EXCEPT ![t] = "none"],
         UNCHANGED <<rwheld, readers, writers, guard, target, cancelreq, timedwrites>>
  PROVE  IInv'
<1>0. \A mode : Holders(mode)' = Holders(mode)
  BY DEF Leave, IInv, Structure, RwlockTypeOK, SyncTypeOK, Holders, InSlowPath
<1>1. CASE GiveUpRead(t)
  <2>1. PICK k \in 1..Len(rd_waiters) : rd_waiters[k] = t /\ rd_waiters' = RemoveAt(rd_waiters, k)
    BY <1>1 DEF GiveUpRead, Unlink
  <2>2. /\ rd_waiters' \in Seq(Threads) /\ NoDuplicates(rd_waiters')
        /\ \A u : InQueue(rd_waiters', u) <=> InQueue(rd_waiters, u) /\ u # t
    BY <2>1, RemoveFacts DEF IInv, Structure, RwlockTypeOK, QueuesExact
  <2>3. Structure'
    BY <1>1, <2>2, SyncConstants
    DEF GiveUpRead, Leave, IInv, Structure, RwlockTypeOK, SyncTypeOK, GuardHeld, QueuesExact,
        CallsKept, WokenForAReason, Pending, Slow, InSlowPath
  <2> QED
    BY <1>0, <1>1, <2>3, CountsKept DEF GiveUpRead, IInv, WaitingWritersExact
<1>2. CASE GiveUpWrite(t)
  <2>1. PICK k \in 1..Len(wr_waiters) : wr_waiters[k] = t /\ wr_waiters' = RemoveAt(wr_waiters, k)
    BY <1>2 DEF GiveUpWrite, Unlink
  <2>2. /\ wr_waiters' \in Seq(Threads) /\ NoDuplicates(wr_waiters')
        /\ \A u : InQueue(wr_waiters', u) <=> InQueue(wr_waiters, u) /\ u # t
    BY <2>1, RemoveFacts DEF IInv, Structure, RwlockTypeOK, QueuesExact
  <2>3. WaitingWritersExact' /\ waiting_writers' \in Nat
    BY <1>2, <2>1, RemoveShortens
    DEF GiveUpWrite, IInv, Structure, RwlockTypeOK, WaitingWritersExact
  <2>4. Structure'
    BY <1>2, <2>2, <2>3, SyncConstants
    DEF GiveUpWrite, Leave, IInv, Structure, RwlockTypeOK, SyncTypeOK, GuardHeld, QueuesExact,
        CallsKept, WokenForAReason, Pending, Slow, InSlowPath
  <2> QED
    BY <1>0, <2>3, <2>4, CountsKept DEF IInv
<1> QED
  BY <1>1, <1>2

LEMMA TimedReturns ==
  ASSUME IInv, NEW t \in Threads, RwlockTimedReturn(t), UNCHANGED timedwrites
  PROVE  IInv'
<1>1. CASE ev[t] = "occurred"
  BY <1>1, ServedReturns DEF RwlockTimedReturn, counts
<1>2. CASE ev[t] # "occurred"
  BY <1>2, GivesUp DEF RwlockTimedReturn, GuardFree
<1> QED
  BY <1>1, <1>2

-----------------------------------------------------------------------------
(* unlock() *)

\* The first waiter of a list gets the lock from t, which gives up what it
\* has: unlock() hands over, or goes on admitting readers with nothing left.
LEMMA Grants ==
  ASSUME IInv, NEW t \in Threads, NEW mode \in {"read", "write"}, NEW w \in Threads,
         Pending(w, mode), loc[t] \in {"user", "handoff"}, Publish(t, w), UNCHANGED want,
         rwheld' = [rwheld EXCEPT ![t] = "none"]
  PROVE  /\ w # t /\ w \notin Holders(mode)
         /\ Holders(mode)' = (Holders(mode) \ {t}) \cup {w}
         /\ \A other \in {"read", "write"} \ {mode} : Holders(other)' = Holders(other) \ {t}
<1>1. w # t /\ rwheld[w] = "none"
  BY DEF IInv, Structure, CallsKept, Pending, Slow, InSlowPath
<1>2. w \notin Holders(mode)
  BY <1>1 DEF Holders, Pending
<1>3. ASSUME NEW u \in Threads, NEW m \in {"read", "write"}
      PROVE  u \in Holders(m)' <=> (u # t /\ u \in Holders(m)) \/ (u = w /\ m = mode)
  BY <1>1 DEF Publish, IInv, Structure, RwlockTypeOK, SyncTypeOK, Holders, Pending, Slow, InSlowPath
<1>4. \A m \in {"read", "write"} : Holders(m) \subseteq Threads /\ Holders(m)' \subseteq Threads
  BY DEF Holders
<1> QED
  BY <1>1, <1>2, <1>3, <1>4

\* What is left of the structure after the first reader or writer is served.
LEMMA GrantsStructure ==
  ASSUME IInv, NEW t \in Threads, NEW w \in Threads, w # t, Slow(w), ev[w] = "pending",
         loc[t] \in {"user", "handoff"}, guard \in {NoThread, t},
         Publish(t, w), UNCHANGED <<want, timedwrites>>,
         rwheld' = [rwheld EXCEPT ![t] = "none"],
         readers' \in Nat, writers' \in {0, 1}, waiting_writers' \in Nat,
         rd_waiters' \in Seq(Threads), wr_waiters' \in Seq(Threads),
         NoDuplicates(rd_waiters'), NoDuplicates(wr_waiters'),
         \A u \in Threads : InQueue(rd_waiters', u) <=> InQueue(rd_waiters, u) /\ u # w,
         \A u \in Threads : InQueue(wr_waiters', u) <=> InQueue(wr_waiters, u) /\ u # w
  PROVE  Structure'
<1>1. RwlockTypeOK'
  BY DEF Publish, IInv, Structure, RwlockTypeOK, SyncTypeOK
<1>2. GuardHeld'
  BY SyncConstants DEF Publish, IInv, Structure, RwlockTypeOK, SyncTypeOK, GuardHeld, Slow, InSlowPath
<1>3. QueuesExact'
  BY DEF Publish, IInv, Structure, RwlockTypeOK, SyncTypeOK, QueuesExact, Pending, Slow, InSlowPath
<1>4. CallsKept'
  BY DEF Publish, IInv, Structure, RwlockTypeOK, SyncTypeOK, CallsKept, Slow, InSlowPath
<1>5. WokenForAReason'
  BY DEF Publish, IInv, Structure, RwlockTypeOK, SyncTypeOK, WokenForAReason, Slow, InSlowPath
<1> QED
  BY <1>1, <1>2, <1>3, <1>4, <1>5 DEF Structure

\* The first of the waiting writers or readers, off its list.
LEMMA PopsWriter ==
  ASSUME IInv, wr_waiters # <<>>, wr_waiters' = Tail(wr_waiters), UNCHANGED rd_waiters
  PROVE  /\ Head(wr_waiters) \in Threads /\ Pending(Head(wr_waiters), "write")
         /\ waiting_writers - 1 \in Nat /\ Len(wr_waiters') = waiting_writers - 1
         /\ rd_waiters' \in Seq(Threads) /\ wr_waiters' \in Seq(Threads)
         /\ NoDuplicates(rd_waiters') /\ NoDuplicates(wr_waiters')
         /\ \A u \in Threads : InQueue(rd_waiters', u) <=> InQueue(rd_waiters, u) /\ u # Head(wr_waiters)
         /\ \A u \in Threads : InQueue(wr_waiters', u) <=> InQueue(wr_waiters, u) /\ u # Head(wr_waiters)
<1> DEFINE w == Head(wr_waiters)
<1>1. /\ w \in Threads /\ InQueue(wr_waiters, w)
      /\ wr_waiters' \in Seq(Threads) /\ NoDuplicates(wr_waiters')
      /\ \A u : InQueue(wr_waiters', u) <=> InQueue(wr_waiters, u) /\ u # w
  BY PopFacts, EmptyFacts DEF IInv, Structure, RwlockTypeOK, QueuesExact
<1>2. waiting_writers - 1 \in Nat /\ Len(wr_waiters') = waiting_writers - 1
  BY DEF IInv, Structure, RwlockTypeOK, WaitingWritersExact
<1> HIDE DEF w
<1>3. Pending(w, "write") /\ ~InQueue(rd_waiters, w)
  BY <1>1 DEF IInv, Structure, QueuesExact, Pending
<1>4. rd_waiters' \in Seq(Threads) /\ NoDuplicates(rd_waiters')
  BY DEF IInv, Structure, RwlockTypeOK, QueuesExact
<1> QED
  BY <1>1, <1>2, <1>3, <1>4 DEF w

LEMMA PopsReader ==
  ASSUME IInv, rd_waiters # <<>>, rd_waiters' = Tail(rd_waiters), UNCHANGED wr_waiters
  PROVE  /\ Head(rd_waiters) \in Threads /\ Pending(Head(rd_waiters), "read")
         /\ rd_waiters' \in Seq(Threads) /\ wr_waiters' \in Seq(Threads)
         /\ NoDuplicates(rd_waiters') /\ NoDuplicates(wr_waiters')
         /\ \A u \in Threads : InQueue(rd_waiters', u) <=> InQueue(rd_waiters, u) /\ u # Head(rd_waiters)
         /\ \A u \in Threads : InQueue(wr_waiters', u) <=> InQueue(wr_waiters, u) /\ u # Head(rd_waiters)
<1> DEFINE w == Head(rd_waiters)
<1>1. /\ w \in Threads /\ InQueue(rd_waiters, w)
      /\ rd_waiters' \in Seq(Threads) /\ NoDuplicates(rd_waiters')
      /\ \A u : InQueue(rd_waiters', u) <=> InQueue(rd_waiters, u) /\ u # w
  BY PopFacts, EmptyFacts DEF IInv, Structure, RwlockTypeOK, QueuesExact
<1> HIDE DEF w
<1>2. Pending(w, "read") /\ ~InQueue(wr_waiters, w)
  BY <1>1 DEF IInv, Structure, QueuesExact, Pending
<1>3. wr_waiters' \in Seq(Threads) /\ NoDuplicates(wr_waiters')
  BY DEF IInv, Structure, RwlockTypeOK, QueuesExact
<1> QED
  BY <1>1, <1>2, <1>3 DEF w

\* Who unlocks has the lock in the mode the counts tell.
LEMMA UnlockFacts ==
  ASSUME IInv, NEW t \in Threads, loc[t] = "user", rwheld[t] # "none"
  PROVE  /\ readers = Cardinality(Holders("read")) /\ readers \in Nat
         /\ writers = Cardinality(Holders("write")) /\ writers \in {0, 1}
         /\ writers > 0 => /\ t \in Holders("write") /\ writers = 1
                           /\ readers = 0 /\ Holders("read") = {}
         /\ writers = 0 => t \in Holders("read") /\ Holders("write") = {}
<1>1. rwheld[t] \in {"read", "write"} /\ readers \in Nat /\ writers \in {0, 1}
  BY DEF IInv, Structure, RwlockTypeOK
<1>2. t \in Holders(rwheld[t])
  BY DEF Holders
<1>3. /\ readers = 0 <=> Holders("read") = {}
      /\ writers = 0 <=> Holders("write") = {}
      /\ readers = Cardinality(Holders("read"))
      /\ writers = Cardinality(Holders("write"))
      /\ ~(readers > 0 /\ writers > 0)
  BY NoHolder DEF IInv, ReadersExcludeWriters
<1> QED
  BY <1>1, <1>2, <1>3

\* Nobody is served: t is out, and no more.
LEMMA Releases ==
  ASSUME IInv, NEW t \in Threads, loc[t] = "user", rwheld[t] # "none",
         rwheld' = [rwheld EXCEPT ![t] = "none"], readers' \in Nat, writers' \in {0, 1},
         UNCHANGED <<waiting_writers, rd_waiters, wr_waiters, syncVars, want, timedwrites>>
  PROVE  /\ Structure' /\ WaitingWritersExact'
         /\ \A mode \in {"read", "write"} : Holders(mode)' = Holders(mode) \ {t}
<1>1. Structure'
  BY SyncConstants
  DEF syncVars, IInv, Structure, RwlockTypeOK, SyncTypeOK, GuardHeld, QueuesExact, CallsKept,
      WokenForAReason, Pending, Slow, InSlowPath
<1>2. WaitingWritersExact'
  BY DEF IInv, WaitingWritersExact
<1>3. ASSUME NEW mode \in {"read", "write"} PROVE Holders(mode)' = Holders(mode) \ {t}
  BY DEF syncVars, IInv, Structure, RwlockTypeOK, Holders, InSlowPath
<1> QED
  BY <1>1, <1>2, <1>3

\* A writer unlocks.
LEMMA WriterUnlocks ==
  ASSUME IInv, NEW t \in Threads, RwlockUnlock(t), UnlockWriter(t), UNCHANGED timedwrites
  PROVE  IInv'
<1>0. /\ loc[t] = "user" /\ rwheld[t] # "none" /\ guard = NoThread /\ writers > 0
      /\ rwheld' = [rwheld EXCEPT ![t] = "none"] /\ UNCHANGED want
  BY DEF RwlockUnlock, UnlockWriter, GuardFree
<1>1. /\ t \in Holders("write") /\ writers = 1 /\ readers = 0 /\ Holders("read") = {}
      /\ Cardinality(Holders("write")) = 1 /\ IsFiniteSet(Holders("write"))
  BY <1>0, UnlockFacts, HoldersFinite
<1>2. Cardinality({}) = 0 /\ Cardinality(Holders("write") \ {t}) = 0
  BY <1>1, Counting, FS_EmptySet
<1>3. CASE GrantWriter(t) /\ UNCHANGED readers
  <2> DEFINE w == Head(wr_waiters)
  <2>1. /\ wr_waiters # <<>> /\ wr_waiters' = Tail(wr_waiters) /\ writers' = 1
        /\ waiting_writers' = waiting_writers - 1 /\ Publish(t, w) /\ UNCHANGED rd_waiters
    BY <1>3 DEF GrantWriter
  <2>2. /\ w \in Threads /\ Pending(w, "write") /\ WaitingWritersExact'
        /\ waiting_writers' \in Nat
        /\ rd_waiters' \in Seq(Threads) /\ wr_waiters' \in Seq(Threads)
        /\ NoDuplicates(rd_waiters') /\ NoDuplicates(wr_waiters')
        /\ \A u \in Threads : InQueue(rd_waiters', u) <=> InQueue(rd_waiters, u) /\ u # w
        /\ \A u \in Threads : InQueue(wr_waiters', u) <=> InQueue(wr_waiters, u) /\ u # w
    BY <2>1, PopsWriter DEF WaitingWritersExact
  <2> HIDE DEF w
  <2>3. /\ w # t /\ w \notin Holders("write")
        /\ Holders("write")' = (Holders("write") \ {t}) \cup {w}
        /\ Holders("read")' = Holders("read") \ {t}
    BY <1>0, <2>1, <2>2, Grants
  <2>4. Structure'
    BY <1>0, <1>1, <1>3, <2>1, <2>2, <2>3, GrantsStructure DEF Pending
  <2>5. Cardinality(Holders("write")') = 1
    <3>1. w \notin Holders("write")
      BY <2>3
    <3>2. Cardinality((Holders("write") \ {t}) \cup {w}) = Cardinality(Holders("write"))
      BY <1>1, <3>1, Exchange
    <3> QED
      BY <1>1, <2>3, <3>2, Zenon
  <2>6. Cardinality(Holders("read")') = 0 /\ readers' = 0
    <3>1. Holders("read")' = {}
      BY <1>1, <2>3
    <3> QED
      BY <1>1, <1>2, <1>3, <3>1, Zenon
  <2>7. ReadersExcludeWriters'
    BY <2>1, <2>5, <2>6 DEF ReadersExcludeWriters
  <2> QED
    BY <2>2, <2>4, <2>7 DEF IInv
<1>4. CASE writers' = 0 /\ GrantReader(t)
  <2> DEFINE w == Head(rd_waiters)
  <2>1. /\ rd_waiters # <<>> /\ rd_waiters' = Tail(rd_waiters) /\ readers' = 1
        /\ Publish(t, w) /\ UNCHANGED <<wr_waiters, waiting_writers>>
    BY <1>1, <1>4 DEF GrantReader
  <2>2. /\ w \in Threads /\ Pending(w, "read")
        /\ rd_waiters' \in Seq(Threads) /\ wr_waiters' \in Seq(Threads)
        /\ NoDuplicates(rd_waiters') /\ NoDuplicates(wr_waiters')
        /\ \A u \in Threads : InQueue(rd_waiters', u) <=> InQueue(rd_waiters, u) /\ u # w
        /\ \A u \in Threads : InQueue(wr_waiters', u) <=> InQueue(wr_waiters, u) /\ u # w
    BY <2>1, PopsReader
  <2> HIDE DEF w
  <2>3. /\ w # t
        /\ Holders("read")' = (Holders("read") \ {t}) \cup {w}
        /\ Holders("write")' = Holders("write") \ {t}
    BY <1>0, <2>1, <2>2, Grants
  <2>4. waiting_writers' \in Nat /\ WaitingWritersExact'
    BY <2>1 DEF IInv, Structure, RwlockTypeOK, WaitingWritersExact
  <2>5. Structure'
    BY <1>0, <1>4, <2>1, <2>2, <2>3, <2>4, GrantsStructure DEF Pending
  <2>6. Cardinality(Holders("read")') = 1 /\ Cardinality(Holders("write")') = 0
    <3>1. Holders("read")' = {w}
      BY <1>1, <2>3
    <3>2. Cardinality({w}) = 1
      BY FS_Singleton
    <3> QED
      BY <1>2, <2>3, <3>1, <3>2, Zenon
  <2>7. ReadersExcludeWriters'
    BY <1>4, <2>1, <2>6 DEF ReadersExcludeWriters
  <2> QED
    BY <2>4, <2>5, <2>7 DEF IInv
<1>5. CASE writers' = 0 /\ UNCHANGED <<readers, waiting_writers, rd_waiters, wr_waiters, syncVars>>
  <2>1. /\ Structure' /\ WaitingWritersExact'
        /\ Holders("read")' = Holders("read") \ {t} /\ Holders("write")' = Holders("write") \ {t}
    BY <1>0, <1>1, <1>5, Releases
  <2>2. Cardinality(Holders("read")') = 0 /\ Cardinality(Holders("write")') = 0
    <3>1. Holders("read")' = {}
      BY <1>1, <2>1
    <3> QED
      BY <1>2, <2>1, <3>1, Zenon
  <2>3. ReadersExcludeWriters'
    BY <1>1, <1>5, <2>2 DEF ReadersExcludeWriters
  <2> QED
    BY <2>1, <2>3 DEF IInv
<1> QED
  BY <1>3, <1>4, <1>5 DEF UnlockWriter

\* A reader unlocks; the last one lets the first writer in.
LEMMA ReaderUnlocks ==
  ASSUME IInv, NEW t \in Threads, RwlockUnlock(t), UnlockReader(t), UNCHANGED timedwrites
  PROVE  IInv'
<1>0. /\ loc[t] = "user" /\ rwheld[t] # "none" /\ guard = NoThread /\ writers = 0
      /\ readers > 0 /\ readers' = readers - 1
      /\ rwheld' = [rwheld EXCEPT ![t] = "none"] /\ UNCHANGED want
  BY DEF RwlockUnlock, UnlockReader, GuardFree
<1>1. /\ t \in Holders("read") /\ readers \in Nat /\ Holders("write") = {}
      /\ Cardinality(Holders("read")) = readers /\ IsFiniteSet(Holders("read"))
  BY <1>0, UnlockFacts, HoldersFinite
<1>2. Cardinality({}) = 0 /\ Cardinality(Holders("read") \ {t}) = readers - 1 /\ readers' \in Nat
  BY <1>0, <1>1, Counting, FS_EmptySet
<1>3. CASE readers = 1 /\ GrantWriter(t)
  <2> DEFINE w == Head(wr_waiters)
  <2>1. /\ wr_waiters # <<>> /\ wr_waiters' = Tail(wr_waiters) /\ writers' = 1
        /\ waiting_writers' = waiting_writers - 1 /\ Publish(t, w) /\ UNCHANGED rd_waiters
    BY <1>3 DEF GrantWriter
  <2>2. /\ w \in Threads /\ Pending(w, "write") /\ WaitingWritersExact'
        /\ waiting_writers' \in Nat
        /\ rd_waiters' \in Seq(Threads) /\ wr_waiters' \in Seq(Threads)
        /\ NoDuplicates(rd_waiters') /\ NoDuplicates(wr_waiters')
        /\ \A u \in Threads : InQueue(rd_waiters', u) <=> InQueue(rd_waiters, u) /\ u # w
        /\ \A u \in Threads : InQueue(wr_waiters', u) <=> InQueue(wr_waiters, u) /\ u # w
    BY <2>1, PopsWriter DEF WaitingWritersExact
  <2> HIDE DEF w
  <2>3. /\ w # t
        /\ Holders("write")' = (Holders("write") \ {t}) \cup {w}
        /\ Holders("read")' = Holders("read") \ {t}
    BY <1>0, <2>1, <2>2, Grants
  <2>4. Structure'
    BY <1>0, <1>2, <2>1, <2>2, <2>3, GrantsStructure DEF Pending
  <2>5. Cardinality(Holders("write")') = 1 /\ Cardinality(Holders("read")') = readers - 1
    <3>1. Holders("write")' = {w}
      BY <1>1, <2>3
    <3>2. Cardinality({w}) = 1
      BY FS_Singleton
    <3> QED
      BY <1>2, <2>3, <3>1, <3>2, Zenon
  <2>6. ReadersExcludeWriters'
    BY <1>0, <1>3, <2>1, <2>5 DEF ReadersExcludeWriters
  <2> QED
    BY <2>2, <2>4, <2>6 DEF IInv
<1>4. CASE UNCHANGED <<writers, waiting_writers, rd_waiters, wr_waiters, syncVars>>
  <2>1. /\ Structure' /\ WaitingWritersExact'
        /\ Holders("read")' = Holders("read") \ {t} /\ Holders("write")' = Holders("write") \ {t}
    BY <1>0, <1>2, <1>4, Releases
  <2>2. Cardinality(Holders("read")') = readers - 1 /\ Cardinality(Holders("write")') = 0
    <3>1. Holders("write")' = {}
      BY <1>1, <2>1
    <3> QED
      BY <1>2, <2>1, <3>1, Zenon
  <2>3. ReadersExcludeWriters'
    BY <1>0, <1>4, <2>2 DEF ReadersExcludeWriters
  <2> QED
    BY <2>1, <2>3 DEF IInv
<1> QED
  BY <1>3, <1>4 DEF UnlockReader

\* The loop of unlock() admits one more reader.
LEMMA AdmitsReader ==
  ASSUME IInv, NEW t \in Threads, NextReader(t), UNCHANGED timedwrites
  PROVE  IInv'
<1> DEFINE w == Head(rd_waiters)
<1>1. /\ loc[t] = "handoff" /\ writers = 0 /\ writers' = 0 /\ UNCHANGED <<want, rwheld>>
      /\ rd_waiters # <<>> /\ rd_waiters' = Tail(rd_waiters) /\ readers' = readers + 1
      /\ Publish(t, w) /\ UNCHANGED <<wr_waiters, waiting_writers>>
  BY DEF NextReader, GrantReader
<1>2. /\ w \in Threads /\ Pending(w, "read")
      /\ rd_waiters' \in Seq(Threads) /\ wr_waiters' \in Seq(Threads)
      /\ NoDuplicates(rd_waiters') /\ NoDuplicates(wr_waiters')
      /\ \A u \in Threads : InQueue(rd_waiters', u) <=> InQueue(rd_waiters, u) /\ u # w
      /\ \A u \in Threads : InQueue(wr_waiters', u) <=> InQueue(wr_waiters, u) /\ u # w
  BY <1>1, PopsReader
<1> HIDE DEF w
<1>3. rwheld' = [rwheld EXCEPT ![t] = "none"] /\ guard = t
  BY <1>1 DEF IInv, Structure, RwlockTypeOK, GuardHeld, CallsKept
<1>4. /\ w # t /\ w \notin Holders("read")
      /\ Holders("read")' = (Holders("read") \ {t}) \cup {w}
      /\ Holders("write")' = Holders("write") \ {t}
  BY <1>1, <1>2, <1>3, Grants
<1>5. t \notin Holders("read") /\ t \notin Holders("write")
  BY <1>1 DEF IInv, Structure, CallsKept, Holders, InSlowPath
<1>6. Holders("read")' = Holders("read") \cup {w} /\ Holders("write")' = Holders("write")
  BY <1>4, <1>5
<1>7. /\ readers' \in Nat /\ waiting_writers' \in Nat /\ WaitingWritersExact'
      /\ readers = Cardinality(Holders("read")) /\ writers = Cardinality(Holders("write"))
  BY <1>1 DEF IInv, Structure, RwlockTypeOK, WaitingWritersExact, ReadersExcludeWriters
<1>8. Structure'
  BY <1>1, <1>2, <1>3, <1>4, <1>7, GrantsStructure DEF Pending
<1>9. Cardinality(Holders("read") \cup {w}) = readers + 1
  BY <1>4, <1>7, HoldersFinite, Counting
<1>10. Cardinality(Holders("read")') = readers + 1 /\ Cardinality(Holders("write")') = writers
  BY <1>6, <1>7, <1>9, Zenon
<1>11. ReadersExcludeWriters'
  BY <1>1, <1>10 DEF ReadersExcludeWriters
<1> QED
  BY <1>7, <1>8, <1>11 DEF IInv

LEMMA HandOffEnds ==
  ASSUME IInv, NEW t \in Threads, RwlockUnlockDone(t)
  PROVE  IInv'
<1>1. Structure'
  BY SyncConstants
  DEF RwlockUnlockDone, EndHandOff, rwVars, counts, IInv, Structure, RwlockTypeOK, SyncTypeOK,
      GuardHeld, QueuesExact, CallsKept, WokenForAReason, Pending, Slow, InSlowPath
<1>2. \A mode : Holders(mode)' = Holders(mode)
  BY DEF RwlockUnlockDone, EndHandOff, rwVars, IInv, Structure, RwlockTypeOK, SyncTypeOK,
         Holders, InSlowPath
<1> QED
  BY <1>1, <1>2, CountsKept
  DEF RwlockUnlockDone, rwVars, counts, IInv, WaitingWritersExact

-----------------------------------------------------------------------------
\* The event manager and apth_cancel.
LEMMA EnvironmentActs ==
  ASSUME IInv, NEW t \in Threads, RwlockEnvironment(t)
  PROVE  IInv'
<1>0. RwlockTypeOK /\ SyncTypeOK /\ WokenForAReason /\ UNCHANGED rwVars
  BY DEF RwlockEnvironment, IInv, Structure, RwlockTypeOK
<1>1. CASE EventManager(t)
  <2>1. /\ loc[t] = "waiting" /\ loc' = [loc EXCEPT ![t] = "woken"]
        /\ UNCHANGED <<guard, target, ev, cancelreq>>
    BY <1>1 DEF EventManager, WakeSync, WakeTimer, WakeCancel
  <2>2. timer' = timer \/ (timer[t] = "pending" /\ timer' = [timer EXCEPT ![t] = "occurred"])
    BY <1>1 DEF EventManager, WakeSync, WakeTimer, WakeCancel
  <2>3. ev[t] = "pending" => timer'[t] = "occurred" \/ cancelreq[t]
    BY <1>0, <1>1 DEF EventManager, WakeSync, WakeTimer, WakeCancel, SyncTypeOK
  <2>4. \A u \in Threads : u # t => loc'[u] = loc[u] /\ timer'[u] = timer[u]
    BY <1>0, <2>1, <2>2 DEF SyncTypeOK
  <2>5. \A u \in Threads : timer'[u] = "off" => timer[u] = "off"
    BY <1>0, <2>2 DEF SyncTypeOK
  <2>6. \A u \in Threads : Slow(u)' <=> Slow(u)
    BY <1>0, <2>1 DEF SyncTypeOK, Slow, InSlowPath
  <2>7. RwlockTypeOK'
    BY <1>0, <2>1, <2>2 DEF RwlockTypeOK, SyncTypeOK, rwVars, counts
  <2>8. GuardHeld' /\ QueuesExact' /\ CallsKept'
    BY <1>0, <2>1, <2>6
    DEF IInv, Structure, SyncTypeOK, GuardHeld, QueuesExact, CallsKept, Pending, rwVars
  <2>9. WokenForAReason'
    <3>1. \A u \in Threads : loc'[u] = "woken" /\ ev'[u] = "pending" =>
            timer'[u] = "occurred" \/ cancelreq'[u]
      BY <1>0, <2>1, <2>3, <2>4 DEF WokenForAReason
    <3> QED
      BY <1>0, <2>1, <2>5, <2>6, <3>1 DEF WokenForAReason
  <2>10. \A mode : Holders(mode)' = Holders(mode)
    BY <1>0, <2>1, <2>6 DEF Holders, Slow, rwVars
  <2> QED
    BY <1>0, <2>7, <2>8, <2>9, <2>10, CountsKept
    DEF rwVars, counts, IInv, Structure, WaitingWritersExact
<1>2. CASE Cancel(t)
  <2>1. Structure'
    BY <1>0, <1>2
    DEF Cancel, rwVars, counts, IInv, Structure, RwlockTypeOK, SyncTypeOK, GuardHeld,
        QueuesExact, CallsKept, WokenForAReason, Pending, Slow
  <2>2. \A mode : Holders(mode)' = Holders(mode)
    BY <1>0, <1>2 DEF Cancel, rwVars, Holders
  <2> QED
    BY <1>0, <2>1, <2>2, CountsKept DEF rwVars, counts, IInv, WaitingWritersExact
<1> QED
  BY <1>1, <1>2 DEF RwlockEnvironment

\* One step of the rwlock keeps the inductive invariant.
LEMMA Preserved ==
  ASSUME UntimedUncancelled, IInv, [RwlockNext]_rwAll
  PROVE  IInv'
<1>1. ASSUME NEW t \in Threads, RwlockAcquire(t), UNCHANGED timedwrites PROVE IInv'
  <2>1. Entering(t)
    BY <1>1 DEF RwlockAcquire, RdLock, WrLock, TimedRdLock, TimedWrLock, TryRdLock, TryWrLock
  <2>2. \/ TakeRead(t) \/ TakeWrite(t)
        \/ \E timed \in BOOLEAN : /\ timed \/ t \in Untimed
                                  /\ EnqueueReader(t, timed) \/ EnqueueWriter(t, timed)
    BY <1>1 DEF RwlockAcquire, RdLock, WrLock, TimedRdLock, TimedWrLock, TryRdLock, TryWrLock
  <2> QED
    BY <1>1, <2>1, <2>2, TakesRead, TakesWrite, EnqueuesReader, EnqueuesWriter
<1>2. ASSUME NEW t \in Threads, RwlockReturn(t), UNCHANGED timedwrites PROVE IInv'
  BY <1>2, UntimedReturns, TimedReturns DEF RwlockReturn
<1>3. ASSUME NEW t \in Threads, RwlockUnlock(t), UNCHANGED timedwrites PROVE IInv'
  <2>1. UnlockWriter(t) \/ UnlockReader(t)
    BY <1>3 DEF RwlockUnlock
  <2> QED
    BY <1>3, <2>1, WriterUnlocks, ReaderUnlocks
<1>4. ASSUME NEW t \in Threads, NextReader(t) \/ RwlockUnlockDone(t) \/ RwlockEnvironment(t),
             UNCHANGED timedwrites
      PROVE  IInv'
  BY <1>4, AdmitsReader, HandOffEnds, EnvironmentActs
<1>5. CASE UNCHANGED rwAll
  <2>1. Structure'
    BY <1>5
    DEF rwAll, syncVars, rwVars, counts, IInv, Structure, RwlockTypeOK, SyncTypeOK, GuardHeld,
        QueuesExact, CallsKept, WokenForAReason, Pending, Slow
  <2>2. \A mode : Holders(mode)' = Holders(mode)
    BY <1>5 DEF rwAll, syncVars, rwVars, Holders
  <2> QED
    BY <1>5, <2>1, <2>2, CountsKept DEF rwAll, rwVars, counts, IInv, WaitingWritersExact
<1> QED
  BY <1>1, <1>2, <1>3, <1>4, <1>5 DEF RwlockNext

\* Readers exclude writers, writers each other, and the lock's counts are the
\* numbers of its holders, for any finite set of threads: through the loop
\* that admits all waiting readers, the hand-over to a writer, and calls that
\* give up while unlock() is choosing.
THEOREM RwExclusion == UntimedUncancelled /\ RwlockSpec => []ReadersExcludeWriters
<1> SUFFICES ASSUME UntimedUncancelled PROVE RwlockSpec => []ReadersExcludeWriters
  OBVIOUS
<1>1. IInv /\ [RwlockNext]_rwAll => IInv'
  BY Preserved
<1>2. IInv => ReadersExcludeWriters
  BY DEF IInv
<1> QED
  BY Initially, <1>1, <1>2, PTL DEF RwlockSpec

\* The count of waiting writers, which keeps readers out, is the length of
\* the writers' list.
THEOREM RwWritersCounted == UntimedUncancelled /\ RwlockSpec => []WaitingWritersExact
<1> SUFFICES ASSUME UntimedUncancelled PROVE RwlockSpec => []WaitingWritersExact
  OBVIOUS
<1>1. IInv /\ [RwlockNext]_rwAll => IInv'
  BY Preserved
<1>2. IInv => WaitingWritersExact
  BY DEF IInv
<1> QED
  BY Initially, <1>1, <1>2, PTL DEF RwlockSpec
=============================================================================
