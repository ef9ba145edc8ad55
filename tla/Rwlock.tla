------------------------------- MODULE Rwlock -------------------------------
(***************************************************************************)
(* apth_rwlock: reader and writer counts and one FIFO of waiters for each.  *)
(* It prefers writers: a reader that arrives while a writer waits queues up *)
(* behind it, even when the lock is read-held.                              *)
(***************************************************************************)
EXTENDS SyncWaiter, FiniteSets

CONSTANT TimedWrites   \* whether a client may use timedwrlock: one or both

ASSUME RwlockConstants == TimedWrites \subseteq BOOLEAN /\ IsFiniteSet(Threads)

VARIABLES timedwrites,  \* whether this client does
          readers, writers, waiting_writers, rd_waiters, wr_waiters,
          want,  \* what the call a thread is in asks for
          rwheld   \* what a thread was told it has (ghost)

counts == <<readers, writers, waiting_writers>>
rwVars == <<timedwrites, counts, rd_waiters, wr_waiters, want, rwheld>>
rwAll == <<syncVars, rwVars>>

\* apth_rwlock_init
RwlockInit ==
  /\ timedwrites \in TimedWrites
  /\ readers = 0 /\ writers = 0 /\ waiting_writers = 0
  /\ rd_waiters = <<>> /\ wr_waiters = <<>>
  /\ want = [t \in Threads |-> "none"]
  /\ rwheld = [t \in Threads |-> "none"]

Entering(t) == loc[t] = "user" /\ rwheld[t] = "none" /\ GuardFree

\* Mutant: admits a reader past waiting writers.
TakeReadPastWriters(t) ==
  /\ writers = 0
  /\ readers' = readers + 1
  /\ rwheld' = [rwheld EXCEPT ![t] = "read"]
  /\ UNCHANGED <<writers, waiting_writers, rd_waiters, wr_waiters, want, syncVars>>

\* The fast paths.
TakeRead(t) ==
  /\ writers = 0 /\ waiting_writers = 0
  /\ readers' = readers + 1
  /\ rwheld' = [rwheld EXCEPT ![t] = "read"]
  /\ UNCHANGED <<writers, waiting_writers, rd_waiters, wr_waiters, want, syncVars>>

TakeWrite(t) ==
  /\ readers = 0 /\ writers = 0
  /\ writers' = 1
  /\ rwheld' = [rwheld EXCEPT ![t] = "write"]
  /\ UNCHANGED <<readers, waiting_writers, rd_waiters, wr_waiters, want, syncVars>>

\* The slow paths.
EnqueueReader(t, timed) ==
  /\ writers > 0 \/ waiting_writers > 0
  /\ rd_waiters' = Append(rd_waiters, t)
  /\ want' = [want EXCEPT ![t] = "read"]
  /\ Block(t, timed)
  /\ UNCHANGED <<counts, wr_waiters, rwheld, guard, target, cancelreq>>

EnqueueWriter(t, timed) ==
  /\ readers > 0 \/ writers > 0
  /\ waiting_writers' = waiting_writers + 1
  /\ wr_waiters' = Append(wr_waiters, t)
  /\ want' = [want EXCEPT ![t] = "write"]
  /\ Block(t, timed)
  /\ UNCHANGED <<readers, writers, rd_waiters, rwheld, guard, target, cancelreq>>

RdLock(t) == Entering(t) /\ (TakeRead(t) \/ EnqueueReader(t, FALSE))

TimedRdLock(t) ==
  Entering(t) /\ (TakeRead(t) \/ EnqueueReader(t, TRUE))

TryRdLock(t) == Entering(t) /\ TakeRead(t)

WrLock(t) == Entering(t) /\ (TakeWrite(t) \/ EnqueueWriter(t, FALSE))

TimedWrLock(t) ==
  Entering(t) /\ (TakeWrite(t) \/ EnqueueWriter(t, TRUE))

TryWrLock(t) == Entering(t) /\ TakeWrite(t)

\* An untimed call returns 0 whatever woke it.
RwlockReturns(t) ==
  /\ loc[t] = "woken" /\ timer[t] = "off"
  /\ Leave(t)
  /\ rwheld' = [rwheld EXCEPT ![t] = want[t]]
  /\ want' = [want EXCEPT ![t] = "none"]
  /\ UNCHANGED <<counts, rd_waiters, wr_waiters, guard, target, cancelreq>>

GiveUpRead(t) ==
  /\ want[t] = "read"
  /\ Unlink(rd_waiters, t, rd_waiters')
  /\ UNCHANGED <<wr_waiters, waiting_writers>>

GiveUpWrite(t) ==
  /\ want[t] = "write"
  /\ Unlink(wr_waiters, t, wr_waiters')
  /\ waiting_writers' = waiting_writers - 1
  /\ UNCHANGED rd_waiters

\* A timed call takes the guard again: was unlock or the timer first?
RwlockTimedReturn(t) ==
  /\ loc[t] = "woken" /\ timer[t] # "off" /\ GuardFree
  /\ Leave(t)
  /\ \/ /\ ev[t] = "occurred"
        /\ rwheld' = [rwheld EXCEPT ![t] = want[t]]
        /\ UNCHANGED <<rd_waiters, wr_waiters, waiting_writers>>
     \/ /\ ev[t] # "occurred"
        /\ GiveUpRead(t) \/ GiveUpWrite(t)
        /\ UNCHANGED rwheld
  /\ want' = [want EXCEPT ![t] = "none"]
  /\ UNCHANGED <<readers, writers, guard, target, cancelreq>>

\* unlock() passes the lock on to the first waiting writer.
GrantWriter(t) ==
  /\ wr_waiters # <<>>
  /\ wr_waiters' = Tail(wr_waiters)
  /\ waiting_writers' = waiting_writers - 1
  /\ writers' = 1
  /\ Publish(t, Head(wr_waiters))
  /\ UNCHANGED rd_waiters

\* One round of the loop in which unlock() admits all waiting readers.
GrantReader(t) ==
  /\ rd_waiters # <<>>
  /\ rd_waiters' = Tail(rd_waiters)
  /\ readers' = readers + 1
  /\ Publish(t, Head(rd_waiters))
  /\ UNCHANGED <<wr_waiters, waiting_writers>>

UnlockWriter(t) ==
  /\ writers > 0
  /\ \/ GrantWriter(t) /\ UNCHANGED readers
     \/ /\ wr_waiters = <<>>
        /\ writers' = 0
        /\ \/ GrantReader(t)
           \/ /\ rd_waiters = <<>>
              /\ UNCHANGED <<readers, waiting_writers, rd_waiters, wr_waiters, syncVars>>

\* Mutant: lets a writer in before the last reader is out.
UnlockReaderEarly(t) ==
  /\ writers = 0 /\ readers > 0
  /\ readers' = readers - 1
  /\ \/ GrantWriter(t)
     \/ /\ wr_waiters = <<>>
        /\ UNCHANGED <<writers, waiting_writers, rd_waiters, wr_waiters, syncVars>>

UnlockReader(t) ==
  /\ writers = 0 /\ readers > 0
  /\ readers' = readers - 1
  /\ \/ readers = 1 /\ GrantWriter(t)
     \/ /\ readers > 1 \/ wr_waiters = <<>>
        /\ UNCHANGED <<writers, waiting_writers, rd_waiters, wr_waiters, syncVars>>

RwlockUnlock(t) ==
  /\ loc[t] = "user" /\ rwheld[t] # "none" /\ GuardFree
  /\ UnlockWriter(t) \/ UnlockReader(t)
  /\ rwheld' = [rwheld EXCEPT ![t] = "none"]
  /\ UNCHANGED want

\* The waiter's scheduler has been prodded: go round the reader loop once
\* more, or release the guard.
NextReader(t) ==
  /\ loc[t] = "handoff" /\ writers = 0
  /\ GrantReader(t)
  /\ UNCHANGED <<writers, want, rwheld>>

RwlockUnlockDone(t) ==
  /\ writers = 0 => rd_waiters = <<>>
  /\ EndHandOff(t)
  /\ UNCHANGED rwVars

RwlockAcquire(t) ==
  \/ t \in Untimed /\ (RdLock(t) \/ WrLock(t))
  \/ TimedRdLock(t) \/ TryRdLock(t)
  \/ timedwrites /\ TimedWrLock(t)
  \/ TryWrLock(t)

RwlockReturn(t) == RwlockReturns(t) \/ RwlockTimedReturn(t)

RwlockEnvironment(t) ==
  /\ EventManager(t) \/ Cancel(t)
  /\ UNCHANGED rwVars

RwlockNext ==
  /\ \E t \in Threads :
       \/ RwlockAcquire(t) \/ RwlockReturn(t)
       \/ RwlockUnlock(t) \/ NextReader(t) \/ RwlockUnlockDone(t)
       \/ RwlockEnvironment(t)
  /\ UNCHANGED timedwrites

RwlockSpec == SyncInit /\ RwlockInit /\ [][RwlockNext]_rwAll

-----------------------------------------------------------------------------
RwlockTypeOK ==
  /\ SyncTypeOK
  /\ timedwrites \in BOOLEAN
  /\ readers \in Nat /\ writers \in {0, 1} /\ waiting_writers \in Nat
  /\ rd_waiters \in Seq(Threads) /\ wr_waiters \in Seq(Threads)
  /\ want \in [Threads -> {"none", "read", "write"}]
  /\ rwheld \in [Threads -> {"none", "read", "write"}]

\* The threads that have the lock in a mode, told so already or about to be.
Holders(mode) ==
  {t \in Threads : \/ rwheld[t] = mode
                   \/ loc[t] \in InSlowPath /\ want[t] = mode /\ ev[t] = "occurred"}

\* Readers exclude writers and writers each other, and the counts of the
\* lock stand for exactly the threads that have it, hand-overs in flight
\* included: a miscount would let a reader in beside a writer, or nobody.
ReadersExcludeWriters ==
  /\ writers = Cardinality(Holders("write"))
  /\ readers = Cardinality(Holders("read"))
  /\ ~(readers > 0 /\ writers > 0)

\* The counter that keeps new readers out counts the queued writers, also
\* after timeouts: one too many would shut readers out of a free lock.
WaitingWritersExact == waiting_writers = Len(wr_waiters)

\* When unlock() leaves the lock free nobody is left asleep on it.
NoSleeperOnFreeLock ==
  GuardFree /\ readers = 0 /\ writers = 0
    => rd_waiters = <<>> /\ wr_waiters = <<>>

\* ... as long as no writer can give up its place in the queue.
NoSleeperUnlessWriterTimedOut == ~timedwrites => NoSleeperOnFreeLock

\* What t, or the event manager for it, does next inside the library.
RwlockContinue(t) ==
  /\ \/ RwlockReturn(t) \/ NextReader(t) \/ RwlockUnlockDone(t)
     \/ EventManager(t) /\ UNCHANGED rwVars
  /\ UNCHANGED timedwrites

\* What the client does in the end: it unlocks.
RwlockRelease(t) == RwlockUnlock(t) /\ UNCHANGED timedwrites
=============================================================================
