-------------------------------- MODULE Cond --------------------------------
(***************************************************************************)
(* apth_cond, composed with the mutex its waiters hold.  A waiter links its *)
(* record into the condition before it unlocks the mutex, sleeps, settles   *)
(* the race between signal and deadline, and locks the mutex again.         *)
(*                                                                         *)
(* The client is the usual one: it waits only while it holds the mutex and  *)
(* sees its predicate false, and whoever makes the predicate true owes a    *)
(* broadcast, which it sends, with or without the mutex, before it calls    *)
(* anything else.                                                           *)
(***************************************************************************)
EXTENDS Mutex

CONSTANTS CondThreads,  \* the apths that use the condition
          Signals       \* whether they use signal besides broadcast

\* Cancelled waits are left out: they end in apth_mutex_lock, which a pending
\* cancellation breaks (see Mutex).
ASSUME CondConstants ==
  /\ CondThreads \subseteq Untimed /\ CondThreads \cap Cancellable = {}
  /\ Signals \in BOOLEAN

VARIABLES cguard, ctarget, cwaiters,
          cev, ctimer,  \* the events of each thread's cond_wait
          cpc,          \* where each thread is in a condition call
          pred, owes    \* the client's predicate; who owes a broadcast

condVars == <<cguard, ctarget, cwaiters, cev, ctimer, cpc>>
clientVars == <<pred, owes>>
allVars == <<mutexAll, condVars, clientVars>>

\* apth_cond_init
CondInit ==
  /\ cguard = NoThread /\ ctarget = NoThread /\ cwaiters = <<>>
  /\ cev = [t \in Threads |-> "pending"]
  /\ ctimer = [t \in Threads |-> "off"]
  /\ cpc = [t \in Threads |-> "none"]
  /\ pred = FALSE /\ owes = {}

Idle(t) == loc[t] = "user" /\ cpc[t] = "none"
HasMutex(t) == Idle(t) /\ held[t] > 0

\* Link the record first ...
BeginWait(t, timed) ==
  /\ HasMutex(t) /\ ~pred /\ t \notin owes /\ cguard = NoThread
  /\ cwaiters' = Append(cwaiters, t)
  /\ cev' = [cev EXCEPT ![t] = "pending"]
  /\ ctimer' = [ctimer EXCEPT ![t] = IF timed THEN "pending" ELSE "off"]
  /\ cpc' = [cpc EXCEPT ![t] = "queued"]
  /\ UNCHANGED <<cguard, ctarget, mutexAll, clientVars>>

CondWait(t) == BeginWait(t, FALSE)
CondTimedWait(t) == BeginWait(t, TRUE)

\* ... then release the mutex, and go to sleep once unlock() is over.
WaitUnlocks(t) ==
  /\ cpc[t] = "queued"
  /\ MutexUnlock(t)
  /\ cpc' = [cpc EXCEPT ![t] = "asleep"]
  /\ UNCHANGED <<cguard, ctarget, cwaiters, cev, ctimer, clientVars>>

Asleep(t) == cpc[t] = "asleep" /\ loc[t] = "user"

WakeBySignal(t) ==
  /\ Asleep(t) /\ cev[t] = "occurred"
  /\ cpc' = [cpc EXCEPT ![t] = "cwoken"]
  /\ UNCHANGED <<cguard, ctarget, cwaiters, cev, ctimer, mutexAll, clientVars>>

WakeByDeadline(t) ==
  /\ Asleep(t) /\ ctimer[t] = "pending"
  /\ ctimer' = [ctimer EXCEPT ![t] = "occurred"]
  /\ cpc' = [cpc EXCEPT ![t] = "cwoken"]
  /\ UNCHANGED <<cguard, ctarget, cwaiters, cev, mutexAll, clientVars>>

\* timedwait() takes the guard to see who was first; wait() does not look.
Resolve(t) ==
  /\ cpc[t] = "cwoken"
  /\ \/ ctimer[t] = "off" /\ UNCHANGED cwaiters
     \/ /\ ctimer[t] # "off" /\ cguard = NoThread
        /\ \/ cev[t] = "occurred" /\ UNCHANGED cwaiters
           \/ cev[t] # "occurred" /\ Unlink(cwaiters, t, cwaiters')
  /\ cpc' = [cpc EXCEPT ![t] = "relock"]
  /\ UNCHANGED <<cguard, ctarget, cev, ctimer, mutexAll, clientVars>>

\* apth_mutex_lock, after which the wait returns.
WaitRelocks(t) ==
  /\ cpc[t] = "relock"
  /\ MutexLock(t)
  /\ cpc' = [cpc EXCEPT ![t] = "none"]
  /\ UNCHANGED <<cguard, ctarget, cwaiters, cev, ctimer, clientVars>>

\* Mutant: unlinks the waiter without marking its event.
WakeOneSilently(t) ==
  /\ cwaiters # <<>>
  /\ cwaiters' = Tail(cwaiters)
  /\ cguard' = t /\ ctarget' = Head(cwaiters)
  /\ UNCHANGED <<cev, ctimer, mutexAll>>

\* Wake the first waiter: publish, then read w->th from its record.
WakeOne(t) ==
  /\ cwaiters # <<>>
  /\ cwaiters' = Tail(cwaiters)
  /\ cev' = [cev EXCEPT ![Head(cwaiters)] = "occurred"]
  /\ cguard' = t /\ ctarget' = Head(cwaiters)
  /\ UNCHANGED <<ctimer, mutexAll>>

Signal(t) ==
  /\ Signals /\ Idle(t) /\ t \notin owes /\ cguard = NoThread
  /\ WakeOne(t)
  /\ cpc' = [cpc EXCEPT ![t] = "signalling"]
  /\ UNCHANGED clientVars

\* Mutant: wakes the first waiter only.
BroadcastOne(t) ==
  /\ Idle(t) /\ cguard = NoThread /\ t \in owes
  /\ owes' = owes \ {t}
  /\ \/ WakeOne(t) /\ cpc' = [cpc EXCEPT ![t] = "signalling"]
     \/ cwaiters = <<>> /\ UNCHANGED <<condVars, mutexAll>>
  /\ UNCHANGED pred

Broadcast(t) ==
  /\ Idle(t) /\ cguard = NoThread /\ t \in owes
  /\ owes' = owes \ {t}
  /\ \/ WakeOne(t) /\ cpc' = [cpc EXCEPT ![t] = "broadcasting"]
     \/ cwaiters = <<>> /\ UNCHANGED <<condVars, mutexAll>>
  /\ UNCHANGED pred

BroadcastNext(t) ==
  /\ cpc[t] = "broadcasting"
  /\ WakeOne(t)
  /\ UNCHANGED <<cpc, clientVars>>

WakeDone(t) ==
  /\ cpc[t] = "signalling" \/ (cpc[t] = "broadcasting" /\ cwaiters = <<>>)
  /\ cguard' = NoThread /\ ctarget' = NoThread
  /\ cpc' = [cpc EXCEPT ![t] = "none"]
  /\ UNCHANGED <<cwaiters, cev, ctimer, mutexAll, clientVars>>

\* The client changes its predicate under the mutex.
ClientSets(t) ==
  /\ HasMutex(t) /\ ~pred
  /\ pred' = TRUE /\ owes' = owes \cup {t}
  /\ UNCHANGED <<mutexAll, condVars>>

ClientClears(t) ==
  /\ HasMutex(t) /\ pred
  /\ pred' = FALSE
  /\ UNCHANGED <<owes, mutexAll, condVars>>

MutexCall(t) ==
  /\ \/ Idle(t) /\ t \notin owes /\ MutexAcquire(t)
     \/ Idle(t) /\ MutexUnlock(t)
     \/ MutexReturn(t) \/ MutexUnlockDone(t) \/ MutexEnvironment(t)
  /\ UNCHANGED <<condVars, clientVars>>

CondStep(t) ==
  \/ WaitUnlocks(t) \/ WakeBySignal(t) \/ WakeByDeadline(t)
  \/ Resolve(t) \/ WaitRelocks(t) \/ BroadcastNext(t) \/ WakeDone(t)

CondNext == \E t \in CondThreads :
  \/ CondWait(t) \/ CondTimedWait(t) \/ Signal(t) \/ Broadcast(t)
  \/ CondStep(t) \/ MutexCall(t) \/ ClientSets(t) \/ ClientClears(t)

CondSpec == SyncInit /\ MutexInit /\ CondInit /\ [][CondNext]_allVars

-----------------------------------------------------------------------------
CondTypeOK ==
  /\ MutexTypeOK
  /\ cguard \in Threads \cup {NoThread} /\ ctarget \in Threads \cup {NoThread}
  /\ cwaiters \in Seq(Threads)
  /\ cev \in [Threads -> {"pending", "occurred"}]
  /\ ctimer \in [Threads -> {"off", "pending", "occurred"}]
  /\ cpc \in [Threads -> {"none", "queued", "asleep", "cwoken", "relock",
                          "signalling", "broadcasting"}]
  /\ pred \in BOOLEAN /\ owes \subseteq Threads

\* No wake-up is lost between the unlock and the sleep: once the predicate is
\* true and every broadcast owed for it has been sent, nobody is on its way
\* to sleep, or asleep, without a signal.
NoLostBroadcast ==
  pred /\ owes = {} /\ cguard = NoThread =>
    \A t \in Threads : cpc[t] \in {"queued", "asleep"} => cev[t] = "occurred"

\* A signal is not spent on somebody who reports a timeout, and nobody is
\* queued twice: until its race is settled a waiter is in the queue exactly
\* while its event is PENDING.
SignalReachesASleeper ==
  \A t \in Threads : cpc[t] \in {"queued", "asleep", "cwoken"} =>
    LET places == {i \in 1..Len(cwaiters) : cwaiters[i] = t}
    IN  IF cev[t] = "pending" THEN \E i \in places : places = {i}
                              ELSE places = {}

\* What signal() and broadcast() read after publishing is still there, if the
\* waiter had a deadline: it needs the guard to settle its race.
TimedCondRecordsLive ==
  ctarget # NoThread /\ ctimer[ctarget] # "off" =>
    cpc[ctarget] \in {"queued", "asleep", "cwoken"}

\* What t, or the event manager for it, does next inside the library; a
\* broadcast that is owed is sent.
CondContinue(t) ==
  \/ CondStep(t) \/ Broadcast(t)
  \/ /\ MutexUnlockDone(t) \/ MutexReturn(t) \/ (WakeSync(t) /\ UNCHANGED mutexVars)
     /\ UNCHANGED <<condVars, clientVars>>

\* What the client does in the end: it gives the mutex up.
CondRelease(t) ==
  Idle(t) /\ MutexUnlock(t) /\ UNCHANGED <<condVars, clientVars>>
=============================================================================
