------------------------------- MODULE MCSync -------------------------------
(***************************************************************************)
(* The synchronisation primitives for TLC, and the event manager whose      *)
(* waiting queue their callers sleep in.  A behaviour is about one object   *)
(* of one kind, chosen at the start; nothing connects two objects, so the   *)
(* state spaces of the kinds are laid side by side.                         *)
(***************************************************************************)
EXTENDS Cond, Sem, Rwlock, Barrier, Once, EventManager

CONSTANT Objects   \* the kinds of object considered

VARIABLE object

all == <<object, allVars, semVars, rwVars, barrierVars, onceVars, eventManagerVars>>

Init ==
  /\ object \in Objects
  /\ SyncInit /\ MutexInit /\ CondInit /\ SemInit
  /\ RwlockInit /\ BarrierInit /\ OnceInit /\ EventManagerInit
  /\ object # "mutex" => type = "errorcheck"
  /\ object # "rwlock" => timedwrites = (TRUE \in TimedWrites)
  /\ object # "events" => backend = CHOOSE b \in Backends : TRUE

\* A step on an object of kind k leaves the others alone.
Only(k) ==
  /\ UNCHANGED object
  /\ k \notin {"mutex", "cond"} => UNCHANGED mutexVars
  /\ k # "cond" => UNCHANGED <<condVars, clientVars>>
  /\ k # "sem" => UNCHANGED semVars
  /\ k # "rwlock" => UNCHANGED rwVars
  /\ k # "barrier" => UNCHANGED barrierVars
  /\ k # "once" => UNCHANGED onceVars
  /\ k # "events" => UNCHANGED eventManagerVars
  /\ k \in {"once", "events"} => UNCHANGED syncVars

Next ==
  \/ object = "mutex" /\ MutexNext /\ Only("mutex")
  \/ object = "cond" /\ CondNext /\ Only("cond")
  \/ object = "sem" /\ SemNext /\ Only("sem")
  \/ object = "rwlock" /\ RwlockNext /\ Only("rwlock")
  \/ object = "barrier" /\ BarrierNext /\ Only("barrier")
  \/ object = "once" /\ OnceNext /\ Only("once")
  \/ object = "events" /\ EventManagerNext /\ Only("events")

Spec == Init /\ [][Next]_all

\* A thread goes on inside the library, or the event manager does for it.
Continue(t) ==
  \/ object = "mutex" /\ MutexContinue(t) /\ Only("mutex")
  \/ object = "cond" /\ t \in CondThreads /\ CondContinue(t) /\ Only("cond")
  \/ object = "sem" /\ SemContinue(t) /\ Only("sem")
  \/ object = "rwlock" /\ RwlockContinue(t) /\ Only("rwlock")
  \/ object = "barrier" /\ BarrierContinue(t) /\ Only("barrier")
  \/ object = "once" /\ OnceStep(t) /\ Only("once")

\* The client gives up what it holds; a weak compare-and-exchange succeeds.
Release(t) ==
  \/ object = "mutex" /\ MutexUnlock(t) /\ Only("mutex")
  \/ object = "cond" /\ t \in CondThreads /\ CondRelease(t) /\ Only("cond")
  \/ object = "rwlock" /\ RwlockRelease(t) /\ Only("rwlock")
  \/ object = "once" /\ OnceClaim(t) /\ Only("once")

\* Threads are dispatched, the event manager of their scheduler runs again
\* and again, and a thread that yields for a guard finds it free at some point
\* (strong fairness).  Clients release what they hold, and the weak exchange
\* of apth_once does not fail forever.
FairSpec ==
  Spec /\ \A t \in Threads : SF_all(Continue(t)) /\ SF_all(Release(t))

-----------------------------------------------------------------------------
\* The types of all primitives.
SyncTypesOK ==
  CondTypeOK /\ SemTypeOK /\ RwlockTypeOK /\ BarrierTypeOK /\ OnceTypeOK

\* Whoever must wake a sleeper can find it: in every primitive a thread in the
\* slow path is queued exactly once or has been served, nobody is queued at an
\* object that is free (a rwlock whose timed writer gave up apart), no permit
\* of a semaphore is lost, and a mutex that apth_mutex_destroy accepts has
\* nobody inside its calls.
SleepersAccounted ==
  /\ object = "mutex" => EverySleeperAccounted /\ DestroyFindsNoOneInside
  /\ object = "cond" => SignalReachesASleeper
  /\ object = "sem" => NoSleeperBesideAPermit /\ PermitsConserved
  /\ object = "rwlock" => WaitingWritersExact /\ NoSleeperUnlessWriterTimedOut
  /\ object = "barrier" => CountedAreQueued

\* unlock, post, signal and broadcast read live records of waiters that had a
\* deadline (a barrier has no timed wait).
RecordsLive == (object # "barrier" => TimedRecordsLive) /\ TimedCondRecordsLive

\* timedlock does not report a timeout for a mutex it was handed.
MutexTimeouts ==
  [][object = "mutex" => \A t \in Threads : GivesUp(t) => Overdue(t)]_all

Atomic == INSTANCE Semaphore
            WITH permits <- IF object = "sem"
                              THEN value + Cardinality(PermitGranted)
                              ELSE InitValue

\* The semaphore implements atomic increments and decrements.
SemIsAtomic == Atomic!Spec

\* t is inside a call that owes it a return: it queues for a mutex, a permit
\* is on its way or a deadline will come, it wants to write, it has arrived at
\* a barrier that Threshold threads use, its predicate came true, or somebody
\* initialises.
Blocked(t) ==
  CASE object = "mutex"   -> loc[t] = "waiting"
    [] object = "sem"     -> loc[t] = "waiting" /\ (ev[t] = "occurred" \/ timer[t] = "pending")
    [] object = "rwlock"  -> loc[t] = "waiting" /\ want[t] = "write"
    [] object = "barrier" -> left[t] < arrived[t] /\ Cardinality(Threads) = Threshold
    [] object = "cond"    -> cpc[t] = "asleep" /\ pred
    [] object = "once"    -> once_pc[t] = "load"

\* It is back in its client, or dead by a cancellation.
BackFromCall(t) ==
  CASE object = "barrier" -> left[t] = arrived[t] \/ ~NobodyCancelled
    [] object = "cond"    -> cpc[t] = "none" /\ held[t] > 0
    [] object = "once"    -> once_pc[t] \in {"user", "dead"}
    [] OTHER              -> loc[t] = "user"

\* Whoever blocks in a primitive gets out: FIFO hand-over starves nobody, a
\* granted permit arrives, a stream of readers cannot keep a writer out, no
\* barrier round hangs, a waiter whose predicate came true gets its mutex, and
\* a cancelled initialiser leaves apth_once to the next caller.
BlockedCallReturns == \A t \in Threads : Blocked(t) ~> BackFromCall(t)
=============================================================================
