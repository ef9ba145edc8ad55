------------------------------ MODULE MCThreads ------------------------------
(***************************************************************************)
(* Threads and workers for TLC, with the fairness of their scheduling.  A   *)
(* behaviour is about one part, chosen at the start: the loops of two       *)
(* schedulers, the life of control blocks, the start and stop of the worker *)
(* pool, or the event manager of one scheduler.                             *)
(***************************************************************************)
EXTENDS Scheduler, Lifecycle, Workers, EventManager

VARIABLE part

threadsAll == <<schedulerVars, lifecycleVars, workersVars, eventManagerVars, part>>

Actors == Waiters \cup Scheds \cup Tasks \cup Apths \cup Workers

MCThreadsInit ==
  /\ part \in {"scheduler", "lifecycle", "workers", "events"}
  /\ SchedulerInit /\ LifecycleInit /\ WorkersInit /\ EventManagerInit
  /\ part # "scheduler" => current_sched[MainTask] = CHOOSE s \in Scheds : TRUE
  /\ part # "events" => backend = CHOOSE b \in Backends : TRUE

\* A step of part p leaves the others alone.
Only(p) ==
  /\ UNCHANGED part
  /\ p # "scheduler" => UNCHANGED schedulerVars
  /\ p # "lifecycle" => UNCHANGED lifecycleVars
  /\ p # "workers" => UNCHANGED workersVars
  /\ p # "events" => UNCHANGED eventManagerVars

MCThreadsNext ==
  \/ part = "scheduler" /\ SchedulerNext /\ Only("scheduler")
  \/ part = "lifecycle" /\ LifecycleNext /\ Only("lifecycle")
  \/ part = "workers" /\ WorkersNext /\ Only("workers")
  \/ part = "events" /\ EventManagerNext /\ Only("events")

-----------------------------------------------------------------------------
(* Fairness.  A behaviour has the actors of one part. *)

\* What the library does for actor i: a worker's loop, a thread's call, or the
\* dispatch of a thread the event manager made ready.
Turn(i) ==
  \/ part = "scheduler" /\ i \in Scheds /\ Loop(i) /\ Only("scheduler")
  \/ part = "lifecycle" /\ i \in Apths /\ Library(i) /\ Only("lifecycle")
  \/ part = "workers" /\ i \in Workers /\ WorkerNext(i) /\ Only("workers")
  \/ part = "events" /\ i \in Waiters /\ Run(i) /\ Only("events")

\* The thread a worker runs gives up the processor, which the code leaves to
\* the client (scheduling is cooperative); a poster writes the eventfd.
Switch(i) ==
  \/ part = "scheduler" /\ i \in Scheds /\ GiveUp(i) /\ Only("scheduler")
  \/ part = "events" /\ i \in Waiters /\ Prod(i) /\ Only("events")

\* Worker 0 looks for the end of the process, apth_init goes on, the event
\* manager runs.
Main ==
  \/ part = "lifecycle" /\ EndProcess /\ Only("lifecycle")
  \/ part = "workers" /\ InitializerNext /\ Only("workers")
  \/ part = "events" /\ Manager /\ Only("events")

\* The pool is dropped; time passes.
Background ==
  \/ part = "workers" /\ DropNext /\ Only("workers")
  \/ part = "events" /\ Tick /\ Only("events")

\* Workers keep turning, threads give way, posters finish and time passes.
\* Nothing makes a main thread end.
MCThreadsSpec ==
  /\ MCThreadsInit /\ [][MCThreadsNext]_threadsAll
  /\ WF_threadsAll(Main) /\ WF_threadsAll(Background)
  /\ \A i \in Actors : WF_threadsAll(Turn(i))
  /\ \A i \in Scheds \cup Waiters : WF_threadsAll(Switch(i))

-----------------------------------------------------------------------------
\* The types of all parts.
ThreadTypesOK == SchedulerTypeOK /\ LifecycleTypeOK /\ WorkersTypeOK

\* Thread i is owed something by the library ...
Owed(i) ==
  CASE part = "scheduler" -> i \in Tasks /\ Runnable(i)
    [] part = "lifecycle" -> i \in Apths /\ JoinDue(i)
    [] part = "events"    -> i \in Waiters /\ Noticeable(i)
    [] OTHER              -> FALSE

Paid(i) ==
  CASE part = "scheduler" -> i \in Tasks /\ state[i] = "running"
    [] part = "lifecycle" -> i \in Apths /\ (at[i] \in {"user", "dead"} \/ ended \/ panic)
    [] part = "events"    -> i \in Waiters /\ (place[i] = "ready" \/ Crowded(i))
    [] OTHER              -> FALSE

\* ... and gets it.  Whoever is ready or woken gets to run, however busy its
\* scheduler is.  A join of a thread that has exited returns, unless the caller
\* is cancelled or the process ends first.  What nobody announces to the event
\* manager (a deadline, a termination, a readable or closed descriptor, a true
\* predicate, a cancellation) it finds by polling; only a SELECT event with
\* MAX_DEFERRED_SELECT others before it has to wait for one of those.
ThreadsGetOn == \A i \in Actors : Owed(i) ~> Paid(i)

\* The process is over, and at its end.
Over ==
  \/ part = "lifecycle" /\ AllDead
  \/ part = "workers" /\ ProcessOver

AtEnd == IF part = "lifecycle" THEN ended ELSE WorkersStopped

\* The process starts and stops.  Unless an initialisation fails the main apth
\* is started; once every thread is dead the counter of threads brings worker 0
\* to its end, with and without apth_exit; and once the main apth has returned,
\* or has called apth_exit and the last thread is counted out, every worker ends
\* and apth_init gets to its exit.
ProcessStartsAndStops ==
  /\ part = "workers" ~> mainSet \/ failed
  /\ Over ~> AtEnd
=============================================================================
