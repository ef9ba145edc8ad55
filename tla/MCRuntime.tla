------------------------------ MODULE MCRuntime ------------------------------
(***************************************************************************)
(* The safety of what every thread relies on, for TLC.  A behaviour is      *)
(* about one part, chosen at the start: the queues of two schedulers,       *)
(* thread-specific data, signals, the pools of stacks, or sleeping.         *)
(***************************************************************************)
EXTENDS Scheduler, Keys, Signals, StackPool, Sleeps

VARIABLE part

runtimeAll ==
  <<schedulerVars, keysVars, signalVars, stackVars, sleepVars, part>>

MCRuntimeInit ==
  /\ part \in {"scheduler", "keys", "signals", "stacks", "sleeps"}
  /\ SchedulerInit /\ KeysInit /\ SignalsInit /\ StackPoolInit /\ SleepsInit
  /\ part # "scheduler" => current_sched[MainTask] = CHOOSE s \in Scheds : TRUE
  /\ part # "sleeps" => clock = NoTime

\* A step of part p leaves the others alone.
Only(p) ==
  /\ UNCHANGED part
  /\ p # "scheduler" => UNCHANGED schedulerVars
  /\ p # "keys" => UNCHANGED keysVars
  /\ p # "signals" => UNCHANGED signalVars
  /\ p # "stacks" => UNCHANGED stackVars
  /\ p # "sleeps" => UNCHANGED sleepVars

MCRuntimeNext ==
  \/ part = "scheduler" /\ SchedulerNext /\ Only("scheduler")
  \/ part = "keys" /\ KeysNext /\ Only("keys")
  \/ part = "signals" /\ SignalsNext /\ Only("signals")
  \/ part = "stacks" /\ StackPoolNext /\ Only("stacks")
  \/ part = "sleeps" /\ SleepsNext /\ Only("sleeps")

MCRuntimeSpec == MCRuntimeInit /\ [][MCRuntimeNext]_runtimeAll

-----------------------------------------------------------------------------
Of(p, P) == part = p => P

\* The types of all parts.
RuntimeTypesOK ==
  /\ Of("scheduler", SchedulerTypeOK)
  /\ Of("keys", KeysTypeOK)
  /\ Of("signals", SignalsTypeOK)
  /\ Of("stacks", StackPoolTypeOK)
  /\ Of("sleeps", SleepsTypeOK)

\* No thread is lost or linked twice between the queues of two schedulers that
\* steal from each other, and the assertions of the queue operations hold.
QueuesConsistent == Of("scheduler", EachThreadInOnePlace /\ QueueAssertions)

\* Calls that wait for a signal end with one, and masks come back.
SignalWaits == Of("signals", MasksRestored /\ SleepsEndBySignal)
=============================================================================
