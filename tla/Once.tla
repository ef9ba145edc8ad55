-------------------------------- MODULE Once --------------------------------
(***************************************************************************)
(* apth_once: a control word that goes 0 -> INPROGRESS -> DONE.  A thread   *)
(* that is cancelled inside the init routine puts it back to 0 through a    *)
(* cleanup handler, so that another caller starts over.                     *)
(***************************************************************************)
EXTENDS Naturals, FiniteSets

CONSTANTS Callers,   \* the apths that call apth_once
          MaxCalls   \* bound on the calls of each

ASSUME OnceConstants == MaxCalls \in Nat \ {0}

VARIABLES once_control,
          once_pc,        \* where each thread is in apth_once
          once_val,       \* the value it loaded last
          once_calls,     \* how often it called apth_once
          completed  \* how often the init routine ran to its end (ghost)

onceVars == <<once_control, once_pc, once_val, once_calls, completed>>

OnceValues == {"zero", "inprogress", "done"}

OnceInit ==
  /\ once_control = "zero"
  /\ once_pc = [t \in Callers |-> "user"]
  /\ once_val = [t \in Callers |-> "zero"]
  /\ once_calls = [t \in Callers |-> 0]
  /\ completed = 0

\* Mutant: the fast path returns while another thread initialises.
CallTrustsAny(t) ==
  /\ once_pc[t] = "user" /\ once_calls[t] < MaxCalls
  /\ once_calls' = [once_calls EXCEPT ![t] = @ + 1]
  /\ once_pc' = [once_pc EXCEPT ![t] = IF once_control # "zero" THEN "user" ELSE "load"]
  /\ UNCHANGED <<once_control, once_val, completed>>

\* The load of the fast path; only DONE returns from there.
OnceCall(t) ==
  /\ once_pc[t] = "user" /\ once_calls[t] < MaxCalls
  /\ once_calls' = [once_calls EXCEPT ![t] = @ + 1]
  /\ once_pc' = [once_pc EXCEPT ![t] = IF once_control = "done" THEN "user" ELSE "load"]
  /\ UNCHANGED <<once_control, once_val, completed>>

\* The load of the slow path, first or after a yield.
OnceLoad(t) ==
  /\ once_pc[t] = "load"
  /\ once_val' = [once_val EXCEPT ![t] = once_control]
  /\ once_pc' = [once_pc EXCEPT ![t] = "test"]
  /\ UNCHANGED <<once_control, once_calls, completed>>

SeesDone(t) ==
  /\ once_pc[t] = "test" /\ once_val[t] = "done"
  /\ once_pc' = [once_pc EXCEPT ![t] = "user"]
  /\ UNCHANGED <<once_control, once_val, once_calls, completed>>

OnceYield(t) ==
  /\ once_pc[t] = "test" /\ once_val[t] = "inprogress"
  /\ once_pc' = [once_pc EXCEPT ![t] = "load"]
  /\ UNCHANGED <<once_control, once_val, once_calls, completed>>

\* Mutant: a plain store in place of the compare-and-exchange.
ClaimStores(t) ==
  /\ once_pc[t] = "test" /\ once_val[t] = "zero"
  /\ once_control' = "inprogress"
  /\ once_pc' = [once_pc EXCEPT ![t] = "init"]
  /\ UNCHANGED <<once_val, once_calls, completed>>

\* The weak compare-and-exchange stores, or reloads once_val; it may also fail
\* although the word is 0.
OnceClaim(t) ==
  /\ once_pc[t] = "test" /\ once_val[t] = "zero" /\ once_control = once_val[t]
  /\ once_control' = "inprogress"
  /\ once_pc' = [once_pc EXCEPT ![t] = "init"]
  /\ UNCHANGED <<once_val, once_calls, completed>>

OnceClaimFails(t) ==
  /\ once_pc[t] = "test" /\ once_val[t] = "zero"
  /\ once_val' = [once_val EXCEPT ![t] = once_control]
  /\ UNCHANGED <<once_control, once_pc, once_calls, completed>>

\* init_routine returns, the handler is popped and DONE is stored.
OnceFinish(t) ==
  /\ once_pc[t] = "init"
  /\ once_control' = "done"
  /\ completed' = completed + 1
  /\ once_pc' = [once_pc EXCEPT ![t] = "user"]
  /\ UNCHANGED <<once_val, once_calls>>

\* Mutant: no cleanup handler.
CancelledInProgress(t) ==
  /\ once_pc[t] = "init"
  /\ once_pc' = [once_pc EXCEPT ![t] = "dead"]
  /\ UNCHANGED <<once_control, once_val, once_calls, completed>>

\* A cancellation point inside init_routine: clear_once_control runs.
OnceCancelled(t) ==
  /\ once_pc[t] = "init"
  /\ once_control' = "zero"
  /\ once_pc' = [once_pc EXCEPT ![t] = "dead"]
  /\ UNCHANGED <<once_val, once_calls, completed>>

OnceStep(t) ==
  \/ OnceLoad(t) \/ SeesDone(t) \/ OnceYield(t)
  \/ OnceClaim(t) \/ OnceClaimFails(t) \/ OnceFinish(t)

OnceNext == \E t \in Callers : OnceCall(t) \/ OnceStep(t) \/ OnceCancelled(t)

OnceSpec == OnceInit /\ [][OnceNext]_onceVars

-----------------------------------------------------------------------------
OnceTypeOK ==
  /\ once_control \in OnceValues
  /\ once_pc \in [Callers -> {"user", "load", "test", "init", "dead"}]
  /\ once_val \in [Callers -> OnceValues]
  /\ once_calls \in [Callers -> 0..MaxCalls]
  /\ completed \in Nat

\* The init routine never runs in two threads at once, and to its end at most
\* once, although cancelled attempts are repeated.
InitRunsOnce ==
  /\ \A t, u \in Callers : once_pc[t] = "init" /\ once_pc[u] = "init" => t = u
  /\ completed <= 1
  /\ completed = 1 => \A t \in Callers : once_pc[t] # "init"

\* A thread back from apth_once, cancelled ones apart, finds the
\* initialisation done, whichever of the three exits it took.
ReturnMeansInitialised ==
  \A t \in Callers : once_pc[t] = "user" /\ once_calls[t] > 0 => completed = 1

\* What apth_once promises its callers: one initialisation, that has ended when
\* they return.
OnceKept == InitRunsOnce /\ ReturnMeansInitialised
=============================================================================
