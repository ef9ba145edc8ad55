----------------------------- MODULE OnceProofs -----------------------------
(***************************************************************************)
(* What apth_once promises, for any set of threads and any number of calls. *)
(***************************************************************************)
EXTENDS Once, TLAPS

\* The thread inside init_routine owns the word, which then is INPROGRESS.
InitialiserOwns ==
  /\ \A t \in Callers : once_pc[t] = "init" => once_control = "inprogress"
  /\ \A t, u \in Callers : once_pc[t] = "init" /\ once_pc[u] = "init" => t = u

\* DONE is stored with the one completion, and is final.
DoneMeansCompleted == completed = IF once_control = "done" THEN 1 ELSE 0

\* Whoever read DONE, or is back from a call, did so after it was stored.
SeenDone ==
  /\ \A t \in Callers : once_pc[t] = "test" /\ once_val[t] = "done" => once_control = "done"
  /\ \A t \in Callers : once_pc[t] = "user" /\ once_calls[t] > 0 => once_control = "done"

IInv == OnceTypeOK /\ InitialiserOwns /\ DoneMeansCompleted /\ SeenDone

\* The inductive invariant implies the promise.
LEMMA Implied == IInv => OnceKept
  BY DEF IInv, OnceTypeOK, InitialiserOwns, DoneMeansCompleted, SeenDone,
         OnceKept, InitRunsOnce, ReturnMeansInitialised, OnceValues

LEMMA Initially == OnceInit => IInv
  BY OnceConstants DEF OnceInit, IInv, OnceTypeOK, InitialiserOwns, DoneMeansCompleted, SeenDone, OnceValues

\* Every step of a call to apth_once keeps the inductive invariant.
LEMMA Preserved == IInv /\ [OnceNext]_onceVars => IInv'
<1> SUFFICES ASSUME IInv, [OnceNext]_onceVars PROVE IInv'
  OBVIOUS
<1> USE OnceConstants DEF IInv, OnceTypeOK, InitialiserOwns, DoneMeansCompleted, SeenDone, OnceValues
<1>1. ASSUME NEW t \in Callers, OnceCall(t) PROVE IInv'
  BY <1>1 DEF OnceCall
<1>2. ASSUME NEW t \in Callers, OnceLoad(t) PROVE IInv'
  BY <1>2 DEF OnceLoad
<1>3. ASSUME NEW t \in Callers, SeesDone(t) PROVE IInv'
  BY <1>3 DEF SeesDone
<1>4. ASSUME NEW t \in Callers, OnceYield(t) PROVE IInv'
  BY <1>4 DEF OnceYield
<1>5. ASSUME NEW t \in Callers, OnceClaim(t) PROVE IInv'
  BY <1>5 DEF OnceClaim
<1>6. ASSUME NEW t \in Callers, OnceClaimFails(t) PROVE IInv'
  BY <1>6 DEF OnceClaimFails
<1>7. ASSUME NEW t \in Callers, OnceFinish(t) PROVE IInv'
  BY <1>7 DEF OnceFinish
<1>8. ASSUME NEW t \in Callers, OnceCancelled(t) PROVE IInv'
  BY <1>8 DEF OnceCancelled
<1>9. CASE UNCHANGED onceVars
  BY <1>9 DEF onceVars
<1> QED
  BY <1>1, <1>2, <1>3, <1>4, <1>5, <1>6, <1>7, <1>8, <1>9 DEF OnceNext, OnceStep

LEMMA Invariance == OnceSpec => []IInv
<1> QED
  BY Initially, Preserved, PTL DEF OnceSpec

\* init_routine is never run by two threads at once and completes at most
\* once, and whoever returns from apth_once finds it completed, for any number
\* of callers, cancelled ones included.
THEOREM OnceCorrect == OnceSpec => []OnceKept
<1> QED
  BY Invariance, Implied, PTL
=============================================================================
