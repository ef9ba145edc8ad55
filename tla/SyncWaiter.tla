----------------------------- MODULE SyncWaiter -----------------------------
(***************************************************************************)
(* The blocking protocol every synchronisation primitive of src/core       *)
(* shares: a guard (lll_apth, a compare-and-swap lock whose contenders      *)
(* yield), a waiter record on the caller's stack that holds a SYNC event,   *)
(* an optional TIME event, and the event manager that resumes a waiting     *)
(* thread as soon as one of its events is no longer PENDING or a            *)
(* cancellation has been requested.                                         *)
(*                                                                         *)
(* A guarded section is one step, because nothing it touches is reachable   *)
(* without the guard.  The exception is a section that publishes OCCURRED   *)
(* in somebody else's record: from then on that thread may run, so the rest *)
(* of the section is a second step during which the guard stays held.       *)
(***************************************************************************)
EXTENDS Naturals, Sequences, SequencesExt

CONSTANTS Threads,      \* the apths that use the primitive
          Cancellable,  \* those that apth_cancel() may be called on, deferred
                        \* or disabled: asynchronous mode ends the thread
          Untimed,      \* those that use the calls without a deadline
          NoThread      \* a NULL apth_t

ASSUME SyncConstants ==
  /\ NoThread \notin Threads
  /\ Cancellable \subseteq Threads /\ Untimed \subseteq Threads

VARIABLES guard,     \* the owner of the primitive's lll_apth guard
          target,    \* whose record the guard's owner still reads
          loc,       \* where each thread is in the primitive's code
          ev,        \* ev_status of the SYNC event in the thread's record
          timer,     \* ev_status of its TIME event; "off" in an untimed call
          cancelreq  \* the thread's cancelreq flag

syncVars == <<guard, target, loc, ev, timer, cancelreq>>

\* The record of a thread is alive, on a frozen or running frame, while the
\* thread is inside the slow path of a call.
InSlowPath == {"waiting", "woken"}

SyncInit ==
  /\ guard = NoThread
  /\ target = NoThread
  /\ loc = [t \in Threads |-> "user"]
  /\ ev = [t \in Threads |-> "pending"]
  /\ timer = [t \in Threads |-> "off"]
  /\ cancelreq = [t \in Threads |-> FALSE]

SyncTypeOK ==
  /\ guard \in Threads \cup {NoThread}
  /\ target \in Threads \cup {NoThread}
  /\ loc \in [Threads -> {"user", "waiting", "woken", "handoff"}]
  /\ ev \in [Threads -> {"pending", "occurred"}]
  /\ timer \in [Threads -> {"off", "pending", "occurred"}]
  /\ cancelreq \in [Threads -> BOOLEAN]

\* lll_apth_lock: a guarded section may start.
GuardFree == guard = NoThread

\* The slow path: fill the record in, link its events, release the guard,
\* store WAITING and yield.
Block(t, timed) ==
  /\ loc' = [loc EXCEPT ![t] = "waiting"]
  /\ ev' = [ev EXCEPT ![t] = "pending"]
  /\ timer' = [timer EXCEPT ![t] = IF timed THEN "pending" ELSE "off"]

\* t publishes OCCURRED in w's record and goes on to read w->th from it, to
\* prod w's scheduler, before it releases the guard.
Publish(t, w) ==
  /\ guard' = t /\ target' = w
  /\ loc' = [loc EXCEPT ![t] = "handoff"]
  /\ ev' = [ev EXCEPT ![w] = "occurred"]
  /\ UNCHANGED <<timer, cancelreq>>

\* w->th has been read; the guarded section ends.
EndHandOff(t) ==
  /\ loc[t] = "handoff"
  /\ guard' = NoThread /\ target' = NoThread
  /\ loc' = [loc EXCEPT ![t] = "user"]
  /\ UNCHANGED <<ev, timer, cancelreq>>

\* list_remove: q2 is q without its element t.
Unlink(q, t, q2) == \E i \in 1..Len(q) : q[i] = t /\ q2 = RemoveAt(q, i)

\* The call returns, and its frame with the record and the timer is gone.
Leave(t) ==
  /\ loc' = [loc EXCEPT ![t] = "user"]
  /\ ev' = [ev EXCEPT ![t] = "pending"]
  /\ timer' = [timer EXCEPT ![t] = "off"]

\* Phase 1 of the event manager: the SYNC event is no longer PENDING.
WakeSync(t) ==
  /\ loc[t] = "waiting" /\ ev[t] = "occurred"
  /\ loc' = [loc EXCEPT ![t] = "woken"]
  /\ UNCHANGED <<guard, target, ev, timer, cancelreq>>

\* Phase 1, or the timeout of phase 2: the deadline has passed.
WakeTimer(t) ==
  /\ loc[t] = "waiting" /\ timer[t] = "pending"
  /\ loc' = [loc EXCEPT ![t] = "woken"]
  /\ timer' = [timer EXCEPT ![t] = "occurred"]
  /\ UNCHANGED <<guard, target, ev, cancelreq>>

\* Phase 1: cancelreq is set; neither the events nor the cancel state count.
WakeCancel(t) ==
  /\ loc[t] = "waiting" /\ cancelreq[t]
  /\ loc' = [loc EXCEPT ![t] = "woken"]
  /\ UNCHANGED <<guard, target, ev, timer, cancelreq>>

\* apth_cancel only raises the flag.
Cancel(t) ==
  /\ t \in Cancellable /\ ~cancelreq[t]
  /\ cancelreq' = [cancelreq EXCEPT ![t] = TRUE]
  /\ UNCHANGED <<guard, target, loc, ev, timer>>

\* The record that unlock, post and barrier_wait read after they published its
\* event is still there, if it is a timed waiter's: that thread needs the
\* guard to leave its call.
TimedRecordsLive ==
  target # NoThread /\ target \notin Untimed => loc[target] \in InSlowPath

EventManager(t) == WakeSync(t) \/ WakeTimer(t) \/ WakeCancel(t)
=============================================================================
