------------------------------ MODULE Lifecycle -----------------------------
(***************************************************************************)
(* The life of a thread control block: apth_create, apth_join, apth_detach, *)
(* apth_cancel, apth_exit, the scheduler's handling of an exited thread and *)
(* worker 0's decision to end the process.  Queues are left to Scheduler.   *)
(*                                                                         *)
(* joinid[t] is NoThread (joinable), t itself (detached) or the joiner.     *)
(***************************************************************************)
EXTENDS Integers, FiniteSets

CONSTANTS Apths, MainApth,
          Creators,    \* the threads that call apth_create
          Cancelled,   \* the threads somebody calls apth_cancel on
          Setters,     \* the threads that change their cancelability
          Detachable,  \* the threads somebody calls apth_detach on
          Calls,       \* the library calls of the client
          Exclusive,   \* joins of one thread never overlap in the client
          NoApth

ASSUME LifecycleConstants ==
  /\ MainApth \in Apths /\ Creators \subseteq Apths
  /\ Cancelled \subseteq Apths /\ Setters \subseteq Apths
  /\ Detachable \subseteq Apths /\ Exclusive \in BOOLEAN
  /\ Calls \subseteq {"join", "exit"}
  /\ NoApth \notin Apths

VARIABLES tcb,        \* "none", "alive", "terminated" or "freed"
          at,         \* where each thread is
          tgt,        \* the thread it creates or joins
          joinid,
          cancelreqs,
          disabled,   \* the CANCELSTATE bit of cancelhandling
          async,      \* its CANCELTYPE bit
          alive,      \* apth_alive_nthreads, an unsigned int
          exited,     \* MAIN_APTH_EXITED
          byExit,     \* MAIN_APTH_EXITED_BY_CALLING_APTH_EXIT
          ended,      \* worker 0 left its loop and drops the library
          panic       \* an assertion of the library failed

cancelVars == <<cancelreqs, disabled, async>>
processVars == <<alive, exited, byExit, ended, panic>>
lifecycleVars == <<tcb, at, tgt, joinid, cancelVars, processVars>>

\* apth_alive_nthreads wraps around at a width the instance never fills.
Width == 2 * Cardinality(Apths) + 2

LifecycleInit ==
  /\ tcb = [t \in Apths |-> IF t = MainApth THEN "alive" ELSE "none"]
  /\ at = [t \in Apths |-> IF t = MainApth THEN "user" ELSE "none"]
  /\ tgt = [t \in Apths |-> NoApth]
  /\ joinid = [t \in Apths |-> NoApth]
  /\ cancelreqs = [t \in Apths |-> FALSE]
  /\ disabled = [t \in Apths |-> FALSE]
  /\ async = [t \in Apths |-> FALSE]
  /\ alive = 1
  /\ exited = FALSE /\ byExit = FALSE /\ ended = FALSE /\ panic = FALSE

Stands(t, label) == at[t] = label /\ ~ended /\ ~panic
MoveTo(t, label) == at' = [at EXCEPT ![t] = label]
\* A thread control block the client may still name.
Valid(u) == tcb[u] \in {"alive", "terminated"}

\* apth_do_cancel: the main thread announces its exit before the cleanup
\* handlers run; the scheduler takes over with APTH_YIELD_REASON_EXIT.
Die(t) ==
  /\ MoveTo(t, "dying")
  /\ exited' = (exited \/ t = MainApth)

-----------------------------------------------------------------------------
\* apth_create pushes the new thread, which may run at once ...
apth_create(t, u) ==
  /\ Stands(t, "user") /\ t \in Creators /\ tcb[u] = "none"
  /\ tcb' = [tcb EXCEPT ![u] = "alive"]
  /\ at' = [at EXCEPT ![t] = "creating", ![u] = "user"]
  /\ \E detachstate \in {NoApth, u} : joinid' = [joinid EXCEPT ![u] = detachstate]
  /\ UNCHANGED <<tgt, cancelVars, processVars>>

\* ... and counts it afterwards (inc_thrcnt, inc_alive_thrcnt).
CreateCount(t) ==
  /\ Stands(t, "creating")
  /\ alive' = (alive + 1) % Width
  /\ MoveTo(t, "user")
  /\ UNCHANGED <<tcb, tgt, joinid, cancelVars, exited, byExit, ended, panic>>

\* The checks of apth_join: EINVAL for a detached thread, EDEADLK for itself
\* and for a thread that is joining the caller.
apth_join(t, u) ==
  /\ Stands(t, "user") /\ "join" \in Calls /\ Valid(u)
  /\ Exclusive => \A o \in Apths : at[o] \in {"joining", "joinwait", "reap"} => tgt[o] # u
  /\ joinid[u] # u /\ t # u /\ joinid[t] # u
  /\ tgt' = [tgt EXCEPT ![t] = u]
  /\ MoveTo(t, "joining")
  /\ UNCHANGED <<tcb, joinid, cancelVars, processVars>>

\* The compare-and-exchange on joinid, and the test of the target's state; the
\* weak exchange may fail although nobody has claimed the target.
JoinClaim(t) ==
  /\ Stands(t, "joining") /\ Valid(tgt[t])
  /\ \/ /\ joinid[tgt[t]] = NoApth
        /\ joinid' = [joinid EXCEPT ![tgt[t]] = t]
        /\ MoveTo(t, IF tcb[tgt[t]] = "terminated" THEN "reap" ELSE "joinwait")
        /\ UNCHANGED tgt
     \/ /\ MoveTo(t, "user")
        /\ tgt' = [tgt EXCEPT ![t] = NoApth]
        /\ UNCHANGED joinid
  /\ UNCHANGED <<tcb, cancelVars, processVars>>

\* Mutant: only a cancellation ends the wait.
JoinWakeDeaf(t) ==
  /\ Stands(t, "joinwait") /\ cancelreqs[t] /\ ~disabled[t]
  /\ Die(t)
  /\ cancelreqs' = [cancelreqs EXCEPT ![t] = FALSE]
  /\ UNCHANGED <<tcb, tgt, joinid, disabled, async, alive, byExit, ended, panic>>

\* The event manager wakes the joiner: the target terminated, or the joiner
\* was cancelled.  apth_wait_event ends in a cancellation point; behind it the
\* code asserts that the target has terminated.
JoinWake(t) ==
  /\ Stands(t, "joinwait")
  /\ tcb[tgt[t]] = "terminated" \/ cancelreqs[t]
  /\ IF cancelreqs[t] /\ ~disabled[t]
     THEN /\ Die(t)
          /\ cancelreqs' = [cancelreqs EXCEPT ![t] = FALSE]
          /\ UNCHANGED panic
     ELSE /\ MoveTo(t, "reap")
          /\ panic' = (tcb[tgt[t]] # "terminated")
          /\ UNCHANGED <<cancelreqs, exited>>
  /\ UNCHANGED <<tcb, tgt, joinid, disabled, async, alive, byExit, ended>>

\* The target leaves the terminated queue and apth_tcb_free frees it.
JoinReap(t) ==
  /\ Stands(t, "reap")
  /\ tcb' = [tcb EXCEPT ![tgt[t]] = "freed"]
  /\ tgt' = [tgt EXCEPT ![t] = NoApth]
  /\ MoveTo(t, "user")
  /\ UNCHANGED <<joinid, cancelVars, processVars>>

\* apth_detach; a second detach or a detach behind a joiner is EINVAL.
apth_detach(t, u) ==
  /\ Stands(t, "user") /\ u \in Detachable /\ Valid(u)
  /\ Exclusive => \A o \in Apths : at[o] = "joining" => tgt[o] # u
  /\ joinid[u] = NoApth
  /\ joinid' = [joinid EXCEPT ![u] = u]
  /\ UNCHANGED <<tcb, at, tgt, cancelVars, processVars>>

-----------------------------------------------------------------------------
apth_cancel(t, u) ==
  /\ Stands(t, "user") /\ u \in Cancelled
  /\ tcb[u] = "alive" /\ ~cancelreqs[u]
  /\ cancelreqs' = [cancelreqs EXCEPT ![u] = TRUE]
  /\ UNCHANGED <<tcb, at, tgt, joinid, disabled, async, processVars>>

\* A cancellation point of the client's own.
CancelPoint(t) ==
  /\ Stands(t, "user") /\ cancelreqs[t] /\ ~disabled[t]
  /\ cancelreqs' = [cancelreqs EXCEPT ![t] = FALSE]
  /\ Die(t)
  /\ UNCHANGED <<tcb, tgt, joinid, disabled, async, alive, byExit, ended, panic>>

\* apth_setcancelstate and apth_setcanceltype: a pending request is acted on
\* when the new value has the asynchronous bit, whatever the state bit says.
SetBits(t, d, a) ==
  /\ Stands(t, "user") /\ t \in Setters
  /\ <<d, a>> # <<disabled[t], async[t]>>
  /\ disabled' = [disabled EXCEPT ![t] = d]
  /\ async' = [async EXCEPT ![t] = a]
  /\ IF cancelreqs[t] /\ a THEN Die(t) ELSE UNCHANGED <<at, exited>>
  /\ UNCHANGED <<tcb, tgt, joinid, cancelreqs, alive, byExit, ended, panic>>

SetCancelState(t) == \E d \in BOOLEAN : SetBits(t, d, async[t])
SetCancelType(t) == \E a \in BOOLEAN : SetBits(t, disabled[t], a)

\* The start routine returns.
Return(t) ==
  /\ Stands(t, "user")
  /\ Die(t)
  /\ UNCHANGED <<tcb, tgt, joinid, cancelVars, alive, byExit, ended, panic>>

\* apth_exit; the main thread leaves a mark that the process goes on.
apth_exit(t) ==
  /\ Stands(t, "user") /\ "exit" \in Calls
  /\ byExit' = (byExit \/ t = MainApth)
  /\ Die(t)
  /\ UNCHANGED <<tcb, tgt, joinid, cancelVars, alive, ended, panic>>

\* Mutant: a detached thread is not counted out.
CountOutJoinable(t) ==
  /\ Stands(t, "dying")
  /\ alive' = IF joinid[t] = t THEN alive ELSE (alive - 1) % Width
  /\ MoveTo(t, "counted")
  /\ UNCHANGED <<tcb, tgt, joinid, cancelVars, exited, byExit, ended, panic>>

\* The scheduler counts the thread out (dec_alive_thrcnt) ...
CountOut(t) ==
  /\ Stands(t, "dying")
  /\ alive' = (alive - 1) % Width
  /\ MoveTo(t, "counted")
  /\ UNCHANGED <<tcb, tgt, joinid, cancelVars, exited, byExit, ended, panic>>

\* Mutant: takes every joinid for a detached thread's.
TerminateFrees(t) ==
  /\ Stands(t, "counted")
  /\ tcb' = [tcb EXCEPT ![t] = IF joinid[t] # NoApth THEN "freed" ELSE "terminated"]
  /\ MoveTo(t, "dead")
  /\ UNCHANGED <<tgt, joinid, cancelVars, processVars>>

\* ... and frees a detached thread or moves a joinable one to the terminated
\* queue, where it stays for its joiner.
Terminate(t) ==
  /\ Stands(t, "counted")
  /\ tcb' = [tcb EXCEPT ![t] = IF joinid[t] = t THEN "freed" ELSE "terminated"]
  /\ MoveTo(t, "dead")
  /\ UNCHANGED <<tgt, joinid, cancelVars, processVars>>

\* Mutant: off by one in the count of the threads that are left.
EndProcessEarly ==
  /\ ~ended /\ ~panic
  /\ exited /\ (byExit => alive <= 1)
  /\ ended' = TRUE
  /\ UNCHANGED <<tcb, at, tgt, joinid, cancelVars, alive, exited, byExit, panic>>

\* worker0_check_end_process, at the top of worker 0's loop.
EndProcess ==
  /\ ~ended /\ ~panic
  /\ exited /\ (byExit => alive = 0)
  /\ ended' = TRUE
  /\ UNCHANGED <<tcb, at, tgt, joinid, cancelVars, alive, exited, byExit, panic>>

-----------------------------------------------------------------------------
Library(t) ==
  \/ CreateCount(t) \/ JoinClaim(t) \/ JoinWake(t) \/ JoinReap(t)
  \/ CountOut(t) \/ Terminate(t)

Client(t) ==
  \/ \E u \in Apths : apth_create(t, u) \/ apth_join(t, u) \/ apth_detach(t, u) \/ apth_cancel(t, u)
  \/ CancelPoint(t) \/ SetCancelState(t) \/ SetCancelType(t)
  \/ Return(t) \/ apth_exit(t)

LifecycleNext == EndProcess \/ \E t \in Apths : Library(t) \/ Client(t)

LifecycleSpec == LifecycleInit /\ [][LifecycleNext]_lifecycleVars

-----------------------------------------------------------------------------
LifecycleTypeOK ==
  /\ tcb \in [Apths -> {"none", "alive", "terminated", "freed"}]
  /\ at \in [Apths -> {"none", "user", "creating", "joining", "joinwait",
                         "reap", "dying", "counted", "dead"}]
  /\ tgt \in [Apths -> Apths \union {NoApth}]
  /\ joinid \in [Apths -> Apths \union {NoApth}]
  /\ {cancelreqs, disabled, async} \subseteq [Apths -> BOOLEAN]
  /\ alive \in 0..(Width - 1)
  /\ {exited, byExit, ended, panic} \subseteq BOOLEAN

\* apth_join never reads or frees a control block that somebody else (another
\* joiner, or the scheduler of a detached thread) has freed: from its first
\* check to apth_tcb_free the target stays allocated, and it is terminated and
\* claimed by this joiner when it is freed.
JoinedThreadStaysAllocated ==
  \A t \in Apths :
    /\ at[t] \in {"joining", "joinwait", "reap"} => Valid(tgt[t])
    /\ at[t] = "reap" /\ ~panic => tcb[tgt[t]] = "terminated" /\ joinid[tgt[t]] = t

\* After the main thread called apth_exit the process ends only when all other
\* threads have exited as well.
ProcessOutlivesThreads ==
  ended /\ byExit => \A t \in Apths : at[t] \in {"none", "counted", "dead"}

\* The thread that t joins has exited.
JoinDue(t) == at[t] = "joinwait" /\ at[tgt[t]] = "dying"

AllDead == \A t \in Apths : at[t] \in {"none", "dead"}
=============================================================================
