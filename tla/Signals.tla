------------------------------- MODULE Signals -------------------------------
(***************************************************************************)
(* Signals (internal/apth_signal.c, hook_libc/hook_signal.c,                *)
(* core/apth_kill.c, core/apth_sigmask.c).  A signal for the process is     *)
(* noted by the kernel's handler and given to some thread by a scheduler    *)
(* between two dispatches; a signal for a thread is added to its pending    *)
(* set.  A thread's pending signals are delivered under its siglock: by its *)
(* scheduler, on the scheduler's stack, before the thread is switched to,   *)
(* and by the thread itself in raise, sigprocmask, pause and sigsuspend.    *)
(* An apth that finds an internal lock taken yields, a scheduler spins.     *)
(***************************************************************************)
EXTENDS Naturals, FiniteSets, FiniteSetsExt

CONSTANTS NearThreads, \* threads of the first scheduler
          FarThreads,  \* threads of the second scheduler
          NSig,        \* signals are 1 .. NSig
          Fatal,       \* those whose default action ends the process
          Killers,     \* threads that call apth_kill and raise
          Maskers,     \* threads that call sigprocmask
          Sleepers,    \* threads that call sigwait, pause and sigsuspend
          Installers,  \* threads that call sigaction
          MaxSent      \* bound: signals sent

SigThreads == NearThreads \cup FarThreads
Sigs == 1 .. NSig
SigScheds == {1, 2}
HomeOf(t) == IF t \in NearThreads THEN 1 ELSE 2

ASSUME SignalConstants ==
  /\ NearThreads \cap FarThreads = {}
  /\ NSig \in Nat \ {0} /\ Fatal \subseteq Sigs /\ MaxSent \in Nat
  /\ Killers \cup Maskers \cup Sleepers \cup Installers \subseteq SigThreads

VARIABLES sigpending, \* per thread
          sigpendcnt, \* per thread
          sigmask,    \* per thread
          siglock,    \* per thread, {} or {holder}
          actions,    \* APTH_GLOBAL_SIGACTIONS.actions
          actlock,    \* APTH_GLOBAL_SIGACTIONS.lock
          procPending,\* APTH_PROCESS_SIGPENDING
          sched,      \* per scheduler: where in its loop, with which thread
          th,         \* per thread: where it is and the call it is in
          frame,      \* per thread: its two calls of deliver, own and sched
          cancelreq,  \* threads with a cancellation request
          tally,      \* history: signals sent, merged and consumed
          umask,      \* history: the mask the thread asked for
          outcome     \* history: the process's end, a failed assertion, ...

sigData == <<sigpending, sigpendcnt, sigmask, siglock>>
actVars == <<actions, actlock>>
signalVars == <<sigData, actVars, procPending, sched, th, frame, cancelreq,
                tally, umask, outcome>>

NoFrame == [at |-> "no", sig |-> 0, old |-> {}, once |-> FALSE]
Idle == [at |-> "ready", call |-> "none", to |-> {}, sig |-> 0, old |-> {},
         took |-> FALSE]

SignalsInit ==
  /\ sigpending = [t \in SigThreads |-> {}]
  /\ sigpendcnt = [t \in SigThreads |-> 0]
  /\ sigmask = [t \in SigThreads |-> {}] /\ umask = sigmask
  /\ siglock = [t \in SigThreads |-> {}]
  /\ actions = [s \in Sigs |-> "dfl"] /\ actlock = {}
  /\ procPending = {}
  /\ sched = [s \in SigScheds |-> [at |-> "loop", th |-> {}, sig |-> 0]]
  /\ th = [t \in SigThreads |-> Idle]
  /\ frame = [t \in SigThreads |-> [k \in {"own", "sched"} |-> NoFrame]]
  /\ cancelreq = {}
  /\ tally = [sent |-> 0, merged |-> 0, consumed |-> 0]
  /\ outcome = {}

\* Every piece of state has its type.
SignalsTypeOK ==
  /\ sigpending \in [SigThreads -> SUBSET Sigs]
  /\ sigpendcnt \in [SigThreads -> Nat]
  /\ sigmask \in [SigThreads -> SUBSET Sigs]
  /\ \A t \in SigThreads : siglock[t] \in SUBSET SigThreads
                           /\ Cardinality(siglock[t]) <= 1
  /\ actions \in [Sigs -> {"dfl", "ign", "user", "once"}]
  /\ actlock \in SUBSET SigThreads
  /\ procPending \subseteq Sigs /\ cancelreq \subseteq SigThreads
  /\ \A s \in SigScheds : sched[s].at \in
       {"loop", "check", "held", "deliver", "user"}
  /\ \A t \in SigThreads : th[t].at \in {"ready", "picked", "run", "waiting"}

\* After its scheduler's stack is lost, or a panic, nothing more is said.
Alive == outcome = {}
End(what) == outcome' = outcome \cup {what}
SchedOf(t) == sched[HomeOf(t)]

\* The thread runs its own code, on its own stack.
OnCpu(t) == Alive /\ th[t].at = "run" /\ SchedOf(t).at = "user"
InUserCode(t) ==
  OnCpu(t) /\ th[t].call = "none" /\ frame[t]["own"].at = "no"

\* The call of deliver on stack k of thread t is the code being executed.
Executes(t, k) ==
  /\ Alive
  /\ IF k = "own" THEN OnCpu(t)
     ELSE SchedOf(t).at = "deliver" /\ SchedOf(t).th = {t}
Frame(t, k, place) == Executes(t, k) /\ frame[t][k].at = place
InFrame(t, k, place) == frame' = [frame EXCEPT ![t][k].at = place]

LeaveCpu(t, place) ==
  /\ th' = [th EXCEPT ![t].at = place]
  /\ sched' = [sched EXCEPT ![HomeOf(t)] = [at |-> "loop", th |-> {},
                                            sig |-> 0]]

\* lll_internal_lock finds the lock taken.  apth_yield on the scheduler's
\* stack saves that stack as the thread's context and resumes the scheduler
\* where it last left for another thread.
LockYield(t, k) ==
  /\ IF k = "own"
       THEN LeaveCpu(t, "ready") /\ UNCHANGED outcome
       ELSE End("stack lost") /\ UNCHANGED <<th, sched>>
  /\ UNCHANGED <<sigData, actVars, procPending, frame, cancelreq, tally,
                 umask>>

Count(field, n) == tally' = [tally EXCEPT ![field] = @ + n]

\* Adds a signal to the pending set, under the thread's siglock.
AddPending(t, s) ==
  IF s \in sigpending[t]
    THEN Count("merged", 1) /\ UNCHANGED <<sigpending, sigpendcnt>>
    ELSE /\ sigpending' = [sigpending EXCEPT ![t] = @ \cup {s}]
         /\ sigpendcnt' = [sigpendcnt EXCEPT ![t] = @ + 1]
         /\ UNCHANGED tally

TakePending(t, s) ==
  /\ sigpending' = [sigpending EXCEPT ![t] = @ \ {s}]
  /\ sigpendcnt' = [sigpendcnt EXCEPT ![t] = @ - 1]
  /\ Count("consumed", 1)

SleepCalls == {"sigwait", "pause", "sigsuspend"}
Deliverable(t) == sigpending[t] \ sigmask[t]

-----------------------------------------------------------------------------
(* apth_deliver_pending_signals(t), on the thread's or the scheduler's      *)
(* stack, and __apth_inject_signal_handler                                  *)

DeliverLock(t, k) ==
  /\ Frame(t, k, "lock") /\ siglock[t] = {}
  /\ siglock' = [siglock EXCEPT ![t] = {t}]
  /\ frame' = [frame EXCEPT ![t][k].at = "scan", ![t][k].sig = 1]
  /\ UNCHANGED <<sigpending, sigpendcnt, sigmask, actVars, procPending, sched,
                 th, cancelreq, tally, umask, outcome>>

\* The next pending signal that is not blocked leaves the pending set.
DeliverTake(t, k) ==
  /\ Frame(t, k, "scan")
  /\ LET due == {s \in Deliverable(t) : s >= frame[t][k].sig} IN
       /\ due # {}
       /\ TakePending(t, Min(due))
       /\ frame' = [frame EXCEPT ![t][k].at = "act", ![t][k].sig = Min(due)]
  /\ UNCHANGED <<sigmask, siglock, actVars, procPending, sched, th, cancelreq,
                 umask, outcome>>

\* The action is read under its lock.  The handler runs with its own signal
\* blocked as well, and without the actions' lock.
DeliverAct(t, k) ==
  /\ Frame(t, k, "act") /\ actlock = {}
  /\ LET s == frame[t][k].sig IN
       CASE actions[s] \in {"user", "once"} ->
              /\ frame' = [frame EXCEPT ![t][k] =
                   [at |-> "handler", sig |-> s, old |-> sigmask[t],
                    once |-> actions[s] = "once"]]
              /\ sigmask' = [sigmask EXCEPT ![t] = @ \cup {s}]
              /\ UNCHANGED outcome
         [] OTHER ->
              /\ frame' = [frame EXCEPT ![t][k].at = "scan",
                                        ![t][k].sig = s + 1]
              /\ IF actions[s] = "dfl" /\ s \in Fatal THEN End("killed")
                                                      ELSE UNCHANGED outcome
              /\ UNCHANGED sigmask
  /\ th' = [th EXCEPT ![t].took = th[t].call \in SleepCalls]
  /\ UNCHANGED <<sigpending, sigpendcnt, siglock, actVars, procPending, sched,
                 cancelreq, tally, umask>>

\* Mutant: leaves the handler's mask in place.
HandlerReturnsMasked(t, k) ==
  /\ Frame(t, k, "handler")
  /\ frame' = [frame EXCEPT ![t][k] =
       [@ EXCEPT !.at = IF frame[t][k].once THEN "reset" ELSE "scan",
                 !.sig = IF frame[t][k].once THEN @ ELSE @ + 1, !.old = {}]]
  /\ UNCHANGED <<sigData, actVars, procPending, sched, th, cancelreq, tally,
                 umask, outcome>>

HandlerReturns(t, k) ==
  /\ Frame(t, k, "handler")
  /\ sigmask' = [sigmask EXCEPT ![t] = frame[t][k].old]
  /\ frame' = [frame EXCEPT ![t][k] =
       [@ EXCEPT !.at = IF frame[t][k].once THEN "reset" ELSE "scan",
                 !.sig = IF frame[t][k].once THEN @ ELSE @ + 1, !.old = {}]]
  /\ UNCHANGED <<sigpending, sigpendcnt, siglock, actVars, procPending, sched,
                 th, cancelreq, tally, umask, outcome>>

\* SA_RESETHAND: the action is reset after the handler.
DeliverReset(t, k) ==
  /\ Frame(t, k, "reset") /\ actlock = {}
  /\ actions' = [actions EXCEPT ![frame[t][k].sig] = "dfl"]
  /\ frame' = [frame EXCEPT ![t][k] = [@ EXCEPT !.at = "scan", !.sig = @ + 1,
                                                !.once = FALSE]]
  /\ UNCHANGED <<sigData, actlock, procPending, sched, th, cancelreq, tally,
                 umask, outcome>>

\* The handler blocks a signal, or raises one: its thread's siglock is taken.
HandlerBlocks(t, k, s) ==
  /\ t \in Maskers /\ Frame(t, k, "handler")
  /\ sigmask' = [sigmask EXCEPT ![t] = @ \cup {s}]
  /\ UNCHANGED <<sigpending, sigpendcnt, siglock, actVars, procPending, sched,
                 th, frame, cancelreq, tally, umask, outcome>>

HandlerRaises(t, k) ==
  /\ t \in Killers /\ Frame(t, k, "handler")
  /\ IF k = "own"
       THEN /\ LeaveCpu(t, "ready") /\ UNCHANGED outcome
            /\ InFrame(t, k, "stuck")
       ELSE End("stack lost") /\ UNCHANGED <<th, sched, frame>>
  /\ UNCHANGED <<sigData, actVars, procPending, cancelreq, tally, umask>>

\* A call of deliver gives way: to the holder of its siglock, to the holder
\* of the actions' lock (its siglock stays taken), or to itself for ever.
DeliverYields(t, k) ==
  /\ \/ Frame(t, k, "lock") /\ siglock[t] # {}
     \/ (Frame(t, k, "act") \/ Frame(t, k, "reset")) /\ actlock # {}
     \/ Frame(t, k, "stuck")
  /\ LockYield(t, k)

\* Nothing is left to deliver.  The scheduler switches to the thread; the
\* thread returns from the hook it called.
DeliverDone(t, k) ==
  /\ Frame(t, k, "scan")
  /\ {s \in Deliverable(t) : s >= frame[t][k].sig} = {}
  /\ siglock' = [siglock EXCEPT ![t] = {}]
  /\ frame' = [frame EXCEPT ![t][k] = NoFrame]
  /\ IF k = "own"
       THEN /\ th' = [th EXCEPT ![t].call = "none", ![t].took = FALSE]
            /\ IF th[t].call \in {"pause", "sigsuspend"} /\ ~th[t].took
                 THEN End("early return") ELSE UNCHANGED outcome
            /\ UNCHANGED sched
       ELSE /\ sched' = [sched EXCEPT ![HomeOf(t)].at = "user"]
            /\ UNCHANGED <<th, outcome>>
  /\ UNCHANGED <<sigpending, sigpendcnt, sigmask, actVars, procPending,
                 cancelreq, tally, umask>>

-----------------------------------------------------------------------------
(* Calls of a running thread *)

\* apth_kill: an ignored signal is dropped.
Kill(t, u, s) ==
  /\ t \in Killers /\ InUserCode(t) /\ actlock = {}
  /\ tally.sent < MaxSent /\ actions[s] # "ign"
  /\ th' = [th EXCEPT ![t].call = "kill", ![t].to = {u}, ![t].sig = s]
  /\ Count("sent", 1)
  /\ UNCHANGED <<sigData, actVars, procPending, sched, frame, cancelreq,
                 umask, outcome>>

KillLock(t, u) ==
  /\ OnCpu(t) /\ th[t].call = "kill" /\ th[t].to = {u}
  /\ siglock[u] = {}
  /\ siglock' = [siglock EXCEPT ![u] = {t}]
  /\ th' = [th EXCEPT ![t].call = "killing"]
  /\ UNCHANGED <<sigpending, sigpendcnt, sigmask, actVars, procPending, sched,
                 frame, cancelreq, tally, umask, outcome>>

KillYields(t) ==
  /\ OnCpu(t) /\ th[t].call = "kill" /\ \A u \in th[t].to : siglock[u] # {}
  /\ LockYield(t, "own")

\* Mutant: counts a signal that is already pending.
KillAddTwice(t, u) ==
  /\ OnCpu(t) /\ th[t].call = "killing" /\ th[t].to = {u}
  /\ sigpending' = [sigpending EXCEPT ![u] = @ \cup {th[t].sig}]
  /\ sigpendcnt' = [sigpendcnt EXCEPT ![u] = @ + 1]
  /\ siglock' = [siglock EXCEPT ![u] = {}]
  /\ th' = [th EXCEPT ![t] = [@ EXCEPT !.call = "none", !.to = {}, !.sig = 0]]
  /\ IF t = u THEN InFrame(t, "own", "lock") ELSE UNCHANGED frame
  /\ UNCHANGED <<sigmask, actVars, procPending, sched, cancelreq, tally,
                 umask, outcome>>

KillAdd(t, u) ==
  /\ OnCpu(t) /\ th[t].call = "killing" /\ th[t].to = {u}
  /\ AddPending(u, th[t].sig)
  /\ siglock' = [siglock EXCEPT ![u] = {}]
  /\ th' = [th EXCEPT ![t] = [@ EXCEPT !.call = "none", !.to = {}, !.sig = 0]]
  /\ IF t = u THEN InFrame(t, "own", "lock") ELSE UNCHANGED frame
  /\ UNCHANGED <<sigmask, actVars, procPending, sched, cancelreq, umask,
                 outcome>>

\* apth_sigmask with SIG_SETMASK
Sigmask(t, m) ==
  /\ t \in Maskers /\ InUserCode(t)
  /\ sigmask' = [sigmask EXCEPT ![t] = m] /\ umask' = [umask EXCEPT ![t] = m]
  /\ IF sigpendcnt[t] > 0 THEN InFrame(t, "own", "lock") ELSE UNCHANGED frame
  /\ UNCHANGED <<sigpending, sigpendcnt, siglock, actVars, procPending, sched,
                 th, cancelreq, tally, outcome>>

\* signal and sigaction change the action under its lock.
SigactionLock(t) ==
  /\ t \in Installers /\ InUserCode(t) /\ actlock = {}
  /\ actlock' = {t}
  /\ th' = [th EXCEPT ![t].call = "sigaction"]
  /\ UNCHANGED <<sigData, actions, procPending, sched, frame, cancelreq,
                 tally, umask, outcome>>

SigactionSet(t, s, a) ==
  /\ OnCpu(t) /\ th[t].call = "sigaction" /\ frame[t]["own"].at = "no"
  /\ actions' = [actions EXCEPT ![s] = a]
  /\ actlock' = {}
  /\ th' = [th EXCEPT ![t].call = "none"]
  /\ UNCHANGED <<sigData, procPending, sched, frame, cancelreq, tally, umask,
                 outcome>>

Suspend(t, call) ==
  /\ th' = [th EXCEPT ![t].at = "waiting", ![t].call = call,
                      ![t].old = sigmask[t], ![t].took = FALSE]
  /\ sched' = [sched EXCEPT ![HomeOf(t)] = [at |-> "loop", th |-> {},
                                            sig |-> 0]]

\* sigwait for all signals takes a pending one or waits.
Sigwait(t) ==
  /\ t \in Sleepers /\ InUserCode(t) /\ siglock[t] = {}
  /\ IF sigpending[t] # {}
       THEN TakePending(t, Min(sigpending[t])) /\ UNCHANGED <<th, sched>>
       ELSE Suspend(t, "sigwait") /\ UNCHANGED <<sigpending, sigpendcnt, tally>>
  /\ UNCHANGED <<sigmask, siglock, actVars, procPending, frame, cancelreq,
                 umask, outcome>>

\* pause delivers what is pending or waits.
Pause(t) ==
  /\ t \in Sleepers /\ InUserCode(t) /\ siglock[t] = {}
  /\ IF Deliverable(t) # {}
       THEN /\ InFrame(t, "own", "lock") /\ UNCHANGED sched
            /\ th' = [th EXCEPT ![t].call = "pause", ![t].took = FALSE]
       ELSE Suspend(t, "pause") /\ UNCHANGED frame
  /\ UNCHANGED <<sigData, actVars, procPending, cancelreq, tally, umask,
                 outcome>>

Sigsuspend(t, m) ==
  /\ t \in Sleepers /\ InUserCode(t)
  /\ sigmask' = [sigmask EXCEPT ![t] = m]
  /\ Suspend(t, "sigsuspend")
  /\ UNCHANGED <<sigpending, sigpendcnt, siglock, actVars, procPending, frame,
                 cancelreq, tally, umask, outcome>>

WakesInto(t, call) ==
  OnCpu(t) /\ th[t].call = call /\ frame[t]["own"].at = "no"

\* sigwait returns; its event must have occurred.
SigwaitReturns(t) ==
  /\ WakesInto(t, "sigwait")
  /\ th' = [th EXCEPT ![t].call = "none", ![t].took = FALSE]
  /\ IF th[t].took THEN UNCHANGED outcome ELSE End("assertion")
  /\ UNCHANGED <<sigData, actVars, procPending, sched, frame, cancelreq,
                 tally, umask>>

\* pause and sigsuspend go on, the latter with the old mask restored.
SuspendResumes(t) ==
  /\ WakesInto(t, "pause") \/ WakesInto(t, "sigsuspend")
  /\ sigmask' = [sigmask EXCEPT ![t] = IF th[t].call = "sigsuspend"
                                         THEN th[t].old ELSE @]
  /\ InFrame(t, "own", "lock")
  /\ UNCHANGED <<sigpending, sigpendcnt, siglock, actVars, procPending, sched,
                 th, cancelreq, tally, umask, outcome>>

SigYield(t) ==
  /\ InUserCode(t)
  /\ LeaveCpu(t, "ready")
  /\ UNCHANGED <<sigData, actVars, procPending, frame, cancelreq, tally, umask,
                 outcome>>

\* Another thread asks for the cancellation of a sleeper that disabled it.
SigCancel(t) ==
  /\ Alive /\ t \in Sleepers \ cancelreq /\ th[t].at = "waiting"
  /\ cancelreq' = cancelreq \cup {t}
  /\ UNCHANGED <<sigData, actVars, procPending, sched, th, frame, tally, umask,
                 outcome>>

-----------------------------------------------------------------------------
(* The kernel and the schedulers *)

\* apth_kernel_signal_catcher
KernelSignal(s) ==
  /\ Alive /\ tally.sent < MaxSent
  /\ procPending' = procPending \cup {s}
  /\ tally' = [tally EXCEPT !.sent = @ + 1,
                            !.merged = IF s \in procPending THEN @ + 1 ELSE @]
  /\ UNCHANGED <<sigData, actVars, sched, th, frame, cancelreq, umask, outcome>>

\* Mutant: the check of pause and sigsuspend does not look.
EventAnyPass(t) ==
  /\ Alive /\ th[t].at = "waiting" /\ SchedOf(t).at = "loop"
  /\ siglock[t] = {}
  /\ IF th[t].call = "sigwait"
       THEN /\ sigpending[t] # {}
            /\ TakePending(t, Min(sigpending[t]))
            /\ th' = [th EXCEPT ![t].at = "ready", ![t].took = TRUE]
       ELSE /\ th' = [th EXCEPT ![t].at = "ready"]
            /\ UNCHANGED <<sigpending, sigpendcnt, tally>>
  /\ UNCHANGED <<sigmask, siglock, actVars, procPending, sched, frame,
                 cancelreq, umask, outcome>>

\* The event manager looks at a waiting thread: a sigwait takes its signal,
\* the check of pause and sigsuspend only looks.
EventSignal(t) ==
  /\ Alive /\ th[t].at = "waiting" /\ SchedOf(t).at = "loop"
  /\ siglock[t] = {}
  /\ IF th[t].call = "sigwait"
       THEN /\ sigpending[t] # {}
            /\ TakePending(t, Min(sigpending[t]))
            /\ th' = [th EXCEPT ![t].at = "ready", ![t].took = TRUE]
       ELSE /\ Deliverable(t) # {}
            /\ th' = [th EXCEPT ![t].at = "ready"]
            /\ UNCHANGED <<sigpending, sigpendcnt, tally>>
  /\ UNCHANGED <<sigmask, siglock, actVars, procPending, sched, frame,
                 cancelreq, umask, outcome>>

EventCancel(t) ==
  /\ Alive /\ th[t].at = "waiting" /\ SchedOf(t).at = "loop"
  /\ t \in cancelreq
  /\ th' = [th EXCEPT ![t].at = "ready"]
  /\ UNCHANGED <<sigData, actVars, procPending, sched, frame, cancelreq, tally,
                 umask, outcome>>

\* The scheduler chooses a thread; nobody is current yet.
SchedPick(t) ==
  /\ Alive /\ th[t].at = "ready" /\ SchedOf(t).at = "loop"
  /\ th' = [th EXCEPT ![t].at = "picked"]
  /\ sched' = [sched EXCEPT ![HomeOf(t)] = [at |-> "check", th |-> {t},
                                            sig |-> 1]]
  /\ UNCHANGED <<sigData, actVars, procPending, frame, cancelreq, tally, umask,
                 outcome>>

\* apth_check_process_signals: each signal is taken out with a CAS ...
CheckTake(s) ==
  /\ Alive /\ sched[s].at = "check"
  /\ LET due == {i \in procPending : i >= sched[s].sig} IN
       /\ due # {}
       /\ procPending' = procPending \ {Min(due)}
       /\ sched' = [sched EXCEPT ![s].at = "held", ![s].sig = Min(due)]
  /\ UNCHANGED <<sigData, actVars, th, frame, cancelreq, tally, umask, outcome>>

\* The threads it tries: those queued, not the one about to run.
Candidates(s) ==
  {t \in SigThreads : HomeOf(t) = s /\ th[t].at = "ready"
                      /\ sched[s].sig \notin sigmask[t]}

CheckNext(s) == sched' = [sched EXCEPT ![s].at = "check", ![s].sig = @ + 1]

\* ... and given to a thread, or put back when none of them takes it.
CheckGive(s, t) ==
  /\ Alive /\ sched[s].at = "held" /\ t \in Candidates(s)
  /\ siglock[t] = {}
  /\ AddPending(t, sched[s].sig)
  /\ CheckNext(s)
  /\ UNCHANGED <<sigmask, siglock, actVars, procPending, th, frame, cancelreq,
                 umask, outcome>>

\* Mutant: drops the signal no thread takes.
CheckDrops(s) ==
  /\ Alive /\ sched[s].at = "held" /\ Candidates(s) = {}
  /\ CheckNext(s)
  /\ UNCHANGED <<sigData, actVars, procPending, tally, th, frame, cancelreq,
                 umask, outcome>>

CheckPutBack(s) ==
  /\ Alive /\ sched[s].at = "held" /\ Candidates(s) = {}
  /\ procPending' = procPending \cup {sched[s].sig}
  /\ IF sched[s].sig \in procPending THEN Count("merged", 1)
                                     ELSE UNCHANGED tally
  /\ CheckNext(s)
  /\ UNCHANGED <<sigData, actVars, th, frame, cancelreq, umask, outcome>>

\* The thread becomes current; its pending signals are delivered first.
SchedDispatch(t) ==
  /\ Alive /\ SchedOf(t).at = "check" /\ SchedOf(t).th = {t}
  /\ {i \in procPending : i >= SchedOf(t).sig} = {}
  /\ th' = [th EXCEPT ![t].at = "run"]
  /\ IF sigpendcnt[t] > 0
       THEN /\ sched' = [sched EXCEPT ![HomeOf(t)].at = "deliver"]
            /\ InFrame(t, "sched", "lock")
       ELSE /\ sched' = [sched EXCEPT ![HomeOf(t)].at = "user"]
            /\ UNCHANGED frame
  /\ UNCHANGED <<sigData, actVars, procPending, cancelreq, tally, umask,
                 outcome>>

SignalsNext ==
  \/ \E s \in Sigs : KernelSignal(s)
  \/ \E s \in SigScheds :
       \/ CheckTake(s) \/ CheckPutBack(s)
       \/ \E t \in SigThreads : CheckGive(s, t)
  \/ \E t \in SigThreads, k \in {"own", "sched"} :
       \/ DeliverLock(t, k) \/ DeliverTake(t, k) \/ DeliverAct(t, k)
       \/ HandlerReturns(t, k) \/ DeliverReset(t, k) \/ DeliverYields(t, k)
       \/ DeliverDone(t, k) \/ HandlerRaises(t, k)
       \/ \E s \in Sigs : HandlerBlocks(t, k, s)
  \/ \E t \in SigThreads :
       \/ SchedPick(t) \/ SchedDispatch(t) \/ EventSignal(t) \/ EventCancel(t)
       \/ SigCancel(t) \/ SigYield(t)
       \/ \E u \in SigThreads : KillLock(t, u) \/ KillAdd(t, u)
       \/ \E u \in SigThreads, s \in Sigs : Kill(t, u, s)
       \/ KillYields(t)
       \/ \E m \in {{}, Sigs} : Sigmask(t, m) \/ Sigsuspend(t, m)
       \/ SigactionLock(t)
       \/ \E s \in Sigs, a \in {"ign", "user", "once"} : SigactionSet(t, s, a)
       \/ Sigwait(t) \/ Pause(t) \/ SigwaitReturns(t) \/ SuspendResumes(t)

SignalsSpec == SignalsInit /\ [][SignalsNext]_signalVars

-----------------------------------------------------------------------------
(* Properties *)

Handling(t) == \E k \in {"own", "sched"} : frame[t][k].at \in {"handler", "stuck"}
Held == Cardinality({s \in SigScheds : sched[s].at = "held"})
OnItsWay(t) ==
  Cardinality(sigpending[t])
    + (IF th[t].call \in {"kill", "killing"} THEN 1 ELSE 0)

\* No signal disappears and none is made up, whichever of the kernel, the
\* schedulers, killers, deliveries and sigwaits move it: what was sent is
\* pending somewhere, was consumed once, or met a pending one of its kind;
\* and sigpendcnt, the test made before anything is delivered, counts the
\* pending signals of its thread.
SignalsAccounted ==
  /\ \A t \in SigThreads : sigpendcnt[t] = Cardinality(sigpending[t])
  /\ tally.sent = tally.merged + tally.consumed + Cardinality(procPending)
                  + Held + MapThenSumSet(OnItsWay, SigThreads)

\* A thread outside handlers and sigsuspend has the mask it asked for, and
\* a handler runs only for a signal that was not blocked when it began.
MasksRestored ==
  \A t \in SigThreads :
    /\ ~Handling(t) /\ th[t].call # "sigsuspend" => sigmask[t] = umask[t]
    /\ \A k \in {"own", "sched"} :
         frame[t][k].at = "handler" => frame[t][k].sig \notin frame[t][k].old

\* pause and sigsuspend return, and sigwait passes its assertion, only with
\* a signal taken since they were called, except after a cancellation
\* request to a thread that has disabled cancellation.
SleepsEndBySignal ==
  outcome \cap {"early return", "assertion"} # {} => cancelreq # {}
=============================================================================
