---------------------------- MODULE EventManager ----------------------------
(***************************************************************************)
(* apth_sched_eventmanager_epoll of one scheduler, with the threads that    *)
(* wait in its waiting queue and the actors that make their events occur:   *)
(* posters (another thread or the reactor, which mark an event and then     *)
(* write the scheduler's wake_eventfd), conditions nobody announces (a      *)
(* terminated thread, a readable descriptor, a FUNC predicate), deadlines   *)
(* and cancellation.                                                        *)
(*                                                                         *)
(* Time is relative: rem[t] is what is left until t's deadline, -1 when the *)
(* deadline has passed.  It advances while a thread runs and while the      *)
(* scheduler is blocked, not inside the event manager's own loops.          *)
(***************************************************************************)
EXTENDS Integers, Sequences, SequencesExt, FiniteSets, FiniteSetsExt

CONSTANTS Waiters, NoWaiter,
          Waits,              \* the sets of events a thread may wait for
          CancelledWaits,     \* the waits during which apth_cancel may be called
          MaxWait,            \* bound on a deadline
          Clamp,              \* 60000 ms
          Grain,              \* ticks in a millisecond
          IdleWait,           \* 10 ms
          FuncPeriod,         \* the poll period of a FUNC event
          MaxWakeBatch,       \* MAX_WAKE_BATCH
          MaxDeferredSelect,  \* MAX_DEFERRED_SELECT
          Interrupts,         \* signals may interrupt the blocking call
          Backends            \* how the scheduler may poll

Kinds == {"sync", "time", "tid", "select", "func"}

ASSUME EventManagerConstants ==
  /\ Waits \subseteq SUBSET Kinds /\ {} \notin Waits
  /\ CancelledWaits \subseteq Waits /\ NoWaiter \notin Waiters
  /\ {MaxWait, FuncPeriod, IdleWait} \subseteq Nat
  /\ {Clamp, Grain, MaxWakeBatch, MaxDeferredSelect} \subseteq Nat \ {0}
  /\ Interrupts \in BOOLEAN
  /\ Backends \subseteq {"reactor", "epoll", "uring"}

VARIABLES waitq,      \* the waiting queue
          place,      \* "user", "waiting" or "ready"
          st,         \* ev_status of each linked event, "off" when not linked
          rem,        \* ticks to the deadline of the TIME event
          fact,       \* what TID, SELECT and FUNC look at: "no", "true", or
                      \* "error" when select() would fail
          cancel_req,
          owed,       \* posters that have yet to write wake_eventfd
          eventfd,    \* wake_eventfd is readable
          backend,    \* the poll: only wake_eventfd, own epoll or io_uring
          phase, dopoll, batch, full, notified, deferred, nexttimer, pollrem

waiterVars == <<waitq, place, st, rem, fact, cancel_req>>
localVars == <<dopoll, batch, full, notified, deferred, nexttimer, pollrem>>
pollVars == <<phase, backend>>
eventManagerVars == <<waiterVars, owed, eventfd, pollVars, localVars>>

NoEvents == [k \in Kinds |-> "off"]

EventManagerInit ==
  /\ waitq = <<>>
  /\ place = [t \in Waiters |-> "user"]
  /\ st = [t \in Waiters |-> NoEvents]
  /\ rem = [t \in Waiters |-> 0]
  /\ fact = [t \in Waiters |-> "no"]
  /\ cancel_req = [t \in Waiters |-> FALSE]
  /\ owed = {} /\ eventfd = FALSE /\ backend \in Backends
  /\ phase = "run" /\ dopoll = FALSE
  /\ batch = <<>> /\ full = FALSE /\ notified = FALSE
  /\ deferred = <<>> /\ nexttimer = NoWaiter /\ pollrem = 0

-----------------------------------------------------------------------------
\* A running thread links its events and yields to the scheduler, which puts
\* it into the waiting queue.
Wait(t) ==
  /\ phase = "run" /\ place[t] = "user"
  /\ \E w \in Waits, d \in 0..MaxWait :
       /\ "time" \notin w => d = 0
       /\ st' = [st EXCEPT ![t] = [k \in Kinds |-> IF k \in w THEN "pending" ELSE "off"]]
       /\ rem' = [rem EXCEPT ![t] = d]
  /\ fact' = [fact EXCEPT ![t] = "no"]
  /\ place' = [place EXCEPT ![t] = "waiting"]
  /\ waitq' = Append(waitq, t)
  /\ UNCHANGED <<cancel_req, owed, eventfd, pollVars, localVars>>

\* A ready thread runs, here or on the scheduler that stole it, leaves the
\* call with its events unlinked, and acts on a cancellation.
Run(t) ==
  /\ place[t] = "ready"
  /\ place' = [place EXCEPT ![t] = "user"]
  /\ st' = [st EXCEPT ![t] = NoEvents]
  /\ rem' = [rem EXCEPT ![t] = 0]
  /\ fact' = [fact EXCEPT ![t] = "no"]
  /\ cancel_req' = [cancel_req EXCEPT ![t] = FALSE]
  /\ UNCHANGED <<waitq, owed, eventfd, pollVars, localVars>>

\* A poster marks the SYNC (or FD) event and later prods the scheduler.
Post(t) ==
  /\ place[t] = "waiting" /\ st[t]["sync"] = "pending"
  /\ st' = [st EXCEPT ![t]["sync"] = "occurred"]
  /\ owed' = owed \union {t}
  /\ UNCHANGED <<waitq, place, rem, fact, cancel_req, eventfd, pollVars, localVars>>

\* apth_sched_wake.
Prod(t) ==
  /\ t \in owed
  /\ owed' = owed \ {t}
  /\ eventfd' = TRUE
  /\ UNCHANGED <<waiterVars, pollVars, localVars>>

\* The thread waited for terminates, a descriptor becomes readable or is
\* closed, the predicate becomes true; the scheduler is not told.
Happen(t) ==
  /\ place[t] = "waiting" /\ fact[t] = "no"
  /\ \/ /\ \E k \in {"tid", "select", "func"} : st[t][k] = "pending"
        /\ fact' = [fact EXCEPT ![t] = "true"]
     \/ /\ st[t]["select"] = "pending"
        /\ fact' = [fact EXCEPT ![t] = "error"]
  /\ UNCHANGED <<waitq, place, st, rem, cancel_req, owed, eventfd, pollVars, localVars>>

\* apth_cancel does not prod the scheduler either.
RequestCancel(t) ==
  /\ place[t] = "waiting" /\ ~cancel_req[t]
  /\ {k \in Kinds : st[t][k] # "off"} \in CancelledWaits
  /\ cancel_req' = [cancel_req EXCEPT ![t] = TRUE]
  /\ UNCHANGED <<waitq, place, st, rem, fact, owed, eventfd, pollVars, localVars>>

Tick ==
  /\ phase \in {"run", "poll"}
  /\ rem' = [t \in Waiters |-> IF st[t]["time"] = "off" \/ rem[t] = -1
                               THEN rem[t] ELSE rem[t] - 1]
  /\ pollrem' = Max({0, pollrem - 1})
  /\ UNCHANGED <<waitq, place, st, fact, cancel_req, owed, eventfd, pollVars,
                 dopoll, batch, full, notified, deferred, nexttimer>>

-----------------------------------------------------------------------------
\* scheduler_routine calls the event manager, polling when work is ready.
Enter ==
  /\ phase = "run"
  /\ phase' = "scan"
  /\ dopoll' = (\E t \in Waiters : place[t] = "ready")
  /\ UNCHANGED <<backend, waiterVars, owed, eventfd,
                 batch, full, notified, deferred, nexttimer, pollrem>>

\* Phase 1 marks what has come true in the waiting queue.
Scanned(t, k) ==
  IF st[t][k] = "pending" /\ t \in ToSet(waitq)
     /\ \/ k = "time" /\ rem[t] < 0
        \/ k \in {"tid", "func"} /\ fact[t] = "true"
  THEN "occurred" ELSE st[t][k]

\* Mutant: cancellation requests are not looked at.
WakeableUncancelled(t, status) ==
  \E k \in Kinds : status[t][k] \in {"occurred", "failed"}

Wakeable(t, status) ==
  cancel_req[t] \/ \E k \in Kinds : status[t][k] \in {"occurred", "failed"}

FirstOf(seq, n) == SubSeq(seq, 1, Min({n, Len(seq)}))

\* When the timer of t is due: its deadline, or the next look at a FUNC event.
\* No caller waits for both.
Due(t, status) == IF status[t]["time"] = "pending" THEN rem[t] ELSE FuncPeriod

Timers(status) ==
  SelectSeq(waitq, LAMBDA t : "pending" \in {status[t]["time"], status[t]["func"]})

\* The first of the timers that are due next.
NextTimer(status) ==
  LET q == Timers(status)
  IN  IF q = <<>> THEN NoWaiter
      ELSE q[CHOOSE i \in 1..Len(q) :
               /\ \A j \in 1..Len(q) : Due(q[i], status) <= Due(q[j], status)
               /\ \A j \in 1..(i - 1) : Due(q[i], status) < Due(q[j], status)]

ScanWaiting ==
  /\ phase = "scan"
  /\ st' = [t \in Waiters |-> [k \in Kinds |-> Scanned(t, k)]]
  /\ LET up == SelectSeq(waitq, LAMBDA t : Wakeable(t, st'))
     IN  /\ batch' = FirstOf(up, MaxWakeBatch)
         /\ full' = (Len(up) >= MaxWakeBatch)
         /\ notified' = (up # <<>>)
  /\ deferred' = FirstOf(SelectSeq(waitq, LAMBDA t : st[t]["select"] = "pending"),
                         MaxDeferredSelect)
  /\ nexttimer' = NextTimer(st')
  /\ phase' = "wake"
  /\ UNCHANGED <<backend, waitq, place, rem, fact, cancel_req, owed, eventfd, dopoll, pollrem>>

\* transfer_th from the waiting to the ready queue, which asserts that the
\* thread is in the former.
MakeReady(t) ==
  /\ place[t] = "waiting"
  /\ place' = [place EXCEPT ![t] = "ready"]
  /\ waitq' = SelectSeq(waitq, LAMBDA u : u # t)

Wake ==
  /\ phase = "wake" /\ batch # <<>>
  /\ MakeReady(Head(batch))
  /\ batch' = Tail(batch)
  /\ UNCHANGED <<st, rem, fact, cancel_req, owed, eventfd, pollVars,
                 dopoll, full, notified, deferred, nexttimer, pollrem>>

\* A full batch is followed by another look at the queue.
Rescan ==
  /\ phase = "wake" /\ batch = <<>> /\ full
  /\ LET up == SelectSeq(waitq, LAMBDA t : Wakeable(t, st))
     IN  /\ batch' = FirstOf(up, MaxWakeBatch)
         /\ full' = (Len(up) >= MaxWakeBatch)
  /\ UNCHANGED <<waiterVars, owed, eventfd, pollVars,
                 dopoll, notified, deferred, nexttimer, pollrem>>

\* Mutant: blocks although threads have just been made ready.
EndWakeBlocks ==
  /\ phase = "wake" /\ batch = <<>> /\ ~full
  /\ phase' = "select"
  /\ notified' = FALSE
  /\ UNCHANGED <<backend, waiterVars, owed, eventfd,
                 dopoll, batch, full, deferred, nexttimer, pollrem>>

EndWake ==
  /\ phase = "wake" /\ batch = <<>> /\ ~full
  /\ phase' = "select"
  /\ dopoll' = (dopoll \/ notified)
  /\ notified' = FALSE
  /\ UNCHANGED <<backend, waiterVars, owed, eventfd, batch, full, deferred, nexttimer, pollrem>>

\* select() on behalf of one thread, after the queue lock was released: an
\* event still PENDING occurs or fails, and the thread is made ready.
Select ==
  /\ phase = "select" /\ deferred # <<>>
  /\ LET t == Head(deferred)
     IN  IF st[t]["select"] = "pending" /\ fact[t] # "no"
         THEN /\ st' = [st EXCEPT ![t]["select"] =
                          IF fact[t] = "true" THEN "occurred" ELSE "failed"]
              /\ MakeReady(t)
              /\ dopoll' = TRUE
         ELSE UNCHANGED <<st, place, waitq, dopoll>>
  /\ deferred' = Tail(deferred)
  /\ UNCHANGED <<rem, fact, cancel_req, owed, eventfd, pollVars,
                 batch, full, notified, nexttimer, pollrem>>

\* Mutant: only the whole seconds of what is left count (deadlines are nearer).
TimeoutSeconds == IF nexttimer = NoWaiter THEN IdleWait ELSE 0

\* The timeout of the blocking call, in whole milliseconds, clamped.
Timeout ==
  IF nexttimer = NoWaiter THEN IdleWait
  ELSE Min({Clamp, (Due(nexttimer, st) \div Grain) * Grain})

\* A round ends: its locals go, and the caller or another round follows.
EndRound(next) ==
  /\ phase' = next
  /\ dopoll' = FALSE /\ nexttimer' = NoWaiter /\ pollrem' = 0
  /\ UNCHANGED <<backend, batch, full, notified, deferred>>

\* A poll that must not block: with the reactor there is none, the others
\* look once and consume a wake-up they find.
PollOnce ==
  /\ phase = "select" /\ deferred = <<>> /\ dopoll
  /\ EndRound("run")
  /\ eventfd' = (eventfd /\ backend = "reactor")
  /\ UNCHANGED <<waiterVars, owed>>

\* Mutant: empties the eventfd before it blocks.
StartPollDrains ==
  /\ phase = "select" /\ deferred = <<>> /\ ~dopoll
  /\ phase' = "poll"
  /\ eventfd' = FALSE
  /\ pollrem' = Timeout
  /\ UNCHANGED <<backend, waiterVars, owed,
                 dopoll, batch, full, notified, deferred, nexttimer>>

StartPoll ==
  /\ phase = "select" /\ deferred = <<>> /\ ~dopoll
  /\ phase' = "poll"
  /\ pollrem' = Timeout
  /\ UNCHANGED <<backend, waiterVars, owed, eventfd,
                 dopoll, batch, full, notified, deferred, nexttimer>>

\* The wake-up arrives first: it is consumed and the next round scans again.
PollWoken ==
  /\ phase = "poll" /\ eventfd
  /\ eventfd' = FALSE
  /\ EndRound("run")
  /\ UNCHANGED <<waiterVars, owed>>

\* timed_out: a FUNC event asks for another round, a deadline has come.
TimedOut ==
  IF nexttimer = NoWaiter
  THEN EndRound("run") /\ UNCHANGED <<st, place, waitq>>
  ELSE IF st[nexttimer]["func"] = "pending"
       THEN EndRound("scan") /\ UNCHANGED <<st, place, waitq>>
       ELSE /\ EndRound("run")
            /\ st' = [st EXCEPT ![nexttimer]["time"] = "occurred"]
            /\ MakeReady(nexttimer)

PollTimeout ==
  /\ phase = "poll" /\ ~eventfd /\ pollrem = 0
  /\ TimedOut
  /\ UNCHANGED <<rem, fact, cancel_req, owed, eventfd>>

\* EINTR: epoll_wait reports -1 and nothing happens, but the io_uring branch
\* takes every negative result for a timeout.
PollInterrupted ==
  /\ phase = "poll" /\ Interrupts /\ pollrem > 0
  /\ IF backend = "uring"
       THEN TimedOut ELSE EndRound("run") /\ UNCHANGED <<st, place, waitq>>
  /\ UNCHANGED <<rem, fact, cancel_req, owed, eventfd>>

-----------------------------------------------------------------------------
Manager ==
  \/ Enter \/ ScanWaiting \/ Wake \/ Rescan \/ EndWake \/ Select
  \/ PollOnce \/ StartPoll \/ PollWoken \/ PollTimeout

EventManagerNext ==
  \/ Manager \/ PollInterrupted \/ Tick
  \/ \E t \in Waiters :
       Wait(t) \/ Run(t) \/ Post(t) \/ Prod(t) \/ Happen(t) \/ RequestCancel(t)

EventManagerSpec == EventManagerInit /\ [][EventManagerNext]_eventManagerVars

-----------------------------------------------------------------------------
EventManagerTypeOK ==
  /\ waitq \in Seq(Waiters) /\ batch \in Seq(Waiters) /\ deferred \in Seq(Waiters)
  /\ place \in [Waiters -> {"user", "waiting", "ready"}]
  /\ st \in [Waiters -> [Kinds -> {"off", "pending", "occurred", "failed"}]]
  /\ rem \in [Waiters -> -1..MaxWait]
  /\ fact \in [Waiters -> {"no", "true", "error"}]
  /\ cancel_req \in [Waiters -> BOOLEAN]
  /\ owed \subseteq Waiters
  /\ phase \in {"run", "scan", "wake", "select", "poll"}
  /\ {eventfd, dopoll, full, notified} \subseteq BOOLEAN
  /\ backend \in Backends
  /\ nexttimer \in Waiters \union {NoWaiter}
  /\ pollrem \in Nat

\* Every thread the event manager is about to move, to select() for or to time
\* out is still in the waiting queue, and nobody is in that queue twice: the
\* asserted precondition of transfer_th, and what the deferred SELECT events,
\* which live on the stacks of those threads, are read under.  It needs that no
\* wait combines a SELECT event with another or is cancelled: such a thread would
\* be moved by the batch and once more by its SELECT event.  Both callers of
\* SELECT waits panic on the way in (SelectPoll), so none happens today.  (The
\* types of the state are checked along.)
MovesOnlyWaiters ==
  /\ EventManagerTypeOK
  /\ \A t \in Waiters : place[t] = "waiting" <=> t \in ToSet(waitq)
  /\ Cardinality(ToSet(waitq)) = Len(waitq)
  /\ \A t \in ToSet(batch) : place[t] = "waiting"
  /\ phase = "select" => \A t \in ToSet(deferred) : place[t] = "waiting"
  /\ phase = "poll" /\ nexttimer # NoWaiter => place[nexttimer] = "waiting"

\* A TIME event occurs when its time has elapsed and not before.
SleepsUntilElapsed ==
  \A t \in Waiters : st[t]["time"] = "occurred" => rem[t] <= 0

\* The rounding of the timeout lets a TIME event occur early by less than a
\* millisecond, however many timers and wake-ups compete for the poll, unless
\* a signal interrupts an io_uring wait, which ends the nearest sleep early.
EarlyByLessThanAMillisecond ==
  [][\A t \in Waiters :
       st[t]["time"] = "pending" /\ st'[t]["time"] = "occurred" =>
         \/ rem[t] < Grain
         \/ backend = "uring" /\ phase = "poll" /\ pollrem > 0]_eventManagerVars

\* The blocked scheduler has not missed a posted event: somebody has written
\* the eventfd since, or is about to.
NoMissedPost ==
  phase = "poll" => \A t \in Waiters :
    st[t]["sync"] = "occurred" /\ place[t] = "waiting" => eventfd \/ t \in owed

\* The SELECT events before t's in the queue use up the polls of a pass.
Crowded(t) ==
  LET ahead == {i \in 1..Len(waitq) : st[waitq[i]]["select"] = "pending"}
  IN  \E i \in ahead : waitq[i] = t
        /\ Cardinality({j \in ahead : j < i}) >= MaxDeferredSelect

\* What nobody announces has come true: a deadline, a termination, a readable or
\* closed descriptor, a predicate, a cancellation.
Noticeable(t) ==
  place[t] = "waiting" /\ (fact[t] # "no" \/ cancel_req[t] \/ rem[t] < 0)
=============================================================================
