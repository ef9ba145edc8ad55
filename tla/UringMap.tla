------------------------------ MODULE UringMap ------------------------------
(***************************************************************************)
(* The io_uring backend of internal/apth_event.c: a one-shot POLL_ADD, or a *)
(* direct read, per waiter.  The kernel carries the waiter's address as     *)
(* user_data until it posts the completion, so a waiter that is given up    *)
(* stays allocated on uring_pending_cancels until then.                     *)
(***************************************************************************)
EXTENDS FdWait

CONSTANTS SqSize,       \* entries of the submission queue
          MaxRequests   \* bound: waiters of one thread the kernel may hold

ASSUME UringConstants == SqSize \in Nat \ {0} /\ MaxRequests \in Nat \ {0}

VARIABLES direct,   \* threads whose call has a direct form (read, recv...)
          sq,       \* prepared entries, not submitted
          held,     \* requests the kernel holds
          cqes,     \* completions not processed
          pending,  \* uring_pending_cancels
          result,   \* uring_io_result of every thread's event
          revoked,  \* history: those of pending whose descriptor was closed
          lost      \* history: the given-up reads whose input the last step dropped

answerVars == <<result, revoked>>
ringVars == <<sq, held, cqes, pending, answerVars>>
uringVars == <<direct, ringVars, lost>>
uringAll == <<fdAll, uringVars>>

UringInit ==
  /\ direct \in SUBSET Readers
  /\ sq = <<>> /\ held = {} /\ cqes = {} /\ pending = {}
  /\ result = [t \in Readers |-> "zero"] /\ revoked = {} /\ lost = {}

UringTypeOK ==
  /\ Len(sq) <= SqSize /\ revoked \subseteq pending
  /\ result \in [Readers -> {"zero", "data", "error"}]
  /\ lost \subseteq [th : Readers, closed : BOOLEAN]

\* Allocated waiters: linked in a slot or pending.
Linked == UNION {ToSet(waiters[f]) : f \in Fds}
Allocated == Linked \cup pending
FreeIds(t) == {k \in 1 .. MaxRequests :
                 \A w \in Allocated : w.th = t => w.id # k}

Ops(t) == IF t \in direct THEN {"read"} ELSE {"poll"}
Entry(w) == [op |-> w.op, w |-> w]
CancelEntry(w) == [op |-> "cancel", w |-> w]
Cqe(w, got) == [w |-> w, got |-> got]

\* The kernel takes one submitted entry.  A request completes at once if the
\* number is closed or readable, a read with the input; otherwise it is held
\* on the file that has the number now.  A cancel completes a held request.
Takes(k, e) ==
  IF e.op = "cancel"
    THEN [k EXCEPT
            !.held = {h \in @ : h.w # e.w},
            !.cqes = @ \cup {Cqe(e.w, FALSE) : h \in {g \in k.held : g.w = e.w}}]
    ELSE IF e.w.fd \notin open \/ e.w.fd \in k.ready
           THEN [k EXCEPT
                   !.cqes = @ \cup {Cqe(e.w, e.op = "read" /\ e.w.fd \in open)},
                   !.ready = IF e.op = "read" THEN @ \ {e.w.fd} ELSE @]
           ELSE [k EXCEPT !.held = @ \cup {[w |-> e.w, gen |-> reopens[e.w.fd]]}]

Kernel == [held |-> held, cqes |-> cqes, ready |-> ready]
Submitted == FoldLeft(Takes, Kernel, sq)

\* io_uring_get_sqe, with a flush when the queue is full.
Queue(e) ==
  LET full == Len(sq) = SqSize
      k == IF full THEN Submitted ELSE Kernel
  IN  /\ sq' = IF full THEN <<e>> ELSE Append(sq, e)
      /\ held' = k.held /\ cqes' = k.cqes /\ ready' = k.ready

\* uring_map_add_waiter and uring_direct_submit_and_wait: the waiter is
\* linked and its entry queued; when no entry can be had the poll stays
\* unregistered and the direct read returns.
UringAdd(t, op) ==
  /\ where[t] = "again"
  /\ \E k \in FreeIds(t) :
       LET w == [th |-> t, id |-> k, fd |-> at[t], op |-> op]
       IN  /\ \A j \in FreeIds(t) : k <= j
           /\ Link(w, at[t]) /\ Queue(Entry(w))
           /\ event' = [event EXCEPT ![t] = [status |-> "pending",
                                             registered |-> TRUE, waiter |-> k]]
  /\ Goto(t, "waiting")
  /\ NoteRace(at[t])
  /\ UNCHANGED <<direct, open, reopens, at, epollVars, closes, reactorUp,
                 pending, answerVars>>

UringAddFails(t, op) ==
  /\ where[t] = "again" /\ Len(sq) = SqSize
  /\ event' = [event EXCEPT ![t] = FreshEvent]
  /\ Goto(t, IF op = "poll" THEN "waiting" ELSE "run")
  /\ registered' = IF op = "poll" THEN registered \cup {at[t]} ELSE registered
  /\ UNCHANGED <<kernelVars, at, epollVars, waiters, count, noticeVars,
                 direct, ringVars>>

\* Phase 1 tries an unregistered event again, and fails it if that fails.
UringAddAgain(t) ==
  /\ ~Busy /\ Waits(t) /\ ~event[t].registered
  /\ \/ /\ \E k \in FreeIds(t) :
             LET w == [th |-> t, id |-> k, fd |-> at[t], op |-> "poll"]
             IN  /\ \A j \in FreeIds(t) : k <= j
                 /\ Link(w, at[t]) /\ Queue(Entry(w))
                 /\ event' = [event EXCEPT ![t].registered = TRUE,
                                           ![t].waiter = k]
        /\ NoteRace(at[t])
        /\ UNCHANGED <<pending, answerVars>>
     \/ /\ Len(sq) = SqSize
        /\ event' = [event EXCEPT ![t].status = "failed"]
        /\ UNCHANGED <<ready, slotVars, raced, ringVars>>
  /\ UNCHANGED <<open, reopens, where, at, epollVars, closes, reactorUp,
                 direct>>

Mine(t) == CHOOSE w \in Linked : w.th = t /\ w.id = event[t].waiter

\* Mutant: frees the waiter at once.
UringWakeFrees(t) ==
  /\ ~Busy /\ where[t] = "waiting"
  /\ event[t].status # "pending" \/ t \in Impatient
  /\ IF event[t].registered
       THEN /\ waiters' = [waiters EXCEPT ![at[t]] = Remove(@, Mine(t))]
            /\ count' = [count EXCEPT ![at[t]] = @ - 1]
       ELSE UNCHANGED <<waiters, count>>
  /\ event' = [event EXCEPT ![t] = FreshEvent]
  /\ Goto(t, "run")
  /\ UNCHANGED <<kernelVars, at, epollVars, registered, noticeVars,
                 direct, ringVars>>

\* Mutant: resumes a thread whose event is pending.
UringWakeAny(t) ==
  /\ ~Busy /\ where[t] = "waiting" /\ event[t].registered
  /\ waiters' = [waiters EXCEPT ![at[t]] = Remove(@, Mine(t))]
  /\ count' = [count EXCEPT ![at[t]] = @ - 1]
  /\ pending' = pending \cup {Mine(t)}
  /\ event' = [event EXCEPT ![t] = FreshEvent]
  /\ Goto(t, "run")
  /\ UNCHANGED <<direct, kernelVars, at, epollVars, registered, noticeVars, sq,
                 held, cqes, answerVars>>

\* uring_map_remove_waiter when the thread is resumed: the waiter moves to
\* the pending list and a cancel is queued if there is room.  A direct read
\* returns what is in its result.
UringWake(t) ==
  /\ ~Busy /\ where[t] = "waiting"
  /\ event[t].status # "pending" \/ t \in Impatient
  /\ IF event[t].registered
       THEN /\ waiters' = [waiters EXCEPT ![at[t]] = Remove(@, Mine(t))]
            /\ count' = [count EXCEPT ![at[t]] = @ - 1]
            /\ pending' = pending \cup {Mine(t)}
            /\ sq' = IF Len(sq) < SqSize
                       THEN Append(sq, CancelEntry(Mine(t))) ELSE sq
       ELSE UNCHANGED <<waiters, count, pending, sq>>
  /\ event' = [event EXCEPT ![t] = FreshEvent]
  /\ result' = [result EXCEPT ![t] = "zero"]
  /\ Goto(t, "run")
  /\ UNCHANGED <<direct, kernelVars, at, epollVars, registered, noticeVars,
                 held, cqes, revoked>>

\* Every event of these waiters gets this outcome and forgets its waiter.
Settle(W, status) ==
  event' = [t \in Readers |->
              IF \E w \in W : w.th = t
                THEN [status |-> status, registered |-> FALSE,
                      waiter |-> NoWaiter]
                ELSE event[t]]

\* Phase 0 with uring_map_fail_all_waiters_for_fd: no cancel is queued.
UringCloses ==
  /\ ~Busy /\ closes # <<>>
  /\ LET F == ToSet(closes)
         W == UNION {ToSet(waiters[f]) : f \in F}
     IN  /\ Settle(W, "failed")
         /\ pending' = pending \cup W /\ revoked' = revoked \cup W
         /\ waiters' = [f \in Fds |-> IF f \in F THEN <<>> ELSE waiters[f]]
         /\ count' = [f \in Fds |-> IF f \in F THEN 0 ELSE count[f]]
  /\ closes' = <<>>
  /\ UNCHANGED <<direct, kernelVars, where, at, epollVars, registered,
                 reactorUp, raced, sq, held, cqes, result>>

\* Phase 2: everything queued is submitted, then uring_process_cqe frees the
\* given-up waiters and completes the others.  On an error of the wait the
\* completions are left for the next round.
UringPoll ==
  /\ ~Busy
  /\ sq # <<>> \/ cqes # {}
  /\ LET k == Submitted
         done == {c.w : c \in k.cqes}
         reads == {c \in k.cqes : c.w.op = "read"}
         answered(t, got) ==
           \E c \in reads : c.w.th = t /\ c.got = got /\ c.w \notin pending
     IN  /\ held' = k.held /\ ready' = k.ready /\ sq' = <<>>
         /\ \/ /\ cqes' = {}
               /\ pending' = pending \ done /\ revoked' = revoked \ done
               /\ waiters' = [f \in Fds |->
                                SelectSeq(waiters[f], LAMBDA w : w \notin done)]
               /\ count' = [f \in Fds |->
                              count[f] - Cardinality({w \in done \ pending :
                                                        w.fd = f})]
               /\ Settle(done \ pending, "occurred")
               /\ result' = [t \in Readers |->
                    CASE answered(t, TRUE) -> "data"
                      [] answered(t, FALSE) -> "error"
                      [] OTHER -> result[t]]
               /\ lost' = {[th |-> c.w.th, closed |-> c.w \in revoked] :
                            c \in {d \in reads : d.got /\ d.w \in pending}}
            \/ /\ cqes' = k.cqes /\ lost' = {}
               /\ UNCHANGED <<pending, waiters, count, event, answerVars>>
  /\ UNCHANGED <<direct, open, reopens, where, at, epollVars, registered,
                 noticeVars>>

\* Input completes the polls held on the file, and one of the reads takes it.
UringInput(f) ==
  /\ f \in open
  /\ LET here == {h \in held : h.w.fd = f /\ h.gen = reopens[f]}
         polls == {h \in here : h.w.op = "poll"}
         reads == here \ polls
     IN  \/ /\ reads = {}
            /\ ready' = ready \cup {f}
            /\ held' = held \ polls
            /\ cqes' = cqes \cup {Cqe(h.w, FALSE) : h \in polls}
         \/ \E r \in reads :
              /\ held' = held \ (polls \cup {r})
              /\ cqes' = cqes \cup {Cqe(h.w, FALSE) : h \in polls}
                              \cup {Cqe(r.w, TRUE)}
              /\ UNCHANGED ready
  /\ UNCHANGED <<direct, open, reopens, clientVars, epollVars, slotVars,
                 noticeVars, sq, pending, answerVars>>

UringClient(t) ==
  \/ /\ ~Busy
     /\ \E f \in Fds : ReadAgain(t, f) \/ ReadData(t, f)
     /\ UNCHANGED <<epollVars, slotVars, noticeVars, direct, ringVars>>
  \/ \E op \in Ops(t) : UringAdd(t, op) \/ UringAddFails(t, op)
  \/ UringAddAgain(t) \/ UringWake(t)
  \/ /\ \E f \in Fds : BeginClose(t, f) /\ NotifySchedulers(f)
     /\ UNCHANGED <<epollVars, slotVars, reactorUp, direct, ringVars>>
  \/ RawClose(t) /\ UNCHANGED <<epollVars, slotVars, noticeVars, direct, ringVars>>

UringWorld(f) ==
  \/ UringInput(f)
  \/ Reopen(f) /\ UNCHANGED <<epollVars, slotVars, noticeVars, direct, ringVars>>

UringNext ==
  \/ /\ \/ \E t \in Readers : UringClient(t)
        \/ \E f \in Fds : UringWorld(f)
        \/ UringCloses
     /\ lost' = {}
  \/ UringPoll

UringSpec ==
  FdInit /\ reactorUp \in BOOLEAN /\ UringInit /\ [][UringNext]_uringAll

-----------------------------------------------------------------------------
(* Properties *)

Requested == {e.w : e \in {d \in ToSet(sq) : d.op # "cancel"}}
Held == {h.w : h \in held}
Completed == {c.w : c \in cqes}

\* The kernel refers to exactly the allocated waiters, and to each of them
\* once: uring_process_cqe never follows user_data into freed memory, frees
\* no waiter twice, and every given-up waiter still has the completion that
\* will free it.
KernelHoldsAllocated ==
  /\ Allocated = Requested \cup Held \cup Completed
  /\ Linked \cap pending = {}
  /\ Requested \cap Held = {} /\ Requested \cap Completed = {}
  /\ Held \cap Completed = {}

\* A linked waiter is the one its sleeping thread's pending event points to,
\* so a completion never stores into the frame of a thread that runs.
LinkedAreSleepers ==
  /\ \A f \in Fds :
       count[f] = Len(waiters[f]) /\ IsInjective(waiters[f])
  /\ \A w \in Linked : /\ Waits(w.th) /\ at[w.th] = w.fd
                       /\ event[w.th].registered /\ event[w.th].waiter = w.id
  /\ \A t \in Readers : Waits(t) /\ event[t].registered =>
       \E w \in Linked : w.th = t

UringIdle == sq = <<>> /\ cqes = {} /\ closes = <<>> /\ ~Busy

\* With no completion outstanding nobody sleeps on a readable descriptor,
\* unless the wait began while the descriptor was being closed or, with a
\* reactor, before: polls are armed per wait, so no readiness is missed.
UringNoSleeperOnReadyFd ==
  UringIdle => \A t \in Readers :
    Waits(t) /\ event[t].registered /\ at[t] \in ready =>
      at[t] \in raced \/ (reactorUp /\ reopens[at[t]] > 0)

\* Without a reactor, closing a descriptor ends the waits on it unless the wait
\* began after the notice and before the close, or the notice was dropped.
\* With a reactor the notice never reaches the scheduler that keeps the
\* waiter: nothing is claimed then.
UringNobodySleepsOnClosedFd ==
  UringIdle /\ ~reactorUp => \A t \in Readers :
    Waits(t) /\ event[t].registered => at[t] \in open \/ at[t] \in raced

\* A direct read gives its thread the result of its own completion.  The call
\* has a result when and only when the kernel has completed it; input that the
\* kernel took reaches the thread, unless that very wait was ended before the
\* completion by a cancellation request or by the notice of a close.  (Such a
\* call returns 0, and the input is gone.)
DirectReadDelivers ==
  /\ \A t \in direct : where[t] = "waiting" =>
       (result[t] # "zero" <=> event[t].status = "occurred")
  /\ \A l \in lost : l.closed \/ l.th \in Impatient
=============================================================================
