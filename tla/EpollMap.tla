------------------------------ MODULE EpollMap ------------------------------
(***************************************************************************)
(* The per-scheduler epoll backend of internal/apth_event.c, used when the  *)
(* reactor could not be started: the scheduler itself links, wakes and      *)
(* removes the waiters of its threads.  A thread has at most one waiter.    *)
(***************************************************************************)
EXTENDS FdWait

VARIABLE skipped  \* history: descriptors whose close notice found no waiter

epollMapAll == <<fdAll, skipped>>

EpollMapInit == skipped = {}

Waiter(t) == [th |-> t, id |-> 1]
Detached(ev) == [ev EXCEPT !.registered = FALSE, !.waiter = NoWaiter]

\* apth_wait_event with epoll_map_add_waiter.
EpollAdd(t) ==
  /\ where[t] = "again"
  /\ Goto(t, "waiting")
  /\ NoteRace(at[t])
  /\ IF Addable(at[t])
       THEN /\ LinkAndArm(Waiter(t), at[t])
            /\ event' = [event EXCEPT ![t] = [status |-> "pending",
                                              registered |-> TRUE, waiter |-> 1]]
       ELSE /\ event' = [event EXCEPT ![t] = FreshEvent]
            /\ UNCHANGED <<slotVars, epollVars>>
  /\ UNCHANGED <<kernelVars, at, closes, reactorUp, skipped>>

\* Phase 1 tries again for an event that could not be registered.
EpollAddAgain(t) ==
  /\ ~Busy /\ Waits(t) /\ ~event[t].registered
  /\ NoteRace(at[t])
  /\ IF Addable(at[t])
       THEN /\ LinkAndArm(Waiter(t), at[t])
            /\ event' = [event EXCEPT ![t].registered = TRUE, ![t].waiter = 1]
       ELSE /\ event' = [event EXCEPT ![t].status = "failed"]
            /\ UNCHANGED <<slotVars, epollVars>>
  /\ UNCHANGED <<kernelVars, where, at, closes, reactorUp, skipped>>

\* epoll_map_remove_waiter when the thread is resumed: its event is done, its
\* deadline has passed or it is being cancelled.
EpollWakeThread(t) ==
  /\ ~Busy /\ where[t] = "waiting"
  /\ event[t].status # "pending" \/ t \in Impatient
  /\ IF event[t].registered
       THEN /\ waiters' = [waiters EXCEPT ![at[t]] = Remove(@, Waiter(t))]
            /\ count' = [count EXCEPT ![at[t]] = @ - 1]
       ELSE UNCHANGED <<waiters, count>>
  /\ event' = [event EXCEPT ![t] = FreshEvent]
  /\ Goto(t, "run")
  /\ UNCHANGED <<kernelVars, at, epollVars, registered, noticeVars, skipped>>

\* Every event of a waiter in one of these lists gets this outcome.
Complete(F, status) ==
  event' = [t \in Readers |->
              IF \E f \in F : Waiter(t) \in ToSet(waiters[f])
                THEN Detached([event[t] EXCEPT !.status = status])
                ELSE event[t]]

Empty(F) ==
  /\ waiters' = [f \in Fds |-> IF f \in F THEN <<>> ELSE waiters[f]]
  /\ count' = [f \in Fds |-> IF f \in F THEN 0 ELSE count[f]]

\* Phase 0, sched_process_pending_fd_closes: a slot with waiters is emptied,
\* taken out of epoll and unregistered; one without is left alone.
FailClosed(F) ==
  /\ Complete(F, "failed") /\ Empty(F)
  /\ registered' = registered \ F
  /\ armed' = armed \ F /\ edge' = edge \ F

EpollCloses ==
  /\ ~Busy /\ closes # <<>>
  /\ FailClosed({f \in ToSet(closes) : count[f] # 0})
  /\ skipped' = skipped \cup
                  {f \in ToSet(closes) \cap registered : count[f] = 0}
  /\ closes' = <<>>
  /\ UNCHANGED <<kernelVars, where, at, reactorUp, raced>>

\* Phase 2: epoll_wait and epoll_map_wake_fd for each reported descriptor.
EpollReports ==
  /\ ~Busy /\ edge # {}
  /\ LET F == {f \in edge : Matched(f)} IN Complete(F, "occurred") /\ Empty(F)
  /\ edge' = {}
  /\ UNCHANGED <<kernelVars, where, at, armed, registered, noticeVars,
                 skipped>>

EpollClient(t) ==
  \/ /\ ~Busy
     /\ \E f \in Fds : ReadAgain(t, f) \/ ReadData(t, f)
     /\ UNCHANGED <<epollVars, slotVars, noticeVars, skipped>>
  \/ EpollAdd(t) \/ EpollAddAgain(t) \/ EpollWakeThread(t)
  \/ /\ \E f \in Fds : BeginClose(t, f) /\ NotifySchedulers(f)
     /\ UNCHANGED <<epollVars, slotVars, reactorUp, skipped>>
  \/ RawCloseDisarms(t) /\ UNCHANGED <<slotVars, noticeVars, skipped>>

EpollWorld(f) ==
  \/ ArriveWithEdge(f) /\ UNCHANGED <<armed, slotVars, noticeVars, skipped>>
  \/ OtherEdge(f) /\ UNCHANGED <<slotVars, noticeVars, skipped>>
  \/ Reopen(f) /\ UNCHANGED <<epollVars, slotVars, noticeVars, skipped>>

EpollMapNext ==
  \/ \E t \in Readers : EpollClient(t)
  \/ \E f \in Fds : EpollWorld(f)
  \/ EpollCloses \/ EpollReports

EpollMapSpec ==
  FdInit /\ reactorUp = FALSE /\ EpollMapInit /\ [][EpollMapNext]_epollMapAll

-----------------------------------------------------------------------------
(* Properties *)

\* The waiter lists hold exactly the threads that wait with a registered
\* event, each in the slot of its descriptor and with its event pending:
\* epoll_map_wake_fd and fail_all never store into the frame of a thread
\* that runs, and no registered sleeper is out of their reach.
WaitersAreSleepers ==
  \A f \in Fds :
    /\ IsInjective(waiters[f]) /\ count[f] = Len(waiters[f])
    /\ ToSet(waiters[f]) = {Waiter(t) : t \in {u \in Readers :
                              /\ Waits(u) /\ event[u].registered
                              /\ at[u] = f}}

EpollIdle == closes = <<>> /\ edge = {} /\ ~Busy

\* With nothing left to report, a thread asleep on a readable descriptor
\* sleeps on a slot that is marked registered and is not in epoll: adding
\* the waiter and yielding is atomic for the scheduler, so no edge is missed.
\* (The retry of Phase 1 for a number that was closed under the thread is
\* not, and can miss one.)
EpollSleeperIsUnarmed ==
  EpollIdle => \A t \in Readers :
    Waits(t) /\ event[t].registered /\ at[t] \in ready \cap armed =>
      at[t] \in raced

\* Closing a descriptor ends the waits on it unless the wait began after the
\* notice and before the close, or the notice was dropped.
EpollNobodySleepsOnClosedFd ==
  EpollIdle => \A t \in Readers :
    Waits(t) /\ event[t].registered =>
      at[t] \in open \/ at[t] \in raced \cup skipped

\* A slot stays registered without being in epoll only for those reasons or
\* because nobody waited when the notice was processed.
UnarmedSlotIsExplained ==
  \A f \in registered :
    f \in armed \/ f \in ToSet(closes) \/ f \in raced \cup skipped
=============================================================================
