------------------------------- MODULE Reactor -------------------------------
(***************************************************************************)
(* The global I/O reactor (internal/apth_reactor.c): a pthread that owns an *)
(* edge-triggered epoll instance and the waiter lists of all descriptors.   *)
(* Threads and schedulers send it requests through a bounded queue; it      *)
(* stores the outcome into the waiting thread's event, on that thread's     *)
(* stack, while the thread's scheduler polls the same event.                *)
(***************************************************************************)
EXTENDS FdWait

CONSTANTS QueueSize,    \* REACTOR_REQ_QUEUE_SIZE
          MaxWaiters    \* bound: waiters and watch requests of an impatient
                        \* thread; the others have one

ASSUME ReactorConstants == QueueSize \in Nat \ {0} /\ MaxWaiters \in Nat \ {0}

VARIABLES reqs,     \* the request queue
          batch,    \* local_reqs: what drain_requests copied out
          todo,     \* waiters the current loop has still to complete
          half,     \* the head of todo has its status, not the rest
          astray,   \* the reactor followed a pointer out of a dead frame
          missed    \* history: threads whose edge found no waiter

loopVars == <<todo, half, astray>>
reactorVars == <<reqs, batch, loopVars, missed>>
reactorAll == <<fdAll, reactorVars>>

ReactorInit ==
  /\ reqs = <<>> /\ batch = <<>> /\ todo = <<>> /\ half = FALSE
  /\ astray = FALSE /\ missed = {}

Watch(t, f) == [type |-> "watch", fd |-> f, th |-> t]
Unwatch(t, f) == [type |-> "unwatch", fd |-> f, th |-> t]
FdClose(t, f) == [type |-> "close", fd |-> f, th |-> t]

Queued == ToSet(reqs) \cup ToSet(batch)
Room == Len(reqs) < QueueSize

\* Mutant: does not look at the room in the queue.
SubmitUnchecked(r) == reqs' = Append(reqs, r)

\* A request is appended, or dropped when the queue is full.
Submit(r) == reqs' = IF Room THEN Append(reqs, r) ELSE reqs

Ids == 1 .. MaxWaiters
Requests(t) == {i \in 1 .. Len(reqs) : reqs[i].th = t /\ reqs[i].type = "watch"}
               \cup {i + QueueSize : i \in {j \in 1 .. Len(batch) :
                       batch[j].th = t /\ batch[j].type = "watch"}}
Bounded(t) == Cardinality(WaitersOf(t)) + Cardinality(Requests(t)) <
              IF t \in Impatient THEN MaxWaiters ELSE 1

-----------------------------------------------------------------------------
(* Threads and their schedulers *)

\* apth_wait_event and apth_reactor_submit_watch up to the unlock.
SubmitWatch(t) ==
  /\ where[t] = "again" /\ Bounded(t)
  /\ event' = [event EXCEPT ![t] = FreshEvent]
  /\ Submit(Watch(t, at[t]))
  /\ Goto(t, IF Room THEN "queued" ELSE "waiting")
  /\ NoteRace(at[t])
  /\ UNCHANGED <<kernelVars, at, closes, reactorUp, epollVars, slotVars,
                 batch, loopVars, missed>>

\* The end of submit_watch: epoll_registered is set outside the lock.
MarkRegistered(t) ==
  /\ where[t] = "queued"
  /\ event' = [event EXCEPT ![t].registered = TRUE]
  /\ Goto(t, "waiting")
  /\ UNCHANGED <<kernelVars, at, epollVars, slotVars, noticeVars,
                 reactorVars>>

\* Phase 1 of the event manager: a pending event that is not registered is
\* submitted again, and fails when the queue is full.
EmRewatch(t) ==
  /\ Waits(t) /\ ~event[t].registered /\ Bounded(t)
  /\ Submit(Watch(t, at[t]))
  /\ IF Room
       THEN Goto(t, "queued") /\ UNCHANGED event
       ELSE /\ event' = [event EXCEPT ![t].status = "failed"]
            /\ UNCHANGED where
  /\ NoteRace(at[t])
  /\ UNCHANGED <<kernelVars, at, closes, reactorUp, epollVars, slotVars,
                 batch, loopVars, missed>>

\* The event manager resumes a thread whose event is done, whose deadline
\* has passed or that is being cancelled; a registration that is still
\* marked is withdrawn by request.  The event is dead afterwards; of its
\* memory only the waiter pointer matters, which an unwatch may still read.
EmWake(t) ==
  /\ where[t] = "waiting"
  /\ event[t].status # "pending" \/ t \in Impatient
  /\ IF event[t].registered
       THEN Submit(Unwatch(t, at[t]))
       ELSE UNCHANGED reqs
  /\ event' = [event EXCEPT ![t].registered = FALSE, ![t].status = "pending"]
  /\ Goto(t, "run")
  /\ missed' = missed \ {t}
  /\ UNCHANGED <<kernelVars, at, epollVars, slotVars, noticeVars, batch,
                 loopVars>>

\* close(): apth_reactor_notify_fd_closed, then the raw close.
Close(t, f) ==
  /\ BeginClose(t, f)
  /\ Submit(FdClose(t, f))
  /\ raced' = IF Room THEN raced ELSE raced \cup {f}
  /\ UNCHANGED <<closes, reactorUp, epollVars, slotVars, batch, loopVars,
                 missed>>

CloseDone(t) ==
  /\ RawCloseDisarms(t)
  /\ UNCHANGED <<slotVars, noticeVars, reactorVars>>

Input(f) ==
  /\ ArriveWithEdge(f)
  /\ UNCHANGED <<armed, slotVars, noticeVars, reactorVars>>

Elsewhere == <<epollVars, slotVars, noticeVars, reactorVars>>

ReaderStep(t) ==
  \/ \E f \in Fds : ReadAgain(t, f) /\ UNCHANGED Elsewhere
  \/ \E f \in Fds : ReadData(t, f) /\ UNCHANGED Elsewhere
  \/ SubmitWatch(t) \/ MarkRegistered(t) \/ EmRewatch(t) \/ EmWake(t)
  \/ (\E f \in Fds : Close(t, f)) \/ CloseDone(t)

World(f) ==
  \/ Input(f)
  \/ OtherEdge(f) /\ UNCHANGED <<slotVars, noticeVars, reactorVars>>
  \/ Reopen(f) /\ UNCHANGED Elsewhere

-----------------------------------------------------------------------------
(* The reactor's thread *)

\* reactor_drain_requests copies the queue once the last batch and its
\* epoll events are served.
Drain ==
  /\ batch = <<>> /\ todo = <<>> /\ reqs # <<>>
  /\ batch' = reqs /\ reqs' = <<>>
  /\ UNCHANGED <<fdAll, loopVars, missed>>

Serving(type) == todo = <<>> /\ batch # <<>> /\ Head(batch).type = type

\* process_watch: link a waiter or fail the event.
ProcessWatch ==
  /\ Serving("watch")
  /\ LET f == Head(batch).fd
         t == Head(batch).th
         k == CHOOSE k \in Ids : [th |-> t, id |-> k] \notin WaitersOf(t)
     IN  IF Addable(f)
           THEN /\ LinkAndArm([th |-> t, id |-> k], f)
                /\ event' = [event EXCEPT ![t].waiter = k]
           ELSE /\ event' = [event EXCEPT
                      ![t].waiter = NoWaiter,
                      ![t].status = IF Live(t) THEN "failed" ELSE @]
                /\ UNCHANGED <<slotVars, epollVars>>
  /\ batch' = Tail(batch)
  /\ UNCHANGED <<kernelVars, where, at, noticeVars, reqs, loopVars, missed>>

\* process_unwatch: the waiter is found through the event, which may be dead
\* by now.  Dead memory holds the old value, has been cleared, or holds what
\* the thread has put there since: then the behaviour ends.
UnwatchAstray ==
  /\ Serving("unwatch") /\ ~Live(Head(batch).th)
  /\ astray' = TRUE
  /\ UNCHANGED <<fdAll, reqs, batch, todo, half, missed>>

ProcessUnwatch ==
  /\ Serving("unwatch")
  /\ LET f == Head(batch).fd
         t == Head(batch).th
     IN  \E k \in {event[t].waiter} \cup
                    (IF Live(t) THEN {} ELSE {NoWaiter}) :
           IF k = NoWaiter
             THEN UNCHANGED <<event, waiters, count>>
             ELSE /\ waiters' = [g \in Fds |->
                                   Remove(waiters[g], [th |-> t, id |-> k])]
                  /\ count' = [count EXCEPT ![f] = @ - 1]
                  /\ event' = [event EXCEPT ![t].waiter = NoWaiter]
  /\ batch' = Tail(batch)
  /\ UNCHANGED <<kernelVars, where, at, epollVars, registered, noticeVars,
                 reqs, loopVars, missed>>

\* The waiters of f in the order in which the loop visits them.
Outcomes(f, status) ==
  [i \in 1 .. Len(waiters[f]) |-> [w |-> waiters[f][i], fd |-> f,
                                   status |-> status]]

\* Mutant: leaves the slot registered when nobody waits.
ProcessCloseKeepsSlot ==
  /\ Serving("close")
  /\ LET f == Head(batch).fd
     IN  /\ todo' = Outcomes(f, "failed")
         /\ count' = [count EXCEPT ![f] = 0]
         /\ registered' = IF count[f] = 0 THEN registered ELSE registered \ {f}
  /\ batch' = Tail(batch)
  /\ UNCHANGED <<fdVars, epollVars, waiters, noticeVars, reqs, half, astray,
                 missed>>

\* process_fd_close: every waiter fails and the slot is unregistered.
ProcessClose ==
  /\ Serving("close")
  /\ LET f == Head(batch).fd
     IN  /\ todo' = IF count[f] = 0 THEN <<>> ELSE Outcomes(f, "failed")
         /\ count' = [count EXCEPT ![f] = 0]
         /\ registered' = registered \ {f}
  /\ batch' = Tail(batch)
  /\ UNCHANGED <<fdVars, epollVars, waiters, noticeVars, reqs, half, astray,
                 missed>>

\* Mutant: completes one waiter per descriptor.
EpollWaitFirst ==
  /\ batch = <<>> /\ todo = <<>> /\ edge # {}
  /\ \E order \in SetToSeqs({f \in edge : Matched(f) /\ waiters[f] # <<>>}) :
       todo' = [i \in DOMAIN order |-> Outcomes(order[i], "occurred")[1]]
  /\ edge' = {}
  /\ missed' = missed \cup
       {t \in Readers : /\ at[t] \in edge \cap ready
                        /\ \/ where[t] = "again"
                           \/ Live(t) /\ event[t].waiter = NoWaiter}
  /\ UNCHANGED <<fdVars, armed, slotVars, noticeVars, reqs, batch, half, astray>>

\* epoll_wait reports the descriptors with an edge and what holds for them
\* now; process_epoll_events visits their waiters and takes those it matches.
EpollWait ==
  /\ batch = <<>> /\ todo = <<>> /\ edge # {}
  /\ \E order \in SetToSeqs({f \in edge : Matched(f)}) :
       todo' = FlattenSeq([i \in DOMAIN order |->
                             Outcomes(order[i], "occurred")])
  /\ edge' = {}
  /\ missed' = missed \cup
       {t \in Readers : /\ at[t] \in edge \cap ready
                        /\ \/ where[t] = "again"
                           \/ Live(t) /\ event[t].waiter = NoWaiter}
  /\ UNCHANGED <<fdVars, armed, slotVars, noticeVars, reqs, batch, half, astray>>

\* The status is stored first: from here on the thread may run.  A store
\* into the memory of a thread that runs already changes no event.
CompleteStatus ==
  /\ todo # <<>> /\ ~half
  /\ LET t == Head(todo).w.th
     IN  event' = IF Live(t)
                    THEN [event EXCEPT ![t].status = Head(todo).status]
                    ELSE event
  /\ half' = TRUE
  /\ UNCHANGED <<kernelVars, where, at, epollVars, slotVars, noticeVars, reqs,
                 batch, todo, astray, missed>>

\* Then the rest of the event, the scheduler's eventfd and the list.
CompleteRest ==
  /\ todo # <<>> /\ half
  /\ LET d == Head(todo)
     IN  /\ event' = [event EXCEPT ![d.w.th].waiter = NoWaiter,
                                   ![d.w.th].registered = FALSE]
         /\ waiters' = [waiters EXCEPT ![d.fd] = Remove(@, d.w)]
         /\ count' = [count EXCEPT ![d.fd] =
                        IF d.status = "occurred" THEN @ - 1 ELSE @]
  /\ todo' = Tail(todo) /\ half' = FALSE
  /\ UNCHANGED <<kernelVars, where, at, epollVars, registered, noticeVars,
                 reqs, batch, astray, missed>>

ReactorStep ==
  \/ Drain \/ ProcessWatch \/ ProcessUnwatch \/ UnwatchAstray \/ ProcessClose
  \/ EpollWait \/ CompleteStatus \/ CompleteRest

ReactorNext ==
  /\ ~astray
  /\ \/ \E t \in Readers : ReaderStep(t)
     \/ \E f \in Fds : World(f)
     \/ ReactorStep

ReactorSpec ==
  FdInit /\ reactorUp = TRUE /\ ReactorInit /\ [][ReactorNext]_reactorAll

-----------------------------------------------------------------------------
ReactorTypeOK ==
  /\ FdTypeOK
  /\ Len(reqs) <= QueueSize /\ Len(batch) <= QueueSize
  /\ half => todo # <<>>

\* The reactor has nothing left to do.
Idle == reqs = <<>> /\ batch = <<>> /\ todo = <<>> /\ edge = {}

\* A registered event that is still pending can be completed: its watch
\* request is on the way or its waiter is in the slot's list.  Otherwise the
\* thread would sleep forever, because nothing submits it again.
PendingIsTracked ==
  \A t \in Readers :
    Waits(t) /\ event[t].registered =>
      \/ Watch(t, at[t]) \in Queued
      \/ \E w \in ToSet(waiters[at[t]]) : w.th = t

\* waiter_count is the length of the waiter list, so process_fd_close never
\* takes its early return with waiters in the list.
CountIsLength ==
  todo = <<>> => \A f \in Fds : count[f] = Len(waiters[f])

\* A slot that is marked registered is in epoll's interest list, unless
\* somebody watched the descriptor while it was being closed or the close
\* notice found the queue full.
RegisteredIsArmed ==
  \A f \in registered :
    \/ f \in armed \/ f \in raced
    \/ \E r \in Queued : r.type = "close" /\ r.fd = f

\* Closing a descriptor ends the waits on it, with the same exceptions.
NobodySleepsOnClosedFd ==
  Idle => \A t \in Readers :
    Waits(t) /\ event[t].registered /\ at[t] \notin raced => at[t] \in open

\* When the reactor is idle, whoever sleeps on a readable descriptor had an
\* edge reported before its waiter was in the list.
SleeperMissedItsEdge ==
  Idle => \A t \in Readers :
    Waits(t) /\ event[t].registered /\ at[t] \in ready \ raced => t \in missed

\* "When FDs become ready, the reactor marks events as occurred and wakes the
\* appropriate scheduler": nobody sleeps on a readable descriptor while the
\* reactor is idle.
NoSleeperOnReadyFd ==
  Idle => \A t \in Readers :
    Waits(t) /\ event[t].registered /\ at[t] \notin raced => at[t] \notin ready
=============================================================================
