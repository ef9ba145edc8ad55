------------------------------- MODULE FdWait -------------------------------
(***************************************************************************)
(* What the three descriptor backends of internal/apth_event.c and          *)
(* internal/apth_reactor.c share: the kernel's descriptors and its edge-    *)
(* triggered interest list, the slot table with its waiter lists, the       *)
(* threads that read descriptors through the hooks of src/hook_libc, and    *)
(* the FD event each waiting thread keeps on its stack.  The event of a     *)
(* thread has the same address every time, because the hooks wait in a loop *)
(* of one frame; once the thread runs again the memory belongs to whatever  *)
(* it does next.                                                            *)
(***************************************************************************)
EXTENDS Naturals, Sequences, FiniteSets, SequencesExt

CONSTANTS Readers,    \* threads that read descriptors
          Closers,    \* those of them that also close descriptors
          Fds,        \* descriptor numbers
          Impatient,  \* threads that wait with a deadline or get cancelled
          CloseMax,   \* APTH_PENDING_FD_CLOSE_MAX
          MaxReopens  \* bound: how often a number is given to a new file

ASSUME ClientConstants ==
  /\ Closers \subseteq Readers /\ Impatient \subseteq Readers
  /\ MaxReopens \in Nat /\ CloseMax \in Nat

VARIABLES open,    \* descriptor numbers that are open
          reopens, \* how often each was given to a new file
          ready,   \* those with input to read
          where,   \* where each thread is
          at,      \* the descriptor its current call is about
          event,   \* the memory of its FD event
          armed,       \* descriptors in the epoll interest list
          edge,        \* those with an edge epoll_wait has not reported
          registered,  \* slots with registered set
          waiters,     \* per slot, the list of waiters
          count,       \* per slot, waiter_count
          closes,      \* pending_fd_close_fds of the scheduler
          reactorUp,   \* apth_reactor_is_active
          raced        \* history: descriptors whose close notice came too
                       \* early for a waiter or was dropped

kernelVars == <<open, reopens, ready>>
clientVars == <<where, at, event>>
fdVars == <<kernelVars, clientVars>>
epollVars == <<armed, edge>>
slotVars == <<registered, waiters, count>>
noticeVars == <<closes, reactorUp, raced>>
fdAll == <<fdVars, epollVars, slotVars, noticeVars>>

NoWaiter == 0
FreshEvent == [status |-> "pending", registered |-> FALSE, waiter |-> NoWaiter]

FdInit ==
  /\ open = Fds
  /\ reopens = [f \in Fds |-> 0]
  /\ ready = {}
  /\ where = [t \in Readers |-> "run"]
  /\ at = [t \in Readers |-> CHOOSE f \in Fds : TRUE]
  /\ event = [t \in Readers |-> FreshEvent]
  /\ armed = {} /\ edge = {} /\ registered = {}
  /\ waiters = [f \in Fds |-> <<>>]
  /\ count = [f \in Fds |-> 0]
  /\ closes = <<>> /\ raced = {}

FdTypeOK ==
  /\ reopens \in [Fds -> 0 .. MaxReopens]
  /\ open \subseteq Fds /\ ready \subseteq open
  /\ where \in [Readers -> {"run", "again", "queued", "waiting", "closing"}]
  /\ at \in [Readers -> Fds]
  /\ event \in [Readers -> [status : {"pending", "occurred", "failed"},
                            registered : BOOLEAN, waiter : Nat]]
  /\ armed \subseteq open /\ edge \subseteq armed
  /\ registered \subseteq Fds
  /\ count \in [Fds -> Nat]
  /\ Len(closes) <= CloseMax /\ reactorUp \in BOOLEAN

Goto(t, place) == where' = [where EXCEPT ![t] = place]

\* The event's memory is a frozen frame of its thread.
Live(t) == where[t] \in {"queued", "waiting"}

Waits(t) == where[t] = "waiting" /\ event[t].status = "pending"

\* A hook's raw call finds no input: EAGAIN.
ReadAgain(t, f) ==
  /\ where[t] = "run" /\ f \in open \ ready
  /\ Goto(t, "again")
  /\ at' = [at EXCEPT ![t] = f]
  /\ UNCHANGED <<kernelVars, event>>

\* A hook's raw call takes the input there is and returns.
ReadData(t, f) ==
  /\ where[t] = "run" /\ f \in ready
  /\ ready' = ready \ {f}
  /\ UNCHANGED <<open, reopens, clientVars>>

\* Watching a descriptor whose close has been announced or is done.
Closing(f) == \E u \in Readers : where[u] = "closing" /\ at[u] = f
NoteRace(f) ==
  raced' = IF Closing(f) \/ f \notin open THEN raced \cup {f} ELSE raced

\* A waiter is linked and the descriptor added to epoll unless the slot says
\* it is there; an edge is due at once when the descriptor is readable.
\* EEXIST counts as success, a closed number is refused.
Addable(f) == f \in registered \cup open

Link(w, f) ==
  /\ waiters' = [waiters EXCEPT ![f] = Append(@, w)]
  /\ count' = [count EXCEPT ![f] = @ + 1]
  /\ registered' = registered \cup {f}

LinkAndArm(w, f) ==
  /\ Link(w, f)
  /\ armed' = IF f \in registered THEN armed ELSE armed \cup {f}
  /\ edge' = IF f \in ready /\ f \notin registered \cup armed
               THEN edge \cup {f} ELSE edge

WaitersOf(t) == UNION {{w \in ToSet(waiters[f]) : w.th = t} : f \in Fds}

\* The hook of close() has told the library; the raw close comes last.
BeginClose(t, f) ==
  /\ t \in Closers /\ where[t] = "run" /\ f \in open
  /\ ~Closing(f)
  /\ Goto(t, "closing")
  /\ at' = [at EXCEPT ![t] = f]
  /\ UNCHANGED <<kernelVars, event>>

RawClose(t) ==
  /\ where[t] = "closing"
  /\ open' = open \ {at[t]} /\ ready' = ready \ {at[t]}
  /\ Goto(t, "run")
  /\ UNCHANGED <<reopens, at, event>>

\* The number is given to a new file.
Reopen(f) ==
  /\ f \notin open /\ reopens[f] < MaxReopens
  /\ open' = open \cup {f}
  /\ reopens' = [reopens EXCEPT ![f] = @ + 1]
  /\ UNCHANGED <<ready, clientVars>>

\* The kernel drops the closed file from the interest list.
RawCloseDisarms(t) ==
  /\ RawClose(t)
  /\ armed' = armed \ {at[t]} /\ edge' = edge \ {at[t]}

Arrive(f) ==
  /\ f \in open
  /\ ready' = ready \cup {f}
  /\ UNCHANGED <<open, reopens, clientVars>>

ArriveWithEdge(f) ==
  /\ Arrive(f)
  /\ edge' = IF f \in armed THEN edge \cup {f} ELSE edge

\* The interest list also asks for output and for urgent data: an edge may be
\* due that is not about input.
OtherEdge(f) ==
  /\ f \in armed
  /\ edge' = edge \cup {f}
  /\ UNCHANGED <<fdVars, armed>>

\* Whether a report matches the goal of a waiter, which is input here: it has
\* EPOLLIN, or EPOLLERR or EPOLLHUP, with which a read does not block either.
Matched(f) == f \in ready

-----------------------------------------------------------------------------
(* Without the reactor each scheduler keeps its own waiter lists.  A thread *)
(* of the scheduler runs from its failed call to its yield with no step of  *)
(* the scheduler in between; closers run on other workers.                  *)

Busy == \E t \in Readers : where[t] = "again"

\* Mutant: sends no notice.
NotifyNobody(f) == UNCHANGED <<closes, raced>>

\* apth_notify_fd_closed: with a reactor the notice goes there alone.
NotifySchedulers(f) ==
  IF reactorUp
    THEN UNCHANGED <<closes, raced>>
    ELSE /\ closes' = IF Len(closes) < CloseMax
                        THEN Append(closes, f) ELSE closes
         /\ raced' = IF Len(closes) < CloseMax
                       THEN raced ELSE raced \cup {f}
=============================================================================
