-------------------------------- MODULE MCIo --------------------------------
(***************************************************************************)
(* The I/O subsystem for model checking: every behaviour is about one of    *)
(* its parts, chosen at the start -- one of the three descriptor backends,  *)
(* the table of managed descriptors, the loop of an I/O hook, a call of     *)
(* select or poll, the array of descriptor slots, or the linked lists.      *)
(***************************************************************************)
EXTENDS Reactor, EpollMap, UringMap, FdTable, IoHooks, SelectPoll, SlotTable,
        Lists

VARIABLE part

ioAll == <<fdAll, reactorVars, skipped, uringVars, fdTableVars, ioVars, selectVars,
           tableVars, listVars, part>>

Parts == {"reactor", "epoll", "uring", "table", "hooks", "select", "slots", "lists"}

\* The state of the select hook in the behaviours that are not about it.
SelectIdle ==
  /\ request = CHOOSE c \in Calls : c.set = {}
  /\ maskNow = CHOOSE m \in Masks : TRUE
  /\ stage = "called" /\ fdset = {} /\ origmask = maskNow
  /\ isReady = {} /\ isOpen = {} /\ polled = {}
  /\ slept = FALSE /\ rc = 0 /\ err = "none"

MCIoInit ==
  /\ part \in Parts
  /\ FdInit /\ ReactorInit /\ EpollMapInit /\ UringInit
  /\ FdTableInit /\ IoInit /\ SlotTableInit /\ ListsInit
  /\ reactorUp \in (CASE part = "reactor" -> {TRUE}
                      [] part = "uring" -> BOOLEAN
                      [] OTHER -> {FALSE})
  /\ part # "hooks" => pos = 0
  /\ part # "uring" => direct = {}
  /\ part # "slots" => slotOwner = "sched"
  /\ IF part = "select" THEN SelectPollInit ELSE SelectIdle

\* A step of part p leaves the others alone.
Only(p) ==
  /\ UNCHANGED part
  /\ p \notin {"reactor", "epoll", "uring"} => UNCHANGED fdAll
  /\ p # "reactor" => UNCHANGED reactorVars
  /\ p # "epoll" => UNCHANGED skipped
  /\ p # "uring" => UNCHANGED uringVars
  /\ p # "table" => UNCHANGED fdTableVars
  /\ p # "hooks" => UNCHANGED ioVars
  /\ p # "select" => UNCHANGED selectVars
  /\ p # "slots" => UNCHANGED tableVars
  /\ p # "lists" => UNCHANGED listVars

MCIoNext ==
  \/ part = "reactor" /\ ReactorNext /\ Only("reactor")
  \/ part = "epoll" /\ EpollMapNext /\ Only("epoll")
  \/ part = "uring" /\ UringNext /\ Only("uring")
  \/ part = "table" /\ FdTableNext /\ Only("table")
  \/ part = "hooks" /\ IoNext /\ Only("hooks")
  \/ part = "select" /\ SelectPollNext /\ Only("select")
  \/ part = "slots" /\ SlotTableNext /\ Only("slots")
  \/ part = "lists" /\ ListsNext /\ Only("lists")

MCIoSpec == MCIoInit /\ [][MCIoNext]_ioAll

-----------------------------------------------------------------------------
(* What the three descriptor backends promise alike.                        *)

\* The users of the descriptor table are interchangeable.
UserSymmetry == Permutations(Users)

Of(p, P) == part = p => P

\* The types of all parts.
IoTypeOK ==
  /\ Of("reactor", ReactorTypeOK) /\ Of("epoll", ReactorTypeOK)
  /\ Of("uring", ReactorTypeOK /\ UringTypeOK)
  /\ Of("table", FdTableTypeOK) /\ Of("select", SelectPollTypeOK)
  /\ Of("slots", SlotTableTypeOK) /\ Of("lists", ListsTypeOK)

\* Waits and waiters belong together.  The reactor can complete every pending
\* event that is registered with it, the lists of the two per-scheduler
\* backends hold only sleepers, and the kernel holds no freed io_uring waiter.
WaitersTracked ==
  /\ Of("reactor", PendingIsTracked)
  /\ Of("epoll", WaitersAreSleepers)
  /\ Of("uring", KernelHoldsAllocated /\ LinkedAreSleepers)

\* Closing a descriptor ends the waits that the reactor keeps, and those that a
\* scheduler keeps, by epoll or by io_uring, in a process without a reactor.
\* Excepted are a wait that begins between the notice and the close and a notice
\* that found its queue full.  Where a reactor runs beside io_uring, as it does
\* by default, the scheduler is not told of a close and its waits go on: this is
\* not claimed of them.
CloseEndsWaits ==
  /\ Of("reactor", NobodySleepsOnClosedFd)
  /\ Of("epoll", EpollNobodySleepsOnClosedFd)
  /\ Of("uring", UringNobodySleepsOnClosedFd)

\* An idle backend leaves nobody asleep on a readable descriptor, except (by
\* epoll) whoever came too late for its edge or waits on a stale slot.
ReadyWakes ==
  /\ Of("reactor", SleeperMissedItsEdge)
  /\ Of("epoll", EpollSleeperIsUnarmed)
  /\ Of("uring", UringNoSleeperOnReadyFd)

\* The slots agree with their lists and with epoll: a stale registration has
\* one of the known causes.
SlotsMatchEpoll ==
  /\ Of("reactor", CountIsLength /\ RegisteredIsArmed)
  /\ Of("epoll", UnarmedSlotIsExplained)

\* The table of managed descriptors is right about ordinary descriptors, and
\* a snapshot of it outlives one growth.
TableHolds == Of("table", GraceOfOneGrowth /\ TableIsTrue)

\* The hooks tell their callers the truth: how much a write loop wrote, whether
\* a connection is up, which descriptors of a set are ready.
HooksTellTruth ==
  /\ Of("hooks", WritesAreFaithful /\ ConnectSucceedsWhenUp)
  /\ Of("select", AnswersAreTrue)

\* The waiters of a slot stay reachable, in order, when the slot array grows
\* and moves.
SlotsFollow == Of("slots", SlotListsFollow)

\* Linked lists are the sequences their users take them for, through inserts,
\* removals, splices and appends.
ListsHold == Of("lists", ListsAreSequences)
=============================================================================
