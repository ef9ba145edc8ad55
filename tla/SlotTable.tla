------------------------------ MODULE SlotTable ------------------------------
(***************************************************************************)
(* The array of descriptor slots of a poller, pointer by pointer, and how   *)
(* it grows (sched_ensure_fd_slot_capacity of internal/apth_event.c and its *)
(* copy for the reactor).  A slot holds the two end cells of its waiter     *)
(* list, so moving the array moves the ends of every list.  The array of    *)
(* generation g is freed when the next one replaces it; an access to one    *)
(* of its cells after that is recorded in touched and ends the behaviour.   *)
(***************************************************************************)
EXTENDS Links, FiniteSets, Sequences

CONSTANTS LastFd,        \* the descriptors in use are 0 .. LastFd
          InitSlots,     \* APTH_FD_TABLE_INIT_CAPACITY
          SlotWaiters    \* the waiter records, numbered from 1

ASSUME SlotConstants ==
  /\ LastFd \in Nat /\ InitSlots \in Nat \ {0}
  /\ SlotWaiters \subseteq Nat \ {0}

VARIABLES slotOwner,   \* whose array it is: "sched" or "reactor"
          links,       \* the heap
          slotGen,     \* the generation of the array in use
          fd_slot_capacity,
          waiter_count, fdKnown,
          active_fd_count,
          onFd,        \* the descriptor every linked waiter waits for
          arrived,     \* the waiters of every descriptor in order of arrival
          staleEnds,   \* slots that were empty when the array moved
          touched      \* the slots through which a freed array was accessed

tableVars == <<slotOwner, links, slotGen, fd_slot_capacity, waiter_count,
              fdKnown, active_fd_count, onFd, arrived, staleEnds, touched>>

-----------------------------------------------------------------------------
SlotFds == 0 .. LastFd
NoFd == LastFd + 1

\* The capacity after doubling until fd fits.
RECURSIVE Doubled(_, _)
Doubled(cap, fd) == IF cap > fd THEN cap ELSE Doubled(2 * cap, fd)

\* Every slot the array can have, and its generations.
SlotNumbers == 0 .. Doubled(InitSlots, LastFd) - 1
Generations == 0 .. LastFd

ActiveList == 0
SlotList(g, f) == 1 + g * Cardinality(SlotNumbers) + f
SlotElem(g, f) == Elem(100 + SlotList(g, f))
SlotWaitersOf(f) == SlotList(slotGen, f)

FreedCells(g) ==
  UNION {{HeadOf(SlotList(o, f)), TailOf(SlotList(o, f))} :
         o \in 0 .. g - 1, f \in SlotNumbers}

SlotCells ==
  {HeadOf(ActiveList), TailOf(ActiveList)} \cup {Elem(w) : w \in SlotWaiters}
  \cup UNION {{HeadOf(SlotList(g, f)), TailOf(SlotList(g, f)), SlotElem(g, f)} :
              g \in Generations, f \in SlotNumbers}

\* The cells C mean nothing any more.
Wiped(h, C) == [c \in SlotCells |-> IF c \in C THEN [next |-> Null, prev |-> Null] ELSE h[c]]

RECURSIVE InitLists(_, _)
InitLists(h, S) ==
  IF S = {} THEN h
  ELSE LET l == CHOOSE l \in S : TRUE IN InitLists(list_init(h, l), S \ {l})

SlotTableInit ==
  /\ slotOwner \in {"sched", "reactor"}
  /\ slotGen = 0 /\ fd_slot_capacity = InitSlots
  /\ links = InitLists([c \in SlotCells |-> [next |-> Null, prev |-> Null]],
                       {ActiveList} \cup {SlotList(0, f) : f \in 0 .. InitSlots - 1})
  /\ waiter_count = [f \in SlotNumbers |-> 0]
  /\ fdKnown = [f \in SlotNumbers |-> FALSE]
  /\ active_fd_count = 0
  /\ onFd = [w \in SlotWaiters |-> NoFd]
  /\ arrived = [f \in SlotNumbers |-> <<>>]
  /\ staleEnds = {} /\ touched = {}

\* Every piece of state has its type.
SlotTableTypeOK ==
  /\ slotOwner \in {"sched", "reactor"}
  /\ links \in [SlotCells -> [next : SlotCells \cup {Null},
                              prev : SlotCells \cup {Null}]]
  /\ slotGen \in Generations
  /\ fd_slot_capacity \in 1 .. Cardinality(SlotNumbers)
  /\ waiter_count \in [SlotNumbers -> Nat]
  /\ fdKnown \in [SlotNumbers -> BOOLEAN]
  /\ active_fd_count \in 0 .. Cardinality(SlotNumbers)
  /\ onFd \in [SlotWaiters -> SlotFds \cup {NoFd}]
  /\ arrived \in [SlotNumbers -> Seq(SlotWaiters)]
  /\ staleEnds \subseteq SlotNumbers /\ touched \subseteq SlotNumbers

-----------------------------------------------------------------------------
(* Growth *)

\* memcpy of slot f from the array of generation g to the next one.
CopySlot(h, g, f) ==
  [h EXCEPT ![HeadOf(SlotList(g + 1, f))] = h[HeadOf(SlotList(g, f))],
            ![TailOf(SlotList(g + 1, f))] = h[TailOf(SlotList(g, f))],
            ![SlotElem(g + 1, f)] = h[SlotElem(g, f)]]

\* Mutant: the last waiter of a moved list keeps pointing into the old array.
RelinkFirstOnly(h, g, f) ==
  LET new == SlotList(g + 1, f) IN
    IF list_empty(h, SlotList(g, f)) THEN list_init(h, new)
    ELSE [h EXCEPT ![list_begin(h, new)].prev = HeadOf(new)]

\* The first and the last waiter of slot f point to the new ends.
RelinkWaiters(h, g, f) ==
  LET new == SlotList(g + 1, f) IN
    IF list_empty(h, SlotList(g, f)) THEN list_init(h, new)
    ELSE [h EXCEPT ![list_begin(h, new)].prev = HeadOf(new),
                   ![list_rbegin(h, new)].next = TailOf(new)]

\* The loop over the old slots, from slot f on.
RECURSIVE MoveSlots(_, _, _)
MoveSlots(h, g, f) ==
  IF f = fd_slot_capacity THEN h
  ELSE LET fixed == IF waiter_count[f] > 0 THEN RelinkWaiters(h, g, f) ELSE h
       IN MoveSlots(IF fdKnown[f]
                    THEN list_push_back(fixed, ActiveList, SlotElem(g + 1, f))
                    ELSE fixed, g, f + 1)

RECURSIVE CopySlots(_, _, _)
CopySlots(h, g, f) ==
  IF f = fd_slot_capacity THEN h ELSE CopySlots(CopySlot(h, g, f), g, f + 1)

\* The array after room was made for fd; a stale slot keeps the ends it had.
sched_ensure_fd_slot_capacity(fd) ==
  IF fd < fd_slot_capacity
  THEN [h |-> links, gen |-> slotGen, cap |-> fd_slot_capacity, stale |-> staleEnds]
  ELSE LET cap == Doubled(fd_slot_capacity, fd)
           moved == MoveSlots(list_init(CopySlots(links, slotGen, 0), ActiveList),
                              slotGen, 0)
           gone == FreedCells(slotGen + 1) \cup {SlotElem(slotGen, f) : f \in SlotNumbers}
           fresh == {SlotList(slotGen + 1, f) : f \in fd_slot_capacity .. cap - 1}
       IN [h |-> Wiped(InitLists(moved, fresh), gone), gen |-> slotGen + 1, cap |-> cap,
           stale |-> {f \in 0 .. fd_slot_capacity - 1 : waiter_count[f] = 0}]

\* The reactor's copy has the same statements.
reactor_ensure_fd_slot_capacity(fd) == sched_ensure_fd_slot_capacity(fd)

-----------------------------------------------------------------------------
(* Waiters come and go.  The callers of the two pollers differ in how they  *)
(* report a failure, which is not part of this module.                      *)

EnsureCapacity(fd) == IF slotOwner = "sched" THEN sched_ensure_fd_slot_capacity(fd)
                      ELSE reactor_ensure_fd_slot_capacity(fd)

\* A waiter record is unlinked and given back: its pointers mean nothing.
FreeWaiter(h, w) ==
  Wiped(list_remove(h, Elem(w)), {Elem(w)})

\* A waiter is added; epoll_ctl takes the descriptor or refuses it.
AddWaiter(w, fd) ==
  /\ onFd[w] = NoFd /\ touched = {}
  /\ LET a == EnsureCapacity(fd)
         l == SlotList(a.gen, fd)
         pushed == list_push_back(a.h, l, Elem(w))
     IN /\ slotGen' = a.gen /\ fd_slot_capacity' = a.cap /\ staleEnds' = a.stale
        /\ touched' = IF a.h[TailOf(l)].prev \in FreedCells(a.gen) THEN {fd} ELSE {}
        /\ \/ /\ fdKnown[fd]
              /\ links' = pushed
              /\ UNCHANGED <<fdKnown, active_fd_count>>
           \/ /\ ~fdKnown[fd]
              /\ links' = list_push_back(pushed, ActiveList, SlotElem(a.gen, fd))
              /\ fdKnown' = [fdKnown EXCEPT ![fd] = TRUE]
              /\ active_fd_count' = active_fd_count + 1
        /\ waiter_count' = [waiter_count EXCEPT ![fd] = @ + 1]
        /\ onFd' = [onFd EXCEPT ![w] = fd]
        /\ arrived' = [arrived EXCEPT ![fd] = Append(@, w)]
        /\ UNCHANGED slotOwner

\* epoll_ctl fails: the waiter that was just linked is taken out again.
AddWaiterFails(w, fd) ==
  /\ onFd[w] = NoFd /\ ~fdKnown[fd] /\ touched = {}
  /\ LET a == EnsureCapacity(fd)
         l == SlotList(a.gen, fd)
     IN /\ links' = FreeWaiter(list_push_back(a.h, l, Elem(w)), w)
        /\ slotGen' = a.gen /\ fd_slot_capacity' = a.cap /\ staleEnds' = a.stale
        /\ touched' = IF a.h[TailOf(l)].prev \in FreedCells(a.gen) THEN {fd} ELSE {}
  /\ UNCHANGED <<slotOwner, waiter_count, fdKnown, active_fd_count, onFd, arrived>>

\* calloc fails: the caller finds the array too small and gives up.
GrowthFails(w, fd) ==
  /\ onFd[w] = NoFd /\ fd >= fd_slot_capacity /\ touched = {}
  /\ UNCHANGED tableVars

\* The cells a walk over list l reads, up to its tail or a failed assertion.
RECURSIVE SlotWalk(_, _, _)
SlotWalk(h, c, l) ==
  IF c = TailOf(l) \/ ~NextAsserts(h, c) THEN <<c>>
  ELSE <<c>> \o SlotWalk(h, h[c].next, l)

WalkOf(f) == SlotWalk(links, list_begin(links, SlotWaitersOf(f)), SlotWaitersOf(f))
WalkTouches(f) == \E i \in 1 .. Len(WalkOf(f)) : WalkOf(f)[i] \in FreedCells(slotGen)

RECURSIVE Unlink(_, _)
Unlink(h, W) ==
  IF W = {} THEN h
  ELSE LET w == CHOOSE w \in W : TRUE IN Unlink(FreeWaiter(h, w), W \ {w})

\* The waiters W leave the list of fd.
Leave(fd, W) ==
  /\ onFd' = [w \in SlotWaiters |-> IF w \in W THEN NoFd ELSE onFd[w]]
  /\ arrived' = [arrived EXCEPT ![fd] = SelectSeq(@, LAMBDA w : w \notin W)]

\* A wait ends for another reason than its descriptor.
RemoveWaiter(w) ==
  /\ onFd[w] # NoFd /\ touched = {}
  /\ links' = FreeWaiter(links, w)
  /\ waiter_count' = [waiter_count EXCEPT ![onFd[w]] = @ - 1]
  /\ Leave(onFd[w], {w})
  /\ UNCHANGED <<slotOwner, slotGen, fd_slot_capacity, fdKnown, active_fd_count,
                 staleEnds, touched>>

\* epoll reports fd: every waiter is looked at, those whose goal is met leave.
WakeFd(fd, W) ==
  /\ fd < fd_slot_capacity /\ fdKnown[fd] /\ touched = {}
  /\ W \subseteq {w \in SlotWaiters : onFd[w] = fd}
  /\ links' = Unlink(links, W)
  /\ waiter_count' = [waiter_count EXCEPT ![fd] = @ - Cardinality(W)]
  /\ Leave(fd, W)
  /\ touched' = IF WalkTouches(fd) THEN {fd} ELSE {}
  /\ UNCHANGED <<slotOwner, slotGen, fd_slot_capacity, fdKnown, active_fd_count,
                 staleEnds>>

\* fd was closed: every waiter fails and the slot leaves the active list.  A
\* scheduler's slot without waiters stays as it is.
CloseFd(fd) ==
  LET W == {w \in SlotWaiters : onFd[w] = fd} IN
  /\ fd < fd_slot_capacity /\ touched = {}
  /\ W # {} \/ (slotOwner = "reactor" /\ fdKnown[fd])
  /\ LET out == Unlink(links, W)
     IN links' = IF fdKnown[fd]
              THEN Wiped(list_remove(out, SlotElem(slotGen, fd)), {SlotElem(slotGen, fd)})
              ELSE out
  /\ active_fd_count' = IF fdKnown[fd] THEN active_fd_count - 1 ELSE active_fd_count
  /\ fdKnown' = [fdKnown EXCEPT ![fd] = FALSE]
  /\ waiter_count' = [waiter_count EXCEPT ![fd] = 0]
  /\ Leave(fd, W)
  /\ touched' = IF W # {} /\ WalkTouches(fd) THEN {fd} ELSE {}
  /\ UNCHANGED <<slotOwner, slotGen, fd_slot_capacity, staleEnds>>

SlotTableNext ==
  \/ \E w \in SlotWaiters, fd \in SlotFds :
       AddWaiter(w, fd) \/ AddWaiterFails(w, fd) \/ GrowthFails(w, fd)
  \/ \E w \in SlotWaiters : RemoveWaiter(w)
  \/ \E fd \in SlotFds, W \in SUBSET SlotWaiters : WakeFd(fd, W)
  \/ \E fd \in SlotFds : CloseFd(fd)

SlotTableSpec == SlotTableInit /\ [][SlotTableNext]_tableVars

-----------------------------------------------------------------------------
(* Properties *)

WalkedElems(f) ==
  [i \in 1 .. Len(WalkOf(f)) - 1 |-> WalkOf(f)[i][1]]

ActiveSlots ==
  LET walk == SlotWalk(links, list_begin(links, ActiveList), ActiveList)
  IN [i \in 1 .. Len(walk) - 1 |-> walk[i]]

\* Moving the array loses no waiter: the list of every slot that had waiters,
\* or did not exist, when the array last moved holds the waiters that came and
\* have not left, in order, and the count is its length; the active list
\* holds the registered slots of the array in use.  The slot through which
\* freed memory is accessed is one that had no waiter when the array moved.
SlotListsFollow ==
  /\ touched \subseteq staleEnds
  /\ touched = {} =>
       /\ \A f \in (0 .. fd_slot_capacity - 1) \ staleEnds :
            /\ WalkedElems(f) = arrived[f]
            /\ waiter_count[f] = Len(arrived[f])
       /\ {ActiveSlots[i] : i \in DOMAIN ActiveSlots} =
            {SlotElem(slotGen, f) : f \in {s \in SlotNumbers : fdKnown[s]}}
       /\ Len(ActiveSlots) = active_fd_count

\* "Preserve waiter lists by re-initializing the list head to point to new
\* location": once the array has moved, no operation reads or writes a cell of
\* the array that was freed.
MovedListsAreWhole == touched = {}
=============================================================================
