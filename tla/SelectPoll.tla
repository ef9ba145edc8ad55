----------------------------- MODULE SelectPoll -----------------------------
(***************************************************************************)
(* A call of the hooks for select, pselect or poll                          *)
(* (hook_lowlevel_io/select_poll.c) with the apth_wait_event_list of        *)
(* internal/apth_event.c it blocks in, while descriptors become ready, stop *)
(* being ready and are closed.  One set stands for the read, write and      *)
(* exception sets, which the hooks treat alike.                             *)
(***************************************************************************)
EXTENDS Links, Integers, Sequences, FiniteSets

CONSTANTS Bits,          \* the descriptors a set can hold, numbers
          WordSize,      \* __NFDBITS
          SetSize,       \* FD_SETSIZE
          DecomposeMax,  \* SELECT_DECOMPOSE_MAX
          Masks          \* signal masks

ASSUME SelectConstants ==
  /\ Bits \subseteq Nat /\ WordSize \in Nat \ {0}
  /\ SetSize \in Nat /\ DecomposeMax \in Nat

VARIABLES request,      \* the arguments
          stage,     \* where the call is
          fdset,     \* the caller's set, overwritten with the answer
          maskNow,   \* the mask of the calling thread
          origmask,  \* what pselect saved of it
          isReady, isOpen,   \* the descriptors, as the kernel sees them
          polled,    \* what the last raw call saw
          slept,     \* whether the time asked for has passed
          rc, err    \* the result and errno

selectVars == <<request, stage, fdset, maskNow, origmask, isReady, isOpen, polled,
                slept, rc, err>>

NoMask == "nomask"

\* The kinds of timeout the hooks tell apart.  More than a month is an error
\* for pselect and cut to a month by select.
Timeouts == {"null", "bad", "over a month", "zero", "short", "long"}

Calls ==
  {c \in [hook : {"select", "pselect", "poll"}, nfd : -1 .. SetSize + 1,
          set : SUBSET Bits, null : BOOLEAN, timeout : Timeouts,
          mask : Masks \cup {NoMask}] :
   /\ c.null => c.set = {}
   /\ c.hook # "pselect" => c.mask = NoMask
   /\ c.hook = "poll" => /\ c.nfd = Cardinality(c.set) /\ ~c.null
                         /\ c.timeout \notin {"bad", "over a month"}}

SelectPollInit ==
  /\ request \in Calls /\ stage = "called"
  /\ fdset = request.set
  /\ maskNow \in Masks /\ origmask = maskNow
  /\ isReady = {} /\ isOpen = Bits
  /\ polled = {} /\ slept = FALSE /\ rc = 0 /\ err = "none"

\* Every piece of state has its type.
SelectPollTypeOK ==
  /\ request \in Calls
  /\ stage \in {"called", "delay", "poll", "wait", "asleep", "returned", "panic"}
  /\ fdset \subseteq Bits /\ isReady \subseteq Bits /\ isOpen \subseteq Bits
  /\ maskNow \in Masks /\ origmask \in Masks
  /\ polled \subseteq Bits /\ slept \in BOOLEAN
  /\ rc \in -1 .. Cardinality(Bits) /\ err \in {"none", "EINVAL", "EBADF"}

-----------------------------------------------------------------------------
(* Arguments *)

isPoll == request.hook = "poll"

BadArguments ==
  /\ ~isPoll
  /\ \/ request.nfd < 0 \/ request.nfd > SetSize
     \/ request.timeout = "bad"
     \/ request.hook = "pselect" /\ request.timeout = "over a month"

PlainDelay ==
  /\ request.nfd = 0
  /\ isPoll \/ (request.null /\ request.timeout # "null")

\* Mutant: a pselect that fails leaves with the mask it was given.
RestoreMaskOnSuccess(r) ==
  maskNow' = IF request.mask # NoMask /\ r >= 0 THEN origmask ELSE maskNow

\* sigprocmask(SIG_SETMASK, &origmask, NULL), on every way out of pselect.
RestoreMask(r) == maskNow' = IF request.mask # NoMask THEN origmask ELSE maskNow

Return(r, e) == rc' = r /\ err' = e /\ stage' = "returned" /\ RestoreMask(r)

\* The arguments are checked, then pselect sets its mask.
CheckArguments ==
  /\ stage = "called"
  /\ \/ /\ BadArguments
        /\ rc' = -1 /\ err' = "EINVAL" /\ stage' = "returned"
        /\ UNCHANGED maskNow
     \/ /\ ~BadArguments
        /\ maskNow' = IF request.mask # NoMask THEN request.mask ELSE maskNow
        /\ stage' = IF PlainDelay THEN "delay" ELSE "poll"
        /\ UNCHANGED <<rc, err>>
  /\ UNCHANGED <<request, fdset, origmask, isReady, isOpen, polled, slept>>

\* A plain delay: a raw call when it is short, else a timer event; poll calls
\* usleep when its timeout is positive.
Delay ==
  /\ stage = "delay"
  /\ slept' = (request.timeout \notin {"zero", "null"})
  /\ Return(0, "none")
  /\ UNCHANGED <<request, fdset, origmask, isReady, isOpen, polled>>

-----------------------------------------------------------------------------
(* The raw call with a zero timeout, on copies of the sets *)

Asked == IF isPoll THEN request.set ELSE {b \in request.set : b < request.nfd}

\* poll reports a closed descriptor as an event of its own.
Reported == {b \in Asked : b \in isReady /\ b \in isOpen}
            \cup IF isPoll THEN Asked \ isOpen ELSE {}

RawSelect ==
  /\ stage = "poll"
  /\ \/ /\ ~isPoll /\ ~(Asked \subseteq isOpen)
        /\ Return(-1, "EBADF")
        /\ UNCHANGED <<fdset, polled>>
     \/ /\ isPoll \/ Asked \subseteq isOpen
        /\ polled' = Reported
        /\ \/ /\ Reported # {} \/ request.timeout = "zero"
              /\ fdset' = Reported
              /\ Return(Cardinality(Reported), "none")
           \/ /\ Reported = {} /\ request.timeout # "zero"
              /\ stage' = "wait"
              /\ UNCHANGED <<fdset, rc, err, maskNow>>
  /\ UNCHANGED <<request, origmask, isReady, isOpen, slept>>

-----------------------------------------------------------------------------
(* The events to wait for.  The set bits are counted by whole words, the    *)
(* events made bit by bit.                                                  *)

select_count_fds ==
  LET nwords == (request.nfd + WordSize - 1) \div WordSize
  IN Cardinality({b \in request.set : b < nwords * WordSize})

Decomposed == select_count_fds > 0 /\ select_count_fds <= DecomposeMax

select_decompose_events == Cardinality(Asked)

\* One event for every descriptor or one for all, and one for the timeout.
EventCount ==
  (IF isPoll \/ Decomposed THEN select_decompose_events ELSE 1)
  + (IF request.timeout = "null" THEN 0 ELSE 1)

\* The list el of the caller is list 1, self->event_list is list 2.
WaitCells == {HeadOf(l) : l \in {1, 2}} \cup {TailOf(l) : l \in {1, 2}}
             \cup {Elem(i) : i \in 1 .. Cardinality(Bits) + 1}

EventList(n) ==
  LET blank == [c \in WaitCells |-> [next |-> Null, prev |-> Null]]
      built[i \in 0 .. n] == IF i = 0 THEN list_init(list_init(blank, 1), 2)
                             ELSE list_push_back(built[i - 1], 1, Elem(i))
  IN built[n]

\* self->event_list = *el: the two end cells are copied, the events are not
\* told.
LinkToSelf(h) == [h EXCEPT ![HeadOf(2)] = h[HeadOf(1)], ![TailOf(2)] = h[TailOf(1)]]

\* A loop over list l from cell c meets a cell list_next refuses.
RECURSIVE LoopPanics(_, _, _)
LoopPanics(h, c, l) ==
  /\ c # TailOf(l)
  /\ ~NextAsserts(h, c) \/ LoopPanics(h, h[c].next, l)

\* apth_wait_event_list: an empty list is EINVAL, which the hooks ignore (they
\* find no event occurred and report a timeout); otherwise the events are
\* marked, linked, registered one by one, and the thread sleeps.
apth_wait_event_list ==
  LET el == EventList(EventCount)
      own == LinkToSelf(el)
  IN /\ stage = "wait"
     /\ \/ /\ list_empty(el, 1)
           /\ fdset' = {}
           /\ Return(0, "none")
        \/ /\ ~list_empty(el, 1)
           /\ stage' = IF \/ LoopPanics(el, list_begin(el, 1), 1)
                          \/ LoopPanics(own, list_begin(own, 2), 2)
                       THEN "panic" ELSE "asleep"
           /\ UNCHANGED <<fdset, rc, err, maskNow>>
     /\ UNCHANGED <<request, origmask, isReady, isOpen, polled, slept>>

-----------------------------------------------------------------------------
(* The other ends of the descriptors, and other threads *)

FdChanges(b) ==
  /\ \/ isReady' = isReady \cup {b} /\ b \notin isReady /\ UNCHANGED isOpen
     \/ isReady' = isReady \ {b} /\ b \in isReady /\ UNCHANGED isOpen
     \/ isOpen' = isOpen \ {b} /\ b \in isOpen /\ UNCHANGED isReady
  /\ stage \in {"called", "poll"}
  /\ UNCHANGED <<request, stage, fdset, maskNow, origmask, polled, slept, rc, err>>

SelectPollNext ==
  \/ CheckArguments \/ Delay \/ RawSelect \/ apth_wait_event_list
  \/ \E b \in Bits : FdChanges(b)

SelectPollSpec == SelectPollInit /\ [][SelectPollNext]_selectVars

-----------------------------------------------------------------------------
(* Properties *)

\* The set bits lie in the last word but beyond nfd: they are counted, and no
\* event is made of them.
OnlyStrayBits == ~isPoll /\ Decomposed /\ select_decompose_events = 0

\* What select, pselect and poll say is true of the moment they looked.  A
\* positive result counts the caller's set, which holds the descriptors that
\* were asked for and ready; zero means that the timeout was zero or has
\* passed (or that every bit set was beyond nfd); EBADF that a descriptor was
\* not open; and the thread has the mask it had before, on every path.
AnswersAreTrue ==
  stage = "returned" =>
    /\ maskNow = origmask
    /\ rc > 0 => rc = Cardinality(fdset) /\ fdset = polled /\ fdset \subseteq Asked
    /\ rc = 0 => \/ slept \/ request.timeout = "zero"
                 \/ fdset = {} /\ OnlyStrayBits
                 \/ PlainDelay /\ isPoll
    /\ err = "EBADF" => ~(Asked \subseteq isOpen)

\* "Suspend current apth until one filedescriptor is ready or the timeout
\* occurred": a call that has to wait puts the thread to sleep.
BlockingCallSleeps == stage # "panic"
=============================================================================
