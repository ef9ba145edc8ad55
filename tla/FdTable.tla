------------------------------- MODULE FdTable -------------------------------
(***************************************************************************)
(* The table of managed descriptors (internal/apth_fd.c) and the hooks that *)
(* open, duplicate, close and configure descriptors.  Hooks use the current *)
(* snapshot without a lock; a hook that meets a larger number replaces it   *)
(* by a copy of twice the size and puts the old one aside to be freed.      *)
(***************************************************************************)
EXTENDS Naturals, Sequences, FiniteSets, SequencesExt, FiniteSetsExt

CONSTANTS Users,     \* threads that call the hooks
          Numbers,   \* descriptor numbers the kernel may hand out
          Strays,    \* those it also hands to calls without a hook
          InitCap,   \* APTH_FD_TABLE_INIT_CAPACITY
          DeferMax   \* APTH_FD_TABLE_DEFER_MAX

ASSUME TableConstants ==
  /\ Numbers \subseteq Nat /\ IsFiniteSet(Numbers) /\ Strays \subseteq Numbers
  /\ InitCap \in Nat \ {0} /\ DeferMax \in Nat \ {0}

VARIABLES table,     \* the snapshots so far, the last one is published
          freed,     \* generations that have been freed
          deferred,  \* deferred_free
          growLock,  \* holder of fd_table_grow_lock, or {}
          files,     \* open descriptor numbers
          nonblock,  \* those with O_NONBLOCK
          call,      \* per thread: its hook, place, number and snapshot
          copied,    \* the entries the holder of the lock has copied
          foreign,   \* history: numbers opened without a hook
          spoilt,    \* history: numbers closed under a running call, whose
                     \* store missed the next snapshot, or that a failed dup2
                     \* left unregistered
          panicked   \* numbers on which apth_util_fd_valid panicked

fdTableVars == <<table, freed, deferred, growLock, files, nonblock, call,
                 copied, foreign, spoilt, panicked>>
worldVars == <<files, nonblock, foreign, panicked>>
growVars == <<freed, deferred, growLock, copied>>

NoCall == [op |-> "none", at |-> "idle", fd |-> 0, snap |-> 0]
Now == Len(table)
Managed == table[Now].managed

FdTableInit ==
  /\ table = <<[cap |-> InitCap, managed |-> {}]>>
  /\ freed = {} /\ deferred = <<>> /\ growLock = {}
  /\ files = {} /\ nonblock = {} /\ foreign = {}
  /\ call = [t \in Users |-> NoCall]
  /\ copied = {}
  /\ spoilt = {} /\ panicked = {}

At(t, place) == call[t].at = place
Fd(t) == call[t].fd
Snap(t) == table[call[t].snap]
\* A call keeps its snapshot as long as it is going to store into it.
Step(t, place) ==
  call' = [call EXCEPT ![t].at = place,
                       ![t].snap = IF place \in {"force", "mark"} THEN @ ELSE 0]
Begin(t, op, place, f) ==
  /\ At(t, "idle")
  /\ call' = [call EXCEPT ![t] = [NoCall EXCEPT !.op = op, !.at = place,
                                           !.fd = f]]
Finish(t) == call' = [call EXCEPT ![t] = NoCall]

\* A number some thread is opening or closing; programs leave those alone.
Moving == {Fd(t) : t \in {u \in Users :
             call[u].op \in {"open", "creat", "close", "dup2", "redup"}}}
InUse(f) == \E t \in Users : Fd(t) = f /\ ~At(t, "idle")
Lowest == Min(Numbers \ files)

-----------------------------------------------------------------------------
(* Hooks *)

\* open, socket, pipe and accept create the file with O_NONBLOCK; creat and
\* dup leave it to apth_fd_register.
HookOpen(t, op) ==
  /\ Numbers \ files # {}
  /\ Begin(t, op, "ensure", Lowest)
  /\ files' = files \cup {Lowest}
  /\ nonblock' = IF op = "open" THEN nonblock \cup {Lowest} ELSE nonblock
  /\ foreign' = foreign \ {Lowest}
  /\ spoilt' = IF InUse(Lowest) THEN spoilt ELSE spoilt \ {Lowest}
  /\ UNCHANGED <<table, growVars, panicked>>

\* A descriptor that comes from a call without a hook, or is inherited.
ForeignOpen ==
  /\ Numbers \ files # {} /\ Lowest \in Strays
  /\ files' = files \cup {Lowest} /\ foreign' = foreign \cup {Lowest}
  /\ UNCHANGED <<table, growVars, nonblock, call, spoilt, panicked>>

NoteCut(f) == spoilt' = IF InUse(f) THEN spoilt \cup {f} ELSE spoilt

\* close unregisters first.  dup2 and dup3 onto an open number and
\* close_range and closefrom do so after apth_util_fd_valid, which panics on
\* a blocking descriptor.
HookClose(t, f) ==
  /\ f \in files \ Moving
  /\ Begin(t, "close", "load", f)
  /\ NoteCut(f)
  /\ UNCHANGED <<table, growVars, files, nonblock, foreign, panicked>>

HookReplace(t, op, f) ==
  /\ f \in files \ Moving
  /\ IF f \in nonblock
       THEN Begin(t, op, "load", f) /\ UNCHANGED panicked
       ELSE At(t, "idle") /\ panicked' = panicked \cup {f} /\ UNCHANGED call
  /\ NoteCut(f)
  /\ UNCHANGED <<table, growVars, files, nonblock, foreign>>

\* An I/O hook starts with register_optional, fcntl(F_SETFL) with is_managed.
HookUse(t, op, f) ==
  /\ f \in files \ Moving
  /\ Begin(t, op, "load", f)
  /\ UNCHANGED <<table, growVars, worldVars, spoilt>>

-----------------------------------------------------------------------------
(* apth_fd_ensure_capacity and fd_table_grow_to *)

Fits(t) == Fd(t) < table[Now].cap

\* The capacity is checked, and again under the lock; the table never
\* shrinks, so the second check decides.  The entries are copied.
GrowCopy(t) ==
  /\ At(t, "ensure") /\ ~Fits(t) /\ growLock = {}
  /\ growLock' = {t}
  /\ copied' = Managed
  /\ Step(t, "publish")
  /\ UNCHANGED <<table, freed, deferred, worldVars, spoilt>>

NewCap(f) == Min({c \in {table[Now].cap * 2^k : k \in 0 .. f} : c > f})

\* Mutant: frees what was just replaced, too.
PublishThenFlush(t) ==
  /\ At(t, "publish")
  /\ table' = Append(table, [cap |-> NewCap(Fd(t)), managed |-> copied])
  /\ IF Len(deferred) + 1 >= DeferMax
       THEN freed' = freed \cup ToSet(deferred) \cup {Now} /\ deferred' = <<>>
       ELSE deferred' = Append(deferred, Now) /\ UNCHANGED freed
  /\ growLock' = {}
  /\ Step(t, "load")
  /\ UNCHANGED <<copied, worldVars, spoilt>>

\* The copy is published, then the old snapshot is put aside; a full ring is
\* freed before.
GrowPublish(t) ==
  /\ At(t, "publish")
  /\ table' = Append(table, [cap |-> NewCap(Fd(t)), managed |-> copied])
  /\ IF Len(deferred) >= DeferMax
       THEN freed' = freed \cup ToSet(deferred) /\ deferred' = <<Now>>
       ELSE deferred' = Append(deferred, Now) /\ UNCHANGED freed
  /\ growLock' = {}
  /\ Step(t, "load")
  /\ copied' = {}
  /\ UNCHANGED <<worldVars, spoilt>>

-----------------------------------------------------------------------------
(* Use of a snapshot: loaded once, read or written later *)

\* The table never shrinks: a check that it is large enough and the load
\* after it are one step.
Load(t) ==
  /\ At(t, "load") \/ (At(t, "ensure") /\ Fits(t))
  /\ call' = [call EXCEPT
       ![t].snap = Now,
       ![t].at = CASE call[t].op = "open" -> "mark"
                   [] call[t].op \in {"creat", "reuse", "redup"} -> "set"
                   [] call[t].op \in {"close", "dup2"} -> "clear"
                   [] OTHER -> "test"]
  /\ UNCHANGED <<table, growVars, worldVars, spoilt>>

\* A store is lost if a copy that lacks it is, or will be, published.
Store(t, entries) ==
  /\ table' = [table EXCEPT ![call[t].snap].managed = entries]
  /\ spoilt' = IF call[t].snap # Now \/ growLock # {}
                 THEN spoilt \cup {Fd(t)} ELSE spoilt

\* apth_fd_register: F_GETFL gives up on a closed number; F_SETFL makes a
\* blocking file non-blocking, and panics if the number is closed by then.
\* apth_fd_register_nonblock does neither.
GetFlags(t) ==
  /\ At(t, "set")
  /\ Step(t, IF Fd(t) \notin files THEN "valid"
             ELSE IF Fd(t) \in nonblock THEN "mark" ELSE "force")
  /\ UNCHANGED <<table, growVars, worldVars, spoilt>>

SetNonblock(t) ==
  /\ At(t, "force")
  /\ IF Fd(t) \in files
       THEN nonblock' = nonblock \cup {Fd(t)} /\ UNCHANGED panicked
       ELSE panicked' = panicked \cup {Fd(t)} /\ UNCHANGED nonblock
  /\ Step(t, "mark")
  /\ UNCHANGED <<table, growVars, files, foreign, spoilt>>

\* An I/O hook goes on to apth_util_fd_valid, the others return.
Mark(t) ==
  /\ At(t, "mark")
  /\ Store(t, Snap(t).managed \cup {Fd(t)})
  /\ IF call[t].op = "reuse" THEN Step(t, "valid") ELSE Finish(t)
  /\ UNCHANGED <<growVars, worldVars>>

\* Mutant: leaves the entry as it is.
UnregisterNothing(t) ==
  /\ At(t, "clear")
  /\ Step(t, "raw")
  /\ UNCHANGED <<table, growVars, worldVars, spoilt>>

\* apth_fd_unregister, then the kernel's close or dup2; the latter puts a
\* file that may block under the number and registers it.
Unregister(t) ==
  /\ At(t, "clear")
  /\ IF Fd(t) < Snap(t).cap
       THEN Store(t, Snap(t).managed \ {Fd(t)})
       ELSE UNCHANGED <<table, spoilt>>
  /\ Step(t, "raw")
  /\ UNCHANGED <<growVars, worldVars>>

RawCall(t) ==
  /\ At(t, "raw")
  /\ IF call[t].op = "close"
       THEN files' = files \ {Fd(t)} /\ Finish(t)
       ELSE /\ call' = [call EXCEPT ![t].op = "redup", ![t].at = "ensure"]
            /\ UNCHANGED files
  /\ nonblock' = nonblock \ {Fd(t)}
  /\ foreign' = foreign \ {Fd(t)}
  /\ UNCHANGED <<table, growVars, panicked, spoilt>>

\* A dup2 that fails leaves the number open and unregistered.
RawDup2Fails(t) ==
  /\ At(t, "raw") /\ call[t].op = "dup2"
  /\ Finish(t)
  /\ spoilt' = spoilt \cup {Fd(t)}
  /\ UNCHANGED <<table, growVars, worldVars>>

\* apth_fd_is_managed for an I/O hook and for fcntl(F_SETFL) without
\* O_NONBLOCK, which is forced on a managed descriptor.
IsManaged(t) == Fd(t) < Snap(t).cap /\ Fd(t) \in Snap(t).managed

TestThenUse(t) ==
  /\ At(t, "test") /\ call[t].op = "use"
  /\ IF IsManaged(t)
       THEN Step(t, "valid")
       ELSE call' = [call EXCEPT ![t] = [@ EXCEPT !.op = "reuse", !.at = "ensure",
                                                 !.snap = 0]]
  /\ UNCHANGED <<table, growVars, worldVars, spoilt>>

TestThenSetFlags(t) ==
  /\ At(t, "test") /\ call[t].op = "setfl"
  /\ Step(t, IF IsManaged(t) THEN "keep" ELSE "drop")
  /\ UNCHANGED <<table, growVars, worldVars, spoilt>>

SetFlags(t) ==
  /\ call[t].at \in {"keep", "drop"}
  /\ nonblock' = IF At(t, "keep") THEN nonblock \cup ({Fd(t)} \cap files)
                                  ELSE nonblock \ {Fd(t)}
  /\ Finish(t)
  /\ UNCHANGED <<table, growVars, files, foreign, panicked, spoilt>>

\* apth_util_fd_valid: EBADF, a panic, or on with the I/O.
Valid(t) ==
  /\ At(t, "valid")
  /\ panicked' = IF Fd(t) \in files \ nonblock
                   THEN panicked \cup {Fd(t)} ELSE panicked
  /\ Finish(t)
  /\ UNCHANGED <<table, growVars, files, nonblock, foreign, spoilt>>

UserStep(t) ==
  \/ \E op \in {"open", "creat"} : HookOpen(t, op)
  \/ \E f \in Numbers : HookClose(t, f)
  \/ \E f \in Numbers, op \in {"dup2", "close"} : HookReplace(t, op, f)
  \/ \E f \in Numbers, op \in {"use", "setfl"} : HookUse(t, op, f)
  \/ GrowCopy(t) \/ GrowPublish(t)
  \/ Load(t) \/ GetFlags(t) \/ SetNonblock(t) \/ Mark(t)
  \/ Unregister(t) \/ RawCall(t) \/ RawDup2Fails(t)
  \/ TestThenUse(t) \/ TestThenSetFlags(t) \/ SetFlags(t) \/ Valid(t)

\* A panic ends the program.
FdTableNext ==
  /\ panicked = {}
  /\ ForeignOpen \/ \E t \in Users : UserStep(t)

FdTableSpec == FdTableInit /\ [][FdTableNext]_fdTableVars

-----------------------------------------------------------------------------
(* Properties *)

FdTableTypeOK ==
  /\ freed \subseteq 1 .. Now - 1 /\ ToSet(deferred) \subseteq 1 .. Now - 1
  /\ Len(deferred) <= DeferMax
  /\ nonblock \subseteq files /\ Cardinality(growLock) <= 1
  /\ \A i \in 1 .. Now : \A f \in table[i].managed : f < table[i].cap
  /\ \A t \in Users : call[t].snap \in 0 .. Now

\* A snapshot is freed no earlier than the second growth after it was
\* current: a hook that holds one over a single growth never reads or writes
\* freed memory ("one deferred generation is sufficient").
GraceOfOneGrowth == \A g \in freed : g + 1 < Now

\* A number opened by a hook, whose stores all reached the newest snapshot
\* and that was not closed under a running call.
Ordinary(f) == f \notin foreign \cup spoilt

\* Between calls the newest snapshot says which numbers are open.
TableAgrees ==
  \A f \in Numbers :
    ~InUse(f) /\ Ordinary(f) => (f \in files <=> f \in Managed)

\* A managed descriptor does not block: the loops of the I/O hooks rely on
\* EAGAIN, and a blocking one would stop the whole scheduler.
ManagedDoesNotBlock ==
  \A f \in Managed \cap files :
    ~InUse(f) /\ Ordinary(f) => f \in nonblock

\* apth_util_fd_valid does not end the program over such a descriptor.
NoPanicOnOrdinary == \A f \in panicked : ~Ordinary(f)

\* What the hooks rely on when they look an ordinary number up.
TableIsTrue == TableAgrees /\ ManagedDoesNotBlock /\ NoPanicOnOrdinary
=============================================================================
