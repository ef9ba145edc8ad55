------------------------------ MODULE StackPool ------------------------------
(***************************************************************************)
(* Thread control blocks and their stacks (internal/apth_tcb.c).  A stack   *)
(* is a mapped region of pages whose first pages may be protected.  A freed *)
(* control block gives its region to the pool of the scheduler that frees   *)
(* it, and a new one takes the best fit of the pool of the scheduler that   *)
(* allocates it.                                                            *)
(***************************************************************************)
EXTENDS Integers, FiniteSets, Sequences, SequencesExt, FiniteSetsExt

CONSTANTS Blocks,      \* control blocks
          Regions,     \* the places for a mapping, numbers; mmap takes the first
                       \* free one and fails when there is none
          Pools,       \* the schedulers
          PoolMax,     \* APTH_STACK_POOL_MAX
          MinStack,    \* APTH_MIN_STACK, in pages
          StackSizes, GuardSizes   \* what is asked for, in pages

ASSUME StackPoolConstants ==
  /\ PoolMax \in Nat /\ MinStack \in Nat \ {0}
  /\ Regions \subseteq Nat \ {0}

VARIABLES mapped,      \* every mapped region: its size, the guard it was mapped
                       \* for and the pages that are protected
          stack_pool,  \* the array of every scheduler
          tcb,         \* the live control blocks
          asked        \* what each of them was allocated for

stackVars == <<mapped, stack_pool, tcb, asked>>

NoBlock == [state |-> "none"]
NoPool == "nosched"
Mapped == DOMAIN mapped

StackPoolInit ==
  /\ mapped = [r \in {} |-> [size |-> 0, guard |-> 0, prot |-> 0]]
  /\ stack_pool = [s \in Pools |-> <<>>]
  /\ tcb = [t \in Blocks |-> NoBlock]
  /\ asked = [t \in Blocks |-> 0]

\* Every piece of state has its type.
StackPoolTypeOK ==
  /\ Mapped \subseteq Regions
  /\ \A r \in Mapped : mapped[r] \in [size : Nat, guard : Nat, prot : Nat]
  /\ stack_pool \in [Pools -> Seq([mem : Regions, size : Nat])]
  /\ \A t \in Blocks : tcb[t] = NoBlock \/
       tcb[t] \in [state : {"own", "loan"}, mem : Regions \cup {0},
                   stacksize : Nat, guardsize : Nat]
  /\ asked \in [Blocks -> Nat]

-----------------------------------------------------------------------------
\* The index of the smallest entry that is large enough, the first one of
\* them, or 0.
BestFit(pool, total) ==
  LET fits == {i \in DOMAIN pool : pool[i].size >= total}
      least == {i \in fits : \A j \in fits : pool[i].size <= pool[j].size}
  IN IF fits = {} THEN 0 ELSE Min(least)

\* Mutant: the entry that was taken stays in the pool when it is the last.
KeepLast(pool, i) == [pool EXCEPT ![i] = pool[Len(pool)]]

\* Entry i is replaced by the last one and the pool shrinks.
TakeEntry(pool, i) == Front([pool EXCEPT ![i] = pool[Len(pool)]])

Sched(s) == IF s = NoPool THEN <<>> ELSE stack_pool[s]

\* apth_tcb_alloc with a stack of the caller's: it has no guard pages.
AllocLoaned(t, size) ==
  /\ tcb[t] = NoBlock /\ size > 0
  /\ tcb' = [tcb EXCEPT ![t] = [state |-> "loan", mem |-> 0, guardsize |-> 0,
                                stacksize |-> Max({size, MinStack})]]
  /\ asked' = [asked EXCEPT ![t] = Max({size, MinStack})]
  /\ UNCHANGED <<mapped, stack_pool>>

\* apth_tcb_alloc on scheduler s, whose pool has a stack that is large enough:
\* its protection is left as it is.
AllocFromPool(t, s, size, guard) ==
  LET total == Max({size, MinStack}) + guard
      i == BestFit(Sched(s), total)
  IN /\ tcb[t] = NoBlock /\ size > 0 /\ i # 0
     /\ tcb' = [tcb EXCEPT ![t] = [state |-> "own", mem |-> stack_pool[s][i].mem,
                                   stacksize |-> stack_pool[s][i].size - guard,
                                   guardsize |-> guard]]
     /\ stack_pool' = [stack_pool EXCEPT ![s] = TakeEntry(@, i)]
     /\ asked' = [asked EXCEPT ![t] = Max({size, MinStack})]
     /\ UNCHANGED mapped

\* apth_tcb_alloc with a new mapping; mprotect may fail, which is only logged.
AllocMapped(t, s, size, guard) ==
  LET total == Max({size, MinStack}) + guard IN
  /\ tcb[t] = NoBlock /\ size > 0 /\ BestFit(Sched(s), total) = 0
  /\ Regions # Mapped
  /\ \E prot \in {0, guard} : LET r == Min(Regions \ Mapped) IN
       /\ mapped' = [m \in Mapped \cup {r} |->
                       IF m = r THEN [size |-> total, guard |-> guard, prot |-> prot]
                       ELSE mapped[m]]
       /\ tcb' = [tcb EXCEPT ![t] = [state |-> "own", mem |-> r, guardsize |-> guard,
                                     stacksize |-> Max({size, MinStack})]]
  /\ asked' = [asked EXCEPT ![t] = Max({size, MinStack})]
  /\ UNCHANGED stack_pool

\* A size of 0 is refused, and so is an mmap that fails.
AllocFails(t, s, size, guard) ==
  /\ tcb[t] = NoBlock
  /\ \/ size = 0
     \/ BestFit(Sched(s), Max({size, MinStack}) + guard) = 0
  /\ UNCHANGED stackVars

\* apth_tcb_free on scheduler s: a region goes to its pool, or back to the
\* system when the pool is full or a pthread without a scheduler frees it.
apth_tcb_free(t, s) ==
  LET total == tcb[t].stacksize + tcb[t].guardsize
      keep == s # NoPool /\ Len(Sched(s)) < PoolMax
  IN
  /\ tcb[t] # NoBlock
  /\ \/ /\ tcb[t].state = "loan"
        /\ UNCHANGED <<mapped, stack_pool>>
     \/ /\ tcb[t].state = "own" /\ ~keep
        /\ mapped' = [m \in Mapped \ {tcb[t].mem} |-> mapped[m]]
        /\ UNCHANGED stack_pool
     \/ /\ tcb[t].state = "own" /\ keep
        /\ stack_pool' = [stack_pool EXCEPT
                            ![s] = Append(@, [mem |-> tcb[t].mem, size |-> total])]
        /\ UNCHANGED mapped
  /\ tcb' = [tcb EXCEPT ![t] = NoBlock]
  /\ asked' = [asked EXCEPT ![t] = 0]

StackPoolNext ==
  \/ \E t \in Blocks, size \in StackSizes :
       \/ AllocLoaned(t, size)
       \/ \E guard \in GuardSizes :
            \/ \E s \in Pools : AllocFromPool(t, s, size, guard)
            \/ \E s \in Pools \cup {NoPool} :
                 AllocMapped(t, s, size, guard) \/ AllocFails(t, s, size, guard)
  \/ \E t \in Blocks, s \in Pools \cup {NoPool} : apth_tcb_free(t, s)

StackPoolSpec == StackPoolInit /\ [][StackPoolNext]_stackVars

-----------------------------------------------------------------------------
(* Properties *)

OwnBlocks == {t \in Blocks : tcb[t] # NoBlock /\ tcb[t].state = "own"}
Entries == {<<s, i>> \in Pools \X (1 .. PoolMax) : i <= Len(stack_pool[s])}
EntryAt(e) == stack_pool[e[1]][e[2]]

\* The pages of t's stack that it can use lie above its own guard and above
\* whatever is protected.
Usable(t) == mapped[tcb[t].mem].size - Max({tcb[t].guardsize, mapped[tcb[t].mem].prot})

\* Every mapped stack belongs to exactly one control block or pool entry,
\* whichever schedulers allocated and freed it before, with the size it was
\* mapped with; no pool is over its limit.  A block whose stack was mapped for a
\* guard of its size can use all of the stack it asked for, and its guard is
\* protected unless mprotect failed.  A stack that comes out of a pool keeps the
\* protection it was mapped with: one that was mapped for a larger guard is short
\* of what was asked for by the difference, and never by more; one that was
\* mapped for a smaller guard is not short.
StacksHeldOnce ==
  /\ Cardinality(Mapped) = Cardinality(OwnBlocks) + Cardinality(Entries)
  /\ Mapped = {tcb[t].mem : t \in OwnBlocks} \cup {EntryAt(e).mem : e \in Entries}
  /\ \A e \in Entries : EntryAt(e).size = mapped[EntryAt(e).mem].size
  /\ \A s \in Pools : Len(stack_pool[s]) <= PoolMax
  /\ \A t \in OwnBlocks : LET m == mapped[tcb[t].mem] IN
       /\ tcb[t].stacksize + tcb[t].guardsize = m.size
       /\ m.prot \in {0, m.guard}
       /\ Usable(t) + Max({0, m.guard - tcb[t].guardsize}) >= asked[t]
=============================================================================
