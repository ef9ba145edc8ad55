---------------------------- MODULE WorkersProofs ----------------------------
(***************************************************************************)
(* The start of the library and its end, for any number of workers and      *)
(* whatever fails on the way: the order of the start, the memory of every   *)
(* worker, the list of workers and who has been told to leave.  What        *)
(* PoolMemoryLive says follows in WorkersEndProofs.                         *)
(***************************************************************************)
EXTENDS Workers, QueueFacts, FiniteSetTheorems

\* The workers that have not counted down, or never will.
Uncounted ==
  {w \in Workers : \/ workerPc[w] \in {"none", "init", "count"}
                   \/ workerPc[w] = "gone" /\ schedMem[w] = "none"}

Counted == WORKER_SPAWNED = Cardinality(Uncounted)

AllCounted ==
  \A w \in Workers : workerPc[w] \notin {"none", "init", "count"} /\ schedMem[w] # "none"

\* The main apth is made only when all of them have.
StartOrder ==
  /\ mainSet <=> initPc \in {"main_set", "join_worker_0", "exit"}
  /\ initPc \in {"create_main", "set_main", "main_set", "join_worker_0", "exit"} => AllCounted
  /\ \A w \in Workers :
       workerPc[w] \notin {"none", "init", "count", "wait_main", "gone"} => mainSet
  /\ \A w \in Workers : schedMem[w] = "freed" => mainSet

\* What a worker has at each place of its life.
MemoryOf(w) ==
  /\ workerPc[w] = "none" <=> workerMem[w] = "none"
  /\ workerPc[w] \in {"none", "init"} => schedMem[w] = "none"
  /\ workerPc[w] \notin {"none", "init", "gone"} => schedMem[w] = "live"
  /\ workerPc[w] = "gone" => schedMem[w] # "live"
  /\ workerMem[w] = "freed" => workerPc[w] = "gone"

Memory == \A w \in Workers : MemoryOf(w)

Dropping == {"drop", "join", "kill", "gone"}

\* Who leaves has been told, who has been told is no longer in the list, and
\* nobody is told before worker 0 drops the pool.
Told ==
  /\ \A w \in Workers : workerPc[w] \in {"isolated", "drop", "join", "kill"} => w = 0
  /\ \A w \in Workers \ {0} :
       workerPc[w] = "leaving" \/ schedMem[w] = "freed" => ~opening[w]
  /\ \A w \in Workers \ {0} :
       ~opening[w] /\ schedMem[w] # "none" => workerPc[0] \in Dropping
  /\ \A w \in Workers \ {0} :
       InQueue(wrkpthrs, w) /\ schedMem[w] # "none" => opening[w]

\* The list of workers grows in order, and loses worker 0 first.
ListOfWorkers ==
  /\ NoDuplicates(wrkpthrs)
  /\ initPc = "spawn" => \A i \in 1..Len(wrkpthrs) : wrkpthrs[i] = i - 1
  /\ workerPc[0] \in {"isolated", "drop", "join", "kill"} => ~InQueue(wrkpthrs, 0)

Victims ==
  /\ \A w \in Workers : workerPc[w] = "steal" => victim[w] \in Workers \ {w}
  /\ workerPc[0] = "join" => victim[0] \in Workers \ {0}

\* (WorkersEndProofs shows that the prod of worker 0, "count", is in time.)
ReadsLive ==
  /\ freedReads \subseteq {"steal", "tid", "count"}
  /\ freedReads \ {"count"} # {} => workerPc[0] \in Dropping

Shape ==
  WorkersTypeOK /\ StartOrder /\ Memory /\ Told /\ ListOfWorkers /\ Victims /\ ReadsLive

IInv == Shape /\ Counted

-----------------------------------------------------------------------------
LEMMA WorkersFinite ==
  /\ IsFiniteSet(Workers) /\ 0 \in Workers /\ Workers \subseteq Nat
  /\ IsFiniteSet(Uncounted) /\ Cardinality(Uncounted) \in Nat
  /\ Cardinality(Uncounted) <= NWorkers /\ Cardinality(Workers) = NWorkers
<1>1. IsFiniteSet(0..(NWorkers - 1)) /\ Cardinality(0..(NWorkers - 1)) = NWorkers
  BY WorkersAssumption, FS_Interval
<1>2. IsFiniteSet(Workers) /\ Cardinality(Workers) = NWorkers
  BY <1>1 DEF Workers
<1>3. Uncounted \in SUBSET Workers
  BY DEF Uncounted
<1>4. IsFiniteSet(Uncounted) /\ Cardinality(Uncounted) <= Cardinality(Workers)
  BY <1>2, <1>3, FS_Subset
<1>5. 0 \in Workers /\ Workers \subseteq Nat
  BY WorkersAssumption DEF Workers
<1> QED
  BY <1>2, <1>4, <1>5, FS_CardinalityType

LEMMA CountedKept ==
  ASSUME Counted, UNCHANGED WORKER_SPAWNED, Uncounted' = Uncounted
  PROVE  Counted'
<1>1. Cardinality(Uncounted') = Cardinality(Uncounted)
  BY Zenon
<1> QED
  BY <1>1 DEF Counted

LEMMA Initially == WorkersInit => IInv
<1> SUFFICES ASSUME WorkersInit PROVE IInv
  OBVIOUS
<1>1. WorkersTypeOK
  BY WorkersAssumption, WorkersFinite
  DEF WorkersInit, WorkersTypeOK, InitPcs, WorkerPcs, Nobody
<1>2. StartOrder /\ Memory /\ Told /\ ListOfWorkers /\ Victims /\ ReadsLive
  BY EmptyFacts, WorkersFinite
  DEF WorkersInit, StartOrder, Memory, MemoryOf, Told, ListOfWorkers, Victims, ReadsLive
<1>3. Counted
  <2>1. Uncounted = Workers
    BY DEF WorkersInit, Uncounted
  <2>2. Cardinality(Uncounted) = NWorkers
    BY <2>1, WorkersFinite, Zenon
  <2> QED
    BY <2>2 DEF WorkersInit, Counted
<1> QED
  BY <1>1, <1>2, <1>3 DEF IInv, Shape

-----------------------------------------------------------------------------
(* The pthread that initialises the library *)

LEMMA Spawns == ASSUME IInv, SpawnWorker PROVE IInv'
<1> DEFINE s == Len(wrkpthrs)
<1>1. /\ s \in Workers /\ ~InQueue(wrkpthrs, s)
      /\ \A i \in 1..Len(wrkpthrs) : wrkpthrs[i] = i - 1
  BY WorkersAssumption DEF SpawnWorker, Spawned, IInv, Shape, WorkersTypeOK, ListOfWorkers, InQueue, Workers
<1>2. /\ wrkpthrs' \in Seq(Workers) /\ NoDuplicates(wrkpthrs')
      /\ \A u : InQueue(wrkpthrs', u) <=> InQueue(wrkpthrs, u) \/ u = s
  BY <1>1, PushFacts DEF SpawnWorker, Spawned, IInv, Shape, WorkersTypeOK, ListOfWorkers
<1>3. \A i \in 1..Len(wrkpthrs') : wrkpthrs'[i] = i - 1
  BY <1>1 DEF SpawnWorker, Spawned, IInv, Shape, WorkersTypeOK
<1>4. /\ initPc = "spawn" /\ workerPc[s] = "none"
      /\ workerPc' = [workerPc EXCEPT ![s] = "init"]
      /\ workerMem' = [workerMem EXCEPT ![s] = "live"]
      /\ UNCHANGED <<initPc, WORKER_SPAWNED, published, mainSet, failed, endVars, poolLock,
                     schedMem, opening, victim, freedReads>>
  BY DEF SpawnWorker, Step, Spawned, startVars
<1> HIDE DEF s
<1>5. Shape'
  <2>0. WorkersTypeOK /\ 0 \in Workers
    BY WorkersFinite DEF IInv, Shape
  <2>1. WorkersTypeOK'
    BY <1>1, <1>2, <1>4, <2>0 DEF WorkersTypeOK, WorkerPcs, endVars
  <2>2. StartOrder' /\ Memory'
    BY <1>1, <1>4, <2>0 DEF IInv, Shape, WorkersTypeOK, StartOrder, AllCounted, Memory, MemoryOf
  <2>3. Told'
    BY <1>1, <1>2, <1>4, <2>0 DEF IInv, Shape, WorkersTypeOK, Memory, MemoryOf, Told, Dropping
  <2>4. ListOfWorkers' /\ Victims' /\ ReadsLive'
    BY <1>1, <1>2, <1>3, <1>4, <2>0
    DEF IInv, Shape, WorkersTypeOK, ListOfWorkers, Victims, ReadsLive, Dropping
  <2> QED
    BY <2>1, <2>2, <2>3, <2>4 DEF Shape
<1>6. Uncounted' = Uncounted
  BY <1>1, <1>4 DEF IInv, Shape, WorkersTypeOK, Memory, MemoryOf, Uncounted
<1> QED
  BY <1>4, <1>5, <1>6, CountedKept DEF IInv

\* The steps that leave the workers and their memory alone.
LEMMA WorkersKept ==
  ASSUME IInv, StartOrder', ReadsLive',
         UNCHANGED <<workerPc, WORKER_SPAWNED, poolVars, memVars, victim>>,
         initPc' = initPc \/ initPc' \in InitPcs \ {"spawn"},
         {published', mainSet', mainExited', exitCalled', failed'} \subseteq BOOLEAN,
         nAlive' \in 0 .. MaxApths
  PROVE  IInv'
<1>1. WorkersTypeOK'
  BY DEF IInv, Shape, WorkersTypeOK, poolVars, memVars, ReadsLive
<1>2. Memory' /\ Told' /\ Victims'
  BY DEF IInv, Shape, Memory, MemoryOf, Told, Victims, poolVars, memVars
<1>3. ListOfWorkers'
  BY DEF IInv, Shape, ListOfWorkers, poolVars
<1>4. Uncounted' = Uncounted
  BY DEF Uncounted, memVars
<1> QED
  BY <1>1, <1>2, <1>3, <1>4, CountedKept DEF IInv, Shape

LEMMA SpawnsFail == ASSUME IInv, SpawnFails PROVE IInv'
<1>1. StartOrder' /\ ReadsLive'
  BY DEF SpawnFails, memVars, IInv, Shape, StartOrder, AllCounted, ReadsLive
<1> QED
  BY <1>1, WorkersKept DEF SpawnFails, IInv, Shape, WorkersTypeOK, InitPcs, endVars

LEMMA Publishes == ASSUME IInv, PublishPool PROVE IInv'
<1>1. StartOrder' /\ ReadsLive'
  BY DEF PublishPool, memVars, IInv, Shape, StartOrder, AllCounted, ReadsLive
<1> QED
  BY <1>1, WorkersKept DEF PublishPool, IInv, Shape, WorkersTypeOK, InitPcs, endVars

\* The counter is down to zero: every worker has its scheduler.
LEMMA Synchronises == ASSUME IInv, SyncWorkers PROVE IInv'
<1>1. Uncounted = {}
  BY WorkersFinite, FS_EmptySet DEF SyncWorkers, IInv, Counted
<1>2. AllCounted
  BY <1>1 DEF AllCounted, Uncounted, IInv, Shape, WorkersTypeOK, Memory, MemoryOf, WorkerPcs
<1>3. StartOrder' /\ ReadsLive'
  BY <1>2 DEF SyncWorkers, startVars, memVars, IInv, Shape, StartOrder, AllCounted, ReadsLive
<1> QED
  BY <1>3, WorkersKept DEF SyncWorkers, startVars, IInv, Shape, WorkersTypeOK, InitPcs, endVars

\* The main apth goes to worker 0, which waits for it.
LEMMA CreatesMain == ASSUME IInv, CreateMain PROVE IInv'
<1>1. workerMem[0] = "live" /\ schedMem[0] = "live"
  <2>1. workerPc[0] = "wait_main"
    BY WorkersFinite
    DEF CreateMain, IInv, Shape, WorkersTypeOK, WorkerPcs, StartOrder, AllCounted, Memory, MemoryOf
  <2> QED
    BY <2>1, WorkersFinite DEF IInv, Shape, WorkersTypeOK, Memory, MemoryOf
<1>2. freedReads' = freedReads
  BY <1>1 DEF CreateMain, Reads
<1>3. StartOrder' /\ ReadsLive'
  BY <1>2 DEF CreateMain, startVars, memVars, IInv, Shape, StartOrder, AllCounted, ReadsLive
<1>4. nAlive' \in 0 .. MaxApths
  BY WorkersAssumption DEF CreateMain
<1> QED
  BY <1>3, <1>4, WorkersKept DEF CreateMain, startVars, IInv, Shape, WorkersTypeOK, InitPcs

LEMMA SetsMain == ASSUME IInv, SetMain PROVE IInv'
<1>1. StartOrder' /\ ReadsLive'
  BY DEF SetMain, memVars, IInv, Shape, StartOrder, AllCounted, ReadsLive
<1> QED
  BY <1>1, WorkersKept DEF SetMain, IInv, Shape, WorkersTypeOK, InitPcs, endVars

LEMMA ReadsTid == ASSUME IInv, ReadTid PROVE IInv'
<1>1. workerMem[0] # "live" => workerPc[0] = "gone"
  BY WorkersFinite
  DEF ReadTid, IInv, Shape, WorkersTypeOK, StartOrder, AllCounted, Memory, MemoryOf
<1>2. ReadsLive'
  BY <1>1 DEF ReadTid, Reads, IInv, Shape, ReadsLive, Dropping
<1>3. StartOrder'
  BY DEF ReadTid, startVars, memVars, IInv, Shape, StartOrder, AllCounted
<1> QED
  BY <1>2, <1>3, WorkersKept DEF ReadTid, startVars, IInv, Shape, WorkersTypeOK, InitPcs, endVars

LEMMA JoinsWorker0 == ASSUME IInv, JoinWorker0 PROVE IInv'
<1>1. StartOrder' /\ ReadsLive'
  BY DEF JoinWorker0, startVars, memVars, IInv, Shape, StartOrder, AllCounted, ReadsLive
<1> QED
  BY <1>1, WorkersKept DEF JoinWorker0, startVars, IInv, Shape, WorkersTypeOK, InitPcs, endVars

LEMMA MainEnds == ASSUME IInv, NEW w \in Workers, MainExits(w) PROVE IInv'
<1>1. StartOrder' /\ ReadsLive'
  BY DEF MainExits, startVars, memVars, IInv, Shape, StartOrder, AllCounted, ReadsLive
<1> QED
  BY <1>1, WorkersKept DEF MainExits, startVars, IInv, Shape, WorkersTypeOK, InitPcs

-----------------------------------------------------------------------------
(* The workers *)

Outside == {"none", "init", "count", "gone"}

\* A worker goes from one place of its loop, or of the drop, to another.
LEMMA Moves ==
  ASSUME IInv, NEW w \in Workers, NEW from, from \notin Outside,
         NEW to \in WorkerPcs \ Outside, Step(w, from, to),
         UNCHANGED <<initPc, WORKER_SPAWNED, mainSet, failed, wrkpthrs, memVars>>,
         {published', mainExited', exitCalled'} \subseteq BOOLEAN,
         nAlive' \in 0 .. MaxApths, poolLock' \in Workers \cup {Nobody},
         victim' \in [Workers -> Workers \cup {Nobody}],
         to = "wait_main" \/ mainSet,
         to \in {"isolated", "drop", "join", "kill"} => w = 0 /\ ~InQueue(wrkpthrs, 0),
         to = "leaving" => w = 0 \/ ~opening[w],
         w = 0 /\ from \in Dropping => to \in Dropping,
         Victims', ReadsLive'
  PROVE  IInv'
<1>0. WorkersTypeOK /\ 0 \in Workers
  BY WorkersFinite DEF IInv, Shape
<1>1. /\ workerPc[w] = from /\ workerPc' = [workerPc EXCEPT ![w] = to]
      /\ UNCHANGED <<workerMem, schedMem, opening>>
  BY DEF Step, memVars
<1>2. WorkersTypeOK'
  BY <1>0, <1>1 DEF WorkersTypeOK, ReadsLive
<1>3. StartOrder'
  BY <1>0, <1>1 DEF IInv, Shape, WorkersTypeOK, StartOrder, AllCounted, Outside
<1>4. Memory'
  BY <1>0, <1>1 DEF IInv, Shape, WorkersTypeOK, Memory, MemoryOf, Outside
<1>5. Told'
  BY <1>0, <1>1 DEF IInv, Shape, WorkersTypeOK, Told, Dropping
<1>6. ListOfWorkers'
  BY <1>0, <1>1 DEF IInv, Shape, WorkersTypeOK, ListOfWorkers
<1>7. Uncounted' = Uncounted
  BY <1>0, <1>1 DEF WorkersTypeOK, Uncounted, Outside
<1> QED
  BY <1>2, <1>3, <1>4, <1>5, <1>6, <1>7, CountedKept DEF IInv, Shape

\* What the steps of the loop have in common.
LEMMA LoopMoves ==
  ASSUME IInv, NEW w \in Workers, NEW from \in {"wait_main", "loop", "work", "epoll"},
         NEW to \in {"loop", "work", "epoll", "leaving"}, Step(w, from, to), mainSet,
         to = "leaving" => w = 0 \/ ~opening[w],
         UNCHANGED <<initPc, startVars, endVars, poolVars, memVars, victim, freedReads>>
  PROVE  IInv'
<1>0. WorkersTypeOK /\ 0 \in Workers
  BY WorkersFinite DEF IInv, Shape
<1>1. Victims' /\ ReadsLive'
  BY <1>0 DEF Step, IInv, Shape, WorkersTypeOK, Victims, ReadsLive, Dropping
<1>2. /\ {published', mainExited', exitCalled'} \subseteq BOOLEAN /\ nAlive' \in 0 .. MaxApths
      /\ poolLock' \in Workers \cup {Nobody}
      /\ victim' \in [Workers -> Workers \cup {Nobody}]
      /\ UNCHANGED <<initPc, WORKER_SPAWNED, mainSet, failed, wrkpthrs, memVars>>
  BY <1>0 DEF WorkersTypeOK, startVars, endVars, poolVars
<1>3. from \notin Outside /\ to \in WorkerPcs \ Outside /\ from \notin Dropping
  BY DEF Outside, WorkerPcs, Dropping
<1> QED
  BY <1>1, <1>2, <1>3, Moves

LEMMA Loops ==
  ASSUME IInv, NEW w \in Workers,
         WaitMain(w) \/ LoopTop(w) \/ DispatchMain(w) \/ EpollWait(w) \/ EpollReturns(w)
  PROVE  IInv'
<1>1. workerPc[w] \in {"loop", "work", "epoll"} => mainSet
  BY DEF IInv, Shape, StartOrder
<1>2. CASE WaitMain(w)
  BY <1>2, LoopMoves DEF WaitMain
<1>3. CASE LoopTop(w)
  BY <1>1, <1>3, LoopMoves DEF LoopTop, Step, MustLeave
<1>4. CASE DispatchMain(w)
  BY <1>1, <1>4, LoopMoves DEF DispatchMain, Step
<1>5. CASE EpollWait(w)
  BY <1>1, <1>5, LoopMoves DEF EpollWait, Step
<1>6. CASE EpollReturns(w)
  BY <1>1, <1>6, LoopMoves DEF EpollReturns, Step
<1> QED
  BY <1>2, <1>3, <1>4, <1>5, <1>6

\* Once the main apth is set, memory goes only while worker 0 drops the pool.
LEMMA GoneWhenDropped ==
  ASSUME IInv, mainSet, NEW v \in Workers, workerMem[v] # "live" \/ schedMem[v] # "live"
  PROVE  workerPc[0] \in Dropping
<1>1. AllCounted
  BY DEF IInv, Shape, StartOrder
<1>2. workerPc[v] = "gone" /\ schedMem[v] = "freed"
  BY <1>1 DEF AllCounted, IInv, Shape, WorkersTypeOK, Memory, MemoryOf
<1>3. CASE v = 0
  BY <1>2, <1>3 DEF Dropping
<1>4. CASE v # 0
  BY <1>2, <1>4 DEF IInv, Shape, Told
<1> QED
  BY <1>3, <1>4

LEMMA Steals ==
  ASSUME IInv, NEW w \in Workers, StealTake(w) \/ \E v \in Workers : StealLook(w, v)
  PROVE  IInv'
<1>0. WorkersTypeOK /\ 0 \in Workers
  BY WorkersFinite DEF IInv, Shape
<1>1. CASE StealTake(w)
  <2>1. mainSet /\ victim[w] \in Workers
    BY <1>1 DEF StealTake, Step, IInv, Shape, StartOrder, Victims
  <2>2. freedReads' = freedReads \/ (freedReads' = freedReads \cup {"steal"} /\ workerPc[0] \in Dropping)
    BY <1>1, <2>1, GoneWhenDropped DEF StealTake, Reads
  <2>3. Victims' /\ ReadsLive'
    BY <1>0, <1>1, <2>2
    DEF StealTake, Step, IInv, Shape, WorkersTypeOK, Victims, ReadsLive, Dropping
  <2>4. /\ {published', mainExited', exitCalled'} \subseteq BOOLEAN /\ nAlive' \in 0 .. MaxApths
      /\ poolLock' \in Workers \cup {Nobody}
        /\ victim' \in [Workers -> Workers \cup {Nobody}] /\ Step(w, "steal", "loop")
        /\ UNCHANGED <<initPc, WORKER_SPAWNED, mainSet, failed, wrkpthrs, memVars>>
    BY <1>0, <1>1 DEF StealTake, WorkersTypeOK, startVars, endVars, poolVars
  <2> QED
    BY <2>1, <2>3, <2>4, Moves DEF Outside, WorkerPcs, Dropping
<1>2. CASE \E v \in Workers : StealLook(w, v)
  <2>0. PICK v \in Workers : StealLook(w, v)
    BY <1>2
  <2>1. mainSet /\ v # w
    BY <2>0 DEF StealLook, Step, IInv, Shape, StartOrder
  <2>2. freedReads' = freedReads \/ (freedReads' = freedReads \cup {"steal"} /\ workerPc[0] \in Dropping)
    BY <2>0, <2>1, GoneWhenDropped DEF StealLook, Reads
  <2>3. Victims' /\ ReadsLive'
    BY <1>0, <2>0, <2>1, <2>2
    DEF StealLook, Step, IInv, Shape, WorkersTypeOK, Victims, ReadsLive, Dropping
  <2>4. /\ {published', mainExited', exitCalled'} \subseteq BOOLEAN /\ nAlive' \in 0 .. MaxApths
      /\ poolLock' \in Workers \cup {Nobody}
        /\ victim' \in [Workers -> Workers \cup {Nobody}] /\ Step(w, "work", "steal")
        /\ UNCHANGED <<initPc, WORKER_SPAWNED, mainSet, failed, wrkpthrs, memVars>>
    BY <1>0, <2>0 DEF StealLook, WorkersTypeOK, startVars, endVars, poolVars
  <2> QED
    BY <2>1, <2>3, <2>4, Moves DEF Outside, WorkerPcs, Dropping
<1> QED
  BY <1>1, <1>2

\* Threads are counted in and out.
LEMMA Counts ==
  ASSUME IInv, NEW w \in Workers, CreateApth(w) \/ EndApth(w)
  PROVE  IInv'
<1>0. WorkersTypeOK /\ 0 \in Workers
  BY WorkersFinite DEF IInv, Shape
<1>1. Step(w, "work", "loop") /\ mainSet
  BY DEF CreateApth, EndApth, Step, IInv, Shape, StartOrder
<1>2. freedReads' \in {freedReads, freedReads \cup {"count"}} /\ victim' = victim
  BY DEF CreateApth, EndApth, Reads
<1>3. Victims'
  BY <1>0, <1>1, <1>2 DEF Step, IInv, Shape, WorkersTypeOK, Victims
<1>4. ReadsLive'
  BY <1>0, <1>1, <1>2 DEF Step, IInv, Shape, WorkersTypeOK, ReadsLive, Dropping
<1>5. nAlive' \in 0 .. MaxApths
  BY <1>0, WorkersAssumption DEF CreateApth, EndApth, WorkersTypeOK
<1>6. /\ {published', mainExited', exitCalled'} \subseteq BOOLEAN
      /\ poolLock' \in Workers \cup {Nobody}
      /\ victim' \in [Workers -> Workers \cup {Nobody}]
      /\ UNCHANGED <<initPc, WORKER_SPAWNED, mainSet, failed, wrkpthrs, memVars>>
  BY <1>0 DEF CreateApth, EndApth, WorkersTypeOK, startVars, poolVars
<1> QED
  BY <1>1, <1>3, <1>4, <1>5, <1>6, Moves DEF Outside, WorkerPcs, Dropping

\* A worker makes its scheduler.
LEMMA StartsScheduler == ASSUME IInv, NEW w \in Workers, StartScheduler(w) PROVE IInv'
<1>0. WorkersTypeOK /\ 0 \in Workers
  BY WorkersFinite DEF IInv, Shape
<1>1. /\ workerPc[w] = "init" /\ workerPc' = [workerPc EXCEPT ![w] = "count"]
      /\ schedMem' = [schedMem EXCEPT ![w] = "live"] /\ opening' = [opening EXCEPT ![w] = TRUE]
      /\ UNCHANGED <<initPc, WORKER_SPAWNED, published, mainSet, failed, endVars, wrkpthrs,
                     poolLock, workerMem, victim, freedReads>>
  BY DEF StartScheduler, Step, startVars, poolVars
<1>2. WorkersTypeOK'
  BY <1>0, <1>1 DEF WorkersTypeOK, WorkerPcs, endVars
<1>3. StartOrder' /\ Memory'
  BY <1>0, <1>1 DEF IInv, Shape, WorkersTypeOK, StartOrder, AllCounted, Memory, MemoryOf
<1>4. Told'
  BY <1>0, <1>1 DEF IInv, Shape, WorkersTypeOK, Memory, MemoryOf, Told, Dropping
<1>5. ListOfWorkers' /\ Victims' /\ ReadsLive'
  BY <1>0, <1>1 DEF IInv, Shape, WorkersTypeOK, ListOfWorkers, Victims, ReadsLive, Dropping
<1>6. Uncounted' = Uncounted
  BY <1>0, <1>1 DEF WorkersTypeOK, Uncounted
<1> QED
  BY <1>1, <1>2, <1>3, <1>4, <1>5, <1>6, CountedKept DEF IInv, Shape

\* A worker that could not make it never counts down.
LEMMA SchedulerFails == ASSUME IInv, NEW w \in Workers, SchedulerInitFails(w) PROVE IInv'
<1>0. WorkersTypeOK /\ 0 \in Workers
  BY WorkersFinite DEF IInv, Shape
<1>1. /\ workerPc[w] = "init" /\ workerPc' = [workerPc EXCEPT ![w] = "gone"] /\ failed' = TRUE
      /\ UNCHANGED <<initPc, WORKER_SPAWNED, published, mainSet, endVars, wrkpthrs,
                     poolLock, workerMem, schedMem, opening, victim, freedReads>>
  BY DEF SchedulerInitFails, Step, poolVars, memVars
<1>2. WorkersTypeOK'
  BY <1>0, <1>1 DEF WorkersTypeOK, WorkerPcs, endVars
<1>3. StartOrder' /\ Memory'
  BY <1>0, <1>1 DEF IInv, Shape, WorkersTypeOK, StartOrder, AllCounted, Memory, MemoryOf
<1>4. Told'
  BY <1>0, <1>1 DEF IInv, Shape, WorkersTypeOK, Memory, MemoryOf, Told, Dropping
<1>5. ListOfWorkers' /\ Victims' /\ ReadsLive'
  BY <1>0, <1>1 DEF IInv, Shape, WorkersTypeOK, ListOfWorkers, Victims, ReadsLive, Dropping
<1>6. Uncounted' = Uncounted
  BY <1>0, <1>1 DEF IInv, Shape, WorkersTypeOK, Memory, MemoryOf, Uncounted
<1> QED
  BY <1>1, <1>2, <1>3, <1>4, <1>5, <1>6, CountedKept DEF IInv, Shape

LEMMA CountsDown == ASSUME IInv, NEW w \in Workers, CountDown(w) PROVE IInv'
<1>0. WorkersTypeOK /\ 0 \in Workers
  BY WorkersFinite DEF IInv, Shape
<1>1. /\ workerPc[w] = "count" /\ workerPc' = [workerPc EXCEPT ![w] = "wait_main"]
      /\ WORKER_SPAWNED' = WORKER_SPAWNED - 1
      /\ UNCHANGED <<initPc, published, mainSet, failed, endVars, wrkpthrs,
                     poolLock, workerMem, schedMem, opening, victim, freedReads>>
  BY DEF CountDown, Step, poolVars, memVars
<1>2. w \in Uncounted /\ Uncounted' = Uncounted \ {w}
  BY <1>0, <1>1 DEF IInv, Shape, WorkersTypeOK, Memory, MemoryOf, Uncounted
<1>3. Cardinality(Uncounted \ {w}) = Cardinality(Uncounted) - 1
  BY <1>2, WorkersFinite, FS_RemoveElement
<1>4. Cardinality(Uncounted') = Cardinality(Uncounted) - 1
  BY <1>2, <1>3, Zenon
<1>5. Counted'
  BY <1>1, <1>4 DEF IInv, Counted
<1>6. Cardinality(Uncounted) # 0
  BY <1>2, WorkersFinite, FS_EmptySet
<1>7. WORKER_SPAWNED' \in 0..NWorkers
  <2>1. WORKER_SPAWNED = Cardinality(Uncounted) /\ WORKER_SPAWNED \in 0..NWorkers
    BY <1>0 DEF IInv, Counted, WorkersTypeOK
  <2>2. WORKER_SPAWNED # 0
    BY <1>6, <2>1, Zenon
  <2>3. WORKER_SPAWNED \in 0..NWorkers /\ WORKER_SPAWNED' = WORKER_SPAWNED - 1
    BY <1>1, <2>1
  <2> QED
    BY <2>2, <2>3, WorkersAssumption
<1>8. WorkersTypeOK'
  BY <1>0, <1>1, <1>7 DEF WorkersTypeOK, WorkerPcs, endVars
<1>9. StartOrder' /\ Memory'
  BY <1>0, <1>1 DEF IInv, Shape, WorkersTypeOK, StartOrder, AllCounted, Memory, MemoryOf
<1>10. Told'
  BY <1>0, <1>1 DEF IInv, Shape, WorkersTypeOK, Told, Dropping
<1>11. ListOfWorkers' /\ Victims' /\ ReadsLive'
  BY <1>0, <1>1 DEF IInv, Shape, WorkersTypeOK, ListOfWorkers, Victims, ReadsLive, Dropping
<1> QED
  BY <1>5, <1>8, <1>9, <1>10, <1>11 DEF IInv, Shape

-----------------------------------------------------------------------------
(* The end *)

\* The last element, and the rest.
LEMMA LastFacts ==
  ASSUME NEW S, NEW q \in Seq(S), q # <<>>, NoDuplicates(q)
  PROVE  /\ Last(q) \in S /\ InQueue(q, Last(q))
         /\ Front(q) \in Seq(S) /\ NoDuplicates(Front(q))
         /\ \A u : InQueue(Front(q), u) <=> InQueue(q, u) /\ u # Last(q)
<1>0. Len(q) \in Nat \ {0} /\ Last(q) = q[Len(q)]
  BY DEF Last
<1>1. /\ Front(q) \in Seq(S) /\ Len(Front(q)) = Len(q) - 1
      /\ \A i \in 1..(Len(q) - 1) : Front(q)[i] = q[i]
  <2>1. PICK k \in 1..Len(q) : k = Len(q)
    BY <1>0
  <2> DEFINE a == SubSeq(q, 1, k - 1)
  <2>2. a \in Seq(S) /\ Len(a) = k - 1 /\ \A j \in 1..(k - 1) : a[j] = q[j]
    OBVIOUS
  <2>3. Front(q) = a
    BY <2>1, Zenon DEF Front
  <2> HIDE DEF a
  <2> QED
    BY <2>1, <2>2, <2>3
<1>2. ASSUME NEW u PROVE InQueue(Front(q), u) <=> InQueue(q, u) /\ u # Last(q)
  BY <1>0, <1>1 DEF InQueue, NoDuplicates
<1> QED
  BY <1>0, <1>1, <1>2 DEF InQueue, NoDuplicates

\* Worker 0 takes itself off the list.
LEMMA Isolates == ASSUME IInv, Isolate PROVE IInv'
<1>0. WorkersTypeOK /\ 0 \in Workers
  BY WorkersFinite DEF IInv, Shape
<1>1. PICK i \in 1..Len(wrkpthrs) : wrkpthrs[i] = 0 /\ wrkpthrs' = RemoveAt(wrkpthrs, i)
  BY DEF Isolate
<1>2. /\ wrkpthrs' \in Seq(Workers) /\ NoDuplicates(wrkpthrs')
      /\ \A u : InQueue(wrkpthrs', u) <=> InQueue(wrkpthrs, u) /\ u # 0
  BY <1>0, <1>1, RemoveFacts DEF IInv, Shape, WorkersTypeOK, ListOfWorkers
<1>3. /\ workerPc[0] = "leaving" /\ workerPc' = [workerPc EXCEPT ![0] = "isolated"]
      /\ UNCHANGED <<initPc, WORKER_SPAWNED, published, mainSet, failed, endVars,
                     poolLock, workerMem, schedMem, opening, victim, freedReads>>
  BY DEF Isolate, Step, startVars, memVars
<1>4. mainSet /\ initPc # "spawn"
  BY <1>0, <1>3 DEF IInv, Shape, StartOrder
<1>5. WorkersTypeOK'
  BY <1>0, <1>2, <1>3 DEF WorkersTypeOK, WorkerPcs, endVars
<1>6. StartOrder' /\ Memory'
  BY <1>0, <1>3, <1>4 DEF IInv, Shape, WorkersTypeOK, StartOrder, AllCounted, Memory, MemoryOf
<1>7. Told'
  BY <1>0, <1>2, <1>3 DEF IInv, Shape, WorkersTypeOK, Told, Dropping
<1>8. ListOfWorkers' /\ Victims' /\ ReadsLive'
  BY <1>0, <1>2, <1>3, <1>4 DEF IInv, Shape, WorkersTypeOK, ListOfWorkers, Victims, ReadsLive, Dropping
<1>9. Uncounted' = Uncounted
  BY <1>0, <1>3 DEF WorkersTypeOK, Uncounted
<1> QED
  BY <1>3, <1>5, <1>6, <1>7, <1>8, <1>9, CountedKept DEF IInv, Shape

LEMMA LocksPool == ASSUME IInv, LockPool PROVE IInv'
<1>0. WorkersTypeOK /\ 0 \in Workers
  BY WorkersFinite DEF IInv, Shape
<1>1. mainSet /\ ~InQueue(wrkpthrs, 0)
  BY <1>0 DEF LockPool, Step, IInv, Shape, StartOrder, ListOfWorkers
<1>2. Victims' /\ ReadsLive'
  BY <1>0 DEF LockPool, Step, IInv, Shape, WorkersTypeOK, Victims, ReadsLive, Dropping
<1>3. /\ {published', mainExited', exitCalled'} \subseteq BOOLEAN /\ nAlive' \in 0 .. MaxApths
      /\ poolLock' \in Workers \cup {Nobody}
      /\ victim' \in [Workers -> Workers \cup {Nobody}] /\ Step(0, "isolated", "drop")
      /\ UNCHANGED <<initPc, WORKER_SPAWNED, mainSet, failed, wrkpthrs, memVars>>
  BY <1>0 DEF LockPool, WorkersTypeOK, startVars, endVars
<1> QED
  BY <1>0, <1>1, <1>2, <1>3, Moves DEF Outside, WorkerPcs, Dropping

\* The worker that is told to leave is still there.
LEMMA Tells == ASSUME IInv, TellWorker PROVE IInv'
<1>0. WorkersTypeOK /\ 0 \in Workers
  BY WorkersFinite DEF IInv, Shape
<1> DEFINE v == Last(wrkpthrs)
<1>1. /\ workerPc[0] = "drop" /\ workerPc' = [workerPc EXCEPT ![0] = "join"]
      /\ wrkpthrs # <<>> /\ wrkpthrs' = Front(wrkpthrs)
      /\ victim' = [victim EXCEPT ![0] = v] /\ opening' = [opening EXCEPT ![v] = FALSE]
      /\ Reads("drop", workerMem[v] = "live" /\ schedMem[v] = "live")
      /\ UNCHANGED <<initPc, WORKER_SPAWNED, published, mainSet, failed, endVars,
                     poolLock, workerMem, schedMem>>
  BY DEF TellWorker, Step, startVars
<1>2. /\ v \in Workers /\ InQueue(wrkpthrs, v)
      /\ wrkpthrs' \in Seq(Workers) /\ NoDuplicates(wrkpthrs')
      /\ \A u : InQueue(wrkpthrs', u) <=> InQueue(wrkpthrs, u) /\ u # v
  BY <1>0, <1>1, LastFacts DEF IInv, Shape, WorkersTypeOK, ListOfWorkers
<1> HIDE DEF v
<1>3. v # 0 /\ ~InQueue(wrkpthrs, 0)
  BY <1>1, <1>2 DEF IInv, Shape, ListOfWorkers
<1>4. mainSet /\ initPc # "spawn" /\ schedMem[v] # "none"
  BY <1>0, <1>1, <1>2 DEF IInv, Shape, StartOrder, AllCounted
<1>5. workerMem[v] = "live" /\ schedMem[v] = "live"
  <2>1. schedMem[v] # "freed"
    BY <1>2, <1>3, <1>4 DEF IInv, Shape, Told
  <2>2. schedMem[v] = "live"
    BY <1>0, <1>2, <1>4, <2>1 DEF WorkersTypeOK
  <2> QED
    BY <1>0, <1>2, <2>2 DEF IInv, Shape, WorkersTypeOK, Memory, MemoryOf
<1>6. freedReads' = freedReads
  BY <1>1, <1>5 DEF Reads
<1>7. WorkersTypeOK'
  BY <1>0, <1>1, <1>2, <1>6 DEF WorkersTypeOK, WorkerPcs, endVars
<1>8. StartOrder' /\ Memory'
  BY <1>0, <1>1, <1>4 DEF IInv, Shape, WorkersTypeOK, StartOrder, AllCounted, Memory, MemoryOf
<1>9. Told'
  BY <1>0, <1>1, <1>2, <1>3 DEF IInv, Shape, WorkersTypeOK, Told, Dropping
<1>10. ListOfWorkers' /\ Victims' /\ ReadsLive'
  BY <1>0, <1>1, <1>2, <1>3, <1>4, <1>6
  DEF IInv, Shape, WorkersTypeOK, ListOfWorkers, Victims, ReadsLive, Dropping
<1>11. Uncounted' = Uncounted
  BY <1>0, <1>1 DEF WorkersTypeOK, Uncounted
<1> QED
  BY <1>1, <1>7, <1>8, <1>9, <1>10, <1>11, CountedKept DEF IInv, Shape

\* Its pthread has ended when its memory is freed.
LEMMA JoinsWorker == ASSUME IInv, JoinWorker PROVE IInv'
<1>0. WorkersTypeOK /\ 0 \in Workers
  BY WorkersFinite DEF IInv, Shape
<1> DEFINE v == victim[0]
<1>1. /\ workerPc[0] = "join" /\ workerPc' = [workerPc EXCEPT ![0] = "drop"]
      /\ workerPc[v] = "gone" /\ workerMem' = [workerMem EXCEPT ![v] = "freed"]
      /\ victim' = [victim EXCEPT ![0] = Nobody]
      /\ UNCHANGED <<initPc, WORKER_SPAWNED, published, mainSet, failed, endVars,
                     wrkpthrs, poolLock, schedMem, opening, freedReads>>
  BY DEF JoinWorker, Step, startVars, poolVars
<1>2. v \in Workers \ {0}
  BY <1>1 DEF IInv, Shape, Victims
<1> HIDE DEF v
<1>3. mainSet /\ ~InQueue(wrkpthrs, 0)
  BY <1>0, <1>1 DEF IInv, Shape, StartOrder, ListOfWorkers
<1>4. WorkersTypeOK'
  BY <1>0, <1>1, <1>2 DEF WorkersTypeOK, WorkerPcs, endVars
<1>5. StartOrder'
  BY <1>0, <1>1, <1>3 DEF IInv, Shape, WorkersTypeOK, StartOrder, AllCounted
<1>6. Memory'
  BY <1>0, <1>1, <1>2 DEF IInv, Shape, WorkersTypeOK, Memory, MemoryOf
<1>7. Told'
  BY <1>0, <1>1 DEF IInv, Shape, WorkersTypeOK, Told, Dropping
<1>8. ListOfWorkers' /\ Victims' /\ ReadsLive'
  BY <1>0, <1>1, <1>3
  DEF IInv, Shape, WorkersTypeOK, ListOfWorkers, Victims, ReadsLive, Dropping
<1>9. Uncounted' = Uncounted
  BY <1>0, <1>1 DEF WorkersTypeOK, Uncounted
<1> QED
  BY <1>1, <1>4, <1>5, <1>6, <1>7, <1>8, <1>9, CountedKept DEF IInv, Shape

LEMMA DropsPool == ASSUME IInv, PoolDropped PROVE IInv'
<1>0. WorkersTypeOK /\ 0 \in Workers
  BY WorkersFinite DEF IInv, Shape
<1>1. mainSet /\ ~InQueue(wrkpthrs, 0)
  BY <1>0 DEF PoolDropped, Step, IInv, Shape, StartOrder, ListOfWorkers
<1>2. Victims' /\ ReadsLive'
  BY <1>0 DEF PoolDropped, Step, IInv, Shape, WorkersTypeOK, Victims, ReadsLive, Dropping
<1>3. /\ {published', mainExited', exitCalled'} \subseteq BOOLEAN /\ nAlive' \in 0 .. MaxApths
      /\ poolLock' \in Workers \cup {Nobody}
      /\ victim' \in [Workers -> Workers \cup {Nobody}] /\ Step(0, "drop", "kill")
      /\ UNCHANGED <<initPc, WORKER_SPAWNED, mainSet, failed, wrkpthrs, memVars>>
  BY <1>0 DEF PoolDropped, WorkersTypeOK, endVars
<1> QED
  BY <1>0, <1>1, <1>2, <1>3, Moves DEF Outside, WorkerPcs, Dropping

\* A worker that leaves frees its scheduler, and worker 0 itself.
LEMMA Kills == ASSUME IInv, NEW w \in Workers, Kill(w) PROVE IInv'
<1>0. WorkersTypeOK /\ 0 \in Workers
  BY WorkersFinite DEF IInv, Shape
<1>1. /\ workerPc[w] = (IF w = 0 THEN "kill" ELSE "leaving")
      /\ workerPc' = [workerPc EXCEPT ![w] = "gone"]
      /\ schedMem' = [schedMem EXCEPT ![w] = "freed"]
      /\ workerMem' = [workerMem EXCEPT ![w] = IF w = 0 THEN "freed" ELSE @]
      /\ UNCHANGED <<initPc, WORKER_SPAWNED, published, mainSet, failed, endVars,
                     wrkpthrs, poolLock, opening, victim, freedReads>>
  BY DEF Kill, Step, startVars, poolVars
<1>2. mainSet /\ workerPc[w] \in {"kill", "leaving"} /\ (w # 0 => ~opening[w])
  BY <1>1 DEF IInv, Shape, StartOrder, Told
<1>3. WorkersTypeOK'
  BY <1>0, <1>1 DEF WorkersTypeOK, WorkerPcs, endVars
<1>4. StartOrder'
  BY <1>0, <1>1, <1>2 DEF IInv, Shape, WorkersTypeOK, StartOrder, AllCounted
<1>5. Memory'
  <2>1. CASE w = 0
    BY <1>0, <1>1, <1>2, <2>1 DEF IInv, Shape, WorkersTypeOK, Memory, MemoryOf
  <2>2. CASE w # 0
    BY <1>0, <1>1, <1>2, <2>2 DEF IInv, Shape, WorkersTypeOK, Memory, MemoryOf
  <2> QED
    BY <2>1, <2>2
<1>6. Told'
  BY <1>0, <1>1, <1>2 DEF IInv, Shape, WorkersTypeOK, Memory, MemoryOf, Told, Dropping
<1>7. ListOfWorkers' /\ Victims' /\ ReadsLive'
  BY <1>0, <1>1 DEF IInv, Shape, WorkersTypeOK, ListOfWorkers, Victims, ReadsLive, Dropping
<1>8. Uncounted' = Uncounted
  BY <1>0, <1>1, <1>2 DEF WorkersTypeOK, Uncounted
<1> QED
  BY <1>1, <1>3, <1>4, <1>5, <1>6, <1>7, <1>8, CountedKept DEF IInv, Shape

-----------------------------------------------------------------------------
LEMMA Preserved == IInv /\ [WorkersNext]_workersVars => IInv'
<1> SUFFICES ASSUME IInv, [WorkersNext]_workersVars PROVE IInv'
  OBVIOUS
<1>1. CASE InitializerNext
  BY <1>1, Spawns, SpawnsFail, Publishes, Synchronises, CreatesMain, SetsMain, ReadsTid,
     JoinsWorker0 DEF InitializerNext
<1>2. CASE DropNext
  BY <1>2, Isolates, LocksPool, Tells, JoinsWorker, DropsPool DEF DropNext
<1>3. ASSUME NEW w \in Workers, MainExits(w) PROVE IInv'
  BY <1>3, MainEnds
<1>4. ASSUME NEW w \in Workers, WorkerNext(w) PROVE IInv'
  BY <1>4, StartsScheduler, SchedulerFails, CountsDown, Loops, Counts, Steals, Kills
  DEF WorkerNext
<1>5. CASE UNCHANGED workersVars
  <2>1. StartOrder' /\ ReadsLive'
    BY <1>5 DEF workersVars, IInv, Shape, StartOrder, AllCounted, ReadsLive
  <2> QED
    BY <1>5, <2>1, WorkersKept DEF workersVars, poolVars, memVars, IInv, Shape, WorkersTypeOK
<1> QED
  BY <1>1, <1>2, <1>3, <1>4, <1>5 DEF WorkersNext

\* However many workers and threads there are and whichever workers fail to
\* start: every piece of state keeps its type, the main apth is made only when
\* every worker has counted down, and who leaves has been told to.
THEOREM WorkersInvariant == WorkersSpec => []IInv
  BY Initially, Preserved, PTL DEF WorkersSpec
=============================================================================
