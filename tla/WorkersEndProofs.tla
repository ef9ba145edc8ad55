--------------------------- MODULE WorkersEndProofs ---------------------------
(***************************************************************************)
(* The memory of workers and schedulers is there when it is used, from the  *)
(* start of the library to its end, and workers leave only when the process *)
(* is over.  The two reads that may come too late, a steal during the drop  *)
(* of the pool and worker0->tid, are what PoolMemoryLive excepts.           *)
(***************************************************************************)
EXTENDS WorkersProofs

\* Who is not in the list is being joined or has ended, so worker 0 ends last and
\* the array of workers is there until it does.
Listed ==
  initPc \notin {"spawn", "returned"} =>
    /\ \A w \in Workers \ {0} : \/ InQueue(wrkpthrs, w)
                                \/ workerPc[0] = "join" /\ victim[0] = w
                                \/ workerPc[w] = "gone"
    /\ mainSet /\ workerPc[0] \in {"kill", "gone"} =>
         \A w \in Workers \ {0} : workerPc[w] = "gone"
    /\ workerPc[0] \notin {"kill", "gone"} => published

\* Worker 0 leaves only when the process is over: nobody tells it to.
LeavesWhenOver ==
  /\ schedMem[0] # "none" => opening[0]
  /\ mainSet /\ workerPc[0] \in Leaving \cup {"gone"} => ProcessOver

End == Listed /\ LeavesWhenOver

\* The last thread finds worker 0 when it prods it.
CountLive == "count" \notin freedReads

-----------------------------------------------------------------------------
(* The order of the end *)

LEMMA EndInitially == WorkersInit => End /\ CountLive
  BY WorkersFinite DEF WorkersInit, End, Listed, LeavesWhenOver, Leaving, CountLive

\* While the main apth is not set, no worker is past its wait for it.
LEMMA BeforeMain ==
  ASSUME IInv, ~mainSet
  PROVE  /\ workerPc[0] \in {"none", "init", "count", "wait_main", "gone"}
         /\ initPc \in {"create_main", "set_main"} => workerPc[0] = "wait_main"
  BY WorkersFinite
  DEF IInv, Shape, WorkersTypeOK, WorkerPcs, StartOrder, AllCounted, Memory, MemoryOf

LEMMA InitializerEnd == ASSUME IInv, End, InitializerNext PROVE End'
<1>0. WorkersTypeOK /\ 0 \in Workers
  BY WorkersFinite DEF IInv, Shape
<1>1. CASE SpawnWorker
  BY <1>0, <1>1, BeforeMain
  DEF SpawnWorker, Step, startVars, endVars, IInv, Shape, WorkersTypeOK, StartOrder, End,
      Listed, LeavesWhenOver, ProcessOver, Leaving
<1>2. CASE SpawnFails
  BY <1>2 DEF SpawnFails, memVars, endVars, End, Listed, LeavesWhenOver, ProcessOver
<1>3. CASE PublishPool
  <2>1. ~mainSet
    BY <1>3 DEF PublishPool, IInv, Shape, StartOrder
  <2>2. \A w \in Workers : InQueue(wrkpthrs, w)
    <3>1. /\ Len(wrkpthrs) = NWorkers
          /\ \A i \in 1..Len(wrkpthrs) : wrkpthrs[i] = i - 1
      BY <1>3 DEF PublishPool, Spawned, IInv, Shape, ListOfWorkers
    <3>2. \A w \in Workers : w + 1 \in 1..NWorkers /\ (w + 1) - 1 = w
      BY WorkersAssumption DEF Workers
    <3> QED
      BY <3>1, <3>2 DEF InQueue
  <2> QED
    BY <1>0, <1>3, <2>1, <2>2
    DEF PublishPool, poolVars, memVars, endVars, End, Listed, LeavesWhenOver, ProcessOver
<1>4. CASE SetMain
  BY <1>0, <1>4, BeforeMain
  DEF SetMain, poolVars, memVars, IInv, Shape, StartOrder, End, Listed, LeavesWhenOver, Leaving
<1>5. CASE CreateMain
  BY <1>0, <1>5
  DEF CreateMain, startVars, poolVars, memVars, IInv, Shape, StartOrder, End, Listed,
      LeavesWhenOver
<1>6. CASE SyncWorkers
  BY <1>6
  DEF SyncWorkers, startVars, endVars, poolVars, memVars, End, Listed, LeavesWhenOver, ProcessOver
<1>7. CASE ReadTid
  BY <1>7
  DEF ReadTid, startVars, endVars, poolVars, memVars, End, Listed, LeavesWhenOver, ProcessOver
<1>8. CASE JoinWorker0
  BY <1>8
  DEF JoinWorker0, startVars, endVars, poolVars, memVars, End, Listed, LeavesWhenOver, ProcessOver
<1> QED
  BY <1>1, <1>2, <1>3, <1>4, <1>5, <1>6, <1>7, <1>8 DEF InitializerNext

\* An over process stays over.
LEMMA StaysOver ==
  ASSUME IInv, ProcessOver, NEW w \in Workers, CreateApth(w) \/ EndApth(w) \/ MainExits(w)
  PROVE  ProcessOver'
<1>1. nAlive \in Nat
  BY WorkersAssumption DEF IInv, Shape, WorkersTypeOK
<1>2. CASE CreateApth(w)
  BY <1>1, <1>2 DEF CreateApth, ProcessOver
<1>3. CASE EndApth(w)
  BY <1>1, <1>3 DEF EndApth, ProcessOver
<1>4. CASE MainExits(w)
  BY <1>4 DEF MainExits, ProcessOver
<1> QED
  BY <1>2, <1>3, <1>4

LEMMA LoopEnd ==
  ASSUME IInv, End, NEW w \in Workers, NEW from, from \notin Leaving \cup {"gone"},
         NEW to, to \notin {"isolated", "drop", "join", "kill", "gone"}, Step(w, from, to),
         w = 0 /\ to = "leaving" => ProcessOver,
         w = 0 => victim' = [victim EXCEPT ![0] = victim'[0]],
         w # 0 => victim'[0] = victim[0],
         ProcessOver => ProcessOver',
         UNCHANGED <<initPc, published, mainSet, wrkpthrs>>,
         schedMem'[0] # "none" => opening'[0]
  PROVE  End'
<1>0. WorkersTypeOK /\ 0 \in Workers
  BY WorkersFinite DEF IInv, Shape
<1>1. workerPc[w] = from /\ workerPc' = [workerPc EXCEPT ![w] = to]
  BY DEF Step
<1>2. Listed'
  BY <1>0, <1>1 DEF End, Listed, WorkersTypeOK, Leaving
<1>3. LeavesWhenOver'
  BY <1>0, <1>1 DEF End, LeavesWhenOver, WorkersTypeOK, Leaving
<1> QED
  BY <1>2, <1>3 DEF End

LEMMA WorkerEnd ==
  ASSUME IInv, End, NEW w \in Workers, WorkerNext(w) \/ MainExits(w)
  PROVE  End'
<1>0. WorkersTypeOK /\ 0 \in Workers
  BY WorkersFinite DEF IInv, Shape
<1>1. schedMem[0] # "none" => opening[0]
  BY DEF End, LeavesWhenOver
<1>2. CASE StartScheduler(w)
  BY <1>0, <1>1, <1>2, LoopEnd
  DEF StartScheduler, Step, startVars, endVars, poolVars, ProcessOver, Leaving, WorkersTypeOK
<1>3. CASE SchedulerInitFails(w)
  <2>1. /\ workerPc[w] = "init" /\ workerPc' = [workerPc EXCEPT ![w] = "gone"]
        /\ UNCHANGED <<initPc, mainSet, published, endVars, wrkpthrs, memVars, victim>>
    BY <1>3 DEF SchedulerInitFails, Step, poolVars
  <2>2. w = 0 => ~mainSet
    BY <1>0, <2>1 DEF IInv, Shape, StartOrder, AllCounted
  <2>3. Listed'
    BY <1>0, <2>1, <2>2 DEF End, Listed, WorkersTypeOK
  <2>4. LeavesWhenOver'
    BY <1>0, <2>1, <2>2
    DEF End, LeavesWhenOver, WorkersTypeOK, memVars, endVars, ProcessOver, Leaving
  <2> QED
    BY <2>3, <2>4 DEF End
<1>4. ASSUME NEW from \in {"count", "wait_main", "work", "epoll"},
             NEW to \in {"wait_main", "loop", "epoll"}, Step(w, from, to),
             UNCHANGED <<initPc, published, mainSet, endVars, wrkpthrs, memVars, victim>>
      PROVE  End'
  <2>1. /\ from \notin Leaving \cup {"gone"}
        /\ to \notin {"leaving", "isolated", "drop", "join", "kill", "gone"}
    BY <1>4 DEF Leaving
  <2>2. ProcessOver' = ProcessOver /\ (schedMem'[0] # "none" => opening'[0])
    BY <1>1, <1>4 DEF ProcessOver, endVars, memVars
  <2> QED
    BY <1>0, <1>4, <2>1, <2>2, LoopEnd DEF WorkersTypeOK
<1>10. CASE CountDown(w) \/ WaitMain(w)
  BY <1>4, <1>10 DEF CountDown, WaitMain, startVars, poolVars
<1>11. CASE DispatchMain(w) \/ EpollWait(w) \/ EpollReturns(w)
  BY <1>4, <1>11 DEF DispatchMain, EpollWait, EpollReturns, startVars, poolVars
<1>5. CASE LoopTop(w)
  <2>1. w = 0 /\ MustLeave(w) => ProcessOver
    BY <1>0, <1>1, <1>5 DEF LoopTop, Step, MustLeave, IInv, Shape, Memory, MemoryOf
  <2> QED
    BY <1>0, <1>1, <1>5, <2>1, LoopEnd
    DEF LoopTop, startVars, endVars, poolVars, memVars, ProcessOver, Leaving, WorkersTypeOK
<1>6. CASE StealTake(w) \/ \E v \in Workers : StealLook(w, v)
  BY <1>0, <1>1, <1>6, LoopEnd
  DEF StealTake, StealLook, startVars, endVars, poolVars, memVars, ProcessOver, Leaving,
      WorkersTypeOK
<1>7. CASE CreateApth(w) \/ EndApth(w)
  BY <1>0, <1>1, <1>7, StaysOver, LoopEnd
  DEF CreateApth, EndApth, startVars, poolVars, memVars, Leaving, WorkersTypeOK
<1>8. CASE MainExits(w)
  BY <1>8, StaysOver
  DEF MainExits, startVars, poolVars, memVars, End, Listed, LeavesWhenOver
<1>9. CASE Kill(w)
  <2>1. /\ workerPc[w] = (IF w = 0 THEN "kill" ELSE "leaving")
        /\ workerPc' = [workerPc EXCEPT ![w] = "gone"]
        /\ schedMem' = [schedMem EXCEPT ![w] = "freed"]
        /\ UNCHANGED <<initPc, published, mainSet, endVars, wrkpthrs, opening, victim>>
    BY <1>9 DEF Kill, Step, startVars, poolVars
  <2>2. Listed'
    BY <1>0, <2>1 DEF End, Listed, WorkersTypeOK
  <2>3. schedMem[w] # "none"
    BY <1>0, <2>1 DEF IInv, Shape, Memory, MemoryOf
  <2>4. LeavesWhenOver'
    BY <1>0, <2>1, <2>3 DEF End, LeavesWhenOver, WorkersTypeOK, endVars, ProcessOver, Leaving
  <2> QED
    BY <2>2, <2>4 DEF End
<1> QED
  BY <1>2, <1>3, <1>5, <1>6, <1>7, <1>8, <1>9, <1>10, <1>11 DEF WorkerNext

LEMMA DropEnd == ASSUME IInv, End, DropNext PROVE End'
<1>0. WorkersTypeOK /\ 0 \in Workers
  BY WorkersFinite DEF IInv, Shape
<1>1. workerPc[0] \in Leaving /\ workerPc'[0] \in Leaving
  BY <1>0 DEF DropNext, Isolate, LockPool, TellWorker, JoinWorker, PoolDropped, Step, Leaving,
              WorkersTypeOK
<1>2. mainSet /\ UNCHANGED <<mainSet, initPc, endVars, schedMem>>
  BY <1>0, <1>1
  DEF DropNext, Isolate, LockPool, TellWorker, JoinWorker, PoolDropped, startVars, memVars,
      IInv, Shape, StartOrder, Leaving
<1>3. opening'[0] = opening[0]
  <2>1. CASE TellWorker
    <3>1. Last(wrkpthrs) # 0
      BY <1>0, <2>1, LastFacts
      DEF TellWorker, Step, IInv, Shape, WorkersTypeOK, ListOfWorkers
    <3> QED
      BY <1>0, <2>1, <3>1 DEF TellWorker, WorkersTypeOK
  <2> QED
    BY <2>1 DEF DropNext, Isolate, LockPool, JoinWorker, PoolDropped, memVars
<1>4. LeavesWhenOver'
  BY <1>1, <1>2, <1>3 DEF End, LeavesWhenOver, endVars, ProcessOver
<1>5. Listed'
  <2>1. CASE Isolate
    <3>1. PICK i \in 1..Len(wrkpthrs) : wrkpthrs[i] = 0 /\ wrkpthrs' = RemoveAt(wrkpthrs, i)
      BY <2>1 DEF Isolate
    <3>2. \A u : InQueue(wrkpthrs', u) <=> InQueue(wrkpthrs, u) /\ u # 0
      BY <1>0, <3>1, RemoveFacts DEF IInv, Shape, WorkersTypeOK, ListOfWorkers
    <3> QED
      BY <1>0, <1>2, <2>1, <3>2
      DEF Isolate, Step, startVars, End, Listed, WorkersTypeOK
  <2>2. CASE LockPool
    BY <1>0, <1>2, <2>2 DEF LockPool, Step, startVars, End, Listed, WorkersTypeOK
  <2>3. CASE TellWorker
    <3>1. \A u : InQueue(Front(wrkpthrs), u) <=> InQueue(wrkpthrs, u) /\ u # Last(wrkpthrs)
      BY <1>0, <2>3, LastFacts DEF TellWorker, IInv, Shape, WorkersTypeOK, ListOfWorkers
    <3>2. Last(wrkpthrs) \in Workers \ {0}
      BY <1>0, <2>3, LastFacts
      DEF TellWorker, Step, IInv, Shape, WorkersTypeOK, ListOfWorkers
    <3> QED
      BY <1>0, <1>2, <2>3, <3>1, <3>2
      DEF TellWorker, Step, startVars, End, Listed, WorkersTypeOK
  <2>4. CASE JoinWorker
    BY <1>0, <1>2, <2>4
    DEF JoinWorker, Step, startVars, poolVars, End, Listed, WorkersTypeOK, IInv, Shape, Victims
  <2>5. CASE PoolDropped
    BY <1>0, <1>2, <2>5, EmptyFacts DEF PoolDropped, Step, End, Listed, WorkersTypeOK
  <2> QED
    BY <2>1, <2>2, <2>3, <2>4, <2>5 DEF DropNext
<1> QED
  BY <1>4, <1>5 DEF End

LEMMA EndPreserved == IInv /\ End /\ [WorkersNext]_workersVars => End'
<1>1. CASE UNCHANGED workersVars
  BY <1>1 DEF workersVars, End, Listed, LeavesWhenOver, ProcessOver
<1> QED
  BY <1>1, InitializerEnd, DropEnd, WorkerEnd DEF WorkersNext

LEMMA CountsInTime ==
  ASSUME IInv, End, NEW w \in Workers, EndApth(w)
  PROVE  freedReads' = freedReads
<1>0. WorkersTypeOK /\ 0 \in Workers
  BY WorkersFinite DEF IInv, Shape
<1>1. workerPc[w] = "work" /\ mainSet /\ initPc \notin {"spawn", "returned"} /\ AllCounted
  BY DEF EndApth, Step, IInv, Shape, StartOrder
<1>2. workerPc[0] \notin {"kill", "gone"} /\ published
  BY <1>0, <1>1 DEF End, Listed
<1>3. workerMem[0] = "live" /\ schedMem[0] = "live"
  BY <1>0, <1>1, <1>2 DEF AllCounted, IInv, Shape, WorkersTypeOK, Memory, MemoryOf
<1> QED
  BY <1>2, <1>3 DEF EndApth, Reads

LEMMA CountPreserved ==
  IInv /\ End /\ CountLive /\ [WorkersNext]_workersVars => CountLive'
<1> SUFFICES ASSUME IInv, End, CountLive, [WorkersNext]_workersVars PROVE CountLive'
  OBVIOUS
<1>1. CASE InitializerNext
  BY <1>1 DEF InitializerNext, SpawnWorker, SpawnFails, PublishPool, SyncWorkers, CreateMain,
              SetMain, ReadTid, JoinWorker0, Reads, CountLive
<1>2. CASE DropNext
  BY <1>2 DEF DropNext, Isolate, LockPool, TellWorker, JoinWorker, PoolDropped, Reads, CountLive
<1>3. ASSUME NEW w \in Workers, WorkerNext(w) \/ MainExits(w) PROVE CountLive'
  <2>1. CASE EndApth(w)
    BY <2>1, CountsInTime DEF CountLive
  <2>2. CASE StartScheduler(w) \/ SchedulerInitFails(w) \/ CountDown(w) \/ WaitMain(w)
    BY <2>2 DEF StartScheduler, SchedulerInitFails, CountDown, WaitMain, CountLive
  <2>3. CASE LoopTop(w) \/ DispatchMain(w) \/ EpollWait(w) \/ EpollReturns(w)
    BY <2>3 DEF LoopTop, DispatchMain, EpollWait, EpollReturns, CountLive
  <2>4. CASE StealTake(w) \/ \E v \in Workers : StealLook(w, v)
    BY <2>4 DEF StealTake, StealLook, Reads, CountLive
  <2>5. CASE CreateApth(w) \/ Kill(w) \/ MainExits(w)
    BY <2>5 DEF CreateApth, Kill, MainExits, CountLive
  <2> QED
    BY <1>3, <2>1, <2>2, <2>3, <2>4, <2>5 DEF WorkerNext
<1>4. CASE UNCHANGED workersVars
  BY <1>4 DEF workersVars, CountLive
<1> QED
  BY <1>1, <1>2, <1>3, <1>4 DEF WorkersNext

\* However many workers and threads there are and whichever workers fail to
\* start, a worker is in its loop only when all of them have schedulers and
\* leaves only when the process is over, its memory is freed only when it has
\* ended, worker 0 is there for the prod of the last thread, and the only reads of
\* freed memory are those of a steal and of worker0->tid, and only from the drop
\* of the pool on.
THEOREM PoolMemory == WorkersSpec => []PoolMemoryLive
<1>1. IInv /\ End /\ CountLive => PoolMemoryLive
  <2> SUFFICES ASSUME IInv, End, CountLive PROVE PoolMemoryLive
    OBVIOUS
  <2>1. ASSUME NEW w \in Workers, workerPc[w] \in Leaving PROVE ProcessOver
    <3>1. mainSet
      BY <2>1 DEF IInv, Shape, StartOrder, Leaving
    <3>2. CASE w = 0
      BY <2>1, <3>1, <3>2 DEF End, LeavesWhenOver
    <3>3. CASE w # 0
      <4>1. workerPc[w] = "leaving" /\ schedMem[w] = "live"
        BY <2>1, <3>3 DEF IInv, Shape, Told, Memory, MemoryOf, Leaving
      <4>2. workerPc[0] \in Dropping
        BY <3>3, <4>1 DEF IInv, Shape, Told
      <4> QED
        BY <3>1, <4>2 DEF End, LeavesWhenOver, Dropping, Leaving
    <3> QED
      BY <3>2, <3>3
  <2> QED
    BY <2>1 DEF IInv, Shape, StartOrder, AllCounted, Memory, MemoryOf, ReadsLive, Dropping,
                CountLive, PoolMemoryLive
<1> QED
  BY <1>1, Initially, Preserved, EndInitially, EndPreserved, CountPreserved, PTL
  DEF WorkersSpec
=============================================================================
