------------------------------- MODULE Workers -------------------------------
(***************************************************************************)
(* Starting and stopping the library: apth_init and apth_drop               *)
(* (core/apth_init.c), the pool of worker pthreads (internal/apth_worker.c) *)
(* and the beginning and end of scheduler_routine (internal/apth_sched.c).  *)
(* What a worker does in its loop is left to Scheduler, apart from the      *)
(* pointers of other workers that a steal reads.                            *)
(***************************************************************************)
EXTENDS Integers, Sequences, SequencesExt

CONSTANTS NWorkers,    \* wrkthrs_to_spwan
          MaxApths     \* bound on the threads alive at a time

ASSUME WorkersAssumption == NWorkers \in Nat \ {0} /\ MaxApths \in Nat \ {0}

VARIABLES initPc,      \* where the pthread that called apth_init is
          workerPc,    \* where every worker is
          WORKER_SPAWNED,
          wrkpthrs,    \* the list of workers
          published,   \* init_worker_count and worker_ptr_mem_start are set
          mainSet,     \* MAIN_APTH is set
          mainExited,  \* MAIN_APTH_EXITED
          exitCalled,  \* MAIN_APTH_EXITED_BY_CALLING_APTH_EXIT
          nAlive,      \* apth_alive_nthreads
          poolLock,    \* who holds pool_lock
          workerMem,   \* the apth_worker_st: "none", "live" or "freed"
          schedMem,    \* its scheduler, likewise
          opening,
          victim,      \* the worker somebody is stealing from
          failed,      \* a worker or a scheduler could not be initialised
          freedReads   \* who read a freed or unset structure

workersVars == <<initPc, workerPc, WORKER_SPAWNED, wrkpthrs, published, mainSet,
                 mainExited, exitCalled, nAlive, poolLock, workerMem, schedMem, opening,
                 victim, failed, freedReads>>

Workers == 0 .. NWorkers - 1
Nobody == -1
InitPcs == {"spawn", "sync", "create_main", "set_main", "main_set", "join_worker_0",
            "exit", "returned"}
WorkerPcs == {"none", "init", "count", "wait_main", "loop", "work", "steal", "epoll",
              "leaving", "isolated", "drop", "join", "kill", "gone"}

Leaving == {"leaving", "isolated", "drop", "join", "kill"}

WorkersInit ==
  /\ initPc = "spawn" /\ workerPc = [w \in Workers |-> "none"]
  /\ WORKER_SPAWNED = NWorkers /\ wrkpthrs = <<>> /\ published = FALSE
  /\ mainSet = FALSE /\ poolLock = Nobody
  /\ mainExited = FALSE /\ exitCalled = FALSE /\ nAlive = 0
  /\ workerMem = [w \in Workers |-> "none"] /\ schedMem = [w \in Workers |-> "none"]
  /\ opening = [w \in Workers |-> FALSE] /\ victim = [w \in Workers |-> Nobody]
  /\ failed = FALSE /\ freedReads = {}

\* Every piece of state has its type.
WorkersTypeOK ==
  /\ initPc \in InitPcs /\ workerPc \in [Workers -> WorkerPcs]
  /\ WORKER_SPAWNED \in 0 .. NWorkers /\ wrkpthrs \in Seq(Workers)
  /\ {published, mainSet, mainExited, exitCalled, failed} \subseteq BOOLEAN
  /\ nAlive \in 0 .. MaxApths
  /\ poolLock \in Workers \cup {Nobody}
  /\ workerMem \in [Workers -> {"none", "live", "freed"}]
  /\ schedMem \in [Workers -> {"none", "live", "freed"}]
  /\ opening \in [Workers -> BOOLEAN]
  /\ victim \in [Workers -> Workers \cup {Nobody}]
  /\ freedReads \subseteq {"steal", "start", "drop", "tid", "count"}

endVars == <<mainExited, exitCalled, nAlive>>
startVars == <<WORKER_SPAWNED, published, mainSet, failed>>
memVars == <<workerMem, schedMem, opening>>
poolVars == <<wrkpthrs, poolLock>>

Step(w, from, to) == workerPc[w] = from /\ workerPc' = [workerPc EXCEPT ![w] = to]

\* who reads structures of worker w; ok says whether all of them are there.
Reads(who, ok) == freedReads' = IF ok THEN freedReads ELSE freedReads \cup {who}

-----------------------------------------------------------------------------
(* apth_init *)

Spawned == Len(wrkpthrs)

\* apth_worker_init spawns the next worker, and only then it joins the list.
SpawnWorker ==
  /\ initPc = "spawn" /\ Spawned < NWorkers
  /\ workerMem' = [workerMem EXCEPT ![Spawned] = "live"]
  /\ Step(Spawned, "none", "init")
  /\ wrkpthrs' = Append(wrkpthrs, Spawned)
  /\ UNCHANGED <<initPc, startVars, endVars, poolLock, schedMem, opening, victim,
                 freedReads>>

\* A worker cannot be made: apth_init returns, the workers before it stay.
SpawnFails ==
  /\ initPc = "spawn" /\ Spawned < NWorkers
  /\ initPc' = "returned" /\ failed' = TRUE
  /\ UNCHANGED <<workerPc, WORKER_SPAWNED, published, mainSet, endVars, poolVars,
                 memVars, victim, freedReads>>

\* The pool is complete: its lock, its size and the array of its workers.
PublishPool ==
  /\ initPc = "spawn" /\ Spawned = NWorkers
  /\ initPc' = "sync" /\ published' = TRUE
  /\ UNCHANGED <<workerPc, WORKER_SPAWNED, mainSet, endVars, failed, poolVars,
                 memVars, victim, freedReads>>

\* while (WORKER_SPAWNED != 0) sched_yield();
SyncWorkers ==
  /\ initPc = "sync" /\ WORKER_SPAWNED = 0
  /\ initPc' = "create_main"
  /\ UNCHANGED <<workerPc, startVars, endVars, poolVars, memVars, victim, freedReads>>

\* The main apth is created on the scheduler of worker 0, and counted.
CreateMain ==
  /\ initPc = "create_main"
  /\ initPc' = "set_main"
  /\ nAlive' = 1
  /\ Reads("start", workerMem[0] = "live" /\ schedMem[0] = "live")
  /\ UNCHANGED <<workerPc, startVars, mainExited, exitCalled, poolVars, memVars, victim>>

SetMain ==
  /\ initPc = "set_main"
  /\ initPc' = "main_set" /\ mainSet' = TRUE
  /\ UNCHANGED <<workerPc, WORKER_SPAWNED, published, failed, endVars, poolVars,
                 memVars, victim, freedReads>>

\* pthread_join(worker0->tid): the field is read now, worker 0 ends later.
ReadTid ==
  /\ initPc = "main_set"
  /\ initPc' = "join_worker_0"
  /\ Reads("tid", workerMem[0] = "live")
  /\ UNCHANGED <<workerPc, startVars, endVars, poolVars, memVars, victim>>

JoinWorker0 ==
  /\ initPc = "join_worker_0" /\ workerPc[0] = "gone"
  /\ initPc' = "exit"
  /\ UNCHANGED <<workerPc, startVars, endVars, poolVars, memVars, victim, freedReads>>

-----------------------------------------------------------------------------
(* scheduler_routine *)

StartScheduler(w) ==
  /\ Step(w, "init", "count")
  /\ schedMem' = [schedMem EXCEPT ![w] = "live"]
  /\ opening' = [opening EXCEPT ![w] = TRUE]
  /\ UNCHANGED <<initPc, startVars, endVars, poolVars, workerMem, victim, freedReads>>

\* The pthread returns; nobody is told.
SchedulerInitFails(w) ==
  /\ Step(w, "init", "gone")
  /\ failed' = TRUE
  /\ UNCHANGED <<initPc, WORKER_SPAWNED, published, mainSet, endVars, poolVars,
                 memVars, victim, freedReads>>

CountDown(w) ==
  /\ Step(w, "count", "wait_main")
  /\ WORKER_SPAWNED' = WORKER_SPAWNED - 1
  /\ UNCHANGED <<initPc, published, mainSet, failed, endVars, poolVars, memVars,
                 victim, freedReads>>

WaitMain(w) ==
  /\ mainSet /\ Step(w, "wait_main", "loop")
  /\ UNCHANGED <<initPc, startVars, endVars, poolVars, memVars, victim, freedReads>>

\* The process is over: the main apth returned, or it called apth_exit and no
\* other thread is left.
ProcessOver == mainExited /\ (exitCalled => nAlive = 0)

\* Closed, or worker0_check_end_process.
MustLeave(w) == ~opening[w] \/ (w = 0 /\ ProcessOver)

\* The two tests at the top of the loop.
LoopTop(w) ==
  /\ Step(w, "loop", IF MustLeave(w) THEN "leaving" ELSE "work")
  /\ UNCHANGED <<initPc, startVars, endVars, poolVars, memVars, victim, freedReads>>

\* A thread is run, or there is nothing to run and nothing to steal.
DispatchMain(w) ==
  /\ Step(w, "work", "loop")
  /\ UNCHANGED <<initPc, startVars, endVars, poolVars, memVars, victim, freedReads>>

EpollWait(w) ==
  /\ Step(w, "work", "epoll")
  /\ UNCHANGED <<initPc, startVars, endVars, poolVars, memVars, victim, freedReads>>

\* Every wait for events has a timeout.
EpollReturns(w) ==
  /\ Step(w, "epoll", "loop")
  /\ UNCHANGED <<initPc, startVars, endVars, poolVars, memVars, victim, freedReads>>

\* try_steal_work reads the worker, its scheduler and whether that is opening.
StealLook(w, v) ==
  /\ published /\ NWorkers > 1 /\ v # w
  /\ Step(w, "work", "steal")
  /\ victim' = [victim EXCEPT ![w] = v]
  /\ Reads("steal", workerMem[v] = "live" /\ schedMem[v] = "live")
  /\ UNCHANGED <<initPc, startVars, endVars, poolVars, memVars>>

\* Then its ready queue.
StealTake(w) ==
  /\ Step(w, "steal", "loop")
  /\ victim' = [victim EXCEPT ![w] = Nobody]
  /\ Reads("steal", schedMem[victim[w]] = "live")
  /\ UNCHANGED <<initPc, startVars, endVars, poolVars, memVars>>

\* A thread that runs on w creates another and gives way.
CreateApth(w) ==
  /\ nAlive \in 1 .. (MaxApths - 1) /\ Step(w, "work", "loop")
  /\ nAlive' = nAlive + 1
  /\ UNCHANGED <<initPc, startVars, mainExited, exitCalled, poolVars, memVars, victim,
                 freedReads>>

\* A thread ended on w (dec_alive_thrcnt); the last one after the main apth
\* prods the scheduler of worker 0.
EndApth(w) ==
  /\ nAlive > (IF mainExited THEN 0 ELSE 1) /\ Step(w, "work", "loop")
  /\ nAlive' = nAlive - 1
  /\ Reads("count", nAlive = 1 /\ mainExited =>
                      published /\ workerMem[0] = "live" /\ schedMem[0] = "live")
  /\ UNCHANGED <<initPc, startVars, mainExited, exitCalled, poolVars, memVars, victim>>

\* The main apth ends on w: it returns, is cancelled, or calls apth_exit.
MainExits(w) ==
  /\ workerPc[w] = "work" /\ ~mainExited
  /\ mainExited' = TRUE /\ exitCalled' \in BOOLEAN
  /\ UNCHANGED <<initPc, workerPc, startVars, nAlive, poolVars, memVars, victim, freedReads>>

-----------------------------------------------------------------------------
(* The end: worker 0 runs apth_drop, the others clean up after themselves *)

\* list_remove(&me->elem), under pool_lock.
Isolate ==
  /\ poolLock = Nobody /\ Step(0, "leaving", "isolated")
  /\ \E i \in 1..Len(wrkpthrs) : wrkpthrs[i] = 0 /\ wrkpthrs' = RemoveAt(wrkpthrs, i)
  /\ UNCHANGED <<initPc, startVars, endVars, poolLock, memVars, victim, freedReads>>

\* apth_global_scheduler_pool_drop holds pool_lock to its end.
LockPool ==
  /\ poolLock = Nobody /\ Step(0, "isolated", "drop")
  /\ poolLock' = 0
  /\ UNCHANGED <<initPc, startVars, endVars, wrkpthrs, memVars, victim, freedReads>>

\* Mutant: the worker is joined without being told to leave.
TellNobody ==
  /\ wrkpthrs # <<>> /\ Step(0, "drop", "join")
  /\ LET v == Last(wrkpthrs) IN
       /\ victim' = [victim EXCEPT ![0] = v]
       /\ Reads("drop", workerMem[v] = "live" /\ schedMem[v] = "live")
  /\ wrkpthrs' = Front(wrkpthrs)
  /\ UNCHANGED <<initPc, startVars, endVars, poolLock, memVars>>

\* apth_worker_drop: the last worker of the list is told, and joined.
TellWorker ==
  /\ wrkpthrs # <<>> /\ Step(0, "drop", "join")
  /\ LET v == Last(wrkpthrs) IN
       /\ victim' = [victim EXCEPT ![0] = v]
       /\ Reads("drop", workerMem[v] = "live" /\ schedMem[v] = "live")
       /\ opening' = [opening EXCEPT ![v] = FALSE]
  /\ wrkpthrs' = Front(wrkpthrs)
  /\ UNCHANGED <<initPc, startVars, endVars, poolLock, workerMem, schedMem>>

\* Mutant: the worker is freed without being joined.
FreeWorkerUnjoined ==
  /\ Step(0, "join", "drop")
  /\ workerMem' = [workerMem EXCEPT ![victim[0]] = "freed"]
  /\ victim' = [victim EXCEPT ![0] = Nobody]
  /\ UNCHANGED <<initPc, startVars, endVars, poolVars, schedMem, opening, freedReads>>

JoinWorker ==
  /\ Step(0, "join", "drop") /\ workerPc[victim[0]] = "gone"
  /\ workerMem' = [workerMem EXCEPT ![victim[0]] = "freed"]
  /\ victim' = [victim EXCEPT ![0] = Nobody]
  /\ UNCHANGED <<initPc, startVars, endVars, poolVars, schedMem, opening, freedReads>>

\* The list is empty: the array of workers is freed.
PoolDropped ==
  /\ wrkpthrs = <<>> /\ Step(0, "drop", "kill")
  /\ poolLock' = Nobody /\ published' = FALSE
  /\ UNCHANGED <<initPc, WORKER_SPAWNED, mainSet, failed, endVars, wrkpthrs, memVars,
                 victim, freedReads>>

\* Mutant: a worker that leaves counts itself out once more.
KillCountsDown(w) ==
  /\ Step(w, IF w = 0 THEN "kill" ELSE "leaving", "gone")
  /\ schedMem' = [schedMem EXCEPT ![w] = "freed"]
  /\ workerMem' = [workerMem EXCEPT ![w] = IF w = 0 THEN "freed" ELSE @]
  /\ WORKER_SPAWNED' = WORKER_SPAWNED - 1
  /\ UNCHANGED <<initPc, published, mainSet, failed, endVars, poolVars, opening, victim,
                 freedReads>>

\* apth_scheduler_kill; worker 0 also frees its own apth_worker_st.
Kill(w) ==
  /\ Step(w, IF w = 0 THEN "kill" ELSE "leaving", "gone")
  /\ schedMem' = [schedMem EXCEPT ![w] = "freed"]
  /\ workerMem' = [workerMem EXCEPT ![w] = IF w = 0 THEN "freed" ELSE @]
  /\ UNCHANGED <<initPc, startVars, endVars, poolVars, opening, victim, freedReads>>

InitializerNext ==
  \/ SpawnWorker \/ SpawnFails \/ PublishPool \/ SyncWorkers \/ CreateMain
  \/ SetMain \/ ReadTid \/ JoinWorker0

WorkerNext(w) ==
  \/ StartScheduler(w) \/ SchedulerInitFails(w) \/ CountDown(w) \/ WaitMain(w)
  \/ LoopTop(w) \/ DispatchMain(w) \/ EpollWait(w) \/ EpollReturns(w) \/ StealTake(w)
  \/ CreateApth(w) \/ EndApth(w) \/ Kill(w)
  \/ \E v \in Workers : StealLook(w, v)

DropNext ==
  Isolate \/ LockPool \/ TellWorker \/ JoinWorker \/ PoolDropped

WorkersNext ==
  InitializerNext \/ DropNext \/ \E w \in Workers : WorkerNext(w) \/ MainExits(w)

WorkersSpec == WorkersInit /\ [][WorkersNext]_workersVars

-----------------------------------------------------------------------------
(* Properties *)

\* A worker enters its loop only when every worker has its scheduler and the
\* pool is published, and leaves only when the process is over; memory of a
\* worker is freed only when its pthread has ended; and nobody reads a freed or
\* unset worker or scheduler (the prod of worker 0 by the last thread that ends
\* included), apart from a worker that steals while the pool is being dropped
\* and the initializer, whose worker0->tid may come after the end of worker 0.
PoolMemoryLive ==
  /\ \A w \in Workers : workerPc[w] \in {"loop", "work", "steal", "epoll"} =>
       \A v \in Workers : schedMem[v] # "none"
  /\ \A w \in Workers : workerPc[w] \in Leaving => ProcessOver
  /\ \A w \in Workers : workerMem[w] = "freed" => workerPc[w] = "gone"
  /\ freedReads \subseteq {"steal", "tid"}
  /\ freedReads # {} => workerPc[0] \in {"drop", "join", "kill", "gone"}

\* Every worker has ended and apth_init is at its exit.
WorkersStopped == initPc = "exit" /\ \A w \in Workers : workerPc[w] = "gone"
=============================================================================
