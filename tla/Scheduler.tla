----------------------------- MODULE Scheduler ------------------------------
(***************************************************************************)
(* The M:N scheduler: every worker runs scheduler_routine over its own      *)
(* queues, hands a thread the processor until it yields, waits or exits,    *)
(* steals from the back of other ready queues when it has nothing to do,    *)
(* and lets the event manager move woken threads back to its ready queue.   *)
(*                                                                         *)
(* A transfer between two queues happens under both queue locks and is one  *)
(* step.  A steal is two: between them the thread is in no queue.           *)
(***************************************************************************)
EXTENDS Naturals, Sequences, SequencesExt, FiniteSets

CONSTANTS Scheds, Tasks,
          MainTask,    \* the thread that exists from the start
          IoBound,       \* the threads of class APTH_CLASS_IO_BOUND
          Detached,      \* the threads created detached
          PollInterval,  \* APTH_POLL_INTERVAL
          NoTask, NoSched

ASSUME SchedulerConstants ==
  /\ MainTask \in Tasks /\ IoBound \subseteq Tasks
  /\ Detached \subseteq Tasks \ {MainTask}
  /\ NoTask \notin Tasks /\ NoSched \notin Scheds
  /\ PollInterval \in Nat \ {0}

Queues == {"new", "ready", "running", "waiting", "terminated"}

VARIABLES queue,          \* the thread queues of each scheduler
          state,          \* each thread's state; "none" before, "freed" after
          current_sched,  \* the scheduler that owns the thread
          current_queue,  \* the queue of that scheduler it is in
          pc,             \* where each scheduler's loop is
          cur,            \* the thread it runs
          switches,       \* switches_since_poll
          loot,           \* the thread in a thief's hands
          wake_batch,     \* wake_batch of the event manager
          yield_reason,
          wait            \* what a thread waits for, and whether it came

threadVars == <<state, current_sched, current_queue, yield_reason, wait>>
schedVars == <<pc, cur, switches, loot, wake_batch>>
schedulerVars == <<queue, threadVars, schedVars>>

SchedulerInit ==
  /\ \E s \in Scheds :
       /\ queue = [x \in Scheds |-> [q \in Queues |->
                     IF x = s /\ q = "new" THEN <<MainTask>> ELSE <<>>]]
       /\ current_sched = [t \in Tasks |-> IF t = MainTask THEN s ELSE NoSched]
  /\ state = [t \in Tasks |-> IF t = MainTask THEN "new" ELSE "none"]
  /\ current_queue = [t \in Tasks |-> IF t = MainTask THEN "new" ELSE "none"]
  /\ pc = [s \in Scheds |-> "top"]
  /\ cur = [s \in Scheds |-> NoTask]
  /\ switches = [s \in Scheds |-> 0]
  /\ loot = [s \in Scheds |-> NoTask]
  /\ wake_batch = [s \in Scheds |-> <<>>]
  /\ yield_reason = [t \in Tasks |-> "volunteer"]
  /\ wait = [t \in Tasks |-> "none"]

Goto(s, label) == pc' = [pc EXCEPT ![s] = label]

\* transfer_th and transfer_one_th: t leaves queue `from` of s for the front
\* or the back of `to`, and takes that queue's state.
Transfer(s, t, from, to, front) ==
  /\ queue' = [queue EXCEPT ![s][from] = Remove(@, t),
                            ![s][to] = IF front THEN <<t>> \o @ ELSE Append(@, t)]
  /\ current_queue' = [current_queue EXCEPT ![t] = to]
  /\ state' = [state EXCEPT ![t] = to]
  /\ UNCHANGED current_sched

\* The top of the loop: all new threads become ready, one after the other.
MoveNew(s) ==
  /\ pc[s] = "top" /\ queue[s]["new"] # <<>>
  /\ Transfer(s, Head(queue[s]["new"]), "new", "ready", FALSE)
  /\ UNCHANGED <<schedVars, yield_reason, wait>>

\* Pop the first ready thread and switch to it.
Dispatch(s) ==
  /\ pc[s] = "top" /\ queue[s]["new"] = <<>> /\ queue[s]["ready"] # <<>>
  /\ LET t == Head(queue[s]["ready"])
     IN  /\ Transfer(s, t, "ready", "running", FALSE)
         /\ cur' = [cur EXCEPT ![s] = t]
         /\ yield_reason' = [yield_reason EXCEPT ![t] = "volunteer"]
  /\ switches' = [switches EXCEPT ![s] = @ + 1]
  /\ Goto(s, "run")
  /\ UNCHANGED <<loot, wake_batch, wait>>

NothingReady(s) ==
  /\ pc[s] = "top" /\ queue[s]["new"] = <<>> /\ queue[s]["ready"] = <<>>
  /\ Goto(s, "steal")
  /\ UNCHANGED <<queue, threadVars, cur, switches, loot, wake_batch>>

\* Mutant: does not unlink what it steals.
StealPopLinked(s, v) ==
  /\ pc[s] = "steal" /\ v # s /\ Len(queue[v]["ready"]) > 1
  /\ loot' = [loot EXCEPT ![s] = Last(queue[v]["ready"])]
  /\ Goto(s, "insert")
  /\ UNCHANGED <<queue, threadVars, cur, switches, wake_batch>>

\* Mutant: takes the only ready thread of a victim.
StealPopOnly(s, v) ==
  /\ pc[s] = "steal" /\ v # s /\ Len(queue[v]["ready"]) > 0
  /\ loot' = [loot EXCEPT ![s] = Last(queue[v]["ready"])]
  /\ queue' = [queue EXCEPT ![v]["ready"] = Front(@)]
  /\ Goto(s, "insert")
  /\ UNCHANGED <<threadVars, cur, switches, wake_batch>>

\* try_steal_work: take the last of at least two ready threads of a victim ...
StealPop(s, v) ==
  /\ pc[s] = "steal" /\ v # s /\ Len(queue[v]["ready"]) > 1
  /\ loot' = [loot EXCEPT ![s] = Last(queue[v]["ready"])]
  /\ queue' = [queue EXCEPT ![v]["ready"] = Front(@)]
  /\ Goto(s, "insert")
  /\ UNCHANGED <<threadVars, cur, switches, wake_batch>>

\* Mutant: the stolen thread still names its old owner.
StealInsertUnowned(s) ==
  /\ pc[s] = "insert"
  /\ queue' = [queue EXCEPT ![s]["ready"] = <<loot[s]>> \o @]
  /\ loot' = [loot EXCEPT ![s] = NoTask]
  /\ Goto(s, "top")
  /\ UNCHANGED <<threadVars, cur, switches, wake_batch>>

\* ... make it one's own, and put it first in one's ready queue.
StealInsert(s) ==
  /\ pc[s] = "insert"
  /\ queue' = [queue EXCEPT ![s]["ready"] = <<loot[s]>> \o @]
  /\ current_sched' = [current_sched EXCEPT ![loot[s]] = s]
  /\ current_queue' = [current_queue EXCEPT ![loot[s]] = "ready"]
  /\ state' = [state EXCEPT ![loot[s]] = "ready"]
  /\ loot' = [loot EXCEPT ![s] = NoTask]
  /\ Goto(s, "top")
  /\ UNCHANGED <<yield_reason, wait, cur, switches, wake_batch>>

\* The victims are looked at one after the other, so none may be found even
\* if one has two ready threads now.
StealFails(s) ==
  /\ pc[s] = "steal"
  /\ Goto(s, "scan")
  /\ UNCHANGED <<queue, threadVars, cur, switches, loot, wake_batch>>

-----------------------------------------------------------------------------
\* The running thread.

Running(s, t) == pc[s] = "run" /\ cur[s] = t

\* apth_yield of a thread that stays runnable.
Yield(s, t) ==
  /\ Running(s, t)
  /\ Goto(s, "back")
  /\ UNCHANGED <<queue, threadVars, cur, switches, loot, wake_batch>>

\* A thread stores WAITING and yields; it waits for a SYNC event or for I/O.
BlockTask(s, t) ==
  /\ Running(s, t)
  /\ \E what \in {"sync", "fd"} : wait' = [wait EXCEPT ![t] = what]
  /\ state' = [state EXCEPT ![t] = "waiting"]
  /\ yield_reason' = [yield_reason EXCEPT ![t] = "wait"]
  /\ Goto(s, "back")
  /\ UNCHANGED <<queue, current_sched, current_queue, cur, switches, loot, wake_batch>>

\* apth_do_cancel: the thread's last yield.
Exit(s, t) ==
  /\ Running(s, t)
  /\ yield_reason' = [yield_reason EXCEPT ![t] = "exit"]
  /\ Goto(s, "back")
  /\ UNCHANGED <<queue, state, current_sched, current_queue, wait,
                 cur, switches, loot, wake_batch>>

\* apth_create: the new thread goes to a scheduler of its CPU set.
Create(s, t, u, dest) ==
  /\ Running(s, t) /\ state[u] = "none"
  /\ queue' = [queue EXCEPT ![dest]["new"] = Append(@, u)]
  /\ state' = [state EXCEPT ![u] = "new"]
  /\ current_queue' = [current_queue EXCEPT ![u] = "new"]
  /\ current_sched' = [current_sched EXCEPT ![u] = dest]
  /\ UNCHANGED <<schedVars, yield_reason, wait>>

\* The end of apth_join: unlink a terminated thread from its scheduler's
\* queue and free it.
Reap(s, t, u) ==
  /\ Running(s, t) /\ state[u] = "terminated"
  /\ queue' = [queue EXCEPT ![current_sched[u]]["terminated"] = Remove(@, u)]
  /\ current_queue' = [current_queue EXCEPT ![u] = "none"]
  /\ state' = [state EXCEPT ![u] = "freed"]
  /\ current_sched' = [current_sched EXCEPT ![u] = NoSched]
  /\ UNCHANGED <<schedVars, yield_reason, wait>>

\* What a thread waits for happens, from another thread or the kernel; the
\* waiting thread may not even have reached the waiting queue.
Occur(t) ==
  /\ state[t] = "waiting" /\ wait[t] \in {"sync", "fd"}
  /\ wait' = [wait EXCEPT ![t] = IF @ = "sync" THEN "sync_done" ELSE "fd_done"]
  /\ UNCHANGED <<queue, state, current_sched, current_queue, yield_reason, schedVars>>

-----------------------------------------------------------------------------
\* The scheduler again, after the thread gave up the processor.

Back(s, next) == pc[s] = "back" /\ cur' = [cur EXCEPT ![s] = NoTask] /\ Goto(s, next)

\* A detached thread is freed at once, a joinable one queued as terminated.
BackExit(s) ==
  /\ Back(s, "after")
  /\ LET t == cur[s]
     IN  /\ yield_reason[t] = "exit"
         /\ \/ t \notin Detached /\ Transfer(s, t, "running", "terminated", FALSE)
            \/ /\ t \in Detached
               /\ queue' = [queue EXCEPT ![s]["running"] = Remove(@, t)]
               /\ current_queue' = [current_queue EXCEPT ![t] = "none"]
               /\ state' = [state EXCEPT ![t] = "freed"]
               /\ current_sched' = [current_sched EXCEPT ![t] = NoSched]
  /\ UNCHANGED <<yield_reason, wait, switches, loot, wake_batch>>

BackReady(s) ==
  /\ Back(s, "after")
  /\ yield_reason[cur[s]] # "exit" /\ state[cur[s]] = "running"
  /\ Transfer(s, cur[s], "running", "ready", FALSE)
  /\ UNCHANGED <<yield_reason, wait, switches, loot, wake_batch>>

\* (yield_reason is not read again until Dispatch has set it: it is forgotten.)
BackWaiting(s) ==
  /\ Back(s, "after")
  /\ yield_reason[cur[s]] # "exit" /\ state[cur[s]] = "waiting"
  /\ Transfer(s, cur[s], "running", "waiting", FALSE)
  /\ yield_reason' = [yield_reason EXCEPT ![cur[s]] = "volunteer"]
  /\ UNCHANGED <<wait, switches, loot, wake_batch>>

\* Mutant: the switches are never counted from zero again.
AfterNoReset(s) ==
  /\ pc[s] = "after"
  /\ LET idle == queue[s]["ready"] = <<>> /\ queue[s]["new"] = <<>>
     IN  Goto(s, IF idle THEN "steal"
                 ELSE IF switches[s] = PollInterval THEN "scan" ELSE "top")
  /\ UNCHANGED <<queue, threadVars, cur, switches, loot, wake_batch>>

\* Mutant: looks for events only when there is nothing else to do.
AfterPollsIdle(s) ==
  /\ pc[s] = "after"
  /\ LET idle == queue[s]["ready"] = <<>> /\ queue[s]["new"] = <<>>
     IN  Goto(s, IF idle THEN "steal" ELSE "top")
  /\ switches' = [switches EXCEPT ![s] = 0]
  /\ UNCHANGED <<queue, threadVars, cur, loot, wake_batch>>

\* Look for events when there is nothing else, or every PollInterval rounds.
After(s) ==
  /\ pc[s] = "after"
  /\ LET idle == queue[s]["ready"] = <<>> /\ queue[s]["new"] = <<>>
     IN  \/ /\ idle
            /\ switches' = [switches EXCEPT ![s] = 0] /\ Goto(s, "steal")
         \/ /\ ~idle /\ switches[s] >= PollInterval
            /\ switches' = [switches EXCEPT ![s] = 0] /\ Goto(s, "scan")
         \/ /\ ~idle /\ switches[s] < PollInterval
            /\ Goto(s, "top") /\ UNCHANGED switches
  /\ UNCHANGED <<queue, threadVars, cur, loot, wake_batch>>

\* Phase 1 of the event manager: collect whoever has an event that is no
\* longer PENDING, under the lock of the waiting queue ...
Scan(s) ==
  /\ pc[s] = "scan"
  /\ wake_batch' = [wake_batch EXCEPT ![s] =
                 SelectSeq(queue[s]["waiting"], LAMBDA t : wait[t] = "sync_done")]
  /\ Goto(s, "wake")
  /\ UNCHANGED <<queue, threadVars, cur, switches, loot>>

\* ... and make them ready one by one, I/O-bound threads at the front.
WakeFirst(s) ==
  /\ pc[s] = "wake" /\ wake_batch[s] # <<>>
  /\ LET t == Head(wake_batch[s])
     IN  /\ Transfer(s, t, "waiting", "ready", t \in IoBound)
         /\ wait' = [wait EXCEPT ![t] = "none"]
  /\ wake_batch' = [wake_batch EXCEPT ![s] = Tail(@)]
  /\ UNCHANGED <<yield_reason, pc, cur, switches, loot>>

BatchDone(s) ==
  /\ pc[s] = "wake" /\ wake_batch[s] = <<>>
  /\ Goto(s, "poll")
  /\ UNCHANGED <<queue, threadVars, cur, switches, loot, wake_batch>>

FdDone(s) == {t \in ToSet(queue[s]["waiting"]) : wait[t] = "fd_done"}

\* Phase 2: completions of the ring, in any order, all to the back.
PollWake(s) ==
  /\ pc[s] = "poll"
  /\ \E t \in FdDone(s) :
       /\ Transfer(s, t, "waiting", "ready", FALSE)
       /\ wait' = [wait EXCEPT ![t] = "none"]
  /\ UNCHANGED <<yield_reason, schedVars>>

PollDone(s) ==
  /\ pc[s] = "poll" /\ FdDone(s) = {}
  /\ Goto(s, "top")
  /\ UNCHANGED <<queue, threadVars, cur, switches, loot, wake_batch>>

-----------------------------------------------------------------------------
Loop(s) ==
  \/ MoveNew(s) \/ Dispatch(s) \/ NothingReady(s)
  \/ (\E v \in Scheds : StealPop(s, v)) \/ StealInsert(s) \/ StealFails(s)
  \/ BackExit(s) \/ BackReady(s) \/ BackWaiting(s) \/ After(s)
  \/ Scan(s) \/ WakeFirst(s) \/ BatchDone(s) \/ PollWake(s) \/ PollDone(s)

GiveUp(s) == \E t \in Tasks : Yield(s, t) \/ BlockTask(s, t) \/ Exit(s, t)

Act(s) ==
  \E t, u \in Tasks : (\E d \in Scheds : Create(s, t, u, d)) \/ Reap(s, t, u)

SchedulerNext ==
  \/ \E s \in Scheds : Loop(s) \/ GiveUp(s) \/ Act(s)
  \/ \E t \in Tasks : Occur(t)

SchedulerSpec == SchedulerInit /\ [][SchedulerNext]_schedulerVars

-----------------------------------------------------------------------------
SchedulerTypeOK ==
  /\ queue \in [Scheds -> [Queues -> Seq(Tasks)]]
  /\ state \in [Tasks -> Queues \cup {"none", "freed"}]
  /\ current_sched \in [Tasks -> Scheds \cup {NoSched}]
  /\ current_queue \in [Tasks -> Queues \cup {"none"}]
  /\ pc \in [Scheds -> {"top", "steal", "insert", "run", "back", "after",
                        "scan", "wake", "poll"}]
  /\ cur \in [Scheds -> Tasks \cup {NoTask}]
  /\ switches \in [Scheds -> 0..PollInterval]
  /\ loot \in [Scheds -> Tasks \cup {NoTask}]
  /\ wake_batch \in [Scheds -> Seq(Tasks)]
  /\ yield_reason \in [Tasks -> {"volunteer", "wait", "exit"}]
  /\ wait \in [Tasks -> {"none", "sync", "fd", "sync_done", "fd_done"}]

Places(t) ==
  UNION {{<<s, q, i>> : i \in {j \in DOMAIN queue[s][q] : queue[s][q][j] = t}} :
           s \in Scheds, q \in Queues}

Allocated(t) == state[t] \notin {"none", "freed"}

\* No thread is lost and none is linked twice, whatever the interleaving of
\* owners, thieves, creators and joiners: every live thread is in exactly one
\* queue, or in the hands of exactly one thief; a freed one is nowhere.
EachThreadInOnePlace ==
  \A t \in Tasks :
    Cardinality(Places(t)) + Cardinality({s \in Scheds : loot[s] = t})
      = IF Allocated(t) THEN 1 ELSE 0

\* What the assertions of the queue operations demand: the thread's own idea
\* of its owner and its queue is where it is, and except while it runs its
\* state is that queue's.
OwnershipConsistent ==
  \A s \in Scheds, q \in Queues : \A t \in ToSet(queue[s][q]) :
    /\ current_sched[t] = s /\ current_queue[t] = q
    /\ q # "running" => state[t] = q

\* A worker runs the one thread of its running queue, so no thread runs on
\* two workers and none is left over as running when its worker moved on.
OneRunnerEach ==
  \A s \in Scheds :
    queue[s]["running"] = IF cur[s] = NoTask THEN <<>> ELSE <<cur[s]>>

\* A thread whose batch entry is still to be handled has stayed in the
\* waiting queue, so that the transfer's assertion holds.
BatchStillWaiting ==
  \A s \in Scheds : \A t \in ToSet(wake_batch[s]) : Contains(queue[s]["waiting"], t)

\* The assertions in the queue operations and in the routine hold.
QueueAssertions == OwnershipConsistent /\ OneRunnerEach /\ BatchStillWaiting

\* A thread is ready, or waits for an event that came.  Neither the front
\* insertion of woken I/O-bound threads nor repeated stealing keeps it back,
\* because fewer threads than PollInterval can overtake it between two polls;
\* and ready threads do not keep the scheduler from polling.
Runnable(t) == state[t] = "ready" \/ wait[t] \in {"sync_done", "fd_done"}
=============================================================================
