# A TLA+ model of libapth

libapth is an M:N thread library in C: many user-level threads (*apths*) run on
a few pthread workers. This directory models its synchronisation primitives,
scheduler, worker pool, thread life cycle, signals, thread-specific data, stacks,
sleeps, event manager, descriptor back ends, descriptor table, linked lists and
I/O hooks. TLC checks the models on small instances; TLAPS proves theorems about
the mutex, the semaphore, the reader-writer lock, `apth_once`, sleeps and the
memory of the worker pool. All paths below are relative to `src/src/`.
`PROJECT.json` maps every definition to the lines it models and lists runs,
mutants, findings, hazards and theorems.

## 1. The system

| Part | Source | State | Operations |
|---|---|---|---|
| Mutex | `core/apth_mutex.c` | guard, owner, lock_count, type, FIFO of waiter records | lock, timedlock, trylock, unlock, destroy |
| Semaphore | `core/apth_sem.c` | guard, value, waiters | wait, trywait, timedwait, post |
| Rwlock | `core/apth_rwlock.c` | readers, writers, waiting_writers, two FIFOs | rdlock, wrlock, timed and try forms, unlock |
| Barrier | `core/apth_barrier.c` | threshold, count, waiters | wait |
| Once | `core/apth_once.c` | one word: 0, INPROGRESS, DONE | once |
| Condition | `core/apth_cond.c` | guard, waiters, the caller's mutex | wait, timedwait, signal, broadcast |
| Scheduler | `internal/apth_sched.c`, `internal/apth_thqueue.c` | five queues per worker, the current thread, each thread's owner and queue | dispatch, yield, wait, exit, steal, wake |
| Workers | `internal/apth_worker.c`, `core/apth_init.c` | list of workers, their structures and schedulers, the start-up counter | start, count down, loop, order to stop, join, free |
| Life cycle | `core/apth_create.c`, `apth_join.c`, `apth_detach.c`, `apth_exit.c`, `apth_cancel.c`, `apth_setcancel*.c` | joinid, cancellation flags, alive counter, exit flags | create, join, detach, cancel, exit, end of the process |
| Signals | `internal/apth_signal.c`, `core/apth_kill.c`, `core/apth_sigmask.c`, `hook_libc/hook_signal.c` | pending sets and counters, masks, actions, siglock | kill, raise, assign, deliver, sigprocmask, sigaction, sigwait, pause, sigsuspend |
| Thread-specific data | `core/apth_data.c`, `internal/apth_data.c` | keys with sequence numbers, values per thread | create, delete, set, get, destructors |
| Control blocks, stacks | `internal/apth_tcb.c` | mapped regions, a pool per scheduler | alloc, free |
| Time and sleeps | `internal/apth_time.c`, `hook_libc/hook_time.c`, `hook_process.c` | deadlines, the clock | sleep, usleep, nanosleep, wait, waitpid, wait4 |
| Event manager | `internal/apth_event.c` | the waiting queue, the events of each waiter, the eventfd | scan, transfer, deferred select, poll, prod |
| Reactor | `internal/apth_reactor.c` | bounded request queue, slots with waiter lists, one edge-triggered epoll | watch, unwatch, close notice, process events |
| epoll map | `internal/apth_event.c` (124-294) | slots and epoll of one scheduler | add, remove, fail, pending closes |
| io_uring map | `internal/apth_event.c` (311-568), `internal/apth_iouring.c` | submission queue, requests in the kernel, pending cancels | add, remove, fail, completion, direct read |
| Descriptor table | `internal/apth_fd.c`, `hook_libc/hook_lowlevel_io/` | snapshots, deferred frees | register, unregister, grow, test |
| I/O hooks | `hook_libc/` | position in the caller's vector; sets of descriptors | write loops, read and accept retries, connect, select, pselect, poll |
| Lists | `utils/list.inline.h` | next and prev of every cell | insert, remove, splice, append, walk |

How they interact: a blocking primitive puts a record with a SYNC event on the
caller's stack into its queue and yields with reason WAIT. The worker puts the
thread into its waiting queue. A waker sets the event's status and *prods* the
worker that owns the thread through an eventfd. The event manager of that worker
scans the waiting queue and moves a thread to ready when one of its events has
left PENDING **or when a cancellation request is pending for it**. The I/O hooks
do the same with FD events, whose status is set by the reactor or, when the
reactor could not be started, by the worker itself. Idle workers steal from the
back of other ready queues. Between two dispatches a worker hands the signals the
kernel noted to some thread, and before it switches to a thread it delivers what
is pending for it. Worker 0 leaves its loop when the main thread has ended, tells
the others to leave, joins and frees them.

What is hard in this code:

* a record on a stack is read by the waker after the wake-up is published;
* a deadline or a cancellation races a hand-over;
* a stolen thread is in no queue for a moment;
* threads are counted after they are published;
* memory of workers is freed while others look for work in it;
* signals move between sets that several actors change;
* keys are created, deleted and destroyed without a lock;
* edge-triggered notification is combined with asynchronous registration;
* descriptor numbers are closed and reused under waiters;
* tables and slot arrays are replaced under lock-free readers.

`PROJECT.json` lists 40 hazards at their lines.

## 2. The modules

| Module | Models | Composition |
|---|---|---|
| `SyncWaiter` | the record of a blocked thread, the guard, the event manager's wake-up, deadlines and cancellation | extended by the blocking primitives |
| `Mutex`, `Sem`, `Rwlock`, `Barrier`, `Once` | one primitive each | |
| `Cond` | the condition variable | composed with `Mutex` |
| `Semaphore` | abstract: a counter with atomic take and give | `Sem` implements it |
| `MCSync` | all primitives and `EventManager` side by side | `object` is chosen in Init and never changes |
| `Scheduler` | the loops of the workers, their queues, stealing | |
| `Lifecycle` | control blocks, joins, cancellation, the alive counter | |
| `Workers` | `apth_init`, `apth_drop`, the worker pool and its memory, the count of live threads | |
| `MCThreads` | the three above and `EventManager` with their fairness | `part` is chosen in Init |
| `Keys` | thread-specific data | |
| `Signals` | signals, handlers, masks and the locks that yield | |
| `StackPool` | control blocks and their stacks | |
| `Sleeps` | time arithmetic, sleeps and the waits for a child | |
| `MCRuntime` | `Scheduler` and the four above | `part` is chosen in Init |
| `EventManager` | one scheduler's event manager with its waiters | |
| `FdWait` | descriptors, slots, the readers and the closers | extended by the three back ends |
| `Reactor`, `EpollMap`, `UringMap` | the three back ends | |
| `Links` | the pointers of the linked lists | extended by the next three |
| `Lists` | the list operations beside their meaning for sequences | |
| `SlotTable` | the growing array of slots, which contain list heads | |
| `SelectPoll` | select, pselect, poll and `apth_wait_event_list` | |
| `FdTable` | the table of managed descriptors and its hooks | |
| `IoHooks` | the loops of the I/O hooks | |
| `MCIo` | the eight I/O parts side by side | `part` is chosen in Init |
| `QueueFacts`, `MutexProofs`, `OnceProofs`, `SemProofs`, `RwlockProofs`, `SleepsProofs`, `WorkersProofs`, `WorkersEndProofs` | proofs | |

`MCSync`, `MCThreads`, `MCRuntime` and `MCIo` are sums: a behaviour is about one
component, so one run explores the union of their state spaces instead of the
product. Components that do share state are composed in one module: the condition
with the mutex, the back ends with the descriptors and readers of `FdWait`, signals
with the loops of two schedulers, the event manager with posters and waiters.

### How actions correspond to the code

*A critical section of a guard is one action.* The code holds an `lll` spin
lock around every access to a primitive's fields, so what it does between
lock and unlock is atomic for the others. There is one exception, and it is
modelled: a waker sets the waiter's status *inside* the section and then still
reads the waiter's record (`w->th`). The waiter's own scheduler looks at the
status without the guard, so unlock, post, signal and the rest are two actions,
`...HandOff` and `...Done`, with `target` naming the record that is still being
read. In `Signals` the lock itself is modelled, because there a scheduler spins
where an apth yields.

*A blocked call* is a record: `loc` says whether the thread runs, waits, has
been woken or is in a hand-over, `ev` and `timer` are the statuses of its two
events. `EventManager(t)` of `SyncWaiter` wakes it. `...Return` actions are the
code behind the `// --- woken up ---` comments.

*Scheduler*: the program counter of a worker follows `scheduler_routine`:
new threads, dispatch, run, classify the thread that came back, event manager.
A transfer holds both queue locks and is one step; a steal is two (`StealPop`,
`StealInsert`). The `waked` queue is never filled by the code and
`advised_next_th` never stored, so neither is in the model. `PollWake` stands
for any completion the poll delivers.

*Workers*: `initPc` is the pthread that called `apth_init`, `workerPc[w]` a
worker. `nAlive` counts the live threads: whoever counts the last one out after the
main thread prods worker 0 (`EndApth`), which leaves its loop when `ProcessOver`
says so. Reading a structure that is freed or not yet there is allowed and noted in
`freedReads` with the reader's name.

*Lifecycle*: `apth_create` and `CreateCount` are the two halves of `apth_create`;
`apth_join`, `JoinClaim`, `JoinWake` and `JoinReap` the steps of `apth_join`; the
weak compare-and-exchange may fail although nobody has claimed the target. A
failed assertion of the library sets `panic`.

*Keys*: every read and write of the shared table is a step. A value stands for
the generation of the key it was stored for, a destructor for the generation it
was registered with, so that a mismatch is visible. The sequence number has
`WordBits` bits, the unsigned int it passes through `UintBits`.

*Signals*: `sched[s]` is a scheduler between two dispatches, `th[t]` the call a
thread is in, `frame[t]["own"]` and `frame[t]["sched"]` a delivery on either
stack. `tally` counts signals sent, consumed and merged with one already pending.

*StackPool*: sizes are in pages; `mmap` takes the first free region. A region keeps
the guard it was mapped for and what is protected of it when it goes through a
pool. A block is freed with a scheduler, into its pool or, when that is full, by
`munmap`, and without one always by `munmap`.

*Sleeps*: a second has `Million` microseconds and an int `IntRange` values; both
are constants, so the carry and the truncation are checked at small ones and
proved for all. A sleep ends because the scan compared its time with the clock
(`SleepIsDue`) or because the event manager took it for over without looking
(`SleepEndsEarly`: a poll that timed out or was interrupted, a cancellation).

*EventManager*: `ScanWaiting`, `Wake`, `Rescan`, `Select`, `PollOnce`,
`StartPoll`, `PollWoken`, `PollTimeout` and `PollInterrupted` are the phases of
`apth_sched_eventmanager_epoll`. Time is the distance to each deadline, in
units of `1/Grain` millisecond. `backend` is one of the three ways to poll.

*Reactor*: requests are taken by `Drain` as a batch and served one by one; the
completion of a waiter is two steps (`CompleteStatus`, `CompleteRest`) because
the waiting thread's scheduler sees the status before the rest is written.
An UNWATCH reads the event of a thread that may have gone: the memory holds the old
value, has been cleared, or holds anything, and then the behaviour ends
(`UnwatchAstray`). A report may also be about output or urgent data, and then
matches no reader (`Matched`).
*UringMap*: the kernel is a set of held requests and a set of completions; `result`
is what a direct read will return, and `lost` names, for one step, a read that took
input with nobody to receive it.
*FdTable*: a snapshot is an index into the history of tables; `GrowCopy` and
`GrowPublish` are separate so that a registration may fall between them.
*IoHooks*: a byte is its position in the caller's data, so "the right bytes at
the right place" is an equation between sequences. *SlotTable* and *SelectPoll*
keep pointers: an array of slots has a generation, and a list walk follows `next`
cell by cell, assertions included. `touched` names the slots through which freed
memory was read or written. The waits of *IoHooks* may also fail the assertion
behind them, after a cancellation request with cancellation disabled.

The kernel is external and modelled from its use: epoll reports an edge when
input arrives or a descriptor is added while ready; closing a descriptor removes
it from epoll; io_uring completes every request it holds once.

Operators marked `\* Mutant:` are wrong variants of the definition that follows
them. No specification uses them: each documents the defect that a property
would catch.

## 3. The runs

Each passing run checks a type invariant and the properties below; each violation
run shows one disagreement between the code and a statement in the repository.

### `sync`: the primitives and the event manager, safety

* `MutualExclusion`: whoever was told 0 by lock, timedlock or trylock is the
  owner, as often as `lock_count` says.
* `MutexTimeouts`: timedlock gives up only after its deadline or a cancellation,
  and never with the mutex in hand.
* `SleepersAccounted`: whoever must wake a sleeper can find it. For the mutex, a
  thread in the slow path is queued exactly once or has been handed the mutex,
  nobody is queued on a free mutex, and a mutex that destroy accepts has nobody
  inside (`EverySleeperAccounted`, `DestroyFindsNoOneInside`); for the condition
  `SignalReachesASleeper`; for the semaphore `NoSleeperBesideAPermit` and
  `PermitsConserved`; for the rwlock `WaitingWritersExact` and, while no writer
  uses a deadline, `NoSleeperOnFreeLock`; for the barrier `CountedAreQueued`.
* `RecordsLive`: the record a waker still reads after the wake-up belongs to a
  call that has not returned. This holds for timed calls, which take the guard
  again before they return. An untimed call does not, and in the model its record
  may be gone; the comment at `core/apth_mutex.c:326-327` is about this window.
* `NoLostBroadcast`: once the predicate is true and broadcast, nobody goes to
  sleep, or stays asleep, without a wake-up.
* `SemIsAtomic`: `Sem` implements `Semaphore` under the mapping
  `permits <- value + number of permits handed over and not yet returned`.
* `ReadersExcludeWriters`: the counters stand for the actual holders.
* `NobodyLeavesEarly`: only complete groups leave a barrier.
* `OnceKept`: the initialiser of `apth_once` completes at most once, is not run
  by two at a time, and a call that returned found it completed, cancelled
  initialisers included.
* `MovesOnlyWaiters`: whoever the event manager is about to move, to select() for or
  to time out is still in the waiting queue, and nobody is in it twice. This needs
  that a SELECT wait has no deadline and is not cancelled: otherwise the thread is
  moved by the batch and again by its SELECT event, against the assertion of
  `transfer_th`. Both callers of such waits panic before they wait (`select_panics`),
  so the instance has none.
* `NoMissedPost`: a blocked scheduler has not missed a posted event: the eventfd is
  readable or about to be.
* `EarlyByLessThanAMillisecond`: rounding lets a timer fire early by less than a
  millisecond; an interrupted io_uring wait, which counts as a timeout and ends the
  nearest sleep, is excepted.

Bounds: four threads (three for the condition and `once`), three use untimed
calls, the fourth is cancelled and uses timed calls; all three mutex types,
nesting 2, three posts, barrier of three threads over two rounds, two calls of
`once` per caller. Four threads give an owner, a thread in hand-over, a queued
thread and one that arrives; two rounds let a fast thread of the first meet a
slow one. The event manager has two threads that wait for SYNC with a deadline, TID,
SELECT or FUNC, with each of the three back ends; deadlines of up to 2
half-milliseconds, so that truncation to milliseconds matters, below a clamp of 8;
one wake per batch and one deferred SELECT per pass, so that both overflow;
interrupted polls, and cancellation of the timed waits. `CHECK_DEADLOCK FALSE`:
clients may stop for good.

### `sync_live`: the primitives, liveness

`BlockedCallReturns`: whoever queues for a mutex, for a permit on its way or with
a deadline, for a write lock, at a barrier, at a condition whose predicate came
true or for an initialisation gets out of its call, with three threads and no
cancellation from outside. Fairness: strong fairness of `Continue(t)`, because a
thread that spins for a guard yields and tries again while the guard is
repeatedly free, and because workers run their event manager again and again;
strong fairness of `Release(t)`, an obligation of the client (it unlocks what it
locked) and of the hardware (a weak compare-and-exchange does not fail for ever).

### `runtime`: what schedulers keep for a thread, safety

* `QueuesConsistent`: two workers and three threads, one I/O bound and one
  detached, that are created, run, wait, are stolen and exit. Every thread is in
  one place (`EachThreadInOnePlace`), and what the assertions of the queue
  operations demand holds (`OwnershipConsistent`, `OneRunnerEach`,
  `BatchStillWaiting`).
* `KeyDataIsCurrent`: a thread reads back only what was stored for the key as it
  is now. `DestructorsMatchValues`: a destructor gets values of its own key, and a
  thread that ends before the last round leaves none behind. Two threads, two
  keys in one block, three creations, two rounds; sequence numbers of three bits
  through an unsigned int of two, so that the truncation happens. Excepted are a
  key recycled between the two reads of `apth_key_destroydata` and numbers the
  truncation has brought back to zero (`wrapped`).
* `SignalsAccounted`: what was sent is pending somewhere, was consumed once or
  met a pending signal of its kind, and `sigpendcnt` counts the pending set.
  `SignalWaits`: masks come back after handlers and sigsuspend, a handler runs
  only for an unblocked signal, and pause, sigsuspend and sigwait end with a
  signal (a cancellation request with cancellation disabled apart). Two threads on
  one scheduler, one of which both changes its mask and sleeps, and a third on the
  other; one signal with a fatal default action, sent twice, so that a second one
  meets the first in every state.
* `StacksHeldOnce`: every mapped stack belongs to one control block or one pool entry
  and has the size it was mapped with, no pool is over its limit, and a block can use
  the stack it asked for. The pool compares total sizes only: a block that gets a
  stack mapped for a larger guard is short by the difference of the two guards and
  never by more, and one that gets a stack mapped for a smaller guard has less of it
  protected. Two blocks, two schedulers with pools of two entries, three regions,
  three stack sizes with and without a guard page: pools fill up, `mmap` fails, best
  fit has a choice, and stacks move from the pool of one scheduler to that of the
  other.
* `SleepsAreExact`: deadlines are exact to the microsecond; within the reach of an
  int the comparison finds a deadline behind the clock when it is and not before, so
  that a sleep it ends was long enough; and however early a sleep ended, the rest
  `nanosleep` reports is a valid time that makes up the request together with what
  was slept. How early a sleep can end is `EarlyByLessThanAMillisecond`. A second of
  three microseconds, an int of eight values and sleeps of up to five seconds: some
  are beyond the int's reach, which the property excepts.

`CHECK_DEADLOCK FALSE`: the bounded parts come to an end.

### `threads`: from start-up to the end of the process

* `ThreadsGetOn`: whoever is owed something by the library gets it. Whoever is ready,
  or waits for an event that came, runs: two workers and two threads, one I/O bound.
  Between two polls fewer threads than `PollInterval` can overtake a ready thread
  from the front; the code's interval is far larger than the instance's 2, and with
  more I/O-bound threads than the interval the property is not claimed. A join of a
  thread that exits returns. What nobody announces to the event manager (a deadline,
  a termination, a descriptor, a predicate, a cancellation) it finds by polling; a
  SELECT event with `MAX_DEFERRED_SELECT` others before it waits for one of those
  (`Crowded`).
* `ProcessStartsAndStops`: the main thread starts unless an initialisation fails;
  when every thread is dead the process ends; when the process is over, by the main
  thread's return or by `apth_exit` and the end of the last thread, every worker ends
  and `apth_init` gets to its exit.
* `JoinedThreadStaysAllocated`; `ProcessOutlivesThreads`, which holds when only
  the main thread creates. Three threads, one of which is cancelled, detached and
  changes its cancelability. `Exclusive` states what POSIX demands from clients: two joins
  of one thread do not overlap. The model reaches two situations that the
  properties leave open: two threads that join each other pass the check at
  `core/apth_join.c:39` and wait for ever, and a cancelled joiner with cancellation
  disabled fails the assertion at line 67 (`panic`).
* `PoolMemoryLive`: a worker is in its loop only when all workers have their
  schedulers and leaves only when the process is over, memory of a worker is freed
  only when its pthread has ended, and nobody reads freed memory apart from a steal
  while the pool is being dropped and `worker0->tid` after the end of worker 0; the
  prod of worker 0 by the last thread is in time. Three workers: worker 0, one that
  is being joined and one that steals; up to two threads alive.

Fairness (`MCThreadsSpec`): weak fairness of every worker's loop, of the library
steps of every thread, of worker 0's check, of the event manager, posters and time,
and of the running thread giving the processor up, which a cooperative library
demands from its clients. Nothing makes a main thread end. `CHECK_DEADLOCK FALSE`:
the process ends.

### `io`

A property joins what the three back ends promise:

* `WaitersTracked`: a registered pending event of the reactor has a request or a
  waiter; the lists of the other two hold only sleepers; what the kernel will
  name in an io_uring completion is still allocated.
* `CloseEndsWaits`: an idle back end that was told of a close leaves nobody asleep on
  the closed descriptor, apart from who began to wait while it was being closed and
  from a notice dropped by a full queue. The reactor is told; the maps of the
  schedulers are told only in a process without a reactor
  (`internal/apth_fd.c:216`). With a reactor beside io_uring nothing is claimed: the
  io_uring waiters of a closed descriptor stay.
* `ReadyWakes`: an idle back end leaves nobody asleep on a readable descriptor,
  except through an edge reported before the waiter was linked.
* `SlotsMatchEpoll`: counts match lists, registered slots are armed, and a stale
  registration has one of the known causes.
* `DirectReadDelivers`: while its caller waits, a direct io_uring read has a result
  exactly when its event has occurred, and a read that takes input nobody receives
  was closed under its wait or belongs to a thread that was cancelled. Such a call
  returns 0, which its caller takes for the end of the file. The patient reader does
  not close, so that both causes occur.
* `SlotsFollow`: when the slot array grows, every slot's waiters stay reachable in
  order, and the active list holds the slots of the new array. Slots that were
  empty when the array moved keep pointers into the old one (`staleEnds`); freed
  memory is reached through those slots only, which `slot_growth` shows to happen.
* `ListsHold`: whatever operations came before, a list is the sequence its users
  take it for, forwards and backwards, and no assertion fails.
* `TableHolds`: a snapshot of the table outlives one growth (`GraceOfOneGrowth`);
  between calls the table says which descriptors are open, a managed one does not
  block, and none makes the library panic (`TableIsTrue`).
* `HooksTellTruth`: what a write loop reports is the prefix of the data, at the
  right place, and -1 means nothing was written (`pwritev2` at offset -1 is
  excepted, because it loses its place after a short write); connect reports
  success for a connection that is up; select, pselect and poll report what was
  ready when they looked, and give back the mask (`AnswersAreTrue`).

Several of these are of the form "unless": the code has windows in which an
update, an edge or a notice is lost. A history variable records that the window
was hit (`missed`, `raced`, `skipped`, `lost`, `revoked`, `foreign`, `spoilt`), and
the property says that nothing else goes wrong. Each exception is thereby a
precise statement of the race.

Bounds: two readers, one of which only reads while the other also closes and gives
up; one descriptor that is closed and reopened once; a request queue of two, so that it
overflows; one pending-close entry; one submission entry; two waiters at a time
for the thread that gives up, so that its old registration meets its new one.
Slots: an array of one that grows to hold descriptors 0 to 2, three waiter
records. Lists: three elements over two lists. Table: two hook users (symmetric),
descriptor numbers 1 and 3 with an initial capacity of 1, so that the table grows
twice. Hooks: vectors of up to three segments of up to two bytes; sets of one
word of two bits, of which select decomposes at most one. `CHECK_DEADLOCK FALSE`:
the readers may be done.

### The violation runs

| Run | Property | What the code does |
|---|---|---|
| `mutex_cancel_return` | `MutualExclusion` | a thread with a cancellation pending, in deferred mode (the default) or with cancellation disabled, returns 0 from `apth_mutex_lock` although it is still queued; `core/apth_mutex.c:155` says unlock has made it the owner |
| `rwlock_stranded` | `NoSleeperOnFreeLock` | a timed writer gives up and wakes nobody; the readers behind it sleep on a free lock |
| `lifecycle_early_end` | `ProcessOutlivesThreads` | a thread that is published and not yet counted is missed when the others exit |
| `event_manager_clamp` | `SleepsUntilElapsed` | the poll returns at the 60 s clamp and the event is marked occurred |
| `reactor_lost_edge` | `NoSleeperOnReadyFd` | an edge reported while no waiter is linked is consumed, and a later waiter of the registered slot does not re-arm it |
| `select_panics` | `BlockingCallSleeps` | `apth_wait_event_list` copies the list head by value, and its loop runs past the tail of the original into the assertion of `list_next`: a select or poll that has to wait panics |
| `slot_growth` | `MovedListsAreWhole` | a growing slot array copies the list ends of slots without waiters as they are; the next waiter of such a slot is linked through the freed array, although `internal/apth_event.c:84` says the lists are preserved |

## 4. The proofs

| Theorem | Statement |
|---|---|
| `MutexProofs!Exclusion` | `UntimedUncancelled /\ MutexSpec => []MutualExclusion` |
| `MutexProofs!QueueAccounted` | the same for `EverySleeperAccounted` (part of `SleepersAccounted`) |
| `MutexProofs!DestroyIsSafe` | the same for `DestroyFindsNoOneInside` (part of `SleepersAccounted`) |
| `MutexProofs!TimedRecords` | the same for `TimedRecordsLive` (part of `RecordsLive`) |
| `MutexProofs!TimeoutsReal` | the same for the action property `TimeoutOnlyAfterDeadline` (checked as `MutexTimeouts`) |
| `SemProofs!SemImplements` | `UntimedUncancelled /\ CountHasRoom /\ SemSpec => Atomic!Spec`: the refinement checked as `SemIsAtomic` |
| `SemProofs!SemConserves` | the same for `PermitsConserved /\ NoSleeperBesideAPermit` (part of `SleepersAccounted`) |
| `RwlockProofs!RwExclusion` | `UntimedUncancelled /\ RwlockSpec => []ReadersExcludeWriters` |
| `RwlockProofs!RwWritersCounted` | the same for `WaitingWritersExact` (part of `SleepersAccounted`) |
| `OnceProofs!OnceCorrect` | `OnceSpec => []OnceKept` |
| `SleepsProofs!SleepsExact` | `SleepsSpec => []SleepsAreExact` |
| `WorkersEndProofs!PoolMemory` | `WorkersSpec => []PoolMemoryLive` |

They hold for every set of threads (a finite one where the proof counts them),
every nesting depth, number of calls, number of workers, length of a second and
width of an int. The assumptions on the constants are the named `ASSUME`s of the
modules. There are two further assumptions, both about clients.
`UntimedUncancelled`: no thread that uses an untimed call (`apth_mutex_lock`,
`apth_sem_wait`, `rdlock`, `wrlock`) is cancelled. It cannot be dropped, as
`mutex_cancel_return` shows; the timed calls need no such assumption.
`CountHasRoom`: the unsigned count of a semaphore has room for every post;
`apth_sem_post` does not look for an overflow.

**Mutex.** `MutualExclusion` is not inductive: a hand-over sets `owner` long
before the new owner returns, and a thread that wakes up decides from its event
alone whether it has the mutex. The inductive invariant `IInv` adds

* `GuardHeld`: between steps only the thread in a hand-over has the guard;
* `QueueExact`: the queue has no duplicates and contains exactly the threads in
  the slow path whose event is pending, which is what lets timedlock remove itself;
* `OwnerKnows`: the owner was told or has been granted the mutex, a granted
  thread is the owner with count 1, and a free mutex has an empty queue;
* `WokenForAReason`: a thread that woke with its event pending has a passed
  deadline or a cancellation, so under the assumption it is in a timed call.

**Semaphore.** The same structure, with `PermitsConserved` and "a positive count
has no waiters". The refinement maps a permit that `post` hands over to a permit
that is still there until the wait returns: a post is then one abstract step and a
wait happens in its last one. `AbstractStep` is proved action by action together
with the invariant; the number of granted threads changes by one in each of the
two exchanges, which is a lemma about cardinalities of its own.

**Rwlock.** The same structure with two queues. The counts are the cardinalities
of the sets of holders, served sleepers included; a writer that unlocks admits
readers in a loop, one step each, and every step keeps the equation.

**Once.** `IInv` says that whoever runs the initialiser owns the INPROGRESS word
alone, that DONE is stored exactly with the one completion, and that whoever saw
DONE did so after that.

**Sleeps.** The addition carries only above a million, so the microseconds of a
deadline lie in 0 .. Million, both ends included. The lemmas show that the sum is
exact nevertheless, and that the comparison has the sign of the difference as long
as the seconds differ by less than half of an int's range. `IInv` says that a
deadline is the sum of the request and of the clock at the call, that a sleep the
comparison ended has reached its deadline, and that the deadline less the reported
rest lies between the call and now.

**Workers.** `IInv` adds to the property

* `Counted`: `WORKER_SPAWNED` is the number of workers that have not counted down;
  at zero all of them have schedulers, which is why nobody steals from a worker
  without one (`StartOrder`, `AllCounted`);
* `Memory`: what is allocated at each place of a worker's life;
* `Told`: who leaves has been told to, who has been told is no longer in the list,
  and nobody is told before worker 0 drops the pool, so the worker it tells next
  still has its memory;
* `ListOfWorkers`: no duplicates, filled in order, without worker 0 during the drop.

`WorkersEndProofs` adds the order of the end. `Listed`: who is not in the list is
being joined or has ended, so the array of workers is there until worker 0 is the
last one. `LeavesWhenOver`: nobody tells worker 0 to leave, so it leaves only when
the process is over, which it then stays. From both follows that a thread that ends
on any worker finds worker 0 and its scheduler alive (`CountLive`).

There is one lemma per action. `QueueFacts` holds what append, pop-front and
remove do to membership and to the absence of duplicates, for any sequence.

Only model-checked: all liveness properties (fairness and ENABLED are outside the
prover), what recursive definitions compute (the walks of `Lists`, `SlotTable` and
`SelectPoll`, the iovec arithmetic of `IoHooks`), and everything about the
condition, barrier, scheduler, life cycle, keys, signals, stacks, event manager
and I/O parts.

## 5. What is not modelled

* **fork, vfork, exec, system** (`hook_libc/hook_process.c`): they replace or copy
  the process. `docs/JVM_HOTSPOT_MODIFICATION_GUIDE.md:814-816` says that libapth
  does not support fork, and `test/test_manifest.txt:66` expects its test to fail.
* **Preemption** (`internal/apth_preempt.c`): empty functions in the default
  build, and `apth_preempt_check` has no callers in the others.
* **Asynchronous cancellation inside a blocking call of a synchronisation
  primitive**: `internal/apth_ctx.c:41` ends such a thread as soon as it resumes,
  with its stack record still queued. `SyncWaiter` models requests in deferred mode
  or with cancellation disabled, where the call goes on.
* **What select and poll do after their wait** is not reached, since every call
  that has to wait panics (`select_panics`). The rewriting of the sets word by
  word, `ppoll` (which forwards to poll) and `copy_file_range` (two waits and a
  forwarded call) are left out.
* **Reversal of lists and the operations that compare elements** (sort, ordered
  insertion, unique, max, min of `utils/list.inline.h`) have no caller.
* **The late addition of a worker** (`add_worker_thread` has no caller) and the
  resolution of the libc symbols.
* **RDMA**: device I/O behind a build flag.
* **The switch of registers and stacks** (`internal/apth_ctx*`): machine state.
* **Attributes and per-thread queries, formatting, logging, statistics, system
  queries**: single-field accessors and text.

Two hazards are reached by the models without a property, because nothing in the
repository states what should happen: two threads that join each other
(`core/apth_join.c:39`), and a delivery on the scheduler's stack that has to wait
for a lock (`internal/apth_sched.c:687`, `Signals` outcome "stack lost").

Restrictions on clients, all of them obligations that POSIX or the code states:
a thread unlocks only what it holds, does not read-lock recursively, does not
destroy or re-initialise objects in use except through destroy's own check, and
does not overlap two joins of one thread.

## 6. Running

    tlc -workers 2 -config MCSync.cfg MCSync
    tlapm WorkersProofs.tla

The other pairs are listed under `runs` in `PROJECT.json`. Every configuration
finishes within a few minutes on two cores; `MCSync`, `MCRuntime` and `MCIo` are the
largest, with about a million distinct states each. `WorkersProofs` takes some ten
minutes to prove.
