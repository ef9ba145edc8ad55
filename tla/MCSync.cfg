CONSTANTS
  Threads = {t1, t2, t3, t4}
  Cancellable = {t4}
  Untimed = {t1, t2, t3}
  NoThread = NoThread
  Objects = {"mutex", "cond", "sem", "rwlock", "barrier", "once", "events"}
  MutexTypes = {"normal", "errorcheck", "recursive"}
  MaxDepth = 2
  CondThreads = {t1, t2, t3}
  Signals = TRUE
  InitValue = 1
  Modulus = 16
  MaxPosts = 3
  TimedWrites = {TRUE, FALSE}
  Threshold = 3
  MaxRounds = 2
  Callers = {t1, t2, t3}
  MaxCalls = 2
  Waiters = {w1, w2}
  NoWaiter = NoWaiter
  Waits = {{"sync", "time"}, {"tid"}, {"select"}, {"func"}}
  CancelledWaits = {{"sync", "time"}}
  MaxWait = 2
  Clamp = 8
  Grain = 2
  IdleWait = 1
  FuncPeriod = 2
  MaxWakeBatch = 1
  MaxDeferredSelect = 1
  Interrupts = TRUE
  Backends = {"reactor", "epoll", "uring"}
SPECIFICATION Spec
INVARIANTS
  SyncTypesOK MutualExclusion SleepersAccounted RecordsLive NoLostBroadcast
  ReadersExcludeWriters NobodyLeavesEarly
  OnceKept MovesOnlyWaiters NoMissedPost
PROPERTIES MutexTimeouts SemIsAtomic EarlyByLessThanAMillisecond
CHECK_DEADLOCK FALSE
