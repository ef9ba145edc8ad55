CONSTANTS
  Threads = {t1, t2, t3}
  Cancellable = {}
  Untimed = {t1, t2}
  NoThread = NoThread
  MutexTypes = {"errorcheck"}
  MaxDepth = 2
  CondThreads = {t1, t2}
  Signals = FALSE
  InitValue = 1
  Modulus = 16
  MaxPosts = 2
  TimedWrites = {TRUE}
  Threshold = 3
  MaxRounds = 2
  Callers = {t1, t2, t3}
  MaxCalls = 2
  Objects = {"mutex", "cond", "sem", "rwlock", "barrier", "once"}
  Waiters = {w1, w2}
  NoWaiter = NoWaiter
  Waits = {{"sync", "time"}, {"tid"}, {"select"}, {"func"}}
  CancelledWaits = {{"sync", "time"}}
  MaxWait = 2
  Clamp = 8
  Grain = 2
  IdleWait = 1
  FuncPeriod = 2
  MaxWakeBatch = 1
  MaxDeferredSelect = 1
  Interrupts = TRUE
  Backends = {"reactor", "epoll", "uring"}
SPECIFICATION FairSpec
PROPERTY BlockedCallReturns
CHECK_DEADLOCK FALSE
