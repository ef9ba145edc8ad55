CONSTANTS
  Waiters = {1, 2}
  NoWaiter = NoWaiter
  Waits = {{"sync"}, {"time"}, {"tid"}, {"select"}, {"func"}}
  CancelledWaits = {{"time"}}
  MaxWait = 1
  Clamp = 8
  Grain = 1
  IdleWait = 1
  FuncPeriod = 1
  MaxWakeBatch = 1
  MaxDeferredSelect = 1
  Interrupts = TRUE
  Backends = {"uring"}
  Scheds = {1, 2}
  Tasks = {1, 2}
  MainTask = 1
  IoBound = {2}
  Detached = {}
  PollInterval = 2
  NoTask = NoTask
  NoSched = NoSched
  Apths = {0, 1, 2}
  MainApth = 0
  Creators = {0}
  Cancelled = {1}
  Setters = {1}
  Detachable = {1}
  Calls = {"join", "exit"}
  Exclusive = TRUE
  NoApth = NoApth
  NWorkers = 3
  MaxApths = 2
SPECIFICATION MCThreadsSpec
INVARIANTS
  ThreadTypesOK JoinedThreadStaysAllocated ProcessOutlivesThreads
  PoolMemoryLive
PROPERTIES ThreadsGetOn ProcessStartsAndStops
CHECK_DEADLOCK FALSE
