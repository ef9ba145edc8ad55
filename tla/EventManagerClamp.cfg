CONSTANTS
  Waiters = {t1, t2}
  CancelledWaits = {}
  NoWaiter = NoWaiter
  Waits = {{"time"}}
  MaxWait = 3
  Clamp = 2
  Grain = 1
  IdleWait = 1
  FuncPeriod = 1
  MaxWakeBatch = 2
  MaxDeferredSelect = 2
  Interrupts = FALSE
  Backends = {"reactor", "epoll", "uring"}
SPECIFICATION EventManagerSpec
INVARIANT SleepsUntilElapsed
