CONSTANTS
  Threads = {t1, t2, t3}
  Cancellable = {}
  Untimed = {t1, t2, t3}
  NoThread = NoThread
  TimedWrites = {TRUE}
SPECIFICATION RwlockSpec
INVARIANT NoSleeperOnFreeLock
