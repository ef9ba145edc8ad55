CONSTANTS
  Threads = {t1, t2, t3}
  Cancellable = {t3}
  Untimed = {t1, t2, t3}
  NoThread = NoThread
  MutexTypes = {"normal"}
  MaxDepth = 1
SPECIFICATION MutexSpec
INVARIANT MutualExclusion
