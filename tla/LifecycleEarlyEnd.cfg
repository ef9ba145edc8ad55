CONSTANTS
  Apths = {t1, t2, t3}
  MainApth = t1
  Creators = {t1, t2}
  Cancelled = {}
  Setters = {}
  Detachable = {}
  Calls = {"exit"}
  Exclusive = TRUE
  NoApth = NoApth
SPECIFICATION LifecycleSpec
INVARIANT ProcessOutlivesThreads
CHECK_DEADLOCK FALSE
