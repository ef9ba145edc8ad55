CONSTANTS
  Scheds = {s1, s2}
  Tasks = {t1, t2, t3}
  MainTask = t1
  IoBound = {t2}
  Detached = {t3}
  PollInterval = 2
  NoTask = NoTask
  NoSched = NoSched
  KeyUsers = {t1, t2}
  Owners = {t1, t2}
  Holders = {t1}
  NKeys = 2
  FirstBlock = 1
  WordBits = 3
  UintBits = 2
  Iterations = 2
  MaxCreates = 3
  NearThreads = {t1, t2}
  FarThreads = {t3}
  NSig = 1
  Fatal = {1}
  Killers = {t2}
  Maskers = {t1}
  Sleepers = {t1}
  Installers = {t3}
  MaxSent = 2
  Blocks = {b1, b2}
  Regions = {1, 2, 3}
  Pools = {s1, s2}
  PoolMax = 2
  MinStack = 2
  StackSizes = {0, 1, 3}
  GuardSizes = {0, 1}
  Dozers = {t1, t2}
  Parents = {t2}
  Million = 3
  IntRange = 8
  SleepSecs = {0, 1, 4}
  PollMicros = 1
  LastSecond = 2
SPECIFICATION MCRuntimeSpec
INVARIANTS
  RuntimeTypesOK QueuesConsistent KeyDataIsCurrent DestructorsMatchValues
  SignalsAccounted SignalWaits StacksHeldOnce SleepsAreExact
CHECK_DEADLOCK FALSE
