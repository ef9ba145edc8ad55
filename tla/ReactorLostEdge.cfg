CONSTANTS
  Readers = {t1}
  Closers = {t1}
  Impatient = {}
  Fds = {f1}
  CloseMax = 1
  MaxReopens = 1
  QueueSize = 2
  MaxWaiters = 2
SPECIFICATION ReactorSpec
INVARIANT NoSleeperOnReadyFd
CHECK_DEADLOCK FALSE
