CONSTANTS
  Readers = {t1, t2}
  Closers = {t2}
  Impatient = {t2}
  Fds = {f1}
  CloseMax = 1
  MaxReopens = 1
  QueueSize = 2
  MaxWaiters = 2
  SqSize = 1
  MaxRequests = 2
  u1 = u1
  u2 = u2
  Users = {u1, u2}
  Numbers = {1, 3}
  Strays = {1}
  InitCap = 1
  DeferMax = 1
  MaxSegments = 3
  MaxLength = 2
  Offsets = {0, 2}
  Bits = {0, 1}
  WordSize = 2
  SetSize = 2
  DecomposeMax = 1
  Masks = {m1, m2}
  LastFd = 2
  InitSlots = 1
  SlotWaiters = {1, 2, 3}
  MaxElem = 3
SPECIFICATION MCIoSpec
SYMMETRY UserSymmetry
INVARIANTS
  IoTypeOK WaitersTracked CloseEndsWaits ReadyWakes SlotsMatchEpoll
  DirectReadDelivers TableHolds HooksTellTruth SlotsFollow ListsHold
CHECK_DEADLOCK FALSE
