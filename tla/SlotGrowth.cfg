CONSTANTS
  LastFd = 1
  InitSlots = 1
  SlotWaiters = {1}
SPECIFICATION SlotTableSpec
INVARIANT MovedListsAreWhole
CHECK_DEADLOCK FALSE
