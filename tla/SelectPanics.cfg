CONSTANTS
  Bits = {0, 1}
  WordSize = 2
  SetSize = 2
  DecomposeMax = 1
  Masks = {m1}
SPECIFICATION SelectPollSpec
INVARIANT BlockingCallSleeps
CHECK_DEADLOCK FALSE
