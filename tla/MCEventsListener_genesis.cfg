\* Start capture against the code: the subscription opens at block 0.
CONSTANTS
  l1 = l1
  l2 = l2
  Listeners <- MCListeners
  NIds = 2
  Begins = {0}
  InitHead = 0
  MaxHeight = 1
  Faults = FALSE
  NoListener = NoListener
SPECIFICATION Spec
CHECK_DEADLOCK FALSE
INVARIANT StartCapturedOnce
