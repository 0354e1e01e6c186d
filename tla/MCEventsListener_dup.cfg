\* P1 against the code: two listeners, no faults.
CONSTANTS
  l1 = l1
  l2 = l2
  Listeners <- MCListeners
  NIds = 2
  Begins = {0}
  InitHead = 1
  MaxHeight = 2
  Faults = FALSE
  NoListener = NoListener
SPECIFICATION Spec
CHECK_DEADLOCK FALSE
INVARIANT NoDuplicateDelivery
