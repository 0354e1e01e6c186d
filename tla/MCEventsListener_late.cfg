\* P4 against the code: a listener whose begin is past the first live block,
\* with the backfill's RPC and decode faults on.
CONSTANTS
  l1 = l1
  l2 = l2
  Listeners <- MCListeners
  NIds = 2
  Begins = {0, 2}
  InitHead = 1
  MaxHeight = 2
  Faults = TRUE
  NoListener = NoListener
SPECIFICATION LiveSpec
CHECK_DEADLOCK FALSE
PROPERTY BufferedEventuallyDelivered
