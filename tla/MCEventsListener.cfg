\* Two listeners and one id, so that both the id race and the "too many
\* events listeners" error happen; the chain runs from block 1 to block 2
\* (block 0 is the genesis); `begin` is 0 (replay from genesis) or 2 (at or
\* past the first live block); RPC and decode faults are on.  Deadlock is
\* not checked: the chain stops at MaxHeight and a panic stops the process.
CONSTANTS
  l1 = l1
  l2 = l2
  Listeners <- MCListeners
  NIds = 1
  Begins = {0, 2}
  InitHead = 1
  MaxHeight = 2
  Faults = TRUE
  NoListener = NoListener
SYMMETRY MCSymmetry
SPECIFICATION Spec
CHECK_DEADLOCK FALSE
INVARIANTS
  TypeOK
  NoStrandedPending
  BackfillPrecedesLive
  BackfillCoversGap
  NoDuplicateFromStart
  ReplayStopsAfterCancel
