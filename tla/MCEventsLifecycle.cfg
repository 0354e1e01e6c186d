\* Two callers, three StartEventsListening calls between them (enough for
\* a failed start, a successful one and a restart after cancel), faults on.
\* Deadlock is not checked: the calls run out at MaxCalls and a nil cancel
\* function panics.
CONSTANTS
  c1 = c1
  c2 = c2
  Callers <- MCCallers
  MaxCalls = 3
  Faults = TRUE
  None = None
SYMMETRY MCSymmetry
SPECIFICATION Spec
CHECK_DEADLOCK FALSE
INVARIANTS
  OneLiveFeed
  StoppedAfterCancel
PROPERTY
  FeedRefined
