\* Liveness of the cancel function when no notification fails: two callers,
\* three calls, weak fairness on the goroutines (LiveSpec).  No symmetry,
\* as the property is checked on the behaviour graph.  Deadlock is not
\* checked: the calls run out at MaxCalls and a nil cancel function panics.
CONSTANTS
  c1 = c1
  c2 = c2
  Callers <- MCCallers
  MaxCalls = 3
  Faults = FALSE
  None = None
SPECIFICATION LiveSpec
CHECK_DEADLOCK FALSE
PROPERTY
  CancelReturnsUnlessPanic
