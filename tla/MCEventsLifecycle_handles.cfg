\* Two callers start concurrently, no faults: the loser of the CAS returns
\* the Client's handles before the winner has stored them.
CONSTANTS
  c1 = c1
  c2 = c2
  Callers <- MCCallers
  MaxCalls = 2
  Faults = FALSE
  None = None
SPECIFICATION Spec
CHECK_DEADLOCK FALSE
INVARIANT SameHandles
