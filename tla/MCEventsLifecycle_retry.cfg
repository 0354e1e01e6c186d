\* One caller whose first start fails in setup, then tries again.
CONSTANTS
  c1 = c1
  c2 = c2
  Callers <- MCOneCaller
  MaxCalls = 2
  Faults = TRUE
  None = None
SPECIFICATION Spec
CHECK_DEADLOCK FALSE
INVARIANT FailedStartRetryable
