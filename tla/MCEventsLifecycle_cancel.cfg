\* One caller that both reads the error channel and cancels, with faults
\* in notification handling, under the fairness of the Go scheduler.
CONSTANTS
  c1 = c1
  c2 = c2
  Callers <- MCOneCaller
  MaxCalls = 1
  Faults = TRUE
  None = None
SPECIFICATION LiveSpec
CHECK_DEADLOCK FALSE
PROPERTY CancelReturns
