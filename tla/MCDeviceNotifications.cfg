\* The same device, which also sends frames by itself.
SPECIFICATION Spec
CONSTANTS
  c1 = c1
  c2 = c2
  c3 = c3
  Callers = {c1, c2, c3}
  PriorityOf <- MCPriority
  Expects = {c1, c2}
  CanCancel = TRUE
  MaxConcurrency = 1
  TsnModulus = 3
  Window = 3
  MaxRequests = 6
  MaxStale = 1
INVARIANT OnlyResponsesResolve
CHECK_DEADLOCK FALSE
