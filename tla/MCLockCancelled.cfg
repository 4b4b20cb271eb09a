\* The lock again, with cancellation.
SPECIFICATION OrderSpec
CONSTANTS
  t1 = t1
  t2 = t2
  t3 = t3
  t4 = t4
  PriorityOf <- MCPriority
  Tasks = {t1, t2, t3}
  InitialMax = 1
  NewMaxValues = {}
  CanCancel = TRUE
  MaxStale = 1
INVARIANT NoLostWakeup
