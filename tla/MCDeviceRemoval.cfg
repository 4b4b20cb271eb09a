\* The request to leave may end in any way.
SPECIFICATION LifecycleSpec
CONSTANTS
  Nwks = {1}
  MaxTries = 1
  MaxObjects = 2
  MaxCalls = 2
INVARIANT RemovedIsPopped
CHECK_DEADLOCK FALSE
