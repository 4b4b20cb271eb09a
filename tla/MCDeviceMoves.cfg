\* The device changes its address while it is being initialized.
SPECIFICATION LifecycleSpec
CONSTANTS
  Nwks = {1, 2}
  MaxTries = 2
  MaxObjects = 2
  MaxCalls = 2
INVARIANT AnnouncedIsComplete
CHECK_DEADLOCK FALSE
