\* The lock; endless requests to a device; updates, a second one while handlers of the
\* first are left; queries for images; packets of devices that nobody knows.
SPECIFICATION LivenessSpec
CONSTANTS
  t1 = t1
  t2 = t2
  t3 = t3
  t4 = t4
  \* Requests: three callers of one device, whose sequence numbers do not matter here.
  c1 = c1
  c2 = c2
  c3 = c3
  Callers = {c1, c2, c3}
  PriorityOf <- MCPriority
  Expects = {c1, c2}
  CanCancel = TRUE
  MaxConcurrency = 1
  TsnModulus = 1
  Window = 1
  MaxRequests = 3
  MaxStale = 1
  MaxUpdates = 2
  MaxFrames = 2
  StallTime = 2
  OtaConfig <- MCOtaConfig
  OtaQueries <- MCOtaQueries
  MaxQueries = 1
  MaxExpiries = 1
  Frames <- MCFrames
  MaxCopies = 1
  MaxRecent = 3
  MaxLosses = 1
  Listeners = {}
  Quirks = {"lamp"}
INVARIANTS NoLostWakeup NoAmbiguousUpgrade
PROPERTIES
  FirstComeFirstServed TopPriorityServed
  RequestsEnd
  NoEarlyTimeout UpdateEnds QueriesEnd
  TalkersAreInterviewed
CHECK_DEADLOCK FALSE
