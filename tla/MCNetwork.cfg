\* What the application keeps of its network.
SPECIFICATION NetworkSpec
CONSTANTS
  \* Requests: three callers, two of which expect replies, one request at a time;
  \* sequence numbers wrap around after three requests.
  c1 = c1
  c2 = c2
  c3 = c3
  Callers = {c1, c2, c3}
  PriorityOf <- MCPriority
  Expects = {c1, c2}
  CanCancel = TRUE
  MaxConcurrency = 1
  TsnModulus = 3
  Window = 3
  MaxRequests = 6
  MaxStale = 1
  \* A device: two addresses, two tries, four objects.
  Nwks = {1, 2}
  MaxTries = 2
  MaxObjects = 4
  MaxCalls = 3
  \* GroupMembers: two groups, a device that joins twice.
  Groups = {g1, g2}
  MaxMade = 2
  MaxEvents = 3
  \* NetworkBackups: two networks and a quick one, three backups.
  Networks = {n1, n2}
  Quick = quick
  Increment = 2
  MaxCounter = 5
  MaxBackups = 3
  \* BackupFormats: a coordinator and two devices, in any of the three tables.
  Coordinator <- MCCoordinator
  Eui64s <- MCEui64s
  ShortAddress <- MCShortAddress
  Managers <- MCManagers
  LinkKeys <- MCLinkKeys
  Partners <- MCPartners
  \* Migrations: a device of two endpoints.
  DbEndpoints = {1, 2}
  \* BackgroundTasks: scans by hand and of two loops.
  MaxScans = 4
  MaxLoops = 2
  \* SharedCalls: three callers, three tasks.
  SharedCallers = {k1, k2, k3}
  MaxTasks = 3
INVARIANTS
  NetworkTypeOK
  PendingIsExact RepliesReachTheirRequest
  DatabaseFollowsEvents RemovedIsGone AddressIsCurrent OneInitialization
  MembershipAgrees
  BackupRowsFollow BackupComesBack
  AllOrNothing
  OneScanAtATime FailedStartupIsStopped
  RunsOnce
PROPERTIES
  AnnouncedObjectStays JoinIsAnswered
  CounterNeverRollsBack
  ManualScanStands
CHECK_DEADLOCK FALSE
