\* One instance of each component that stands for itself.
SPECIFICATION ComponentsSpec
CONSTANTS
  \* The semaphore: two permits, changed to one and three; tasks are cancelled
  \* while they wait.
  t1 = t1
  t2 = t2
  t3 = t3
  t4 = t4
  PriorityOf <- MCPriority
  Tasks = {t1, t2, t3, t4}
  InitialMax = 2
  NewMaxValues = {1, 3}
  CanCancel = TRUE
  MaxStale = 2
  \* Debouncer: four objects, one window as in zigpy, a clock of four readings.
  Objects = {a, b, c, d}
  Windows = {2}
  MaxTime = 4
  MaxCalls = 3
  \* AttributeCache: one attribute with two values, and two frames that overtake
  \* each other.
  Attrs = {a1}
  MaxVersion = 2
  MaxAir = 2
  MaxSaves = 3
  MaxPending = 3
  \* Codec: bytes of two bits, texts beyond the length that one byte can hold.
  ByteBits = 2
  Lengths = {0, 1, 2, 3, 4}
  ItemCounts = {0, 1, 2}
  Types <- AllTypes
  \* PacketDispatch: frames that come twice, two futures and a callback.
  Frames <- MCFrames
  MaxCopies = 2
  MaxRecent = 1
  MaxLosses = 0
  Listeners <- MCListeners
  Quirks = {"lamp"}
  \* QuirkRegistry: quirks for models, for a manufacturer and for anything.
  FirstQuirks <- MCFirstQuirks
  SecondQuirks <- MCSecondQuirks
  Models <- MCModels
  \* QuirkedDevice: one piece of metadata of each kind.
  ReplacedDevices <- MCDevices
  Additions <- MCAdditions
  Removals <- MCRemovals
  Replacements <- MCReplacements
  Occurrences <- MCOccurrences
INVARIANTS
  ComponentsTypeOK
  Conservation
  FilterNeverRaises
  RowsFollowCache CachedWasReal
  RoundTrip
  HandledOnce
  QuirkIsTheLatest QuirkHasTheLastWord
PROPERTIES
  ImplementsCountingSemaphore
  DuplicatesHeldBack
  GoesBackOnlyOvertaken
  FirstWaiterFirst
CHECK_DEADLOCK FALSE
