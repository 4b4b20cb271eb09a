\* Three scans and one loop that is stopped.
SPECIFICATION TasksSpec
CONSTANTS
  MaxScans = 3
  MaxLoops = 1
PROPERTY StopStops
CHECK_DEADLOCK FALSE
