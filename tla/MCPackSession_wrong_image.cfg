SPECIFICATION Spec
CONSTANTS
  MaxJobs = 3
  MaxFiles = 1
  Scale = 1
  ClientWaits = TRUE
INVARIANTS
  OwnPaths
CHECK_DEADLOCK FALSE
