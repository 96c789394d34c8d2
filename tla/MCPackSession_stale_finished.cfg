SPECIFICATION Spec
CONSTANTS
  MaxJobs = 2
  MaxFiles = 1
  Scale = 1
  ClientWaits = TRUE
INVARIANTS
  FinishedIsCurrent
CHECK_DEADLOCK FALSE
