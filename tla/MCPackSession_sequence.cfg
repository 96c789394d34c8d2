SPECIFICATION Spec
CONSTANTS
  MaxJobs = 2
  MaxFiles = 3
  Scale = 6
  ClientWaits = TRUE
INVARIANTS
  TypeOK
  PollFresh
  OwnPaths
  ProgressAccounted
PROPERTIES
  NeverBackwards
  PackReported
  RefinesProgressProtocol
CHECK_DEADLOCK FALSE
