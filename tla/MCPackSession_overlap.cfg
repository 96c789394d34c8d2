SPECIFICATION Spec
CONSTANTS
  MaxJobs = 2
  MaxFiles = 1
  Scale = 1
  ClientWaits = FALSE
INVARIANTS
  FinishedJustified
  CompletionReported
  NeverEarlierDestination
PROPERTIES
  EveryPackEnds
CHECK_DEADLOCK FALSE
