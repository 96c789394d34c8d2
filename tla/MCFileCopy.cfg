SPECIFICATION Spec
CONSTANTS
  Disks <- SomeDisks
  Sizes = {2, 9}
  Garbage <- SomeGarbage
  MaxChanges = 2
  Sector = 4
  IntMax = 15
  BufferSizes = {0, 3, 8}
CHECK_DEADLOCK FALSE
INVARIANTS
  TypeOK
  UntouchedListed
  SectorsAgree
  UntouchedCopied
  OverrunOnlyIfRaised
PROPERTIES
  CopyEnds
