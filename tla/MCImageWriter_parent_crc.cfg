SPECIFICATION Spec
CONSTANTS
  Trees <- Small
  SectorsMod = 2097152
  Garbage <- GarbagePads
CHECK_DEADLOCK FALSE
INVARIANTS
  ParentChecksum
