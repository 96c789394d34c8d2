SPECIFICATION Spec
CONSTANTS
  Trees <- Aligned
  SectorsMod = 2097152
  Garbage <- GarbagePads
CHECK_DEADLOCK FALSE
INVARIANTS
  VolumeIsMultipleOf16
