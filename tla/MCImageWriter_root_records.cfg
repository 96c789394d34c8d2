SPECIFICATION Spec
CONSTANTS
  Trees <- WideRootTrees
  SectorsMod = 2097152
  Garbage <- GarbagePads
CHECK_DEADLOCK FALSE
INVARIANTS
  AllDirectoriesPlaced
