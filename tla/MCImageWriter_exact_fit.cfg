SPECIFICATION Spec
CONSTANTS
  Trees <- ExactFitTrees
  SectorsMod = 2097152
  Garbage <- GarbagePads
CHECK_DEADLOCK FALSE
INVARIANTS
  AllFileDataPlaced
