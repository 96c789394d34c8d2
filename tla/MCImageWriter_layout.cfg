SPECIFICATION Spec
CONSTANTS
  Trees <- LayoutTrees
  SectorsMod = 2097152
  Garbage <- GarbagePads
CHECK_DEADLOCK FALSE
INVARIANTS
  TypeOK
  HeaderPlaced
  DirectoriesPlaced
  FileDataPlaced
  EntriesPlaced
  IdentifiersPlaced
  VolumeSizeHolds
  TagsPlaced
  IsoUdfAgree
  PathTableLeads
  PathTableOrdered
PROPERTIES
  PackTerminates
