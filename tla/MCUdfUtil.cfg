SPECIFICATION Spec
CONSTANTS
  Names <- SomeNames
  Locations <- SomeLocations
CHECK_DEADLOCK FALSE
INVARIANTS
  TypeOK
  CrcIsRemainder
  TagVerifies
  NameSurvives
  BothOrders
