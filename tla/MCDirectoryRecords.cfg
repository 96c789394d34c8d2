SPECIFICATION Spec
CONSTANTS
  Sector = 256
  Listings <- AllListings
CHECK_DEADLOCK FALSE
INVARIANTS
  TypeOK
  RecordsInBuffer
  LengthsAgree
  LengthCovers
PROPERTIES
  IsPacked
  RecordsWritten
