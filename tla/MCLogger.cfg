CONSTANTS
  MaxLogFileSize = 4
  RecordSizes <- Sizes
  MaxRecords = 6
  MaxFaults = 2
SPECIFICATION Spec
INVARIANTS
  TypeOK
  Retained
  SizeBounded
  DropsBounded
