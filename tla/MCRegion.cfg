CONSTANTS
  Alignment = 2
  DefaultCapacity = 4
  Sizes <- MCSizes
  SizeT = 16
  Heap = 6
  MaxPartitions = 3
  MaxBlocks = 5
SPECIFICATION Spec
INVARIANT TypeOK
INVARIANT BlocksAreExclusive
INVARIANT StoredBytesSurvive
PROPERTY OnlyPaddingOverruns
PROPERTY GrowthNeedsDemand
CHECK_DEADLOCK FALSE
