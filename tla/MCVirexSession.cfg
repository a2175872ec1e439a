CONSTANTS
  f1 = f1
  f2 = f2
  ByteSize = 2
  STACK_CAPACITY = 2
  MEMORY_CAPACITY = 8
  PROGRAM_CAPACITY = 4
  RegIdSize = 64
  FrameCapacity = 5
  Path <- MCPath
  Images <- MCImages
  Programs <- MCPrograms
  Limits <- MCLimits
SPECIFICATION SSpec
INVARIANT SessionTypeOK
INVARIANT RunsStartFromWholeImages
PROPERTY OnlyShutsReturns
PROPERTY EveryRunEnds
CHECK_DEADLOCK FALSE
