CONSTANTS
  ByteSize = 2
  STACK_CAPACITY = 3
  MEMORY_CAPACITY = 10
  PROGRAM_CAPACITY = 6
  RegIdSize = 64
  FrameCapacity = 24
  Programs <- MCPrograms
SPECIFICATION FairSpec
INVARIANT TypeOK
PROPERTY ImplementsStackMachine
PROPERTY MemoryIsRandomAccess
PROPERTY OutOfBoundsStores
PROPERTY CountedLoopsEnd
CHECK_DEADLOCK FALSE
