CONSTANTS
  x = x
  y = y
  l = l
  main = main
  lib = lib
  body = body
  missing = missing
  Name <- MCName
  Block <- MCBlock
  Root = main
  Sources <- MCSources
  Expr <- MCExpr
  Opcode <- MCOpcode
  OperandCount <- MCOperandCount
  Char <- MCChar
  WordSize = 32
  REG_COUNT = 3
  PROGRAM_CAPACITY = 5
  LABELS_CAPACITY = 5
  BINDINGS_CAPACITY = 3
  MEMORY_CAPACITY = 5
  STRING_LENGTHS_CAPACITY = 2
  FrameCapacity = 4
SPECIFICATION Spec
INVARIANT TypeOK
INVARIANT ProgramIsLaidOut
INVARIANT AssertionsHold
INVARIANT ImageMeansItsSource
PROPERTY EvaluatedOnce
PROPERTY MemoryOnlyGrows
PROPERTY AssemblyEnds
CHECK_DEADLOCK FALSE
