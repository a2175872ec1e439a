CONSTANTS
  Letters <- MCLetters
  Digits <- MCDigits
  Size <- MCSize
  Code <- MCCode
  WordSize = 32
  Texts <- MCTexts
  OperandCount <- MCOperandCount
  Numerals <- MCNumerals
SPECIFICATION Spec
INVARIANT ParsesWhatIsWritten
INVARIANT EveryLineIsAccountedFor
PROPERTY EveryStepGetsAhead
CHECK_DEADLOCK FALSE
