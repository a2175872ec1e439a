CONSTANTS
  Names <- MCNames
  Numbers <- MCNumbers
  Marks <- MCMarks
  Size <- MCSize
  InitialTokens = 4
  PrefixRoom = 24
  Texts <- MCTexts
  Sources <- MCSources
  MaxName = 7
SPECIFICATION FairSpec
INVARIANT TypeOK
INVARIANT TokensFit
INVARIANT ReadsOnlyTokens
INVARIANT DeclaredOnce
PROPERTY ReadsWhatIsWritten
INVARIANT AcceptsTheGrammar
INVARIANT CompilesWhatIsWritten
PROPERTY EveryTextIsRead
CHECK_DEADLOCK FALSE
