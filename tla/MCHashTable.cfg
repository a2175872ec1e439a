CONSTANTS
  a = a
  b = b
  c = c
  NULL = NULL
  Key <- MCKey
  HashFuncs <- MCHashFuncs
  Sizes <- MCSizes
  MaxInserts = 4
SPECIFICATION Spec
INVARIANT TypeOK
INVARIANT FreedOnce
INVARIANT OnlyUnownedKeysLeak
INVARIANT LoadIsBounded
PROPERTY ImplementsDictionary
CHECK_DEADLOCK FALSE
