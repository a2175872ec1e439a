---------------------------- MODULE MCHashTable ----------------------------
(***************************************************************************)
(* The instance TLC checks: three keys, every hash function that tells     *)
(* tables of 1, 2 and 4 slots apart, and inserts enough for two resizes.   *)
(***************************************************************************)
EXTENDS HashTable

CONSTANTS a, b, c
MCKey == {a, b, c}
MCHashFuncs == [MCKey -> 0 .. 3]
MCSizes == {1, 2}
=============================================================================
