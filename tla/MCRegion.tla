------------------------------- MODULE MCRegion -------------------------------
(***************************************************************************)
(* The instance of Region that TLC checks: words of two bytes, partitions  *)
(* of four and at most six, and blocks from nothing to more than a default  *)
(* partition holds, to more than any holds, and to the end of size_t.       *)
(***************************************************************************)
EXTENDS Region

MCSizes == {0, 1, 2, 3, 5, 7, 14, 15}
=============================================================================
