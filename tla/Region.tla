-------------------------------- MODULE Region --------------------------------
(***************************************************************************)
(* The region allocator (libs/src/univ_malloc.c) that the VM's alloc and   *)
(* free calls and all of the assembler's data live on: a chain of          *)
(* partitions, each filled from its start, and one operation that takes    *)
(* everything back at once.                                                *)
(*                                                                         *)
(* Partitions are numbered as they are created; `chain' is the list that   *)
(* starts at region->first, and `last' the place of region->last in it.    *)
(* Every buffer starts at a multiple of Alignment (malloc's 16 and three   *)
(* words of header in the code).  Sizes are size_t: their sums are taken   *)
(* modulo SizeT.                                                           *)
(***************************************************************************)
EXTENDS Integers, Sequences, Folds

CONSTANTS
  Alignment,       \* sizeof(void*), what allocateRegion asks for
  DefaultCapacity, \* REGION_DEFAULT_CAPACITY
  Sizes,           \* the sizes that are asked for
  SizeT,           \* 2^64: what size_t counts modulo
  Heap,            \* the largest partition that malloc has room for
  MaxPartitions,   \* a bound on the partitions created
  MaxBlocks        \* a bound on the blocks handed out

ASSUME AlignmentAssumption == Alignment \in Nat \ {0}
ASSUME HeapAssumption == /\ DefaultCapacity \in Nat /\ Heap \in Nat /\ SizeT \in Nat
                         /\ DefaultCapacity <= Heap /\ 2 * Heap + Alignment < SizeT
ASSUME SizesAssumption == Sizes \subseteq 0 .. SizeT - 1
ASSUME MaxAssumption == MaxPartitions \in Nat /\ MaxBlocks \in Nat

Id == 1 .. MaxPartitions

VARIABLES
  created,  \* how many partitions there are, dropped ones included
  capacity, \* [Id -> Nat], 0 for the ones not created
  size,     \* [Id -> Nat], how far each is filled
  chain,    \* the partitions linked from region->first
  last,     \* region->last, by its place in the chain; 0 while the region is empty
  live,     \* the blocks handed out since everything was last taken back, in order
  written,  \* [Id -> SUBSET Nat], the bytes that hold what a client has stored
  wild,     \* zeroing a block has run past the end of its partition
  killed    \* the process has been killed by a signal

regionVars == <<created, capacity, size, chain, last, live, written, wild>>
vars == <<regionVars, killed>>

Blocks == [part : Id, off : Nat, len : Nat]
Bytes(b) == b.off .. b.off + b.len - 1

RoundUp(k) == ((k + Alignment - 1) \div Alignment) * Alignment
Larger(a, b) == IF a > b THEN a ELSE b

\* A sum of two sizes.
Wrap(n) == IF n >= SizeT THEN n - SizeT ELSE n

\* What a block of k bytes takes of a partition filled up to s: the padding in
\* front of it counts.  Mutant of RealSize: it does not.
RealSizeUnpadded(s, k) == k
RealSize(s, k) == Wrap(RoundUp(s) - s + k)
Fits(p, k) == Wrap(size[p] + RealSize(size[p], k)) <= capacity[p]
\* No more is zeroed than a partition can have.
Zeroable(p, k) == RealSize(size[p], k) <= Heap

\* The first partition from region->last on that seems to have room for k bytes.
Seems(i, k) == /\ i \in last .. Len(chain) /\ Fits(chain[i], k)
               /\ \A j \in last .. i - 1 : ~Fits(chain[j], k)
NoneSeems(k) == \A i \in last .. Len(chain) : ~Fits(chain[i], k)

\* Padded, so large a size wraps to next to nothing.
Hollow(k) == k > SizeT - Alignment

\* The bytes zeroed: from the block on, RealSize of them, so as many past its end
\* as there is padding in front of it.  Mutant of Zeroed: from the buffer on.
ZeroedFromStart(s, k) == 0 .. RealSize(s, k) - 1
Zeroed(s, k) == RoundUp(s) .. RoundUp(s) + RealSize(s, k) - 1

\* Hand out k bytes of partition p, filled up to s with capacity c, zeroed; the
\* client then stores its data in them, if there are any.
Place(p, k, s, c) ==
  LET off == RoundUp(s)
  IN  /\ size' = [size EXCEPT ![p] = s + RealSize(s, k)]
      /\ live' = Append(live, [part |-> p, off |-> off, len |-> k])
      /\ written' = [written EXCEPT ![p] = (@ \ Zeroed(s, k)) \cup IF Hollow(k) THEN {} ELSE off .. off + k - 1]
      /\ wild' = (off + RealSize(s, k) > c)

\* A partition of c bytes.
Create(p, c) == created' = p /\ capacity' = [capacity EXCEPT ![p] = c]

Init == /\ created = 0
        /\ capacity = [p \in Id |-> 0]
        /\ size = [p \in Id |-> 0]
        /\ chain = <<>>
        /\ last = 0
        /\ live = <<>>
        /\ written = [p \in Id |-> {}]
        /\ wild = FALSE
        /\ killed = FALSE

Going == ~wild /\ ~killed

\* allocateAlignedRegion on an empty region; nothing is handed out for size 0.
AllocFirst(k) ==
  /\ Going /\ last = 0 /\ created < MaxPartitions /\ k <= Heap
  /\ LET p == created + 1
         c == Larger(k, DefaultCapacity)
     IN  /\ Create(p, c)
         /\ chain' = <<p>>
         /\ last' = 1
         /\ IF k = 0 THEN UNCHANGED <<size, live, written, wild>> ELSE Place(p, k, 0, c)
  /\ UNCHANGED killed

\* insertIntoOrExpandRegion finds room in the partition at region->last or in one
\* behind it.  region->last does not move.
AllocInChain(k) ==
  /\ Going /\ last > 0 /\ k > 0 /\ Len(live) < MaxBlocks
  /\ \E i \in last .. Len(chain) :
       /\ Seems(i, k) /\ Zeroable(chain[i], k)
       /\ Place(chain[i], k, size[chain[i]], capacity[chain[i]])
  /\ UNCHANGED <<created, capacity, chain, last, killed>>

\* It finds none: a new partition is linked behind region->last, in the place of
\* whatever was there, and region->last moves to it.
\* Mutant of AllocExpand: the new partition is made for the default size only.
AllocExpandDefault(k) ==
  /\ Going /\ last > 0 /\ k > 0 /\ created < MaxPartitions
  /\ NoneSeems(k) /\ RoundUp(k) <= Heap
  /\ LET p == created + 1
     IN  /\ Create(p, DefaultCapacity)
         /\ chain' = Append(SubSeq(chain, 1, last), p)
         /\ last' = last + 1
         /\ Place(p, k, 0, DefaultCapacity)
  /\ UNCHANGED killed
AllocExpand(k) ==
  /\ Going /\ last > 0 /\ k > 0 /\ created < MaxPartitions
  /\ NoneSeems(k) /\ RoundUp(k) <= Heap
  /\ LET p == created + 1
         c == Larger(RoundUp(k), DefaultCapacity)
     IN  /\ Create(p, c)
         /\ chain' = Append(SubSeq(chain, 1, last), p)
         /\ last' = last + 1
         /\ Place(p, k, 0, c)
  /\ UNCHANGED killed

\* Too large a size.  malloc's answer is not looked at, or a sum that has wrapped
\* makes a partition seem to have room and nearly all of memory is zeroed, or
\* partitions are added, each too small, until malloc has no more.
AllocTooLarge(k) ==
  /\ Going /\ k > 0
  /\ \/ last = 0 /\ k > Heap
     \/ last > 0 /\ \E i \in last .. Len(chain) : Seems(i, k) /\ ~Zeroable(chain[i], k)
     \/ last > 0 /\ NoneSeems(k) /\ RoundUp(k) > Heap
  /\ killed' = TRUE
  /\ UNCHANGED regionVars

\* clearGarbage: every partition of the chain is empty again, and nothing handed
\* out may be used any more.  Mutant of ClearGarbage: the sizes stay.
ClearGarbageKeepsSizes == /\ Going
                          /\ last' = IF chain = <<>> THEN 0 ELSE 1
                          /\ live' = <<>>
                          /\ UNCHANGED <<created, capacity, size, chain, written, wild, killed>>
ClearGarbage ==
  /\ Going
  /\ size' = [p \in Id |-> IF \E i \in 1 .. Len(chain) : chain[i] = p THEN 0 ELSE size[p]]
  /\ last' = IF chain = <<>> THEN 0 ELSE 1
  /\ live' = <<>>
  /\ UNCHANGED <<created, capacity, chain, written, wild, killed>>

Next == \/ \E k \in Sizes : AllocFirst(k) \/ AllocInChain(k) \/ AllocExpand(k) \/ AllocTooLarge(k)
        \/ ClearGarbage

Spec == Init /\ [][Next]_vars
-----------------------------------------------------------------------------
(* Properties. *)

(* Partitions are created one after another, filled from 0 to at most their    *)
(* capacity, and linked in the order of their creation.                        *)
TypeOK == /\ created \in 0 .. MaxPartitions
          /\ capacity \in [Id -> 0 .. Heap]
          /\ size \in [Id -> Nat]
          /\ chain \in Seq(1 .. created)
          /\ last \in 0 .. Len(chain)
          /\ last = 0 <=> chain = <<>>
          /\ live \in Seq(Blocks)
          /\ written \in [Id -> SUBSET Nat]
          /\ wild \in BOOLEAN /\ killed \in BOOLEAN
          /\ \A p \in Id : size[p] <= capacity[p]
          /\ \A i, j \in 1 .. Len(chain) : i < j => chain[i] < chain[j]

(* A block is its client's alone: it lies inside a partition, at an aligned    *)
(* place, and has no byte in common with any other block handed out since      *)
(* everything was last taken back, whatever partitions were dropped between.   *)
(* Only the sizes less than Alignment below SizeT are given blocks without     *)
(* that room; whatever else is too large ends the process (univ_malloc.c:23).  *)
Apart(a, b) == \/ a.part # b.part
               \/ a.off + a.len <= b.off
               \/ b.off + b.len <= a.off
WithRoom == {i \in 1 .. Len(live) : ~Hollow(live[i].len)}
BlocksAreExclusive ==
  /\ \A i \in 1 .. Len(live) : live[i].off % Alignment = 0
  /\ \A i \in WithRoom : live[i].off + live[i].len <= capacity[live[i].part]
  /\ \A i, j \in WithRoom : i < j => Apart(live[i], live[j])

(* What a client has stored in a block stays there until everything is taken   *)
(* back: no later block's zeroing, which runs past that block's end, reaches   *)
(* it, be that block's size ever so large.                                     *)
StoredBytesSurvive == \A i \in WithRoom : Bytes(live[i]) \subseteq written[live[i].part]

(* The zeroing leaves its partition only behind a partition filled up to an    *)
(* unaligned place; a new partition always has room.                           *)
OnlyPaddingOverruns ==
  [][wild' => \E i \in 1 .. Len(chain) : size[chain[i]] % Alignment # 0]_vars

(* The region grows only for need: when a partition is added to it, the blocks *)
(* now handed out would not all fit in one of the default capacity.            *)
Demand(blocks) == MapThenFoldSet(LAMBDA a, b : a + b, 0, LAMBDA i : RoundUp(blocks[i].len),
                                 LAMBDA S : CHOOSE i \in S : TRUE, {i \in 1 .. Len(blocks) : ~Hollow(blocks[i].len)})
GrowthNeedsDemand == [][created' > created /\ created > 0 => Demand(live') > DefaultCapacity]_vars
=============================================================================
