----------------------------- MODULE RegionProofs -----------------------------
(***************************************************************************)
(* Proofs about the region allocator, for every alignment, every default   *)
(* capacity, all sizes up to size_t's last and any number of partitions:   *)
(* blocks stay inside their partitions and apart, what is stored in them   *)
(* survives, and partitions are added only when they are needed.           *)
(***************************************************************************)
EXTENDS Region, Induction

(* The rounding of insertIntoOrExpandRegion, (a + mask) & ~mask, goes up to a *)
(* multiple of the alignment.                                                 *)
LEMMA DivMod == \A a \in Nat : /\ a = Alignment * (a \div Alignment) + (a % Alignment)
                               /\ a % Alignment \in 0 .. Alignment - 1
                               /\ a \div Alignment \in Nat
  BY AlignmentAssumption

LEMMA RoundUpProperties ==
  ASSUME NEW k \in Nat
  PROVE  /\ RoundUp(k) \in Nat
         /\ RoundUp(k) >= k
         /\ RoundUp(k) < k + Alignment
         /\ RoundUp(k) % Alignment = 0
         /\ RoundUp(0) = 0
<1>1. RoundUp(k) \in Nat
  BY AlignmentAssumption, DivMod DEF RoundUp
<1>2. RoundUp(k) >= k
  BY AlignmentAssumption, DivMod DEF RoundUp
<1>3. RoundUp(k) % Alignment = 0
  BY AlignmentAssumption, DivMod DEF RoundUp
<1>4. RoundUp(0) = 0
  BY AlignmentAssumption DEF RoundUp
<1>5. RoundUp(k) < k + Alignment
  BY AlignmentAssumption, DivMod DEF RoundUp
<1> QED BY <1>1, <1>2, <1>3, <1>4, <1>5

(* A place that is aligned stays where it is.                                  *)
LEMMA RoundUpAligned == ASSUME NEW k \in Nat, k % Alignment = 0 PROVE RoundUp(k) = k
<1> DEFINE q == k \div Alignment
<1>1. q \in Nat /\ k = Alignment * q
  BY DivMod, AlignmentAssumption
<1>2. (k + Alignment - 1) \div Alignment = q
  BY <1>1, AlignmentAssumption
<1>3. q * Alignment = k
  BY <1>1, AlignmentAssumption
<1> QED BY <1>2, <1>3 DEF RoundUp

(* A block takes its length and the padding, unless they wrap.                *)
LEMMA RealSizeProperties ==
  ASSUME NEW s \in Nat, NEW k \in 0 .. SizeT - 1
  PROVE  /\ RealSize(s, k) \in Nat
         /\ ~Hollow(k) => s + RealSize(s, k) = RoundUp(s) + k
<1>1. RoundUp(s) - s \in 0 .. Alignment - 1
  BY RoundUpProperties, AlignmentAssumption
<1> DEFINE pad == RoundUp(s) - s
<1>2. pad + k \in Nat /\ (~Hollow(k) => pad + k < SizeT) /\ SizeT \in Nat
  BY <1>1, HeapAssumption, AlignmentAssumption DEF Hollow
<1>3. RealSize(s, k) = Wrap(pad + k)
  BY DEF RealSize
<1>4. RoundUp(s) \in Nat /\ s + (pad + k) = RoundUp(s) + k
  BY RoundUpProperties
<1> HIDE DEF pad
<1> QED BY <1>2, <1>3, <1>4 DEF Wrap

(* In a partition that is empty there is no padding.                          *)
LEMMA RealSizeAtStart == ASSUME NEW k \in 0 .. SizeT - 1 PROVE RealSize(0, k) = k
<1>1. RoundUp(0) = 0
  BY RoundUpProperties
<1> QED BY <1>1, HeapAssumption DEF RealSize, Wrap

(* No size that malloc has room for wraps.                                     *)
LEMMA RoomyIsNotHollow == ASSUME NEW k \in Nat, k <= Heap PROVE k \in 0 .. SizeT - 1 /\ ~Hollow(k)
  BY HeapAssumption, AlignmentAssumption DEF Hollow

(* Where as much is zeroed as a partition can have, the sum does not wrap.     *)
LEMMA FitsTruly ==
  ASSUME NEW p \in Id, NEW k \in 0 .. SizeT - 1, size[p] \in Nat, capacity[p] \in 0 .. Heap,
         size[p] <= capacity[p], Fits(p, k), Zeroable(p, k)
  PROVE  size[p] + RealSize(size[p], k) <= capacity[p]
<1>1. RealSize(size[p], k) \in 0 .. Heap
  BY RealSizeProperties, HeapAssumption DEF Zeroable
<1> QED BY <1>1, HeapAssumption, AlignmentAssumption DEF Fits, Wrap

-----------------------------------------------------------------------------
(***************************************************************************)
(* The inductive invariant.  That blocks are apart is not inductive by     *)
(* itself: a new block starts at its partition's fill, so every older one  *)
(* has to end before it (BlocksBelowFill), and a new partition has to be   *)
(* unfilled (FreshUnfilled).                                               *)
(***************************************************************************)
BlocksBelowFill ==
  \A i \in 1 .. Len(live) : /\ ~Hollow(live[i].len) => live[i].off + live[i].len <= size[live[i].part]
                            /\ live[i].off % Alignment = 0
FreshUnfilled == \A p \in Id : p > created => size[p] = 0
PairwiseApart == \A i, j \in WithRoom : i < j => Apart(live[i], live[j])
Contents == BlocksBelowFill /\ PairwiseApart /\ StoredBytesSurvive
RegionInv == TypeOK /\ FreshUnfilled /\ Contents

(* Handing out a block, in a partition that is filled up to its size and has   *)
(* room: the types and the contents stay as the invariant has them.            *)
LEMMA PlaceKeepsContents ==
  ASSUME size \in [Id -> Nat], live \in Seq(Blocks), written \in [Id -> SUBSET Nat],
         Contents, NEW p \in Id, NEW k \in 0 .. SizeT - 1, NEW c \in Nat,
         Place(p, k, size[p], c)
  PROVE  /\ size' \in [Id -> Nat]
         /\ live' \in Seq(Blocks)
         /\ written' \in [Id -> SUBSET Nat]
         /\ wild' \in BOOLEAN
         /\ Contents'
         /\ size' = [size EXCEPT ![p] = @ + RealSize(size[p], k)]
<1> DEFINE s == size[p]
           off == RoundUp(s)
           b == [part |-> p, off |-> off, len |-> k]
<1>1. /\ s \in Nat /\ off \in Nat /\ s <= off /\ off % Alignment = 0
      /\ RealSize(s, k) \in Nat /\ k \in Nat
      /\ ~Hollow(k) => s + RealSize(s, k) = off + k
  BY RoundUpProperties, RealSizeProperties
<1>2. b \in Blocks
  BY <1>1 DEF Blocks
<1>3. /\ size' = [size EXCEPT ![p] = s + RealSize(s, k)]
      /\ live' = Append(live, b)
      /\ written' = [written EXCEPT ![p] = (@ \ Zeroed(s, k)) \cup IF Hollow(k) THEN {} ELSE off .. off + k - 1]
      /\ wild' \in BOOLEAN
  BY DEF Place
<1>4. size' \in [Id -> Nat]
  BY <1>1, <1>3
<1>5. live' \in Seq(Blocks)
  BY <1>2, <1>3
<1>6. Zeroed(s, k) \subseteq Nat /\ off .. off + k - 1 \subseteq Nat
  BY <1>1 DEF Zeroed
<1>7. written' \in [Id -> SUBSET Nat]
  BY <1>3, <1>6
<1>8. /\ Len(live) \in Nat /\ Len(live') = Len(live) + 1
      /\ \A i \in 1 .. Len(live) : live'[i] = live[i] /\ live[i] \in Blocks
      /\ live'[Len(live')] = b
  BY <1>2, <1>3
<1>9. size'[p] = s + RealSize(s, k) /\ \A q \in Id : q # p => size'[q] = size[q]
  BY <1>1, <1>3
<1>10. \A i \in 1 .. Len(live) :
         /\ live[i].part \in Id /\ live[i].off \in Nat /\ live[i].len \in Nat
         /\ ~Hollow(live[i].len) => live[i].off + live[i].len <= size[live[i].part]
         /\ live[i].off % Alignment = 0
  BY <1>8 DEF Blocks, Contents, BlocksBelowFill
<1>11. BlocksBelowFill'
  <2> SUFFICES ASSUME NEW i \in 1 .. Len(live')
               PROVE  /\ ~Hollow(live'[i].len) => live'[i].off + live'[i].len <= size'[live'[i].part]
                      /\ live'[i].off % Alignment = 0
    BY DEF BlocksBelowFill
  <2>1. CASE i \in 1 .. Len(live)
    <3>1. live[i].part \in Id /\ live'[i] = live[i]
      BY <1>8, <1>10, <2>1
    <3>2. /\ size[live[i].part] \in Nat /\ size'[live[i].part] \in Nat
          /\ size[live[i].part] <= size'[live[i].part]
      <4>1. CASE live[i].part = p
        BY <1>1, <1>4, <1>9, <4>1
      <4>2. CASE live[i].part # p
        BY <1>9, <3>1, <4>2
      <4> QED BY <4>1, <4>2
    <3>3. /\ live[i].off + live[i].len \in Nat /\ live[i].off % Alignment = 0
          /\ ~Hollow(live[i].len) => live[i].off + live[i].len <= size[live[i].part]
      BY <1>10, <2>1
    <3> QED BY <3>1, <3>2, <3>3
  <2>2. CASE i = Len(live')
    BY <1>1, <1>8, <1>9, <2>2
  <2> QED BY <1>8, <2>1, <2>2
<1>12. PairwiseApart'
  <2> SUFFICES ASSUME NEW i \in 1 .. Len(live'), NEW j \in 1 .. Len(live'), i < j,
                      ~Hollow(live'[i].len), ~Hollow(live'[j].len)
               PROVE  Apart(live'[i], live'[j])
    BY DEF PairwiseApart, WithRoom
  <2>1. CASE j \in 1 .. Len(live)
    <3>1. i \in 1 .. Len(live) /\ live'[i] = live[i] /\ live'[j] = live[j]
      BY <1>8, <2>1
    <3>2. i \in WithRoom /\ j \in WithRoom
      BY <2>1, <3>1 DEF WithRoom
    <3> QED BY <3>1, <3>2 DEF Contents, PairwiseApart
  <2>2. CASE j = Len(live')
    <3>1. i \in 1 .. Len(live) /\ live'[i] = live[i] /\ live'[j] = b
      BY <1>8, <2>2
    <3>2. live[i].part = p => live[i].off + live[i].len <= off
      BY <1>1, <1>10, <3>1
    <3> QED BY <3>1, <3>2 DEF Apart
  <2>3. j \in 1 .. Len(live) \/ j = Len(live')
    <3>1. Len(live) \in Nat /\ Len(live') = Len(live) + 1 /\ j \in 1 .. Len(live')
      BY <1>8
    <3> QED BY ONLY <3>1
  <2> QED BY <2>1, <2>2, <2>3
<1>13. StoredBytesSurvive'
  <2> SUFFICES ASSUME NEW i \in 1 .. Len(live'), ~Hollow(live'[i].len)
               PROVE  Bytes(live'[i]) \subseteq written'[live'[i].part]
    BY DEF StoredBytesSurvive, WithRoom
  <2>1. CASE i \in 1 .. Len(live)
    <3>1. live'[i] = live[i] /\ Bytes(live[i]) \subseteq written[live[i].part]
      BY <1>8, <2>1 DEF Contents, StoredBytesSurvive, WithRoom
    <3>2. CASE live[i].part = p
      <4>1. ASSUME NEW x \in Bytes(live[i]), x \in Zeroed(s, k)
            PROVE  FALSE
        <5>1. live[i].off + live[i].len <= s /\ live[i].off \in Nat /\ live[i].len \in Nat
          BY <1>10, <2>1, <3>1, <3>2
        <5>2. x \in Int /\ x <= live[i].off + live[i].len - 1 /\ off <= x
          BY <1>1, <4>1, <5>1 DEF Bytes, Zeroed
        <5> QED BY <1>1, <5>1, <5>2
      <4>2. written[p] \ Zeroed(s, k) \subseteq written'[p]
        BY <1>3
      <4> QED BY <1>8, <2>1, <3>1, <3>2, <4>1, <4>2
    <3>3. CASE live[i].part # p
      BY <1>3, <1>8, <1>10, <2>1, <3>1, <3>3
    <3> QED BY <3>2, <3>3
  <2>2. CASE i = Len(live')
    <3>1. live'[i] = b
      BY <1>8, <2>2
    <3>2. off .. off + k - 1 \subseteq written'[p]
      BY <1>3, <3>1
    <3> QED BY <3>1, <3>2 DEF Bytes
  <2> QED BY <1>8, <2>1, <2>2
<1> QED BY <1>3, <1>4, <1>5, <1>7, <1>11, <1>12, <1>13 DEF Contents

LEMMA InitEstablishesInv == Init => RegionInv
<1> SUFFICES ASSUME Init PROVE RegionInv
  OBVIOUS
<1>1. TypeOK
  <2>1. chain \in Seq(1 .. created) /\ Len(chain) = 0 /\ live \in Seq(Blocks)
    BY EmptySeq DEF Init
  <2>2. /\ created \in 0 .. MaxPartitions
        /\ last \in 0 .. Len(chain)
        /\ last = 0 <=> chain = <<>>
    BY <2>1, MaxAssumption DEF Init
  <2>3. \A i, j \in 1 .. Len(chain) : i < j => chain[i] < chain[j]
    BY <2>1
  <2>4. /\ capacity \in [Id -> 0 .. Heap] /\ size \in [Id -> Nat]
        /\ \A p \in Id : size[p] <= capacity[p]
    BY HeapAssumption DEF Init
  <2>5. written \in [Id -> SUBSET Nat] /\ wild \in BOOLEAN /\ killed \in BOOLEAN
    BY DEF Init
  <2> QED BY <2>1, <2>2, <2>3, <2>4, <2>5 DEF TypeOK
<1>2. FreshUnfilled
  BY DEF Init, FreshUnfilled
<1>3. Contents
  BY DEF Init, Contents, BlocksBelowFill, PairwiseApart, StoredBytesSurvive, WithRoom
<1> QED BY <1>1, <1>2, <1>3 DEF RegionInv

(* A new partition, number created + 1, takes its place behind the first n of  *)
(* the chain, with a block of k bytes in it that its capacity c has room for.  *)
LEMMA NewPartitionKeepsInv ==
  ASSUME RegionInv, created < MaxPartitions, NEW c \in 0 .. Heap, NEW n \in 0 .. Len(chain),
         created' = created + 1,
         capacity' = [capacity EXCEPT ![created + 1] = c],
         chain' = Append(SubSeq(chain, 1, n), created + 1),
         last' = n + 1,
         NEW k \in Nat, k <= c, UNCHANGED killed,
         \/ Place(created + 1, k, 0, c)
         \/ UNCHANGED <<size, live, written, wild>>
  PROVE  RegionInv'
<1> DEFINE p == created + 1
<1>1. /\ p \in Id /\ p \in Nat /\ created \in Nat /\ size[p] = 0
      /\ size \in [Id -> Nat] /\ capacity \in [Id -> 0 .. Heap] /\ live \in Seq(Blocks)
      /\ written \in [Id -> SUBSET Nat] /\ wild \in BOOLEAN /\ killed' \in BOOLEAN
      /\ c \in Nat /\ k \in 0 .. SizeT - 1
      /\ chain \in Seq(1 .. created) /\ Contents
  <2>1. created \in 0 .. MaxPartitions
    BY DEF RegionInv, TypeOK
  <2>2. p \in Id /\ p \in Nat /\ created \in Nat /\ p > created
    BY <2>1, MaxAssumption DEF Id
  <2>3. size[p] = 0
    BY <2>2 DEF RegionInv, FreshUnfilled
  <2>4. c \in Nat /\ k <= Heap
    BY HeapAssumption
  <2>5. k \in 0 .. SizeT - 1
    BY <2>4, RoomyIsNotHollow
  <2> QED BY <2>2, <2>3, <2>4, <2>5 DEF RegionInv, TypeOK
<1>2. /\ size' \in [Id -> Nat]
      /\ live' \in Seq(Blocks)
      /\ written' \in [Id -> SUBSET Nat]
      /\ wild' \in BOOLEAN
      /\ Contents'
      /\ size'[p] <= c
      /\ \A q \in Id : q # p => size'[q] = size[q]
  <2>1. CASE Place(p, k, 0, c)
    <3>1. Place(p, k, size[p], c)
      BY <1>1, <2>1
    <3>2. /\ size' \in [Id -> Nat] /\ live' \in Seq(Blocks)
          /\ written' \in [Id -> SUBSET Nat] /\ wild' \in BOOLEAN /\ Contents'
          /\ size' = [size EXCEPT ![p] = @ + RealSize(size[p], k)]
      BY <1>1, <3>1, PlaceKeepsContents
    <3>3. RealSize(size[p], k) = k
      BY <1>1, RealSizeAtStart
    <3> QED BY <1>1, <3>2, <3>3
  <2>2. CASE UNCHANGED <<size, live, written, wild>>
    <3>1. Contents'
      BY <1>1, <2>2 DEF Contents, BlocksBelowFill, PairwiseApart, StoredBytesSurvive, WithRoom, Apart, Bytes
    <3> QED BY <1>1, <2>2, <3>1
  <2> QED BY <2>1, <2>2
<1>3. capacity' \in [Id -> 0 .. Heap] /\ \A q \in Id : size'[q] <= capacity'[q]
  BY <1>1, <1>2 DEF RegionInv, TypeOK
<1>4. FreshUnfilled'
  BY <1>1, <1>2 DEF RegionInv, FreshUnfilled, Id
<1>5. /\ Len(chain) \in Nat /\ n \in Nat
      /\ \A i \in 1 .. n : chain[i] \in 1 .. created
  BY <1>1, LenProperties, ElementOfSeq
<1>6. /\ chain' \in Seq(1 .. p)
      /\ chain' # <<>>
      /\ Len(chain') = n + 1
      /\ chain'[n + 1] = p
      /\ \A i \in 1 .. n : chain'[i] = chain[i]
  <2> DEFINE kept == SubSeq(chain, 1, n)
  <2>1. \A i \in 1 .. n : chain[i] \in 1 .. p
    BY <1>1, <1>5
  <2>2. /\ kept \in Seq(1 .. p) /\ Len(kept) = n
        /\ \A i \in 1 .. n : kept[i] = chain[i]
    BY <1>5, <2>1, SubSeqProperties
  <2>3. p \in 1 .. p
    BY <1>1 DEF Id
  <2> HIDE DEF kept, p
  <2>4. /\ Append(kept, p) \in Seq(1 .. p) /\ Append(kept, p) # <<>>
        /\ Len(Append(kept, p)) = Len(kept) + 1
        /\ \A i \in 1 .. Len(kept) : Append(kept, p)[i] = kept[i]
        /\ Append(kept, p)[Len(kept) + 1] = p
    BY ONLY <2>2, <2>3, AppendProperties, ZenonT(60)
  <2> QED BY <2>2, <2>4 DEF kept, p
<1>7. \A i, j \in 1 .. Len(chain') : i < j => chain'[i] < chain'[j]
  <2> SUFFICES ASSUME NEW i \in 1 .. n + 1, NEW j \in 1 .. n + 1, i < j
               PROVE  chain'[i] < chain'[j]
    BY <1>6
  <2>1. i \in 1 .. n /\ chain'[i] = chain[i] /\ chain[i] \in 1 .. created
    BY <1>5, <1>6
  <2>2. CASE j = n + 1
    BY <1>1, <1>6, <2>1, <2>2
  <2>3. CASE j \in 1 .. n
    <3>1. i \in 1 .. Len(chain) /\ j \in 1 .. Len(chain)
      BY <1>5, <2>1, <2>3
    <3>2. chain[i] < chain[j]
      BY <3>1 DEF RegionInv, TypeOK
    <3> QED BY <1>6, <2>1, <2>3, <3>2
  <2> QED BY <1>5, <2>2, <2>3
<1>8. TypeOK'
  <2>1. created' \in 0 .. MaxPartitions
    BY <1>1, MaxAssumption DEF Id
  <2>2. last' \in 0 .. Len(chain') /\ (last' = 0 <=> chain' = <<>>)
    <3>1. last' \in 0 .. Len(chain') /\ last' # 0
      BY ONLY <1>5, <1>6, last' = n + 1
    <3> QED BY ONLY <1>6, <3>1, Zenon
  <2>3. chain' \in Seq(1 .. created') /\ killed' \in BOOLEAN
    BY <1>1, <1>6
  <2> QED BY ONLY <1>2, <1>3, <1>7, <2>1, <2>2, <2>3 DEF TypeOK
<1> QED BY <1>2, <1>4, <1>8 DEF RegionInv

(* The invariant is kept, operation by operation.                              *)
LEMMA NextKeepsInv == RegionInv /\ [Next]_vars => RegionInv'
<1> SUFFICES ASSUME RegionInv, [Next]_vars PROVE RegionInv'
  OBVIOUS
<1> USE DEF RegionInv
<1>1. ASSUME NEW k \in Sizes, AllocFirst(k) PROVE RegionInv'
  <2>1. k \in Nat /\ Larger(k, DefaultCapacity) \in 0 .. Heap /\ k <= Larger(k, DefaultCapacity)
    BY <1>1, SizesAssumption, HeapAssumption DEF AllocFirst, Larger
  <2>2. chain = <<>> /\ created \in Nat
    BY <1>1 DEF AllocFirst, TypeOK
  <2>3. /\ created' = created + 1
        /\ capacity' = [capacity EXCEPT ![created + 1] = Larger(k, DefaultCapacity)]
        /\ chain' = Append(SubSeq(chain, 1, 0), created + 1)
        /\ last' = 0 + 1
        /\ created < MaxPartitions /\ UNCHANGED killed
    BY <1>1, <2>2 DEF AllocFirst, Create
  <2>4. \/ Place(created + 1, k, 0, Larger(k, DefaultCapacity))
        \/ UNCHANGED <<size, live, written, wild>>
    BY <1>1 DEF AllocFirst
  <2>5. 0 \in 0 .. Len(chain)
    BY <2>2
  <2> QED BY ONLY RegionInv, <2>1, <2>3, <2>4, <2>5, NewPartitionKeepsInv
<1>2. ASSUME NEW k \in Sizes, AllocInChain(k) PROVE RegionInv'
  <2>1. PICK i \in last .. Len(chain) :
          /\ Fits(chain[i], k) /\ Zeroable(chain[i], k)
          /\ Place(chain[i], k, size[chain[i]], capacity[chain[i]])
    BY <1>2 DEF AllocInChain, Seems
  <2>2. UNCHANGED <<created, capacity, chain, last, killed>> /\ k \in 0 .. SizeT - 1 /\ last > 0
    BY <1>2, SizesAssumption DEF AllocInChain
  <2>3. /\ chain[i] \in Id /\ capacity[chain[i]] \in 0 .. Heap /\ chain[i] <= created
        /\ size[chain[i]] \in Nat /\ size[chain[i]] <= capacity[chain[i]]
    BY <2>1, <2>2, MaxAssumption DEF TypeOK, Id
  <2>4. /\ size' \in [Id -> Nat] /\ live' \in Seq(Blocks)
        /\ written' \in [Id -> SUBSET Nat] /\ wild' \in BOOLEAN /\ Contents'
        /\ size' = [size EXCEPT ![chain[i]] = @ + RealSize(size[chain[i]], k)]
    <3>1. capacity[chain[i]] \in Nat
      BY <2>3, HeapAssumption
    <3> QED BY <2>1, <2>2, <2>3, <3>1, PlaceKeepsContents DEF TypeOK
  <2>5. \A q \in Id : size'[q] <= capacity'[q]
    <3>1. size[chain[i]] + RealSize(size[chain[i]], k) <= capacity[chain[i]]
      BY <2>1, <2>2, <2>3, FitsTruly
    <3> QED BY <2>2, <2>3, <2>4, <3>1 DEF TypeOK
  <2>6. TypeOK'
    BY <2>2, <2>4, <2>5 DEF TypeOK
  <2>7. FreshUnfilled'
    BY <2>2, <2>3, <2>4 DEF TypeOK, FreshUnfilled, Id
  <2> QED BY <2>4, <2>6, <2>7
<1>3. ASSUME NEW k \in Sizes, AllocExpand(k) PROVE RegionInv'
  <2> DEFINE c == Larger(RoundUp(k), DefaultCapacity)
  <2>1. k \in Nat /\ c \in 0 .. Heap /\ k <= c
    <3>1. k \in Nat /\ RoundUp(k) \in Nat /\ k <= RoundUp(k) /\ RoundUp(k) <= Heap
      BY <1>3, SizesAssumption, HeapAssumption, RoundUpProperties DEF AllocExpand
    <3> QED BY <3>1, HeapAssumption DEF Larger
  <2>2. last \in 0 .. Len(chain)
    BY DEF TypeOK
  <2>3. /\ created' = created + 1
        /\ capacity' = [capacity EXCEPT ![created + 1] = c]
        /\ chain' = Append(SubSeq(chain, 1, last), created + 1)
        /\ last' = last + 1
        /\ created < MaxPartitions
        /\ Place(created + 1, k, 0, c)
        /\ UNCHANGED killed
    BY <1>3 DEF AllocExpand, Create
  <2> HIDE DEF c
  <2> QED BY ONLY RegionInv, <2>1, <2>2, <2>3, NewPartitionKeepsInv
<1>4. CASE ClearGarbage
  <2>1. /\ UNCHANGED <<created, capacity, chain, written, wild, killed>>
        /\ live' = <<>>
        /\ last' = IF chain = <<>> THEN 0 ELSE 1
        /\ size' = [p \in Id |-> IF \E i \in 1 .. Len(chain) : chain[i] = p
                                 THEN 0 ELSE size[p]]
    BY <1>4 DEF ClearGarbage
  <2>2. size' \in [Id -> Nat] /\ \A p \in Id : size'[p] <= capacity'[p]
    BY <2>1 DEF TypeOK
  <2>3. last' \in 0 .. Len(chain') /\ (last' = 0 <=> chain' = <<>>)
    <3>1. chain \in Seq(1 .. created)
      BY DEF TypeOK
    <3>2. chain # <<>> => Len(chain) >= 1
      BY <3>1
    <3> QED BY <2>1, <3>1, <3>2
  <2>4. TypeOK'
    BY <2>1, <2>2, <2>3 DEF TypeOK
  <2>5. FreshUnfilled'
    BY <2>1 DEF FreshUnfilled
  <2>6. Contents'
    BY <2>1 DEF Contents, BlocksBelowFill, PairwiseApart, StoredBytesSurvive, WithRoom
  <2> QED BY <2>4, <2>5, <2>6
<1>5. ASSUME UNCHANGED regionVars, killed' \in BOOLEAN PROVE RegionInv'
  BY <1>5 DEF regionVars, TypeOK, FreshUnfilled, Contents, BlocksBelowFill, PairwiseApart,
              StoredBytesSurvive, WithRoom, Apart, Bytes
<1>6. ASSUME NEW k \in Sizes, AllocTooLarge(k) PROVE RegionInv'
  BY <1>5, <1>6 DEF AllocTooLarge
<1>7. CASE UNCHANGED vars
  BY <1>5, <1>7 DEF vars, TypeOK
<1> QED BY <1>1, <1>2, <1>3, <1>4, <1>6, <1>7 DEF Next

THEOREM RegionInvariant == Spec => []RegionInv
<1>1. Init => RegionInv
  BY InitEstablishesInv
<1>2. RegionInv /\ [Next]_vars => RegionInv'
  BY NextKeepsInv
<1> QED BY <1>1, <1>2, PTL DEF Spec

(* The chain and the fills are as their types say.                             *)
THEOREM RegionTypes == Spec => []TypeOK
<1>1. RegionInv => TypeOK
  BY DEF RegionInv
<1> QED BY <1>1, RegionInvariant, PTL

(* Blocks are inside their partitions, aligned and apart.                      *)
THEOREM BlocksExclusive == Spec => []BlocksAreExclusive
<1>1. RegionInv => BlocksAreExclusive
  <2> SUFFICES ASSUME RegionInv PROVE BlocksAreExclusive
    OBVIOUS
  <2>1. \A i \in 1 .. Len(live) : /\ live[i].part \in Id /\ live[i].off \in Nat
                                  /\ live[i].len \in Nat
    <3>1. live \in Seq(Blocks)
      BY DEF RegionInv, TypeOK
    <3>2. \A i \in 1 .. Len(live) : live[i] \in Blocks
      BY <3>1, ElementOfSeq
    <3> QED BY <3>2 DEF Blocks
  <2>2. \A p \in Id : /\ size[p] <= capacity[p] /\ size[p] \in Nat
                      /\ capacity[p] \in Nat
    BY HeapAssumption DEF RegionInv, TypeOK
  <2> QED BY <2>1, <2>2 DEF RegionInv, Contents, BlocksBelowFill, PairwiseApart, WithRoom, BlocksAreExclusive
<1> QED BY <1>1, RegionInvariant, PTL

(* What clients store in their blocks survives every later allocation.         *)
THEOREM BytesSurvive == Spec => []StoredBytesSurvive
<1>1. RegionInv => StoredBytesSurvive
  BY DEF RegionInv, Contents
<1> QED BY <1>1, RegionInvariant, PTL

(* Only the padding behind an unaligned fill lets the zeroing leave a          *)
(* partition.                                                                  *)
THEOREM OverrunsArePadding == Spec => OnlyPaddingOverruns
<1> DEFINE Unaligned == \E i \in 1 .. Len(chain) : size[chain[i]] % Alignment # 0
<1>1. ASSUME RegionInv, Next, wild' PROVE Unaligned
  <2>1. ASSUME NEW k \in Sizes, AllocFirst(k) PROVE FALSE
    <3>1. k \in 0 .. SizeT - 1 /\ k \in Nat /\ k <= Larger(k, DefaultCapacity)
      BY SizesAssumption, HeapAssumption DEF Larger
    <3>2. \/ UNCHANGED wild
          \/ wild' = (RoundUp(0) + RealSize(0, k) > Larger(k, DefaultCapacity))
      BY <2>1 DEF AllocFirst, Place
    <3>3. RoundUp(0) + RealSize(0, k) = k
      BY <3>1, RoundUpProperties, RealSizeAtStart
    <3>4. Larger(k, DefaultCapacity) \in Nat
      BY <3>1, HeapAssumption DEF Larger
    <3>5. ~(k > Larger(k, DefaultCapacity))
      BY <3>1, <3>4
    <3> QED BY <1>1, <2>1, <3>2, <3>3, <3>5 DEF AllocFirst, Going
  <2>2. ASSUME NEW k \in Sizes, AllocInChain(k) PROVE Unaligned
    <3>1. PICK i \in last .. Len(chain) :
            /\ Fits(chain[i], k) /\ Zeroable(chain[i], k)
            /\ Place(chain[i], k, size[chain[i]], capacity[chain[i]])
      BY <2>2 DEF AllocInChain, Seems
    <3>2. i \in 1 .. Len(chain) /\ k \in 0 .. SizeT - 1
      BY <1>1, <2>2, <3>1, SizesAssumption DEF AllocInChain, RegionInv, TypeOK
    <3>3. chain[i] \in Id
      BY <1>1, <3>2, MaxAssumption DEF RegionInv, TypeOK, Id
    <3>4. /\ size[chain[i]] \in Nat /\ capacity[chain[i]] \in 0 .. Heap /\ capacity[chain[i]] \in Nat
          /\ size[chain[i]] <= capacity[chain[i]]
      BY <1>1, <3>3, HeapAssumption DEF RegionInv, TypeOK
    <3>5. /\ size[chain[i]] + RealSize(size[chain[i]], k) <= capacity[chain[i]]
          /\ RoundUp(size[chain[i]]) + RealSize(size[chain[i]], k) > capacity[chain[i]]
      BY <1>1, <3>1, <3>2, <3>3, <3>4, FitsTruly DEF Place
    <3>6. size[chain[i]] % Alignment # 0
      <4> SUFFICES ASSUME size[chain[i]] % Alignment = 0 PROVE FALSE
        OBVIOUS
      <4>1. RoundUp(size[chain[i]]) = size[chain[i]]
        BY <3>4, RoundUpAligned
      <4>2. RealSize(size[chain[i]], k) \in Nat
        BY <3>2, <3>4, RealSizeProperties
      <4> QED BY <3>4, <3>5, <4>1, <4>2
    <3> QED BY <3>2, <3>6
  <2>3. ASSUME NEW k \in Sizes, AllocExpand(k) PROVE FALSE
    <3> DEFINE c == Larger(RoundUp(k), DefaultCapacity)
    <3>1. k \in 0 .. SizeT - 1 /\ k \in Nat /\ c \in Nat /\ k <= c
      BY SizesAssumption, HeapAssumption, RoundUpProperties DEF Larger
    <3>2. wild' = (RoundUp(0) + RealSize(0, k) > c)
      BY <2>3 DEF AllocExpand, Place
    <3>3. RoundUp(0) + RealSize(0, k) = k
      BY <3>1, RoundUpProperties, RealSizeAtStart
    <3> HIDE DEF c
    <3>4. ~(k > c)
      BY <3>1
    <3> QED BY <1>1, <3>2, <3>3, <3>4
  <2>4. CASE ClearGarbage
    BY <1>1, <2>4 DEF ClearGarbage, Going
  <2>5. ASSUME NEW k \in Sizes, AllocTooLarge(k) PROVE FALSE
    BY <1>1, <2>5 DEF AllocTooLarge, Going, regionVars
  <2> QED BY <1>1, <2>1, <2>2, <2>3, <2>4, <2>5 DEF Next
<1>2. RegionInv /\ [Next]_vars => [wild' => Unaligned]_vars
  BY <1>1
<1>3. Spec => [][wild' => Unaligned]_vars
  BY <1>2, RegionInvariant, PTL DEF Spec
<1> QED BY <1>3 DEF OnlyPaddingOverruns

-----------------------------------------------------------------------------
(***************************************************************************)
(* Growth.  The demand is a fold over the blocks, so the proof begins with *)
(* what one block more adds to it.                                         *)
(***************************************************************************)
Roomy(blocks) == {i \in 1 .. Len(blocks) : ~Hollow(blocks[i].len)}
Asked(blocks) == [i \in Nat |-> IF i \in 1 .. Len(blocks) THEN RoundUp(blocks[i].len) ELSE 0]

LEMMA AskedIsNatural ==
  ASSUME NEW blocks \in Seq(Blocks)
  PROVE  /\ Len(blocks) \in Nat
         /\ \A i \in 1 .. Len(blocks) : blocks[i] \in Blocks
         /\ Asked(blocks) \in [Nat -> Nat]
         /\ \A i \in 1 .. Len(blocks) : Asked(blocks)[i] = RoundUp(blocks[i].len)
<1>1. Len(blocks) \in Nat /\ \A i \in 1 .. Len(blocks) : blocks[i] \in Blocks
  BY LenProperties, ElementOfSeq
<1>2. \A i \in 1 .. Len(blocks) : blocks[i].len \in Nat
  BY <1>1 DEF Blocks
<1>3. \A i \in 1 .. Len(blocks) : RoundUp(blocks[i].len) \in Nat
  BY <1>2, RoundUpProperties
<1> QED BY <1>1, <1>3 DEF Asked

LEMMA DemandIsSum ==
  ASSUME NEW blocks \in Seq(Blocks), NEW F, SumsOver(F, Asked(blocks), Len(blocks))
  PROVE  Demand(blocks) = F[Roomy(blocks)]
<1> DEFINE D == Roomy(blocks)
           Pick(s) == CHOOSE i \in s : TRUE
           Iterates(h) == h = [s \in SUBSET D |-> IF s = {} THEN 0
                                                  ELSE RoundUp(blocks[Pick(s)].len) + h[s \ {Pick(s)}]]
           g == CHOOSE h : Iterates(h)
<1>1. Demand(blocks) = g[D]
  BY DEF Demand, MapThenFoldSet, Roomy
<1>2. D \subseteq 1 .. Len(blocks)
  BY DEF Roomy
<1> HIDE DEF D
<1>3. ASSUME NEW s \in SUBSET D, s # {}
      PROVE  /\ Pick(s) \in s /\ Pick(s) \in 1 .. Len(blocks) /\ s \ {Pick(s)} \in SUBSET D
             /\ s \in SUBSET (1 .. Len(blocks))
             /\ RoundUp(blocks[Pick(s)].len) = Asked(blocks)[Pick(s)]
  <2>1. Pick(s) \in s
    BY <1>3
  <2>2. Pick(s) \in 1 .. Len(blocks)
    BY <1>2, <2>1
  <2> HIDE DEF Pick
  <2> QED BY <1>2, <2>1, <2>2, AskedIsNatural
<1> DEFINE f == [s \in SUBSET D |-> F[s]]
<1>4. Iterates(f)
  <2>1. ASSUME NEW s \in SUBSET D
        PROVE  F[s] = IF s = {} THEN 0 ELSE RoundUp(blocks[Pick(s)].len) + f[s \ {Pick(s)}]
    <3>1. CASE s = {}
      BY <3>1 DEF SumsOver
    <3>2. CASE s # {}
      <4> HIDE DEF Pick
      <4>1. F[s] = Asked(blocks)[Pick(s)] + F[s \ {Pick(s)}]
        BY <1>3, <3>2 DEF SumsOver
      <4>2. f[s \ {Pick(s)}] = F[s \ {Pick(s)}]
        BY <1>3, <3>2
      <4> QED BY <1>3, <3>2, <4>1, <4>2
    <3> QED BY <3>1, <3>2
  <2> HIDE DEF Pick
  <2> QED BY <2>1, Zenon
<1>5. Iterates(g)
  <2> HIDE DEF f, Iterates
  <2> QED BY <1>4
<1> HIDE DEF g
<1>6. Adds(g, Asked(blocks), D, Len(blocks))
  <2> HIDE DEF Pick
  <2>1. g[{}] = 0
    BY <1>5
  <2>2. ASSUME NEW s \in SUBSET D, s # {}
        PROVE  \E x \in s : g[s] = Asked(blocks)[x] + g[s \ {x}]
    <3>1. g[s] = RoundUp(blocks[Pick(s)].len) + g[s \ {Pick(s)}]
      BY <1>5, <2>2
    <3> QED BY <1>3, <2>2, <3>1
  <2> QED BY <1>2, <2>1, <2>2 DEF Adds
<1>7. Len(blocks) \in Nat /\ D \in SUBSET D
  BY AskedIsNatural
<1>8. g[D] = F[D]
  <2> HIDE DEF f
  <2> QED BY <1>6, <1>7, SumsAreUnique
<1> QED BY <1>1, <1>8 DEF D

LEMMA DemandGrows ==
  ASSUME NEW blocks \in Seq(Blocks), NEW b \in Blocks
  PROVE  /\ Demand(blocks) \in Nat
         /\ Demand(Append(blocks, b)) = Demand(blocks) + IF Hollow(b.len) THEN 0 ELSE RoundUp(b.len)
<1> DEFINE more == Append(blocks, b)
<1>0. PICK n \in Nat : n = Len(blocks)
  BY LenProperties
<1>1. /\ more \in Seq(Blocks) /\ Len(more) = n + 1 /\ n = Len(blocks)
      /\ more[n + 1] = b /\ \A i \in 1 .. n : more[i] = blocks[i]
  BY <1>0, AppendProperties
<1> HIDE DEF more
<1>2. PICK F : SumsOver(F, Asked(blocks), n)
  BY <1>1, AskedIsNatural, SumsExist
<1>3. PICK G : SumsOver(G, Asked(more), n + 1)
  BY <1>1, AskedIsNatural, SumsExist
<1>4. Demand(blocks) = F[Roomy(blocks)] /\ Demand(more) = G[Roomy(more)]
  BY <1>1, <1>2, <1>3, DemandIsSum
<1>5. Roomy(blocks) \in SUBSET (1 .. n) /\ Roomy(blocks) \subseteq 1 .. n
  BY <1>0 DEF Roomy
<1>6. Roomy(more) = Roomy(blocks) \cup IF Hollow(b.len) THEN {} ELSE {n + 1}
  BY <1>1 DEF Roomy
<1>7. \A i \in 1 .. n : Asked(more)[i] = Asked(blocks)[i]
  <2>1. \A i \in 1 .. n : i \in 1 .. n + 1 /\ i \in Nat /\ more[i] = blocks[i]
    BY <1>1
  <2> QED BY <1>1, <2>1 DEF Asked
<1>8. Asked(more)[n + 1] = RoundUp(b.len) /\ RoundUp(b.len) \in Nat
  <2>1. n + 1 \in 1 .. Len(more) /\ b.len \in Nat
    BY <1>1 DEF Blocks
  <2> QED BY <1>1, <2>1, AskedIsNatural, RoundUpProperties
<1>9. Adds(G, Asked(blocks), 1 .. n, n)
  <2>1. ASSUME NEW s \in SUBSET (1 .. n), s # {} PROVE \E x \in s : G[s] = Asked(blocks)[x] + G[s \ {x}]
    <3>1. PICK x \in s : TRUE
      BY <2>1
    <3>2. x \in 1 .. n /\ s \in SUBSET (1 .. n + 1)
      BY <1>1
    <3>3. G[s] = Asked(more)[x] + G[s \ {x}]
      BY <1>3, <3>2 DEF SumsOver
    <3> QED BY <1>7, <3>2, <3>3
  <2>2. G[{}] = 0
    BY <1>3 DEF SumsOver
  <2> QED BY <2>1, <2>2 DEF Adds
<1>10. G[Roomy(blocks)] = F[Roomy(blocks)]
  <2> DEFINE D == 1 .. n
             w == Asked(blocks)
  <2>1. Adds(G, w, D, n) /\ SumsOver(F, w, n) /\ Roomy(blocks) \in SUBSET D
    BY <1>2, <1>5, <1>9
  <2>2. n \in Nat
    OBVIOUS
  <2> HIDE DEF D, w
  <2>3. \A s \in SUBSET D : G[s] = F[s]
    BY ONLY <2>1, <2>2, SumsAreUnique
  <2> QED BY ONLY <2>1, <2>3
<1>11. F[Roomy(blocks)] \in Nat
  BY <1>2, <1>5 DEF SumsOver
<1>12. CASE Hollow(b.len)
  <2>1. Roomy(more) = Roomy(blocks)
    BY <1>6, <1>12
  <2>2. Demand(more) = Demand(blocks) /\ Demand(blocks) \in Nat
    BY <1>4, <1>10, <1>11, <2>1
  <2> QED BY <1>12, <2>2 DEF more
<1>13. CASE ~Hollow(b.len)
  <2>1. Roomy(more) = Roomy(blocks) \cup {n + 1} /\ n + 1 \notin Roomy(blocks)
    BY <1>1, <1>5, <1>6, <1>13
  <2>2. n + 1 \in Roomy(more) /\ Roomy(more) \ {n + 1} = Roomy(blocks) /\ Roomy(more) \in SUBSET (1 .. n + 1)
    BY <1>1, <1>5, <2>1
  <2>3. G[Roomy(more)] = Asked(more)[n + 1] + G[Roomy(more) \ {n + 1}]
    BY <1>3, <2>2 DEF SumsOver
  <2>4. Demand(blocks) \in Nat /\ G[Roomy(more) \ {n + 1}] = Demand(blocks)
    <3>1. G[Roomy(more) \ {n + 1}] = G[Roomy(blocks)]
      BY ONLY <2>2, Zenon
    <3> QED BY ONLY <1>4, <1>10, <1>11, <3>1
  <2>5. Demand(more) = RoundUp(b.len) + Demand(blocks)
    BY ONLY <1>4, <1>8, <2>3, <2>4, Zenon
  <2> QED BY <1>8, <1>13, <2>4, <2>5 DEF more
<1> QED BY <1>12, <1>13

(* Rounding adds up behind an aligned place, and keeps the order.              *)
LEMMA RoundUpBehind == ASSUME NEW a \in Nat, NEW k \in Nat, a % Alignment = 0 PROVE RoundUp(a + k) = a + RoundUp(k)
<1> DEFINE q == a \div Alignment
           x == k + Alignment - 1
           d == x \div Alignment
           r == x % Alignment
<1>1. q \in Nat /\ a = Alignment * q
  BY DivMod, AlignmentAssumption
<1>2. x \in Nat /\ x = Alignment * d + r /\ r \in 0 .. Alignment - 1 /\ d \in Nat
  <2>1. x \in Nat
    BY AlignmentAssumption
  <2> HIDE DEF x
  <2> QED BY <2>1, DivMod
<1>3. a + k + Alignment - 1 = Alignment * (q + d) + r
  <2>1. a + k + Alignment - 1 = a + x
    BY AlignmentAssumption
  <2>2. Alignment * (q + d) = Alignment * q + Alignment * d
    <3> HIDE DEF q, d
    <3> QED BY <1>1, <1>2, AlignmentAssumption
  <2> HIDE DEF q, d, r, x
  <2> QED BY <1>1, <1>2, <2>1, <2>2, AlignmentAssumption
<1>4. (a + k + Alignment - 1) \div Alignment = q + d
  <2> DEFINE y == a + k + Alignment - 1
  <2>1. y \in Nat
    BY AlignmentAssumption
  <2> HIDE DEF q, d, r, x, y
  <2> QED BY <1>1, <1>2, <1>3, <2>1, DivMod, AlignmentAssumption DEF y
<1>5. (q + d) * Alignment = a + d * Alignment
  <2> HIDE DEF q, d
  <2> QED BY <1>1, <1>2, AlignmentAssumption
<1> QED BY <1>4, <1>5 DEF RoundUp

LEMMA RoundUpMonotone == ASSUME NEW a \in Nat, NEW b \in Nat, a <= b PROVE RoundUp(a) <= RoundUp(b)
<1>1. b + Alignment - 1 \in Nat /\ a + Alignment - 1 \in Nat /\ a + Alignment - 1 <= b + Alignment - 1
  BY AlignmentAssumption
<1> DEFINE x == a + Alignment - 1
           y == b + Alignment - 1
           m == x \div Alignment
           n == y \div Alignment
<1>2. m \in Nat /\ n \in Nat /\ m <= n
  <2> HIDE DEF x, y
  <2> QED BY <1>1, DivMod, AlignmentAssumption DEF x, y
<1>3. m * Alignment <= n * Alignment
  <2> HIDE DEF m, n
  <2> QED BY <1>2, AlignmentAssumption
<1> QED BY <1>3 DEF RoundUp

(* A block's demand is at least what it adds to its partition's fill, rounded: *)
(* a hollow one adds nothing.                                                  *)
LEMMA PlaceKeepsDemand ==
  ASSUME live \in Seq(Blocks), NEW p \in Id, NEW s \in Nat, NEW k \in 0 .. SizeT - 1, NEW c,
         Place(p, k, s, c), RealSize(s, k) <= Heap
  PROVE  /\ Demand(live) \in Nat /\ Demand(live') \in Nat
         /\ Demand(live') = Demand(live) + IF Hollow(k) THEN 0 ELSE RoundUp(k)
         /\ RoundUp(s) <= Demand(live) => RoundUp(s + RealSize(s, k)) <= Demand(live')
<1> DEFINE b == [part |-> p, off |-> RoundUp(s), len |-> k]
<1>1. /\ k \in Nat /\ RoundUp(k) \in Nat
      /\ RoundUp(s) \in Nat /\ RoundUp(s) >= s /\ RoundUp(s) < s + Alignment /\ RoundUp(s) % Alignment = 0
      /\ RealSize(s, k) \in Nat
      /\ ~Hollow(k) => s + RealSize(s, k) = RoundUp(s) + k
  <2>1. k \in Nat
    OBVIOUS
  <2> QED BY <2>1, RoundUpProperties, RealSizeProperties
<1>2. b \in Blocks /\ live' = Append(live, b) /\ b.len = k
  BY <1>1 DEF Blocks, Place
<1> HIDE DEF b
<1>3. /\ Demand(live) \in Nat
      /\ Demand(live') = Demand(live) + IF Hollow(k) THEN 0 ELSE RoundUp(k)
  BY <1>2, DemandGrows
<1>4. CASE ~Hollow(k)
  <2>1. RoundUp(s + RealSize(s, k)) = RoundUp(s) + RoundUp(k)
    BY <1>1, <1>4, RoundUpBehind
  <2>2. Demand(live') = Demand(live) + RoundUp(k)
    BY <1>3, <1>4
  <2> QED BY <1>1, <1>3, <2>1, <2>2
<1>5. CASE Hollow(k)
  <2>1. Demand(live') = Demand(live)
    BY <1>3, <1>5
  <2>2. s + RealSize(s, k) <= RoundUp(s) /\ s + RealSize(s, k) \in Nat
    <3> DEFINE pad == RoundUp(s) - s
    <3>1. pad \in 0 .. Alignment - 1 /\ s + pad = RoundUp(s)
      BY <1>1, AlignmentAssumption
    <3>2. RealSize(s, k) = Wrap(pad + k)
      BY DEF RealSize
    <3> HIDE DEF pad
    <3>3. pad + k >= SizeT
      <4> SUFFICES ASSUME pad + k < SizeT PROVE FALSE
        BY <1>1, <3>1, HeapAssumption, AlignmentAssumption
      <4>1. RealSize(s, k) = pad + k
        BY <3>1, <3>2, HeapAssumption DEF Wrap
      <4>2. k > Heap
        BY <1>1, <1>5, HeapAssumption, AlignmentAssumption DEF Hollow
      <4> QED BY <1>1, <3>1, <4>1, <4>2, HeapAssumption, AlignmentAssumption
    <3>4. RealSize(s, k) = pad + k - SizeT
      <4>1. Wrap(pad + k) = pad + k - SizeT
        BY <1>1, <3>1, <3>3, HeapAssumption DEF Wrap
      <4> QED BY <3>2, <4>1
    <3>5. RealSize(s, k) <= pad
      BY <1>1, <3>1, <3>4, HeapAssumption, AlignmentAssumption
    <3> QED BY <1>1, <3>1, <3>5, AlignmentAssumption
  <2>3. RoundUp(s + RealSize(s, k)) <= RoundUp(RoundUp(s)) /\ RoundUp(RoundUp(s)) = RoundUp(s)
    BY <1>1, <2>2, RoundUpMonotone, RoundUpAligned
  <2>4. RoundUp(s + RealSize(s, k)) \in Nat
    BY <2>2, RoundUpProperties
  <2> QED BY <1>1, <1>3, <2>1, <2>3, <2>4
<1>6. Demand(live') \in Nat
  BY <1>1, <1>3
<1> QED BY <1>3, <1>4, <1>5, <1>6

LEMMA DemandIsNatural == ASSUME NEW blocks \in Seq(Blocks) PROVE Demand(blocks) \in Nat
<1>1. PICK F : SumsOver(F, Asked(blocks), Len(blocks))
  BY AskedIsNatural, SumsExist
<1>2. Roomy(blocks) \in SUBSET (1 .. Len(blocks))
  BY DEF Roomy
<1>3. F[Roomy(blocks)] \in Nat
  BY <1>1, <1>2 DEF SumsOver
<1> QED BY <1>1, <1>3, DemandIsSum

LEMMA NoDemand == Demand(<<>>) = 0
<1>1. <<>> \in Seq(Blocks) /\ Len(<<>>) = 0
  BY EmptySeq
<1>2. PICK F : SumsOver(F, Asked(<<>>), Len(<<>>))
  BY <1>1, AskedIsNatural, SumsExist
<1>3. Demand(<<>>) = F[Roomy(<<>>)]
  BY <1>1, <1>2, DemandIsSum
<1>4. Roomy(<<>>) = {}
  <2>1. 1 .. Len(<<>>) = {}
    BY <1>1
  <2> QED BY <2>1 DEF Roomy
<1> QED BY <1>2, <1>3, <1>4 DEF SumsOver

(* The partition that is allocated from is not filled farther than the blocks  *)
(* handed out account for, and no partition is less than the default.          *)
GrowthInv ==
  /\ created > 0 => chain # <<>>
  /\ \A i \in 1 .. Len(chain) : capacity[chain[i]] >= DefaultCapacity
  /\ last > 0 => RoundUp(size[chain[last]]) <= Demand(live)

LEMMA TypesOfRegion ==
  ASSUME RegionInv
  PROVE  /\ created \in Nat /\ last \in Nat /\ Len(chain) \in Nat /\ last <= Len(chain)
         /\ (last = 0 <=> chain = <<>>)
         /\ chain \in Seq(1 .. created) /\ live \in Seq(Blocks) /\ Demand(live) \in Nat
         /\ size \in [Id -> Nat]
         /\ \A i \in 1 .. Len(chain) : /\ chain[i] \in Id /\ chain[i] <= created /\ chain[i] \in Nat
                                       /\ size[chain[i]] \in Nat /\ capacity[chain[i]] \in 0 .. Heap
                                       /\ size[chain[i]] <= capacity[chain[i]]
         /\ \A i, j \in 1 .. Len(chain) : i # j => chain[i] # chain[j]
<1>1. /\ created \in Nat /\ created <= MaxPartitions /\ chain \in Seq(1 .. created) /\ live \in Seq(Blocks)
      /\ size \in [Id -> Nat] /\ capacity \in [Id -> 0 .. Heap] /\ \A p \in Id : size[p] <= capacity[p]
      /\ last \in 0 .. Len(chain) /\ (last = 0 <=> chain = <<>>)
      /\ \A i, j \in 1 .. Len(chain) : i < j => chain[i] < chain[j]
  BY MaxAssumption DEF RegionInv, TypeOK
<1>2. Len(chain) \in Nat /\ \A i \in 1 .. Len(chain) : chain[i] \in 1 .. created
  BY <1>1, LenProperties, ElementOfSeq
<1>3. \A i \in 1 .. Len(chain) : chain[i] \in Id /\ chain[i] <= created /\ chain[i] \in Nat
  BY <1>1, <1>2, MaxAssumption DEF Id
<1>4. Demand(live) \in Nat
  BY <1>1, DemandIsNatural
<1>5. \A i, j \in 1 .. Len(chain) : i # j => chain[i] # chain[j]
  <2> SUFFICES ASSUME NEW i \in 1 .. Len(chain), NEW j \in 1 .. Len(chain), i # j PROVE chain[i] # chain[j]
    OBVIOUS
  <2>1. i < j \/ j < i
    BY <1>2
  <2>2. chain[i] < chain[j] \/ chain[j] < chain[i]
    BY <1>1, <2>1
  <2> QED BY <1>3, <2>2
<1> QED BY <1>1, <1>2, <1>3, <1>4, <1>5

(* A partition created at the end of what is kept of the chain.                *)
LEMMA NewPartitionKeepsGrowth ==
  ASSUME RegionInv, RegionInv', GrowthInv, NEW k \in Nat, NEW c \in Nat, NEW n \in 0 .. Len(chain),
         k <= Heap, c >= DefaultCapacity,
         created' = created + 1, created < MaxPartitions,
         capacity' = [capacity EXCEPT ![created + 1] = c],
         chain' = Append(SubSeq(chain, 1, n), created + 1), last' = n + 1,
         Place(created + 1, k, 0, c) \/ (k = 0 /\ UNCHANGED <<size, live, written, wild>>)
  PROVE  GrowthInv'
<1> DEFINE p == created + 1
<1>1. /\ created \in Nat /\ Len(chain) \in Nat /\ n \in Nat /\ live \in Seq(Blocks) /\ size \in [Id -> Nat]
      /\ Demand(live) \in Nat /\ Demand(live') \in Nat
      /\ \A i \in 1 .. n : chain[i] \in Id /\ chain[i] # p /\ capacity[chain[i]] >= DefaultCapacity
      /\ p \in Id /\ size[p] = 0 /\ k \in 0 .. SizeT - 1
  <2>1. /\ created \in Nat /\ Len(chain) \in Nat /\ n \in Nat /\ live \in Seq(Blocks) /\ size \in [Id -> Nat]
        /\ Demand(live) \in Nat
        /\ \A i \in 1 .. Len(chain) : chain[i] \in Id /\ chain[i] <= created /\ chain[i] \in Nat
    BY TypesOfRegion
  <2>2. p \in Id /\ p > created
    BY <2>1, MaxAssumption DEF Id
  <2>3. size[p] = 0
    BY <2>2 DEF RegionInv, FreshUnfilled
  <2>4. k \in 0 .. SizeT - 1
    BY RoomyIsNotHollow
  <2>5. \A i \in 1 .. n : i \in 1 .. Len(chain)
    BY <2>1
  <2>6. live' \in Seq(Blocks)
    BY DEF RegionInv, TypeOK
  <2>7. Demand(live') \in Nat
    BY <2>6, DemandIsNatural
  <2> QED BY <2>1, <2>2, <2>3, <2>4, <2>5, <2>7 DEF GrowthInv
<1>2. /\ Len(chain') = n + 1 /\ chain' # <<>> /\ chain'[n + 1] = p
      /\ \A i \in 1 .. n : chain'[i] = chain[i]
  <2> DEFINE kept == SubSeq(chain, 1, n)
             S == 1 .. created
  <2>1. kept \in Seq(S) /\ Len(kept) = n /\ \A i \in 1 .. n : kept[i] = chain[i]
    <3>1. chain \in Seq(1 .. created)
      BY TypesOfRegion
    <3>2. /\ kept \in Seq(S) /\ Len(kept) = n
          /\ \A i \in 1 .. n : kept[i] = chain[i]
      <4>1. \A i \in 1 .. n : chain[i] \in S
        BY <1>1, <3>1, LenProperties, ElementOfSeq
      <4> HIDE DEF p
      <4> QED BY <1>1, <3>1, <4>1, SubSeqProperties
    <3> QED BY <3>2
  <2> HIDE DEF kept, S, p
  <2>2. kept \in Seq(S \cup {p}) /\ p \in S \cup {p}
    BY <2>1, SeqMonotonic
  <2>3. /\ Len(Append(kept, p)) = n + 1 /\ Append(kept, p)[n + 1] = p
        /\ \A i \in 1 .. n : Append(kept, p)[i] = kept[i]
    BY <2>1, <2>2, AppendProperties
  <2>4. Append(kept, p) # <<>>
    BY <1>1, <2>3, EmptySeq
  <2> QED BY <2>1, <2>3, <2>4 DEF kept, p
<1>3. ASSUME NEW i \in 1 .. Len(chain') PROVE capacity'[chain'[i]] >= DefaultCapacity
  <2>1. capacity \in [Id -> 0 .. Heap]
    BY DEF RegionInv, TypeOK
  <2>2. CASE i = n + 1
    BY <1>1, <1>2, <2>1, <2>2
  <2>3. CASE i \in 1 .. n
    <3>1. chain'[i] = chain[i] /\ chain[i] \in Id /\ chain[i] # p /\ capacity[chain[i]] >= DefaultCapacity
      BY <1>1, <1>2, <2>3
    <3> QED BY <2>1, <3>1
  <2> QED BY <1>1, <1>2, <2>2, <2>3
<1>4. RoundUp(size'[chain'[last']]) <= Demand(live')
  <2>1. chain'[last'] = p
    BY <1>2
  <2>2. CASE Place(created + 1, k, 0, c)
    <3>1. RealSize(0, k) = k
      BY <1>1, RealSizeAtStart
    <3>2. size'[p] = 0 + RealSize(0, k)
      BY <1>1, <2>2 DEF Place
    <3>3. RoundUp(0) <= Demand(live)
      BY <1>1, RoundUpProperties
    <3>4. 0 \in Nat /\ RealSize(0, k) <= Heap
      BY <3>1
    <3>5. RoundUp(0 + RealSize(0, k)) <= Demand(live')
      BY <1>1, <2>2, <3>3, <3>4, PlaceKeepsDemand
    <3> QED BY <2>1, <3>2, <3>5
  <2>3. CASE UNCHANGED <<size, live, written, wild>>
    <3>1. size'[p] = 0
      BY <1>1, <2>3
    <3>2. RoundUp(0) = 0
      BY RoundUpProperties
    <3> QED BY <1>1, <2>1, <3>1, <3>2
  <2> QED BY <2>2, <2>3
<1> QED BY <1>2, <1>3, <1>4 DEF GrowthInv

LEMMA NextKeepsGrowth == RegionInv /\ RegionInv' /\ GrowthInv /\ [Next]_vars => GrowthInv'
<1> SUFFICES ASSUME RegionInv, RegionInv', GrowthInv, [Next]_vars PROVE GrowthInv'
  OBVIOUS
<1>1. ASSUME NEW k \in Sizes, AllocFirst(k) PROVE GrowthInv'
  <2> DEFINE c == Larger(k, DefaultCapacity)
  <2>1. k \in Nat /\ k <= Heap /\ c \in Nat /\ c >= DefaultCapacity
    BY <1>1, SizesAssumption, HeapAssumption DEF AllocFirst, Larger
  <2>2. last = 0 /\ 0 \in 0 .. Len(chain)
    BY <1>1, TypesOfRegion DEF AllocFirst
  <2>3. chain = <<>> /\ <<created + 1>> = Append(SubSeq(chain, 1, 0), created + 1)
    BY <2>2, TypesOfRegion
  <2>4. /\ created' = created + 1 /\ created < MaxPartitions
        /\ capacity' = [capacity EXCEPT ![created + 1] = c]
        /\ chain' = Append(SubSeq(chain, 1, 0), created + 1) /\ last' = 0 + 1
        /\ Place(created + 1, k, 0, c) \/ (k = 0 /\ UNCHANGED <<size, live, written, wild>>)
    BY <1>1, <2>3 DEF AllocFirst, Create
  <2> HIDE DEF c
  <2> QED BY ONLY RegionInv, RegionInv', GrowthInv, <2>1, <2>2, <2>4, NewPartitionKeepsGrowth
<1>2. ASSUME NEW k \in Sizes, AllocInChain(k) PROVE GrowthInv'
  <2>1. PICK i \in last .. Len(chain) :
          /\ Zeroable(chain[i], k)
          /\ Place(chain[i], k, size[chain[i]], capacity[chain[i]])
    BY <1>2 DEF AllocInChain, Seems
  <2>2. UNCHANGED <<created, capacity, chain, last>> /\ k \in 0 .. SizeT - 1 /\ last > 0
    BY <1>2, SizesAssumption DEF AllocInChain
  <2>3. i \in 1 .. Len(chain) /\ last \in 1 .. Len(chain)
    BY <2>2, TypesOfRegion
  <2> DEFINE p == chain[i]
             s == size[p]
             q == chain[last]
  <2>4. p \in Id /\ q \in Id /\ s \in Nat /\ live \in Seq(Blocks) /\ size[q] \in Nat /\ size \in [Id -> Nat]
    BY <2>3, TypesOfRegion
  <2>5. RealSize(s, k) <= Heap
    BY <2>1 DEF Zeroable
  <2>6. Place(p, k, s, capacity[p])
    BY <2>1
  <2>7. size' = [size EXCEPT ![p] = s + RealSize(s, k)]
    BY <2>6 DEF Place
  <2>8. RoundUp(size[q]) <= Demand(live) /\ k \in Nat
    BY <2>2 DEF GrowthInv
  <2>9. /\ Demand(live) \in Nat /\ Demand(live') \in Nat /\ Demand(live') >= Demand(live)
        /\ RoundUp(s) <= Demand(live) => RoundUp(s + RealSize(s, k)) <= Demand(live')
    <3> HIDE DEF p, s
    <3>1. /\ Demand(live) \in Nat /\ Demand(live') \in Nat
          /\ Demand(live') = Demand(live) + IF Hollow(k) THEN 0 ELSE RoundUp(k)
          /\ RoundUp(s) <= Demand(live) => RoundUp(s + RealSize(s, k)) <= Demand(live')
      BY <2>2, <2>4, <2>5, <2>6, PlaceKeepsDemand
    <3>2. RoundUp(k) \in Nat
      BY <2>8, RoundUpProperties
    <3> QED BY <3>1, <3>2
  <2>10. RoundUp(size'[q]) <= Demand(live')
    <3>1. CASE q = p
      <4>1. size'[q] = s + RealSize(s, k) /\ size[q] = s
        BY <2>4, <2>7, <3>1
      <4> QED BY <2>8, <2>9, <4>1
    <3>2. CASE q # p
      <4>1. size'[q] = size[q] /\ RoundUp(size[q]) \in Nat
        BY <2>4, <2>7, <3>2, RoundUpProperties
      <4> QED BY <2>8, <2>9, <4>1
    <3> QED BY <3>1, <3>2
  <2> QED BY <2>2, <2>10 DEF GrowthInv
<1>3. ASSUME NEW k \in Sizes, AllocExpand(k) PROVE GrowthInv'
  <2> DEFINE c == Larger(RoundUp(k), DefaultCapacity)
  <2>1. k \in Nat /\ k <= Heap /\ c \in Nat /\ c >= DefaultCapacity
    <3>1. k \in Nat /\ RoundUp(k) \in Nat /\ k <= RoundUp(k) /\ RoundUp(k) <= Heap
      BY <1>3, SizesAssumption, HeapAssumption, RoundUpProperties DEF AllocExpand
    <3> QED BY <3>1, HeapAssumption DEF Larger
  <2>2. last \in 0 .. Len(chain)
    BY TypesOfRegion
  <2>3. /\ created' = created + 1 /\ created < MaxPartitions
        /\ capacity' = [capacity EXCEPT ![created + 1] = c]
        /\ chain' = Append(SubSeq(chain, 1, last), created + 1) /\ last' = last + 1
        /\ Place(created + 1, k, 0, c)
    BY <1>3 DEF AllocExpand, Create
  <2> HIDE DEF c
  <2> QED BY ONLY RegionInv, RegionInv', GrowthInv, <2>1, <2>2, <2>3, NewPartitionKeepsGrowth
<1>4. CASE ClearGarbage
  <2>1. /\ UNCHANGED <<created, capacity, chain>> /\ live' = <<>>
        /\ last' = IF chain = <<>> THEN 0 ELSE 1
        /\ size' = [p \in Id |-> IF \E i \in 1 .. Len(chain) : chain[i] = p THEN 0 ELSE size[p]]
    BY <1>4 DEF ClearGarbage
  <2>2. ASSUME last' > 0 PROVE RoundUp(size'[chain'[last']]) <= Demand(live')
    <3>1. last' = 1 /\ 1 \in 1 .. Len(chain)
      BY <2>1, <2>2, TypesOfRegion, EmptySeq
    <3>2. chain[1] \in Id
      BY <3>1, TypesOfRegion
    <3>3. size'[chain[1]] = 0
      BY <2>1, <3>1, <3>2
    <3>4. RoundUp(0) = 0 /\ Demand(live') = 0
      BY <2>1, NoDemand, RoundUpProperties
    <3> QED BY <2>1, <3>1, <3>3, <3>4
  <2> QED BY <2>1, <2>2 DEF GrowthInv
<1>5. ASSUME UNCHANGED regionVars PROVE GrowthInv'
  BY <1>5 DEF regionVars, GrowthInv
<1>6. ASSUME NEW k \in Sizes, AllocTooLarge(k) PROVE GrowthInv'
  BY <1>5, <1>6 DEF AllocTooLarge
<1>7. CASE UNCHANGED vars
  BY <1>5, <1>7 DEF vars
<1> QED BY <1>1, <1>2, <1>3, <1>4, <1>6, <1>7 DEF Next

(***************************************************************************)
(* insertIntoOrExpandRegion asks malloc for a partition only when a        *)
(* default one would not hold what is handed out: partitions left half     *)
(* empty by clearGarbage's reuse never make the region grow.               *)
(***************************************************************************)
THEOREM GrowthIsNeeded == Spec => GrowthNeedsDemand
<1> DEFINE Needed == created' > created /\ created > 0 => Demand(live') > DefaultCapacity
<1>1. Init => RegionInv /\ GrowthInv
  BY InitEstablishesInv, EmptySeq DEF Init, GrowthInv
<1>2. RegionInv /\ GrowthInv /\ [Next]_vars => RegionInv' /\ GrowthInv'
  BY NextKeepsInv, NextKeepsGrowth
<1>3. ASSUME RegionInv, GrowthInv, Next, created' > created, created > 0 PROVE Demand(live') > DefaultCapacity
  <2>1. created \in Nat
    BY <1>3, TypesOfRegion
  <2>2. PICK k \in Sizes : AllocFirst(k) \/ AllocExpand(k)
    <3>1. created' # created
      BY <1>3, <2>1
    <3> QED BY <1>3, <3>1 DEF Next, AllocInChain, AllocTooLarge, ClearGarbage, regionVars
  <2>3. last > 0 /\ last \in 1 .. Len(chain) /\ AllocExpand(k)
    <3>1. chain # <<>> /\ last # 0 /\ last \in 1 .. Len(chain)
      BY <1>3, TypesOfRegion DEF GrowthInv
    <3> QED BY <2>2, <3>1 DEF AllocFirst
  <2> DEFINE s == size[chain[last]]
             c == capacity[chain[last]]
  <2>4. /\ s \in Nat /\ c \in 0 .. Heap /\ s <= c /\ c >= DefaultCapacity /\ RoundUp(s) <= Demand(live)
        /\ live \in Seq(Blocks)
    BY <1>3, <2>3, TypesOfRegion DEF GrowthInv
  <2>5. k \in Nat /\ k \in 0 .. SizeT - 1 /\ RoundUp(k) \in Nat /\ k <= RoundUp(k) /\ RoundUp(k) <= Heap
    BY <2>3, SizesAssumption, HeapAssumption, RoundUpProperties DEF AllocExpand
  <2>6. ~Hollow(k) /\ RoundUp(s) \in Nat /\ RoundUp(s) < s + Alignment
    <3>1. k <= Heap
      BY <2>5, HeapAssumption
    <3> QED BY <2>4, <2>5, <3>1, RoomyIsNotHollow, RoundUpProperties
  <2>7. s + RealSize(s, k) = RoundUp(s) + k
    BY <2>4, <2>5, <2>6, RealSizeProperties
  <2>8. ~(Wrap(s + RealSize(s, k)) <= c)
    BY <2>3 DEF AllocExpand, NoneSeems, Fits
  <2> HIDE DEF s, c
  <2>9. RoundUp(s) + k > c
    <3>1. RoundUp(s) + k < SizeT
      BY <2>4, <2>5, <2>6, HeapAssumption, AlignmentAssumption
    <3>2. Wrap(RoundUp(s) + k) = RoundUp(s) + k
      BY <2>5, <2>6, <3>1, HeapAssumption DEF Wrap
    <3> QED BY <2>4, <2>5, <2>6, <2>7, <2>8, <3>2
  <2>10. Demand(live') = Demand(live) + RoundUp(k) /\ Demand(live) \in Nat
    <3>1. \E d : Place(created + 1, k, 0, d)
      BY <2>3 DEF AllocExpand
    <3>2. created + 1 \in Id
      BY <2>1, <2>3, MaxAssumption DEF AllocExpand, Id
    <3>3. RealSize(0, k) = k /\ 0 \in Nat /\ k <= Heap
      BY <2>5, RealSizeAtStart, HeapAssumption
    <3> QED BY <2>4, <2>5, <2>6, <3>1, <3>2, <3>3, PlaceKeepsDemand
  <2> QED BY <2>4, <2>5, <2>6, <2>9, <2>10, HeapAssumption
<1>4. RegionInv /\ GrowthInv /\ [Next]_vars => [Needed]_vars
  BY <1>3
<1>5. Spec => [][Needed]_vars
  BY <1>1, <1>2, <1>4, PTL DEF Spec
<1> QED BY <1>5 DEF GrowthNeedsDemand
=============================================================================
