--------------------------- MODULE HashTableProofs ---------------------------
(***************************************************************************)
(* The hash table, for every set of keys, all hash functions, every size   *)
(* it is created with and any number of inserts: its chains hold each node *)
(* once, in the slot of its key; its load is bounded; it frees everything  *)
(* it owns, once; and it implements the dictionary its users rely on.      *)
(*                                                                         *)
(* The argument goes from lists (In, Once) to chains (Chains, Holds) to    *)
(* the set of nodes a table holds (NodeSet), each operation's effect on    *)
(* which is stated once (InsertEffect, DeleteEffect, RetrieveEffect).      *)
(* Everything after that is about the set.                                 *)
(***************************************************************************)
EXTENDS HashTable, Induction, FiniteSetTheorems

(* The chains.  A list holds its elements; Once says that it has none twice.   *)
NodeType == [key : Key, keyObject : Object, value : Object]
In(c, x) == \E i \in 1 .. Len(c) : c[i] = x
Once(c) == \A i, j \in 1 .. Len(c) : c[i] = c[j] => i = j

LEMMA PrependedList ==
  ASSUME NEW S, NEW c \in Seq(S), NEW x \in S
  PROVE  /\ <<x>> \o c \in Seq(S)
         /\ \A y : In(<<x>> \o c, y) <=> y = x \/ In(c, y)
         /\ Once(c) /\ ~In(c, x) => Once(<<x>> \o c)
<1> DEFINE d == <<x>> \o c
<1>1. <<x>> \in Seq(S) /\ Len(<<x>>) = 1 /\ <<x>>[1] = x /\ Len(c) \in Nat
  BY LenProperties
<1>2. d \in Seq(S) /\ Len(d) = Len(c) + 1
  BY <1>1, ConcatProperties
<1>3. 1 \in 1 .. Len(d) /\ d[1] = x
  BY <1>1, <1>2, ConcatProperties
<1>4. \A i \in 1 .. Len(c) : i + 1 \in 1 .. Len(d) /\ d[i + 1] = c[i]
  <2> TAKE i \in 1 .. Len(c)
  <2>1. i + 1 \in 1 .. 1 + Len(c) /\ ~(i + 1 <= 1) /\ i + 1 - 1 = i
    BY <1>1
  <2>2. d[i + 1] = c[i + 1 - 1]
    BY <1>1, <2>1, ConcatProperties
  <2> QED BY <1>2, <2>1, <2>2
<1>5. \A j \in 1 .. Len(d) : j = 1 \/ \E i \in 1 .. Len(c) : j = i + 1
  <2> TAKE j \in 1 .. Len(d)
  <2>1. j # 1 => j - 1 \in 1 .. Len(c) /\ j = (j - 1) + 1
    BY <1>1, <1>2
  <2> QED BY <2>1
<1> HIDE DEF d
<1>6. \A j \in 1 .. Len(d) : \/ j = 1 /\ d[j] = x
                             \/ \E i \in 1 .. Len(c) : j = i + 1 /\ d[j] = c[i]
  BY <1>3, <1>4, <1>5
<1>7. ASSUME NEW y PROVE In(d, y) <=> y = x \/ In(c, y)
  <2>1. In(d, y) => y = x \/ In(c, y)
    BY <1>6 DEF In
  <2>2. y = x => In(d, y)
    BY <1>3 DEF In
  <2>3. In(c, y) => In(d, y)
    BY <1>4 DEF In
  <2> QED BY <2>1, <2>2, <2>3
<1>8. ASSUME Once(c), ~In(c, x), NEW i \in 1 .. Len(d), NEW j \in 1 .. Len(d), d[i] = d[j]
      PROVE  i = j
  BY <1>6, <1>8 DEF Once, In
<1> QED BY <1>2, <1>7, <1>8 DEF d, Once

LEMMA AppendedList ==
  ASSUME NEW S, NEW c \in Seq(S), NEW x \in S
  PROVE  /\ Append(c, x) \in Seq(S)
         /\ \A y : In(Append(c, x), y) <=> y = x \/ In(c, y)
         /\ Once(c) /\ ~In(c, x) => Once(Append(c, x))
<1> DEFINE d == Append(c, x)
<1>1. Len(c) \in Nat
  BY LenProperties
<1>2. /\ d \in Seq(S) /\ Len(d) = Len(c) + 1
      /\ \A i \in 1 .. Len(c) : d[i] = c[i]
      /\ d[Len(c) + 1] = x
  BY AppendProperties
<1> HIDE DEF d
<1>3. \A j \in 1 .. Len(d) : \/ j = Len(c) + 1 /\ d[j] = x
                             \/ j \in 1 .. Len(c) /\ d[j] = c[j]
  BY <1>1, <1>2
<1>4. Len(c) + 1 \in 1 .. Len(d) /\ \A i \in 1 .. Len(c) : i \in 1 .. Len(d)
  BY <1>1, <1>2
<1>5. \A y : In(d, y) <=> y = x \/ In(c, y)
  BY <1>2, <1>3, <1>4 DEF In
<1>6. ASSUME Once(c), ~In(c, x), NEW i \in 1 .. Len(d), NEW j \in 1 .. Len(d), d[i] = d[j]
      PROVE  i = j
  BY <1>3, <1>6 DEF Once, In
<1> QED BY <1>2, <1>5, <1>6 DEF d, Once

LEMMA ReplacedInList ==
  ASSUME NEW S, NEW c \in Seq(S), NEW x \in S, NEW p \in 1 .. Len(c), Once(c), ~In(c, x)
  PROVE  /\ [c EXCEPT ![p] = x] \in Seq(S)
         /\ \A y : In([c EXCEPT ![p] = x], y) <=> y = x \/ (In(c, y) /\ y # c[p])
         /\ Once([c EXCEPT ![p] = x])
<1> DEFINE d == [c EXCEPT ![p] = x]
<1>1. /\ d \in Seq(S) /\ Len(d) = Len(c)
      /\ \A i \in 1 .. Len(c) : d[i] = IF i = p THEN x ELSE c[i]
  BY ExceptSeq
<1> HIDE DEF d
<1>2. \A y : In(d, y) <=> y = x \/ (In(c, y) /\ y # c[p])
  BY <1>1 DEF In, Once
<1>3. Once(d)
  BY <1>1 DEF Once, In
<1> QED BY <1>1, <1>2, <1>3 DEF d

LEMMA RemovedFromList ==
  ASSUME NEW S, NEW c \in Seq(S), NEW p \in 1 .. Len(c), Once(c)
  PROVE  /\ RemoveAt(c, p) \in Seq(S)
         /\ \A y : In(RemoveAt(c, p), y) <=> In(c, y) /\ y # c[p]
         /\ Once(RemoveAt(c, p))
<1> DEFINE a == SubSeq(c, 1, p - 1)
           b == SubSeq(c, p + 1, Len(c))
           d == a \o b
<1>1. Len(c) \in Nat /\ p \in Nat /\ p >= 1 /\ p <= Len(c) /\ \A i \in 1 .. Len(c) : c[i] \in S
  BY LenProperties
<1>2. a \in Seq(S) /\ Len(a) = p - 1 /\ \A i \in 1 .. p - 1 : a[i] = c[i]
  <2>1. 1 \in Int /\ p - 1 \in Int /\ \A i \in 1 .. p - 1 : c[i] \in S
    BY <1>1
  <2>2. /\ a \in Seq(S) /\ Len(a) = IF 1 <= p - 1 THEN p - 1 - 1 + 1 ELSE 0
        /\ \A i \in 1 .. p - 1 - 1 + 1 : a[i] = c[1 + i - 1]
    BY <2>1, SubSeqProperties
  <2>3. \A i \in 1 .. p - 1 : i \in 1 .. p - 1 - 1 + 1 /\ 1 + i - 1 = i
    BY <1>1
  <2> QED BY <1>1, <2>2, <2>3
<1>3. b \in Seq(S) /\ Len(b) = Len(c) - p /\ \A i \in 1 .. Len(c) - p : b[i] = c[p + i]
  <2>1. p + 1 \in Int /\ Len(c) \in Int /\ \A i \in p + 1 .. Len(c) : c[i] \in S
    BY <1>1
  <2>2. /\ b \in Seq(S) /\ Len(b) = IF p + 1 <= Len(c) THEN Len(c) - (p + 1) + 1 ELSE 0
        /\ \A i \in 1 .. Len(c) - (p + 1) + 1 : b[i] = c[p + 1 + i - 1]
    BY <2>1, SubSeqProperties
  <2>3. \A i \in 1 .. Len(c) - p : i \in 1 .. Len(c) - (p + 1) + 1 /\ p + 1 + i - 1 = p + i
    BY <1>1
  <2> QED BY <1>1, <2>2, <2>3
<1>4. RemoveAt(c, p) = d
  BY DEF RemoveAt
<1> HIDE DEF a, b
<1>5. d \in Seq(S) /\ Len(d) = Len(c) - 1
  <2>1. d \in Seq(S) /\ Len(d) = Len(a) + Len(b)
    BY <1>2, <1>3, ConcatProperties
  <2> QED BY <1>1, <1>2, <1>3, <2>1
<1>6. \A i \in 1 .. Len(d) : d[i] = IF i < p THEN c[i] ELSE c[i + 1]
  <2> TAKE i \in 1 .. Len(d)
  <2>0. i \in 1 .. Len(a) + Len(b) /\ i \in Int /\ i >= 1 /\ i <= Len(c) - 1
    BY <1>1, <1>2, <1>3, <1>5
  <2>1. d[i] = IF i <= Len(a) THEN a[i] ELSE b[i - Len(a)]
    BY <1>2, <1>3, <2>0, ConcatProperties
  <2>2. CASE i < p
    BY <1>1, <1>2, <2>0, <2>1, <2>2
  <2>3. CASE i >= p
    <3>1. PICK k \in 1 .. Len(c) - p : k = i - (p - 1)
      BY <1>1, <2>0, <2>3
    <3>2. b[k] = c[p + k] /\ p + k = i + 1 /\ ~(i <= Len(a)) /\ i - Len(a) = k
      BY <1>1, <1>2, <1>3, <2>0, <2>3, <3>1
    <3> QED BY <2>1, <2>3, <3>2, <1>1, <2>0
  <2> QED BY <1>1, <2>0, <2>2, <2>3
<1> HIDE DEF d
\* Where each position of the shorter list was before.
<1>7. \A i \in 1 .. Len(d) : \E k \in 1 .. Len(c) : /\ k # p /\ d[i] = c[k]
                                                    /\ k = IF i < p THEN i ELSE i + 1
  <2> TAKE i \in 1 .. Len(d)
  <2>1. CASE i < p
    BY <1>1, <1>5, <1>6, <2>1
  <2>2. CASE ~(i < p)
    <3>1. i + 1 \in 1 .. Len(c) /\ i + 1 # p
      BY <1>1, <1>5, <2>2
    <3> QED BY <1>6, <2>2, <3>1
  <2> QED BY <2>1, <2>2
<1>8. \A k \in 1 .. Len(c) : k # p => \E i \in 1 .. Len(d) : d[i] = c[k]
  <2> TAKE k \in 1 .. Len(c)
  <2>0. k \in Int /\ p \in Int /\ k >= 1 /\ k <= Len(c)
    BY <1>1
  <2>1. CASE k < p
    <3>1. k \in 1 .. Len(d)
      BY <1>1, <1>5, <2>0, <2>1
    <3> QED BY <1>6, <2>1, <3>1
  <2>2. CASE k > p
    <3>1. PICK i \in 1 .. Len(d) : i = k - 1
      BY <1>1, <1>5, <2>0, <2>2
    <3>2. ~(i < p) /\ i + 1 = k
      BY <2>0, <2>2, <3>1
    <3>3. d[i] = c[i + 1]
      BY <1>6, <3>2
    <3> QED BY <3>2, <3>3
  <2> QED BY <2>0, <2>1, <2>2
<1>9. ASSUME NEW y PROVE In(d, y) <=> In(c, y) /\ y # c[p]
  <2>1. In(d, y) => In(c, y) /\ y # c[p]
    BY <1>7 DEF In, Once
  <2>2. In(c, y) /\ y # c[p] => In(d, y)
    BY <1>8 DEF In
  <2> QED BY <2>1, <2>2
<1>10. Once(d)
  <2> SUFFICES ASSUME NEW i \in 1 .. Len(d), NEW j \in 1 .. Len(d), d[i] = d[j] PROVE i = j
    BY DEF Once
  <2>1. PICK k \in 1 .. Len(c) : d[i] = c[k] /\ k = IF i < p THEN i ELSE i + 1
    BY <1>7
  <2>2. PICK l \in 1 .. Len(c) : d[j] = c[l] /\ l = IF j < p THEN j ELSE j + 1
    BY <1>7
  <2>3. k = l
    BY <2>1, <2>2 DEF Once
  <2> QED BY <1>1, <1>5, <2>1, <2>2, <2>3
<1> QED BY <1>4, <1>5, <1>9, <1>10

(* The place of a key is that of its first node.                               *)
LEMMA PlaceFinds ==
  ASSUME NEW c \in Seq(NodeType), NEW k
  PROVE  /\ Place(c, k) = 0 => \A i \in 1 .. Len(c) : c[i].key # k
         /\ Place(c, k) # 0 => Place(c, k) \in 1 .. Len(c) /\ c[Place(c, k)].key = k
<1> DEFINE I == {i \in 1 .. Len(c) : c[i].key = k}
<1>1. Place(c, k) = IF I # {} THEN Min(I) ELSE 0
  BY DEF Place, SelectInSeq
<1>2. I \subseteq Nat /\ 0 \notin I
  OBVIOUS
<1>3. I # {} => Min(I) \in I
  <2> HIDE DEF I
  <2> QED BY <1>2, MinIsLeast
<1> QED BY <1>1, <1>2, <1>3
-----------------------------------------------------------------------------
(* A table's chains: each node in the slot of its key, and nowhere twice.      *)
InPlace(e) == \A s \in 1 .. Len(e) : \A i \in 1 .. Len(e[s]) : Slot(e[s][i].key, Len(e)) = s
Chains(e) == /\ e \in Seq(Seq(NodeType)) /\ Len(e) # 0
             /\ InPlace(e)
             /\ \A s \in 1 .. Len(e) : Once(e[s])

LEMMA SlotInTable ==
  ASSUME hashFunc \in HashFuncs, NEW k \in Key, NEW n \in Nat, n # 0
  PROVE  Slot(k, n) \in 1 .. n
<1>1. hashFunc[k] \in Nat
  BY TableAssumption
<1>2. hashFunc[k] % n \in 0 .. n - 1
  BY <1>1
<1> QED BY <1>2 DEF Slot

LEMMA ChainsTyped ==
  ASSUME NEW e, Chains(e)
  PROVE  /\ Len(e) \in Nat \ {0} /\ DOMAIN e = 1 .. Len(e)
         /\ \A s \in 1 .. Len(e) : /\ e[s] \in Seq(NodeType) /\ Len(e[s]) \in Nat
                                   /\ \A i \in 1 .. Len(e[s]) : e[s][i] \in NodeType
BY LenProperties, ElementOfSeq DEF Chains

(* A node is in the slot of its key and in no other.                           *)
LEMMA NodeInItsSlot ==
  ASSUME NEW e, Chains(e), NEW x
  PROVE  /\ Holds(e, x) => /\ x \in NodeType
                           /\ Slot(x.key, Len(e)) \in 1 .. Len(e)
                           /\ In(e[Slot(x.key, Len(e))], x)
         /\ \A s \in 1 .. Len(e) : In(e[s], x) => Holds(e, x) /\ Slot(x.key, Len(e)) = s
BY ChainsTyped DEF Chains, InPlace, Holds, In

LEMMA ChainsAreDistinct ==
  ASSUME NEW e, Chains(e)
  PROVE  Distinct(e)
<1> SUFFICES ASSUME NEW s \in 1 .. Len(e), NEW t \in 1 .. Len(e),
                    NEW i \in 1 .. Len(e[s]), NEW j \in 1 .. Len(e[t]), e[s][i] = e[t][j]
             PROVE  s = t /\ i = j
  BY DEF Distinct
<1>1. s = t
  BY DEF Chains, InPlace
<1> QED BY <1>1 DEF Chains, Once

(* One chain may be replaced by another whose nodes belong there.              *)
LEMMA ChainReplaced ==
  ASSUME NEW e, Chains(e), NEW s \in 1 .. Len(e), NEW c \in Seq(NodeType), Once(c),
         \A i \in 1 .. Len(c) : Slot(c[i].key, Len(e)) = s
  PROVE  /\ Chains([e EXCEPT ![s] = c])
         /\ Len([e EXCEPT ![s] = c]) = Len(e)
         /\ \A x : Holds([e EXCEPT ![s] = c], x) <=> In(c, x) \/ (Holds(e, x) /\ ~In(e[s], x))
<1> DEFINE f == [e EXCEPT ![s] = c]
<1>1. /\ f \in Seq(Seq(NodeType)) /\ Len(f) = Len(e)
      /\ \A t \in 1 .. Len(e) : f[t] = IF t = s THEN c ELSE e[t]
  BY ExceptSeq DEF Chains
<1> HIDE DEF f
<1>2. Chains(f)
  <2>1. ASSUME NEW t \in 1 .. Len(f), NEW i \in 1 .. Len(f[t])
        PROVE  Slot(f[t][i].key, Len(f)) = t
    <3>1. CASE t = s
      BY <1>1, <3>1
    <3>2. CASE t # s
      BY <1>1, <3>2 DEF Chains, InPlace
    <3> QED BY <3>1, <3>2
  <2>2. \A t \in 1 .. Len(f) : Once(f[t])
    BY <1>1 DEF Chains
  <2>3. Len(f) # 0
    BY <1>1 DEF Chains
  <2> QED BY <1>1, <2>1, <2>2, <2>3 DEF Chains, InPlace
<1>3. ASSUME NEW x PROVE Holds(f, x) <=> In(c, x) \/ (Holds(e, x) /\ ~In(e[s], x))
  <2>1. ASSUME Holds(f, x) PROVE In(c, x) \/ (Holds(e, x) /\ ~In(e[s], x))
    <3>1. PICK t \in 1 .. Len(e) : In(f[t], x)
      BY <1>1, <2>1 DEF Holds, In
    <3>2. CASE t = s
      BY <1>1, <3>1, <3>2
    <3>3. CASE t # s
      <4>1. In(e[t], x)
        BY <1>1, <3>1, <3>3
      <4> QED BY <3>3, <4>1, NodeInItsSlot
    <3> QED BY <3>2, <3>3
  <2>2. ASSUME In(c, x) PROVE Holds(f, x)
    BY <1>1, <2>2 DEF Holds, In
  <2>3. ASSUME Holds(e, x), ~In(e[s], x) PROVE Holds(f, x)
    <3>1. PICK t \in 1 .. Len(e) : In(e[t], x)
      BY <2>3 DEF Holds, In
    <3>2. t # s
      BY <2>3, <3>1
    <3>3. f[t] = e[t]
      BY <1>1, <3>2
    <3> QED BY <1>1, <3>1, <3>3 DEF Holds, In
  <2> QED BY <2>1, <2>2, <2>3
<1> QED BY <1>1, <1>2, <1>3 DEF f

(* A new node at either end of its key's chain.                                *)
Grown(f, e, x) == /\ Chains(f) /\ Len(f) = Len(e)
                  /\ \A y : Holds(f, y) <=> y = x \/ Holds(e, y)

LEMMA ChainsGrow ==
  ASSUME NEW e, Chains(e), hashFunc \in HashFuncs, NEW x \in NodeType, ~Holds(e, x),
         NEW s, s = Slot(x.key, Len(e)), NEW c, c = Append(e[s], x) \/ c = <<x>> \o e[s]
  PROVE  s \in 1 .. Len(e) /\ Grown([e EXCEPT ![s] = c], e, x)
<1>1. s \in 1 .. Len(e) /\ e[s] \in Seq(NodeType) /\ Once(e[s])
  <2>1. x.key \in Key /\ Len(e) \in Nat /\ Len(e) # 0
    BY ChainsTyped DEF NodeType
  <2>2. s \in 1 .. Len(e)
    BY <2>1, SlotInTable
  <2> QED BY <2>2, ChainsTyped DEF Chains
<1>2. ~In(e[s], x)
  BY <1>1, NodeInItsSlot
<1>3. c \in Seq(NodeType) /\ Once(c) /\ \A y : In(c, y) <=> y = x \/ In(e[s], y)
  <2>1. CASE c = Append(e[s], x)
    BY <1>1, <1>2, <2>1, AppendedList
  <2>2. CASE c = <<x>> \o e[s]
    BY <1>1, <1>2, <2>2, PrependedList
  <2> QED BY <2>1, <2>2
<1>4. \A i \in 1 .. Len(c) : Slot(c[i].key, Len(e)) = s
  <2> TAKE i \in 1 .. Len(c)
  <2>1. In(c, c[i])
    BY DEF In
  <2>2. c[i] = x \/ In(e[s], c[i])
    BY <1>3, <2>1
  <2> QED BY <1>1, <2>2, NodeInItsSlot
<1>5. /\ Chains([e EXCEPT ![s] = c]) /\ Len([e EXCEPT ![s] = c]) = Len(e)
      /\ \A y : Holds([e EXCEPT ![s] = c], y) <=> In(c, y) \/ (Holds(e, y) /\ ~In(e[s], y))
  BY <1>1, <1>3, <1>4, ChainReplaced
<1>6. \A y : In(e[s], y) => Holds(e, y)
  BY <1>1, NodeInItsSlot
<1> QED BY <1>1, <1>3, <1>5, <1>6 DEF Grown

(* Empty chains.                                                               *)
LEMMA EmptyChains ==
  ASSUME NEW n \in Nat, n # 0, NEW e, e = [s \in 1 .. n |-> <<>>]
  PROVE  Chains(e) /\ Len(e) = n /\ \A x : ~Holds(e, x)
<1>1. <<>> \in Seq(NodeType)
  BY EmptySeq
<1>2. e \in [1 .. n -> Seq(NodeType)]
  BY <1>1
<1>3. e \in Seq(Seq(NodeType)) /\ Len(e) = n /\ \A s \in 1 .. n : Len(e[s]) = 0
  BY <1>2, EmptySeq
<1>4. \A s \in 1 .. n : 1 .. Len(e[s]) = {}
  BY <1>3
<1> QED BY <1>3, <1>4 DEF Chains, InPlace, Once, Holds
-----------------------------------------------------------------------------
(* A resize keeps every node, whatever the hash function and wherever the      *)
(* nodes go.                                                                   *)
LEMMA ResizedKeeps ==
  ASSUME Chains(entries), hashFunc \in HashFuncs
  PROVE  /\ Chains(Resized) /\ Len(Resized) = 2 * Size
         /\ \A x : Holds(Resized, x) <=> Holds(entries, x)
<1> DEFINE nodes == FlattenSeq(entries)
<1>1. PICK m \in Nat : m = 2 * Size /\ m # 0
  BY ChainsTyped DEF Size
<1>2. /\ nodes \in Seq(NodeType)
      /\ \A x : In(nodes, x) <=> Holds(entries, x)
      /\ \A p, r \in 1 .. Len(nodes) : nodes[p] = nodes[r] => p = r
  <2>1. nodes \in Seq(NodeType) /\ Lists(nodes, entries, Len(entries))
    BY FlattenLists DEF Chains
  <2>2. ASSUME NEW x PROVE In(nodes, x) <=> Holds(entries, x)
    <3> HIDE DEF nodes
    <3>1. In(nodes, x) => Holds(entries, x)
      BY <2>1 DEF Lists, In, Holds
    <3>2. ASSUME Holds(entries, x) PROVE In(nodes, x)
      <4>1. PICK s \in 1 .. Len(entries) : \E i \in 1 .. Len(entries[s]) : entries[s][i] = x
        BY <3>2 DEF Holds
      <4>2. PICK i \in 1 .. Len(entries[s]) : entries[s][i] = x
        BY <4>1
      <4> QED BY <2>1, <4>2 DEF Lists, In
    <3> QED BY <3>1, <3>2
  <2> QED BY <2>1, <2>2, ChainsAreDistinct DEF Lists
<1>3. PICK n \in Nat : n = Len(nodes)
  BY <1>2, LenProperties
<1>4. \A i \in 1 .. n : nodes[i] \in NodeType
  BY <1>2, <1>3, ElementOfSeq
<1> HIDE DEF nodes
<1> DEFINE V == [1 .. m -> Seq(NodeType)]
           empty == [s \in 1 .. m |-> <<>>]
           Put(t, x) == [t EXCEPT ![Slot(x.key, m)] = <<x>> \o @]
           step == [i \in Nat |-> [t \in V |-> IF i \in 1 .. n THEN Put(t, nodes[i]) ELSE t]]
           Relinks(g) == g = [i \in 0 .. Len(nodes) |-> IF i = 0 THEN [s \in 1 .. 2 * Size |-> <<>>]
                                ELSE [g[i - 1] EXCEPT ![Slot(nodes[i].key, 2 * Size)] = <<nodes[i]>> \o @]]
<1>5. empty \in V /\ step \in [Nat -> [V -> V]]
  <2>1. empty \in V
    BY EmptySeq
  <2>2. ASSUME NEW i \in 1 .. n, NEW t \in V PROVE Put(t, nodes[i]) \in V
    <3> DEFINE s == Slot(nodes[i].key, m)
    <3>1. s \in 1 .. m
      BY <1>1, <1>4, SlotInTable DEF NodeType
    <3> HIDE DEF s
    <3>2. t[s] \in Seq(NodeType)
      BY <3>1
    <3>3. <<nodes[i]>> \o t[s] \in Seq(NodeType)
      BY <1>4, <3>2, PrependedList
    <3>4. [t EXCEPT ![s] = <<nodes[i]>> \o t[s]] \in V
      BY <3>1, <3>3
    <3> QED BY <3>4 DEF s
  <2> HIDE DEF V, Put
  <2> QED BY <2>1, <2>2
<1>6. PICK g \in [0 .. n -> V] : Recurses(g, empty, step, n)
  <2> HIDE DEF V, empty, step
  <2> QED BY <1>5, RecursionDefines
<1>7. Relinks(g)
  <2>1. ASSUME NEW i \in 1 .. n PROVE g[i] = Put(g[i - 1], nodes[i])
    <3>1. i \in Nat /\ i - 1 \in 0 .. n
      OBVIOUS
    <3>2. g[i - 1] \in V /\ g[i] = step[i][g[i - 1]]
      BY <1>6, <3>1 DEF Recurses
    <3> HIDE DEF V, Put
    <3> QED BY <3>1, <3>2
  <2>2. g = [i \in 0 .. n |-> IF i = 0 THEN empty ELSE Put(g[i - 1], nodes[i])]
    <3> HIDE DEF V, Put, empty
    <3>1. \A i \in 0 .. n : i = 0 \/ i \in 1 .. n
      OBVIOUS
    <3> QED BY <1>6, <2>1, <3>1 DEF Recurses
  <2> QED BY <1>1, <1>3, <2>2
<1> DEFINE f == CHOOSE k : Relinks(k)
<1>8. Relinks(f)
  <2> HIDE DEF Relinks
  <2> QED BY <1>7
<1>9. Resized = f[n]
  BY <1>3 DEF Resized, nodes
<1>10. f[0] = empty
  <2> HIDE DEF f
  <2> QED BY <1>1, <1>8
<1>11. ASSUME NEW i \in 0 .. n, NEW k \in 1 .. n, k = i + 1 PROVE f[k] = Put(f[i], nodes[k])
  <2> HIDE DEF f
  <2>1. k \in 0 .. Len(nodes) /\ k # 0 /\ k - 1 = i
    BY <1>3, <1>11
  <2> QED BY <1>1, <1>8, <2>1
<1> HIDE DEF f
\* After i nodes the table holds these nodes.
<1> DEFINE Good(i) == /\ Chains(f[i]) /\ Len(f[i]) = m
                      /\ \A x : Holds(f[i], x) <=> \E p \in 1 .. i : nodes[p] = x
           T == {i \in Nat : i <= n => Good(i)}
<1>12. 0 \in T
  BY <1>1, <1>10, EmptyChains
<1>13. ASSUME NEW i \in Nat, i \in T PROVE i + 1 \in T
  <2>1. SUFFICES ASSUME NEW k \in 1 .. n, k = i + 1 PROVE Good(k)
    OBVIOUS
  <2>2. Good(i) /\ i \in 0 .. n
    BY <1>13, <2>1
  <2> DEFINE x == nodes[k]
             s == Slot(x.key, m)
  <2>3. f[k] = [f[i] EXCEPT ![s] = <<x>> \o f[i][s]]
    BY <1>11, <2>1, <2>2
  <2>4. x \in NodeType /\ ~Holds(f[i], x)
    <3>1. \A p \in 1 .. i : p \in 1 .. Len(nodes) /\ p # k
      BY <1>3, <2>1, <2>2
    <3>2. k \in 1 .. Len(nodes)
      BY <1>3
    <3>3. ASSUME Holds(f[i], x) PROVE FALSE
      <4>1. PICK p \in 1 .. i : nodes[p] = nodes[k]
        BY <2>2, <3>3
      <4> QED BY <1>2, <3>1, <3>2, <4>1
    <3> QED BY <1>4, <3>3
  <2> HIDE DEF x
  <2>5. /\ Chains(f[k]) /\ Len(f[k]) = m
        /\ \A y : Holds(f[k], y) <=> y = x \/ Holds(f[i], y)
    <3> DEFINE e == f[i]
               c == <<x>> \o e[s]
    <3>1. Chains(e) /\ Len(e) = m /\ ~Holds(e, x) /\ x \in NodeType /\ f[k] = [e EXCEPT ![s] = c]
      BY <2>2, <2>3, <2>4
    <3>2. s = Slot(x.key, Len(e)) /\ (c = Append(e[s], x) \/ c = <<x>> \o e[s])
      BY <3>1
    <3> HIDE DEF e, s, c
    <3>3. Grown([e EXCEPT ![s] = c], e, x)
      BY <3>1, <3>2, ChainsGrow
    <3> QED BY <3>1, <3>3 DEF e, Grown
  <2>6. \A y : (\E p \in 1 .. k : nodes[p] = y) <=> (y = x \/ \E p \in 1 .. i : nodes[p] = y)
    <3>1. \A p \in 1 .. k : p = k \/ p \in 1 .. i
      BY <2>1
    <3>2. k \in 1 .. k /\ \A p \in 1 .. i : p \in 1 .. k
      BY <2>1
    <3> QED BY <3>1, <3>2 DEF x
  <2> QED BY <2>2, <2>5, <2>6
<1>14. Nat \subseteq T
  <2> HIDE DEF T
  <2> QED BY <1>12, <1>13, NaturalInduction
<1>15. Good(n)
  <2>1. n \in T
    <3> HIDE DEF T
    <3> QED BY <1>14
  <2> QED BY <2>1
<1>16. \A x : Holds(f[n], x) <=> In(nodes, x)
  BY <1>3, <1>15 DEF In
<1> QED BY <1>1, <1>2, <1>9, <1>15, <1>16
-----------------------------------------------------------------------------
(* The nodes of the table, as a set.                                           *)
NodeSet(e) == {x \in NodeType : Holds(e, x)}

LEMMA NodesOfChains ==
  ASSUME NEW e, Chains(e)
  PROVE  /\ ToSet(FlattenSeq(e)) = NodeSet(e)
         /\ IsFiniteSet(NodeSet(e)) /\ Len(FlattenSeq(e)) = Cardinality(NodeSet(e))
<1> DEFINE q == FlattenSeq(e)
<1>1. q \in Seq(NodeType) /\ Lists(q, e, Len(e))
  BY FlattenLists DEF Chains
<1> HIDE DEF q
<1>2. Len(q) \in Nat /\ q \in [1 .. Len(q) -> NodeType] /\ DOMAIN q = 1 .. Len(q)
  BY <1>1, LenProperties
<1>3. \A p \in 1 .. Len(q) : Holds(e, q[p])
  BY <1>1 DEF Lists, Holds
<1>4. ASSUME NEW x, Holds(e, x) PROVE \E p \in 1 .. Len(q) : q[p] = x
  <2>1. PICK s \in 1 .. Len(e) : \E i \in 1 .. Len(e[s]) : e[s][i] = x
    BY <1>4 DEF Holds
  <2>2. PICK i \in 1 .. Len(e[s]) : e[s][i] = x
    BY <2>1
  <2> QED BY <1>1, <2>2 DEF Lists
<1>5. ToSet(q) = NodeSet(e)
  BY <1>2, <1>3, <1>4 DEF ToSet, NodeSet
<1>6. ExistsBijection(1 .. Len(q), NodeSet(e))
  <2>1. q \in [1 .. Len(q) -> NodeSet(e)]
    BY <1>2, <1>3 DEF NodeSet
  <2>2. \A x \in NodeSet(e) : \E p \in 1 .. Len(q) : q[p] = x
    BY <1>4 DEF NodeSet
  <2>3. \A p, r \in 1 .. Len(q) : q[p] = q[r] => p = r
    BY <1>1, ChainsAreDistinct DEF Lists
  <2>4. q \in Bijection(1 .. Len(q), NodeSet(e))
    BY <2>1, <2>2, <2>3 DEF Bijection, Injection, Surjection, IsInjective
  <2> QED BY <2>4 DEF ExistsBijection
<1>7. IsFiniteSet(NodeSet(e)) /\ Len(q) = Cardinality(NodeSet(e))
  BY <1>2, <1>6, FS_NatBijection, FS_CountingElements
<1> QED BY <1>5, <1>7 DEF q

(* Looking a key up finds its node, wherever in its chain it is.               *)
LEMMA LookUp ==
  ASSUME NEW e, Chains(e), hashFunc \in HashFuncs, NEW k \in Key,
         NEW s, s = Slot(k, Len(e)), NEW at, at = Place(e[s], k)
  PROVE  /\ s \in 1 .. Len(e)
         /\ at = 0 => \A n \in NodeSet(e) : n.key # k
         /\ at # 0 => at \in 1 .. Len(e[s]) /\ e[s][at] \in NodeSet(e) /\ e[s][at].key = k
<1>1. s \in 1 .. Len(e) /\ e[s] \in Seq(NodeType)
  <2>1. Len(e) \in Nat /\ Len(e) # 0
    BY ChainsTyped
  <2>2. s \in 1 .. Len(e)
    BY <2>1, SlotInTable
  <2> QED BY <2>2, ChainsTyped
<1>2. ASSUME at = 0, NEW n \in NodeSet(e), n.key = k PROVE FALSE
  <2>1. In(e[s], n)
    BY <1>2, NodeInItsSlot DEF NodeSet
  <2> QED BY <1>1, <1>2, <2>1, PlaceFinds DEF In
<1>3. ASSUME at # 0
      PROVE  at \in 1 .. Len(e[s]) /\ e[s][at] \in NodeSet(e) /\ e[s][at].key = k
  <2>1. at \in 1 .. Len(e[s]) /\ e[s][at].key = k
    BY <1>1, <1>3, PlaceFinds
  <2>2. In(e[s], e[s][at])
    BY <2>1 DEF In
  <2>3. Holds(e, e[s][at]) /\ e[s][at] \in NodeType
    BY <1>1, <2>1, <2>2, NodeInItsSlot, ChainsTyped
  <2> QED BY <2>1, <2>3 DEF NodeSet
<1> QED BY <1>1, <1>2, <1>3

(* A node is given another value, or unlinked.                                 *)
Replaced(f, e, old, x) == /\ Chains(f) /\ Len(f) = Len(e)
                          /\ NodeSet(f) = (NodeSet(e) \ {old}) \cup {x}
Shrunk(f, e, old) == /\ Chains(f) /\ Len(f) = Len(e)
                     /\ NodeSet(f) = NodeSet(e) \ {old}

LEMMA NodeReplaced ==
  ASSUME NEW e, Chains(e), NEW s \in 1 .. Len(e), NEW at \in 1 .. Len(e[s]), NEW x \in NodeType,
         x.key = e[s][at].key, x \notin NodeSet(e)
  PROVE  Replaced([e EXCEPT ![s] = [e[s] EXCEPT ![at] = x]], e, e[s][at], x)
<1> DEFINE c == [e[s] EXCEPT ![at] = x]
           f == [e EXCEPT ![s] = c]
<1>1. e[s] \in Seq(NodeType) /\ Once(e[s]) /\ ~In(e[s], x)
  BY ChainsTyped, NodeInItsSlot DEF Chains, NodeSet
<1>2. /\ c \in Seq(NodeType) /\ Once(c)
      /\ \A y : In(c, y) <=> y = x \/ (In(e[s], y) /\ y # e[s][at])
  BY <1>1, ReplacedInList
<1>3. \A i \in 1 .. Len(c) : Slot(c[i].key, Len(e)) = s
  BY <1>1, ExceptSeq DEF Chains, InPlace
<1> HIDE DEF c
<1>4. /\ Chains(f) /\ Len(f) = Len(e)
      /\ \A y : Holds(f, y) <=> In(c, y) \/ (Holds(e, y) /\ ~In(e[s], y))
  BY <1>2, <1>3, ChainReplaced
<1> HIDE DEF f
<1>5. In(e[s], e[s][at]) /\ \A y : In(e[s], y) => Holds(e, y)
  BY NodeInItsSlot DEF In
<1>6. NodeSet(f) = (NodeSet(e) \ {e[s][at]}) \cup {x}
  BY <1>2, <1>4, <1>5 DEF NodeSet
<1> QED BY <1>4, <1>6 DEF f, c, Replaced

LEMMA NodeUnlinked ==
  ASSUME NEW e, Chains(e), NEW s \in 1 .. Len(e), NEW at \in 1 .. Len(e[s])
  PROVE  Shrunk([e EXCEPT ![s] = Unlinked(e[s], at)], e, e[s][at])
<1> DEFINE c == RemoveAt(e[s], at)
           f == [e EXCEPT ![s] = c]
<1>1. e[s] \in Seq(NodeType) /\ Once(e[s])
  BY ChainsTyped DEF Chains
<1>2. /\ c \in Seq(NodeType) /\ Once(c)
      /\ \A y : In(c, y) <=> In(e[s], y) /\ y # e[s][at]
  BY <1>1, RemovedFromList
<1> HIDE DEF c
<1>3. \A i \in 1 .. Len(c) : Slot(c[i].key, Len(e)) = s
  <2> TAKE i \in 1 .. Len(c)
  <2>1. In(e[s], c[i])
    BY <1>2 DEF In
  <2> QED BY <2>1, NodeInItsSlot
<1>4. /\ Chains(f) /\ Len(f) = Len(e)
      /\ \A y : Holds(f, y) <=> In(c, y) \/ (Holds(e, y) /\ ~In(e[s], y))
  BY <1>2, <1>3, ChainReplaced
<1> HIDE DEF f
<1>5. In(e[s], e[s][at]) /\ \A y : In(e[s], y) => Holds(e, y)
  BY NodeInItsSlot DEF In
<1>6. NodeSet(f) = NodeSet(e) \ {e[s][at]}
  BY <1>2, <1>4, <1>5 DEF NodeSet
<1> QED BY <1>4, <1>6 DEF f, c, Unlinked, Shrunk
-----------------------------------------------------------------------------
(* What an insert and a deletion do to the chains and to the set of nodes.     *)
LEMMA Prepares ==
  ASSUME Chains(entries), hashFunc \in HashFuncs,
         NEW p, p = IF TooFull THEN Resized ELSE entries
  PROVE  /\ Chains(p) /\ NodeSet(p) = NodeSet(entries)
         /\ Len(p) = IF TooFull THEN 2 * Size ELSE Size
<1>1. CASE TooFull
  <2> HIDE DEF TooFull, Resized
  <2>1. Chains(Resized) /\ Len(Resized) = 2 * Size /\ NodeSet(Resized) = NodeSet(entries)
    BY ResizedKeeps DEF NodeSet
  <2> QED BY <1>1, <2>1
<1>2. CASE ~TooFull
  BY <1>2 DEF Size
<1> QED BY <1>1, <1>2

Inserted(k, x) == /\ NodeSet(entries') = NodeSet(entries) \cup {x}
                  /\ \A n \in NodeSet(entries) : n.key # k
                  /\ count' = count + 1
                  /\ UNCHANGED <<freedKey, freedValue, unowned>>
Overwritten(old, v) ==
  /\ NodeSet(entries') = (NodeSet(entries) \ {old}) \cup {[old EXCEPT !.value = v]}
  /\ freedValue' = Free(freedValue, old.value)
  /\ unowned' = unowned \cup {v}
  /\ UNCHANGED <<count, freedKey>>

LEMMA InsertEffect ==
  ASSUME Chains(entries), hashFunc \in HashFuncs, inserts \in 0 .. MaxInserts,
         \A n \in NodeSet(entries) : n.value <= inserts,
         NEW k \in Key, Insert(k)
  PROVE  /\ Chains(entries')
         /\ Len(entries') = IF TooFull THEN 2 * Size ELSE Size
         /\ \/ Inserted(k, Node(k, inserts'))
            \/ \E old \in NodeSet(entries) : old.key = k /\ Overwritten(old, inserts')
<1> DEFINE p == IF TooFull THEN Resized ELSE entries
           s == Slot(k, Len(p))
           at == Place(p[s], k)
           o == inserts'
           x == Node(k, o)
<1>1. Chains(p) /\ NodeSet(p) = NodeSet(entries) /\ Len(p) = IF TooFull THEN 2 * Size ELSE Size
  BY Prepares
<1>2. o \in Object /\ o = inserts + 1 /\ inserts \in Int
  BY TableAssumption DEF Insert, Object
<1>3. x \in NodeType /\ x.key = k
  BY <1>2 DEF Node, NodeType
<1>4. \/ /\ at = 0
         /\ entries' = [p EXCEPT ![s] = Append(@, x)]
         /\ count' = count + 1
         /\ UNCHANGED <<freedKey, freedValue, unowned>>
      \/ /\ at # 0
         /\ entries' = [p EXCEPT ![s][at].value = o]
         /\ freedValue' = Free(freedValue, p[s][at].value)
         /\ unowned' = unowned \cup {o}
         /\ UNCHANGED <<count, freedKey>>
  BY DEF Insert, heap
<1> HIDE DEF p, at, o
<1>5. /\ s \in 1 .. Len(p)
      /\ at = 0 => \A n \in NodeSet(p) : n.key # k
      /\ at # 0 => at \in 1 .. Len(p[s]) /\ p[s][at] \in NodeSet(p) /\ p[s][at].key = k
  <2> HIDE DEF s
  <2>1. s = Slot(k, Len(p)) /\ at = Place(p[s], k)
    BY DEF s, at
  <2> QED BY <1>1, <2>1, LookUp
<1>6. CASE at = 0
  <2>1. entries' = [p EXCEPT ![s] = Append(p[s], x)]
    BY <1>4, <1>6
  <2>2. ~Holds(p, x)
    BY <1>3, <1>5, <1>6 DEF NodeSet
  <2>3. Grown(entries', p, x)
    <3> DEFINE c == Append(p[s], x)
    <3>1. s = Slot(x.key, Len(p)) /\ (c = Append(p[s], x) \/ c = <<x>> \o p[s])
      BY <1>3
    <3> HIDE DEF s, c, x
    <3>2. Grown([p EXCEPT ![s] = c], p, x)
      BY <1>1, <1>3, <2>2, <3>1, ChainsGrow
    <3> QED BY <2>1, <3>2 DEF c
  <2> HIDE DEF x
  <2>4. NodeSet(entries') = NodeSet(entries) \cup {x}
    BY <1>1, <1>3, <2>3 DEF Grown, NodeSet
  <2>5. Inserted(k, x)
    BY <1>1, <1>4, <1>5, <1>6, <2>4 DEF Inserted
  <2> QED BY <1>1, <2>3, <2>5 DEF Grown, x, o
<1>7. CASE at # 0
  <2> DEFINE old == p[s][at]
             new == [old EXCEPT !.value = o]
  <2>1. old \in NodeSet(entries) /\ old.key = k /\ old \in NodeType
    BY <1>1, <1>5, <1>7 DEF NodeSet
  <2>2. new \in NodeType /\ new.key = old.key /\ new.value = o
    BY <1>2, <2>1 DEF NodeType
  <2>3. new \notin NodeSet(p)
    <3>1. ~(o <= inserts)
      BY <1>2
    <3> HIDE DEF new
    <3> QED BY <1>1, <2>2, <3>1
  <2>4. entries' = [p EXCEPT ![s] = [p[s] EXCEPT ![at] = new]]
    BY <1>4, <1>7
  <2> HIDE DEF new
  <2>5. Replaced(entries', p, old, new)
    BY <1>1, <1>5, <1>7, <2>2, <2>3, <2>4, NodeReplaced
  <2>6. Overwritten(old, o)
    BY <1>1, <1>4, <1>7, <2>5 DEF Overwritten, Replaced, new
  <2> QED BY <1>1, <2>1, <2>5, <2>6 DEF o, Replaced
<1> QED BY <1>6, <1>7

LEMMA DeleteEffect ==
  ASSUME Chains(entries), hashFunc \in HashFuncs, NEW k \in Key, DeletePair(k)
  PROVE  \/ UNCHANGED <<table, inserts, heap, answer>> /\ \A n \in NodeSet(entries) : n.key # k
         \/ \E old \in NodeSet(entries) :
              /\ old.key = k
              /\ Chains(entries') /\ Len(entries') = Len(entries)
              /\ NodeSet(entries') = NodeSet(entries) \ {old}
              /\ count' = count - 1
              /\ freedKey' = Free(freedKey, old.keyObject)
              /\ freedValue' = Free(freedValue, old.value)
              /\ UNCHANGED <<hashFunc, alive, inserts, unowned, answer>>
<1> DEFINE s == Slot(k, Size)
           at == Place(entries[s], k)
<1>1. /\ s \in 1 .. Len(entries)
      /\ at = 0 => \A n \in NodeSet(entries) : n.key # k
      /\ at # 0 => /\ at \in 1 .. Len(entries[s]) /\ entries[s][at] \in NodeSet(entries)
                   /\ entries[s][at].key = k
  <2>1. s = Slot(k, Len(entries)) /\ at = Place(entries[s], k)
    BY DEF Size
  <2> HIDE DEF s, at
  <2> QED BY <2>1, LookUp
<1>2. CASE at = 0 /\ UNCHANGED <<table, inserts, heap, answer>>
  BY <1>1, <1>2
<1>3. CASE /\ at # 0
           /\ entries' = [entries EXCEPT ![s] = Unlinked(@, at)]
           /\ count' = count - 1
           /\ freedKey' = Free(freedKey, entries[s][at].keyObject)
           /\ freedValue' = Free(freedValue, entries[s][at].value)
           /\ UNCHANGED <<hashFunc, alive, inserts, unowned, answer>>
  <2> HIDE DEF s, at
  <2>1. Shrunk(entries', entries, entries[s][at])
    BY <1>1, <1>3, NodeUnlinked
  <2> QED BY <1>1, <1>3, <2>1 DEF Shrunk
<1> QED BY <1>2, <1>3 DEF DeletePair
-----------------------------------------------------------------------------
(* The inductive invariant: types, the chains, a node's objects are its own    *)
(* and were given to the table, and what has been freed is what was given and  *)
(* is held no longer.                                                          *)
Held == IF alive THEN NodeSet(entries) ELSE {}
OwnObjects(N) ==
  /\ \A n \in N : n.value \in 1 .. inserts /\ n.keyObject \in (1 .. inserts) \ unowned
  /\ \A n, m \in N : n.key = m.key \/ n.value = m.value \/ n.keyObject = m.keyObject => n = m
Accounted ==
  /\ freedKey = [o \in Object |->
       IF o \in (1 .. inserts) \ unowned /\ \A n \in Held : n.keyObject # o THEN 1 ELSE 0]
  /\ freedValue = [o \in Object |->
       IF o \in 1 .. inserts /\ \A n \in Held : n.value # o THEN 1 ELSE 0]
TableInv ==
  /\ hashFunc \in HashFuncs /\ alive \in BOOLEAN /\ inserts \in 0 .. MaxInserts
  /\ answer \in Object \cup {NULL}
  /\ unowned \subseteq 1 .. inserts
  /\ Chains(entries)
  /\ count = Cardinality(NodeSet(entries))
  /\ OwnObjects(NodeSet(entries))
  /\ Accounted

(* The definitions of the properties speak of FlattenSeq.                      *)
LEMMA BoundIsHeld ==
  ASSUME Chains(entries)
  PROVE  Bound = Held /\ Nodes = NodeSet(entries)
BY NodesOfChains DEF Bound, Held, Nodes

LEMMA ChainsNext ==
  ASSUME hashFunc' = hashFunc, Chains(entries')
  PROVE  Chains(entries)'
BY DEF Chains, InPlace, Slot, NodeType, Object, Once

LEMMA TableInit == Init => TableInv
<1> SUFFICES ASSUME Init PROVE TableInv
  OBVIOUS
<1>1. PICK size \in Sizes : entries = [s \in 1 .. size |-> <<>>]
  BY DEF Init
<1>2. size \in Nat /\ size # 0
  BY TableAssumption
<1>3. Chains(entries) /\ NodeSet(entries) = {}
  BY <1>1, <1>2, EmptyChains DEF NodeSet
<1>4. Held = {} /\ count = 0 /\ Cardinality({}) = 0
  BY <1>3, FS_EmptySet DEF Held, Init
<1>5. inserts = 0 /\ inserts \in 0 .. MaxInserts /\ 1 .. inserts = {}
  BY TableAssumption DEF Init
<1>6. Accounted
  BY <1>4, <1>5 DEF Accounted, Init
<1> QED BY <1>3, <1>4, <1>5, <1>6 DEF TableInv, OwnObjects, Init

(* The invariant's next state, spelled out for a table that is alive.          *)
LEMMA TableInvNext ==
  ASSUME hashFunc' = hashFunc, hashFunc \in HashFuncs, alive' = TRUE,
         inserts' \in 0 .. MaxInserts, answer' \in Object \cup {NULL},
         unowned' \subseteq 1 .. inserts', Chains(entries'),
         NEW N, N = NodeSet(entries'), count' = Cardinality(N),
         \A n \in N : n.value \in 1 .. inserts' /\ n.keyObject \in (1 .. inserts') \ unowned',
         \A n, m \in N : n.key = m.key \/ n.value = m.value \/ n.keyObject = m.keyObject => n = m,
         freedKey' = [o \in Object |->
           IF o \in (1 .. inserts') \ unowned' /\ \A n \in N : n.keyObject # o THEN 1 ELSE 0],
         freedValue' = [o \in Object |->
           IF o \in 1 .. inserts' /\ \A n \in N : n.value # o THEN 1 ELSE 0]
  PROVE  TableInv'
<1>1. Chains(entries)'
  BY ChainsNext
<1>2. NodeSet(entries)' = N
  OBVIOUS
<1>3. Held' = N
  BY <1>2 DEF Held
<1>4. OwnObjects(NodeSet(entries))'
  BY <1>2 DEF OwnObjects
<1>5. Accounted'
  BY <1>3 DEF Accounted
<1> QED BY <1>1, <1>2, <1>4, <1>5 DEF TableInv

LEMMA InsertKeeps ==
  ASSUME TableInv, NEW k \in Key, Insert(k)
  PROVE  TableInv'
<1> DEFINE N == NodeSet(entries)
           o == inserts'
           x == Node(k, o)
<1>1. /\ alive /\ inserts \in Nat /\ o = inserts + 1 /\ o \in 0 .. MaxInserts /\ o \in Object
      /\ hashFunc \in HashFuncs /\ Chains(entries)
      /\ UNCHANGED <<hashFunc, alive, answer>>
  BY TableAssumption DEF Insert, TableInv, Object
<1>2. /\ \A n \in N : n.value \in 1 .. inserts /\ n.keyObject \in (1 .. inserts) \ unowned
      /\ \A n, m \in N : n.key = m.key \/ n.value = m.value \/ n.keyObject = m.keyObject => n = m
      /\ unowned \subseteq 1 .. inserts /\ answer \in Object \cup {NULL}
      /\ IsFiniteSet(N) /\ count = Cardinality(N)
      /\ \A n \in N : n \in NodeType
  BY NodesOfChains DEF TableInv, OwnObjects, NodeSet
<1>3. /\ freedKey = [i \in Object |->
           IF i \in (1 .. inserts) \ unowned /\ \A n \in N : n.keyObject # i THEN 1 ELSE 0]
      /\ freedValue = [i \in Object |->
           IF i \in 1 .. inserts /\ \A n \in N : n.value # i THEN 1 ELSE 0]
  BY <1>1 DEF TableInv, Accounted, Held
<1>4. /\ Chains(entries')
      /\ Inserted(k, x) \/ \E old \in N : old.key = k /\ Overwritten(old, o)
  <2>1. \A n \in NodeSet(entries) : n.value <= inserts
    BY <1>2, <1>1
  <2> QED BY <1>1, <2>1, InsertEffect DEF TableInv
<1>5. 1 .. o = (1 .. inserts) \cup {o} /\ o \notin 1 .. inserts
  BY <1>1
<1> HIDE DEF o, N
<1>6. CASE Inserted(k, x)
  <2> DEFINE M == N \cup {x}
  <2>1. /\ NodeSet(entries') = M /\ count' = count + 1 /\ \A n \in N : n.key # k
        /\ UNCHANGED <<freedKey, freedValue, unowned>>
    BY <1>6 DEF Inserted, N
  <2>2. x.key = k /\ x.keyObject = o /\ x.value = o
    BY DEF Node
  <2> HIDE DEF x
  <2>3. x \notin N
    BY <2>1, <2>2
  <2>4. Cardinality(M) = Cardinality(N) + 1
    BY <1>2, <2>3, FS_AddElement
  <2>5. \A n \in M : n.value \in 1 .. o /\ n.keyObject \in (1 .. o) \ unowned
    BY <1>2, <1>5, <2>2
  <2>6. \A n, m \in M : n.key = m.key \/ n.value = m.value \/ n.keyObject = m.keyObject => n = m
    BY <1>2, <1>5, <2>1, <2>2
  <2>7. freedKey' = [i \in Object |->
          IF i \in (1 .. o) \ unowned /\ \A n \in M : n.keyObject # i THEN 1 ELSE 0]
    BY <1>2, <1>3, <1>5, <2>1, <2>2
  <2>8. freedValue' = [i \in Object |->
          IF i \in 1 .. o /\ \A n \in M : n.value # i THEN 1 ELSE 0]
    BY <1>2, <1>3, <1>5, <2>1, <2>2
  <2> HIDE DEF M
  <2> QED BY <1>1, <1>2, <1>4, <1>5, <2>1, <2>4, <2>5, <2>6, <2>7, <2>8, TableInvNext DEF o
<1>7. ASSUME NEW old \in N, old.key = k, Overwritten(old, o) PROVE TableInv'
  <2> DEFINE y == [old EXCEPT !.value = o]
             M == (N \ {old}) \cup {y}
  <2>1. /\ NodeSet(entries') = M /\ count' = count /\ freedKey' = freedKey
        /\ freedValue' = [freedValue EXCEPT ![old.value] = @ + 1] /\ unowned' = unowned \cup {o}
    BY <1>7 DEF Overwritten, Free, N
  <2>2. y.key = old.key /\ y.keyObject = old.keyObject /\ y.value = o
    BY <1>2 DEF NodeType
  <2> HIDE DEF y
  <2>3. y \notin N /\ old \in N
    BY <1>2, <1>5, <2>2
  <2>4. Cardinality(M) = Cardinality(N)
    <3>1. IsFiniteSet(N \ {old}) /\ Cardinality(N \ {old}) = Cardinality(N) - 1
      BY <1>2, <2>3, FS_RemoveElement
    <3>2. Cardinality(M) = Cardinality(N \ {old}) + 1
      BY <2>3, <3>1, FS_AddElement
    <3> QED BY <1>2, <3>1, <3>2, FS_CardinalityType
  <2>5. \A n \in M : n.value \in 1 .. o /\ n.keyObject \in (1 .. o) \ unowned'
    BY <1>2, <1>5, <2>1, <2>2
  <2>6. \A n, m \in M : n.key = m.key \/ n.value = m.value \/ n.keyObject = m.keyObject => n = m
    BY <1>2, <1>5, <2>2
  <2>7. freedKey' = [i \in Object |->
          IF i \in (1 .. o) \ unowned' /\ \A n \in M : n.keyObject # i THEN 1 ELSE 0]
    <3>1. (1 .. o) \ unowned' = (1 .. inserts) \ unowned
      BY <1>2, <1>5, <2>1
    <3>2. \A i : (\A n \in M : n.keyObject # i) <=> (\A n \in N : n.keyObject # i)
      BY <1>2, <2>2
    <3> QED BY <1>3, <2>1, <3>1, <3>2
  <2>8. freedValue' = [i \in Object |->
          IF i \in 1 .. o /\ \A n \in M : n.value # i THEN 1 ELSE 0]
    <3>1. old.value \in 1 .. inserts /\ old.value \in Object /\ old.value # o
      BY <1>2, <1>5 DEF NodeType
    <3>2. \A i : (\A n \in M : n.value # i) <=> i # o /\ (i = old.value \/ \A n \in N : n.value # i)
      BY <1>2, <1>5, <2>2
    <3>3. freedValue[old.value] = 0
      BY <1>3, <3>1
    <3>4. ASSUME NEW i \in Object
          PROVE  freedValue'[i] = IF i \in 1 .. o /\ \A n \in M : n.value # i THEN 1 ELSE 0
      <4> HIDE DEF M
      <4>1. CASE i = old.value
        <5>1. freedValue'[i] = 1
          BY <1>3, <2>1, <3>1, <3>3, <4>1
        <5> QED BY <1>5, <3>1, <3>2, <4>1, <5>1
      <4>2. CASE i # old.value
        <5>1. freedValue'[i] = IF i \in 1 .. inserts /\ \A n \in N : n.value # i THEN 1 ELSE 0
          BY <1>3, <2>1, <4>2
        <5> QED BY <1>5, <3>2, <4>2, <5>1
      <4> QED BY <4>1, <4>2
    <3>5. freedValue' = [i \in Object |-> freedValue'[i]]
      BY <1>3, <2>1
    <3> QED BY <3>4, <3>5
  <2>9. unowned' \subseteq 1 .. o
    BY <1>2, <1>5, <2>1
  <2>10. NodeSet(entries') = M /\ count' = Cardinality(M)
    BY <1>2, <2>1, <2>4
  <2>11. /\ hashFunc' = hashFunc /\ hashFunc \in HashFuncs /\ alive' = TRUE
         /\ inserts' \in 0 .. MaxInserts /\ answer' \in Object \cup {NULL} /\ Chains(entries')
    BY <1>1, <1>2, <1>4 DEF o
  <2> HIDE DEF M
  <2> QED BY <2>5, <2>6, <2>7, <2>8, <2>9, <2>10, <2>11, TableInvNext DEF o
<1> QED BY <1>4, <1>6, <1>7

LEMMA DeleteKeeps ==
  ASSUME TableInv, NEW k \in Key, DeletePair(k)
  PROVE  TableInv'
<1> DEFINE N == NodeSet(entries)
<1>1. /\ alive /\ inserts \in 0 .. MaxInserts
      /\ hashFunc \in HashFuncs /\ Chains(entries)
  BY DEF DeletePair, TableInv
<1>2. /\ \A n \in N : n.value \in 1 .. inserts /\ n.keyObject \in (1 .. inserts) \ unowned
      /\ \A n, m \in N : n.key = m.key \/ n.value = m.value \/ n.keyObject = m.keyObject => n = m
      /\ unowned \subseteq 1 .. inserts /\ answer \in Object \cup {NULL}
      /\ IsFiniteSet(N) /\ count = Cardinality(N)
      /\ \A n \in N : n \in NodeType
  BY NodesOfChains DEF TableInv, OwnObjects, NodeSet
<1>3. /\ freedKey = [i \in Object |->
           IF i \in (1 .. inserts) \ unowned /\ \A n \in N : n.keyObject # i THEN 1 ELSE 0]
      /\ freedValue = [i \in Object |->
           IF i \in 1 .. inserts /\ \A n \in N : n.value # i THEN 1 ELSE 0]
  BY <1>1 DEF TableInv, Accounted, Held
<1> HIDE DEF N
<1>4. CASE UNCHANGED <<table, inserts, heap, answer>>
  <2>1. /\ NodeSet(entries') = N /\ count' = count /\ freedKey' = freedKey
        /\ freedValue' = freedValue /\ unowned' = unowned /\ inserts' = inserts
        /\ hashFunc' = hashFunc /\ alive' = TRUE /\ answer' = answer /\ Chains(entries')
    BY <1>1, <1>4 DEF table, heap, N, TableInv
  <2> QED BY <1>1, <1>2, <1>3, <2>1, TableInvNext
<1>5. ASSUME NEW old \in N,
             Chains(entries'), NodeSet(entries') = N \ {old}, count' = count - 1,
             freedKey' = Free(freedKey, old.keyObject), freedValue' = Free(freedValue, old.value),
             UNCHANGED <<hashFunc, alive, inserts, unowned, answer>>
      PROVE  TableInv'
  <2> DEFINE M == N \ {old}
  <2>1. Cardinality(M) = count'
    BY <1>2, <1>5, FS_RemoveElement
  <2>2. \A n \in M : n.value \in 1 .. inserts /\ n.keyObject \in (1 .. inserts) \ unowned
    BY <1>2
  <2>3. \A n, m \in M : n.key = m.key \/ n.value = m.value \/ n.keyObject = m.keyObject => n = m
    BY <1>2
  <2>4. freedKey' = [i \in Object |->
          IF i \in (1 .. inserts) \ unowned /\ \A n \in M : n.keyObject # i THEN 1 ELSE 0]
    BY <1>2, <1>3, <1>5 DEF Free
  <2>5. freedValue' = [i \in Object |->
          IF i \in 1 .. inserts /\ \A n \in M : n.value # i THEN 1 ELSE 0]
    BY <1>2, <1>3, <1>5 DEF Free
  <2>6. NodeSet(entries') = M
    BY <1>5
  <2> HIDE DEF M
  <2> QED BY <1>1, <1>2, <1>5, <2>1, <2>2, <2>3, <2>4, <2>5, <2>6, TableInvNext
<1> QED BY <1>1, <1>4, <1>5, DeleteEffect DEF N

(* A set of one element at most: the nodes that hold an object.                *)
LEMMA OneAtMost ==
  ASSUME NEW H, \A n, m \in H : n = m
  PROVE  Cardinality(H) = IF H = {} THEN 0 ELSE 1
<1>1. CASE H = {}
  BY <1>1, FS_EmptySet
<1>2. CASE H # {}
  <2>1. PICK m : m \in H
    BY <1>2
  <2>2. H = {m}
    BY <2>1
  <2> QED BY <1>2, <2>2, FS_Singleton
<1> QED BY <1>1, <1>2

LEMMA DestroyKeeps ==
  ASSUME TableInv, DestroyHashTable
  PROVE  TableInv'
<1> DEFINE N == NodeSet(entries)
<1>1. /\ alive /\ Chains(entries) /\ alive' = FALSE
      /\ UNCHANGED <<hashFunc, entries, count, inserts, unowned, answer>>
      /\ freedKey' = Times("keyObject", freedKey) /\ freedValue' = Times("value", freedValue)
  BY DEF DestroyHashTable, TableInv
<1>2. \A n, m \in N : n.value = m.value \/ n.keyObject = m.keyObject => n = m
  BY DEF TableInv, OwnObjects
<1>3. /\ freedKey = [i \in Object |->
           IF i \in (1 .. inserts) \ unowned /\ \A n \in N : n.keyObject # i THEN 1 ELSE 0]
      /\ freedValue = [i \in Object |->
           IF i \in 1 .. inserts /\ \A n \in N : n.value # i THEN 1 ELSE 0]
      /\ \A n \in N : n.value \in 1 .. inserts /\ n.keyObject \in (1 .. inserts) \ unowned
  BY <1>1 DEF TableInv, Accounted, Held, OwnObjects
<1>4. Nodes = N
  BY <1>1, BoundIsHeld
<1> HIDE DEF N
<1>5. freedKey' = [i \in Object |-> IF i \in (1 .. inserts) \ unowned THEN 1 ELSE 0]
  <2>1. ASSUME NEW i \in Object
        PROVE  Cardinality({n \in N : n.keyObject = i}) = IF \A n \in N : n.keyObject # i THEN 0 ELSE 1
    <3> DEFINE H == {n \in N : n.keyObject = i}
    <3>1. (H = {} <=> \A n \in N : n.keyObject # i) /\ \A n, m \in H : n = m
      BY <1>2
    <3> HIDE DEF H
    <3>2. Cardinality(H) = IF \A n \in N : n.keyObject # i THEN 0 ELSE 1
      BY <3>1, OneAtMost
    <3> QED BY <3>2 DEF H
  <2>2. ASSUME NEW i \in Object
        PROVE  freedKey[i] + Cardinality({n \in N : n.keyObject = i})
                 = IF i \in (1 .. inserts) \ unowned THEN 1 ELSE 0
    BY <1>3, <2>1
  <2> QED BY <1>1, <1>4, <2>2 DEF Times
<1>6. freedValue' = [i \in Object |-> IF i \in 1 .. inserts THEN 1 ELSE 0]
  <2>1. ASSUME NEW i \in Object
        PROVE  Cardinality({n \in N : n.value = i}) = IF \A n \in N : n.value # i THEN 0 ELSE 1
    <3> DEFINE H == {n \in N : n.value = i}
    <3>1. (H = {} <=> \A n \in N : n.value # i) /\ \A n, m \in H : n = m
      BY <1>2
    <3> HIDE DEF H
    <3>2. Cardinality(H) = IF \A n \in N : n.value # i THEN 0 ELSE 1
      BY <3>1, OneAtMost
    <3> QED BY <3>2 DEF H
  <2>2. ASSUME NEW i \in Object
        PROVE  freedValue[i] + Cardinality({n \in N : n.value = i})
                 = IF i \in 1 .. inserts THEN 1 ELSE 0
    BY <1>3, <2>1
  <2> QED BY <1>1, <1>4, <2>2 DEF Times
<1>7. Held' = {}
  BY <1>1 DEF Held
<1>8. Accounted'
  BY <1>1, <1>5, <1>6, <1>7 DEF Accounted
<1>9. Chains(entries)'
  BY <1>1, ChainsNext
<1>10. NodeSet(entries)' = NodeSet(entries) /\ OwnObjects(NodeSet(entries))'
  BY <1>1 DEF TableInv, OwnObjects
<1> QED BY <1>1, <1>8, <1>9, <1>10 DEF TableInv

(* What retrieve answers with.                                                 *)
LEMMA RetrieveEffect ==
  ASSUME TableInv, NEW k \in Key, Retrieve(k)
  PROVE  /\ alive /\ UNCHANGED <<hashFunc, entries, count, alive, inserts, freedKey, freedValue, unowned>>
         /\ \/ answer' = NULL /\ \A n \in NodeSet(entries) : n.key # k
            \/ \E n \in NodeSet(entries) : n.key = k /\ answer' = n.value
<1> DEFINE s == Slot(k, Size)
           at == Place(entries[s], k)
<1>1. answer' = IF at = 0 THEN NULL ELSE entries[s][at].value
  BY DEF Retrieve
<1>2. s = Slot(k, Len(entries)) /\ at = Place(entries[s], k)
  BY DEF Size
<1> HIDE DEF s, at
<1>3. /\ at = 0 => \A n \in NodeSet(entries) : n.key # k
      /\ at # 0 => entries[s][at] \in NodeSet(entries) /\ entries[s][at].key = k
  BY <1>2, LookUp DEF TableInv
<1>4. /\ alive
      /\ UNCHANGED <<hashFunc, entries, count, alive, inserts, freedKey, freedValue, unowned>>
  BY DEF Retrieve, table, heap
<1> QED BY <1>1, <1>3, <1>4

LEMMA StutterKeeps ==
  ASSUME TableInv, answer' \in Object \cup {NULL},
         UNCHANGED <<hashFunc, entries, count, alive, inserts, freedKey, freedValue, unowned>>
  PROVE  TableInv'
<1>1. Chains(entries)'
  BY ChainsNext DEF TableInv
<1>2. NodeSet(entries)' = NodeSet(entries) /\ Held' = Held
  BY DEF Held
<1>3. OwnObjects(NodeSet(entries))' /\ Accounted'
  BY <1>2 DEF TableInv, OwnObjects, Accounted
<1> QED BY <1>1, <1>2, <1>3 DEF TableInv

LEMMA TableNext == TableInv /\ [Next]_vars => TableInv'
<1> SUFFICES ASSUME TableInv, [Next]_vars PROVE TableInv'
  OBVIOUS
<1>1. ASSUME NEW k \in Key, Insert(k) PROVE TableInv'
  BY <1>1, InsertKeeps
<1>2. ASSUME NEW k \in Key, Retrieve(k) PROVE TableInv'
  <2>1. \A n \in NodeSet(entries) : n.value \in Object
    BY DEF NodeSet, NodeType
  <2>2. answer' \in Object \cup {NULL}
    BY <1>2, <2>1, RetrieveEffect
  <2> QED BY <1>2, <2>2, RetrieveEffect, StutterKeeps
<1>3. ASSUME NEW k \in Key, DeletePair(k) PROVE TableInv'
  BY <1>3, DeleteKeeps
<1>4. CASE DestroyHashTable
  BY <1>4, DestroyKeeps
<1>5. CASE UNCHANGED vars
  BY <1>5, StutterKeeps DEF vars, TableInv
<1> QED BY <1>1, <1>2, <1>3, <1>4, <1>5 DEF Next

(* However inserts, overwrites, resizes, deletes and the destruction follow    *)
(* each other: every node is in its key's slot, no two nodes share a key or an *)
(* object, and an object is freed if and only if it was given, and is owned,   *)
(* and is held no longer.                                                      *)
THEOREM TableInvariant == Spec => []TableInv
BY TableInit, TableNext, PTL DEF Spec

(* The fields have their types and count counts the nodes of the chains.       *)
THEOREM TableTypes == Spec => []TypeOK
<1>1. TableInv => TypeOK
  BY NodesOfChains DEF TableInv, TypeOK, Chains, NodeType
<1> QED BY <1>1, TableInvariant, PTL

(* Nothing is freed twice, and nothing the table holds is freed.               *)
THEOREM TableFreesOnce == Spec => []FreedOnce
<1>1. TableInv => FreedOnce
  <2> SUFFICES ASSUME TableInv PROVE FreedOnce
    OBVIOUS
  <2>1. Bound = Held /\ Held \subseteq NodeSet(entries)
    BY BoundIsHeld DEF TableInv, Held
  <2>2. \A n \in NodeSet(entries) : n.keyObject \in Object /\ n.value \in Object
    BY DEF NodeSet, NodeType
  <2>3. \A o \in Object : freedKey[o] <= 1 /\ freedValue[o] <= 1
    BY DEF TableInv, Accounted
  <2>4. \A n \in Held : freedKey[n.keyObject] = 0 /\ freedValue[n.value] = 0
    BY <2>1, <2>2 DEF TableInv, Accounted
  <2> QED BY <2>1, <2>3, <2>4 DEF FreedOnce
<1> QED BY <1>1, TableInvariant, PTL

(* A destroyed table has freed everything it was given but the key objects of  *)
(* inserts that have overwritten a value.                                      *)
THEOREM TableLeaksUnownedKeysOnly == Spec => []OnlyUnownedKeysLeak
<1>1. TableInv => OnlyUnownedKeysLeak
  <2> SUFFICES ASSUME TableInv, ~alive, NEW o \in 1 .. inserts
               PROVE  freedValue[o] = 1 /\ freedKey[o] = IF o \in unowned THEN 0 ELSE 1
    BY DEF OnlyUnownedKeysLeak
  <2>1. Held = {} /\ o \in Object
    BY TableAssumption DEF Held, TableInv, Object
  <2> QED BY <2>1 DEF TableInv, Accounted
<1> QED BY <1>1, TableInvariant, PTL
-----------------------------------------------------------------------------
(* An insert that finds the table more than three quarters full resizes it     *)
(* first, and then has room for one node.                                      *)
LEMMA LoadNext == TableInv /\ LoadIsBounded /\ [Next]_vars => LoadIsBounded'
<1> SUFFICES ASSUME TableInv, LoadIsBounded, [Next]_vars PROVE LoadIsBounded'
  OBVIOUS
<1>1. Size \in Nat \ {0} /\ count \in Nat /\ 4 * count <= 3 * Size + 4
  BY ChainsTyped, NodesOfChains, FS_CardinalityType DEF TableInv, LoadIsBounded, Size
<1>2. ASSUME NEW k \in Key, Insert(k) PROVE LoadIsBounded'
  <2>1. \A n \in NodeSet(entries) : n.value <= inserts
    BY DEF TableInv, OwnObjects
  <2>2. /\ Len(entries') = IF TooFull THEN 2 * Size ELSE Size
        /\ count' = count + 1 \/ count' = count
    BY <1>2, <2>1, InsertEffect DEF TableInv, Inserted, Overwritten
  <2> QED BY <1>1, <2>2 DEF LoadIsBounded, Size, TooFull
<1>3. ASSUME NEW k \in Key, DeletePair(k) PROVE LoadIsBounded'
  <2>1. Len(entries') = Len(entries) /\ (count' = count \/ count' = count - 1)
    BY <1>3, DeleteEffect DEF TableInv, table
  <2> QED BY <1>1, <2>1 DEF LoadIsBounded, Size
<1>4. CASE entries' = entries /\ count' = count
  BY <1>4 DEF LoadIsBounded, Size
<1> QED BY <1>2, <1>3, <1>4 DEF Next, Retrieve, table, DestroyHashTable, vars

(* The table never holds more than three quarters of its slots and one node    *)
(* besides: insert resizes in time.                                            *)
THEOREM LoadBounded == Spec => []LoadIsBounded
<1>1. Init => LoadIsBounded
  <2> SUFFICES ASSUME Init PROVE LoadIsBounded
    OBVIOUS
  <2>1. count = 0 /\ Size \in Nat
    BY TableInit, ChainsTyped DEF Init, TableInv, Size
  <2> QED BY <2>1 DEF LoadIsBounded
<1> QED BY <1>1, TableInvariant, LoadNext, PTL DEF Spec
-----------------------------------------------------------------------------
(* The dictionary a set of nodes with keys of their own stands for.            *)
DictOf(N) == [k \in {n.key : n \in N} |-> (CHOOSE n \in N : n.key = k).value]
OwnKeys(N) == \A n, m \in N : n.key = m.key => n = m

StandsFor(d, N) == /\ \A k : k \in DOMAIN d <=> \E n \in N : n.key = k
                   /\ \A n \in N : d[n.key] = n.value
                   /\ d = [k \in DOMAIN d |-> d[k]]

LEMMA DictOfNodes ==
  ASSUME NEW N, OwnKeys(N)
  PROVE  StandsFor(DictOf(N), N)
<1>1. ASSUME NEW n \in N PROVE DictOf(N)[n.key] = n.value
  <2> DEFINE m == CHOOSE m \in N : m.key = n.key
  <2>1. m \in N /\ m.key = n.key
    OBVIOUS
  <2>2. m = n
    <3> HIDE DEF m
    <3> QED BY <2>1 DEF OwnKeys
  <2> QED BY <2>2 DEF DictOf
<1>2. /\ \A k : k \in DOMAIN DictOf(N) <=> \E n \in N : n.key = k
      /\ DictOf(N) = [k \in DOMAIN DictOf(N) |-> DictOf(N)[k]]
  BY DEF DictOf
<1> QED BY <1>1, <1>2 DEF StandsFor

Extended(e, d, k, v) == e = [j \in DOMAIN d \cup {k} |-> IF j = k THEN v ELSE d[j]]

LEMMA DictOfMore ==
  ASSUME NEW N, OwnKeys(N), NEW M, OwnKeys(M), NEW x, NEW k, x.key = k,
         M = N \cup {x} \/ \E old \in N : old.key = k /\ M = (N \ {old}) \cup {x}
  PROVE  Extended(DictOf(M), DictOf(N), k, x.value)
<1> DEFINE d == DictOf(N)
           e == DictOf(M)
<1>1. StandsFor(d, N) /\ StandsFor(e, M)
  BY DictOfNodes
<1> HIDE DEF d, e
<1>2. x \in M /\ \A n : n.key # k => (n \in N <=> n \in M)
  OBVIOUS
<1>3. \A j : j \in DOMAIN e <=> j \in DOMAIN d \/ j = k
  BY <1>1, <1>2 DEF StandsFor
<1>4. ASSUME NEW j \in DOMAIN e PROVE e[j] = IF j = k THEN x.value ELSE d[j]
  <2>1. CASE j = k
    BY <1>1, <1>2, <2>1 DEF StandsFor
  <2>2. CASE j # k
    <3>1. PICK n \in N : n \in M /\ n.key = j
      BY <1>1, <1>2, <1>4, <2>2 DEF StandsFor
    <3> QED BY <1>1, <2>2, <3>1 DEF StandsFor
  <2> QED BY <2>1, <2>2
<1>5. DOMAIN e = DOMAIN d \cup {k} /\ e = [j \in DOMAIN e |-> e[j]]
  BY <1>1, <1>3 DEF StandsFor
<1> QED BY <1>4, <1>5 DEF d, e, Extended

LEMMA DictOfFewer ==
  ASSUME NEW N, OwnKeys(N), NEW old \in N
  PROVE  DictOf(N \ {old}) = [j \in DOMAIN DictOf(N) \ {old.key} |-> DictOf(N)[j]]
<1> DEFINE M == N \ {old}
           d == DictOf(N)
           e == DictOf(M)
<1>1. StandsFor(d, N) /\ StandsFor(e, M)
  BY DictOfNodes DEF OwnKeys
<1> HIDE DEF d, e
<1>2. \A j : j \in DOMAIN e <=> j \in DOMAIN d /\ j # old.key
  BY <1>1 DEF StandsFor, OwnKeys
<1>3. ASSUME NEW j \in DOMAIN e PROVE e[j] = d[j]
  <2>1. PICK n \in M : n.key = j
    BY <1>1, <1>3 DEF StandsFor
  <2> QED BY <1>1, <2>1 DEF StandsFor
<1>4. DOMAIN e = DOMAIN d \ {old.key} /\ e = [j \in DOMAIN e |-> e[j]]
  BY <1>1, <1>2 DEF StandsFor
<1> QED BY <1>3, <1>4 DEF d, e

(* The refinement mapping.                                                     *)
MappedDict == [k \in {n.key : n \in Bound} |-> ValueOf(k)]

LEMMA Mapped == TableInv => MappedDict = DictOf(Held) /\ OwnKeys(Held)
BY BoundIsHeld DEF MappedDict, ValueOf, DictOf, OwnKeys, Held, TableInv, OwnObjects

LEMMA MappedNext == TableInv' => MappedDict' = DictOf(Held') /\ OwnKeys(Held')
<1>1. (TableInv => MappedDict = DictOf(Held) /\ OwnKeys(Held))'
  BY Mapped, PTL
<1> QED BY <1>1

(* One lemma for each operation: what it does to the dictionary.               *)
LEMMA InsertImplements ==
  ASSUME TableInv, TableInv', NEW k \in Key, Insert(k)
  PROVE  \E v \in Object : Abstract!Insert(k, v)
<1> DEFINE N == NodeSet(entries)
           M == NodeSet(entries')
           o == inserts'
<1>1. alive /\ alive' /\ UNCHANGED answer
  BY DEF Insert
<1>2. Held = N /\ Held' = M
  BY <1>1 DEF Held
<1>3. MappedDict = DictOf(N) /\ OwnKeys(N) /\ MappedDict' = DictOf(M) /\ OwnKeys(M)
  BY <1>2, Mapped, MappedNext
<1>4. o \in Object
  BY TableAssumption DEF Insert, TableInv, Object
<1>5. \/ Inserted(k, Node(k, o))
      \/ \E old \in N : old.key = k /\ Overwritten(old, o)
  <2>1. \A n \in NodeSet(entries) : n.value <= inserts
    BY DEF TableInv, OwnObjects
  <2> QED BY <2>1, InsertEffect DEF TableInv
<1>6. \E x : /\ x.key = k /\ x.value = o
             /\ M = N \cup {x} \/ \E old \in N : old.key = k /\ M = (N \ {old}) \cup {x}
  <2>1. CASE Inserted(k, Node(k, o))
    <3>1. M = N \cup {Node(k, o)} /\ Node(k, o).key = k /\ Node(k, o).value = o
      BY <2>1 DEF Inserted, Node
    <3> QED BY <3>1
  <2>2. ASSUME NEW old \in N, old.key = k, Overwritten(old, o)
        PROVE  \E x : /\ x.key = k /\ x.value = o
                      /\ \E n \in N : n.key = k /\ M = (N \ {n}) \cup {x}
    <3> DEFINE y == [old EXCEPT !.value = o]
    <3>1. M = (N \ {old}) \cup {y} /\ y.key = k /\ y.value = o
      BY <2>2 DEF Overwritten, NodeSet, NodeType
    <3> HIDE DEF y
    <3> QED BY <2>2, <3>1
  <2> QED BY <1>5, <2>1, <2>2
<1>7. Extended(MappedDict', MappedDict, k, o)
  <2> HIDE DEF N, M, o
  <2>1. PICK x : /\ x.key = k /\ x.value = o
                 /\ M = N \cup {x} \/ \E old \in N : old.key = k /\ M = (N \ {old}) \cup {x}
    BY <1>6
  <2>2. Extended(DictOf(M), DictOf(N), k, x.value)
    BY <1>3, <2>1, DictOfMore
  <2> QED BY <1>3, <2>1, <2>2
<1>8. PICK v \in Object : v = o
  BY <1>4
<1>9. Abstract!Insert(k, v)
  BY <1>1, <1>7, <1>8 DEF Abstract!Insert, MappedDict, Extended, Insert
<1> QED BY <1>9

LEMMA DeleteImplements ==
  ASSUME TableInv, TableInv', NEW k \in Key, DeletePair(k)
  PROVE  Abstract!Delete(k)
<1> DEFINE N == NodeSet(entries)
<1>1. MappedDict = DictOf(Held) /\ OwnKeys(Held) /\ MappedDict' = DictOf(Held')
  BY Mapped, MappedNext
<1>2. call' = <<"delete", k>>
  BY DEF DeletePair
<1>3. ASSUME NEW old \in N, old.key = k, NodeSet(entries') = N \ {old}, UNCHANGED <<alive, answer>>
      PROVE  Abstract!Delete(k)
  <2>1. Held = N /\ Held' = N \ {old}
    BY <1>3 DEF Held, DeletePair
  <2>2. DictOf(N \ {old}) = [j \in DOMAIN DictOf(N) \ {old.key} |-> DictOf(N)[j]]
    BY <1>1, <2>1, DictOfFewer
  <2>3. MappedDict' = [j \in DOMAIN MappedDict \ {k} |-> MappedDict[j]]
    BY <1>1, <1>3, <2>1, <2>2
  <2> QED BY <1>3, <1>2, <2>3 DEF Abstract!Delete, MappedDict
<1>4. ASSUME \A n \in N : n.key # k, UNCHANGED <<table, answer>>
      PROVE  Abstract!Delete(k)
  <2>1. Held = N /\ Held' = Held
    BY <1>4 DEF Held, DeletePair, table
  <2>2. StandsFor(MappedDict, Held)
    BY <1>1, DictOfNodes
  <2>3. MappedDict' = [j \in DOMAIN MappedDict \ {k} |-> MappedDict[j]]
    <3>1. DOMAIN MappedDict \ {k} = DOMAIN MappedDict
      BY <1>4, <2>1, <2>2 DEF StandsFor
    <3>2. MappedDict' = MappedDict
      BY <1>1, <2>1
    <3> HIDE DEF MappedDict
    <3> QED BY <2>2, <3>1, <3>2 DEF StandsFor
  <2> QED BY <1>4, <1>2, <2>3 DEF Abstract!Delete, MappedDict
<1> QED BY <1>3, <1>4, DeleteEffect DEF TableInv

LEMMA RetrieveImplements ==
  ASSUME TableInv, TableInv', NEW k \in Key, Retrieve(k)
  PROVE  Abstract!Retrieve(k)
<1>1. /\ alive /\ UNCHANGED <<entries, alive>>
      /\ \/ answer' = NULL /\ \A n \in NodeSet(entries) : n.key # k
         \/ \E n \in NodeSet(entries) : n.key = k /\ answer' = n.value
  BY RetrieveEffect
<1>2. Held = NodeSet(entries) /\ Held' = Held
  BY <1>1 DEF Held
<1>3. MappedDict = DictOf(Held) /\ OwnKeys(Held) /\ MappedDict' = MappedDict
  BY <1>1, <1>2, Mapped, MappedNext
<1>4. StandsFor(MappedDict, Held)
  BY <1>3, DictOfNodes
<1>5. answer' = IF k \in DOMAIN MappedDict THEN MappedDict[k] ELSE NULL
  BY <1>1, <1>2, <1>4 DEF StandsFor
<1> QED BY <1>3, <1>5 DEF Abstract!Retrieve, MappedDict, Retrieve

LEMMA DestroyImplements ==
  ASSUME TableInv, TableInv', DestroyHashTable
  PROVE  Abstract!Destroy
<1>1. Held' = {} /\ UNCHANGED answer
  BY DEF Held, DestroyHashTable
<1>2. MappedDict' = [k \in {} |-> NULL]
  BY <1>1, MappedNext DEF DictOf
<1> QED BY <1>1, <1>2 DEF Abstract!Destroy, MappedDict, DestroyHashTable

LEMMA StepsImplement ==
  TableInv /\ TableInv' /\ [Next]_vars => [Abstract!Next]_(Abstract!vars)
<1> SUFFICES ASSUME TableInv, TableInv', [Next]_vars
             PROVE  Abstract!Next \/ UNCHANGED Abstract!vars
  OBVIOUS
<1>1. ASSUME NEW k \in Key, Insert(k) PROVE Abstract!Next
  BY <1>1, InsertImplements DEF Abstract!Next
<1>2. ASSUME NEW k \in Key, Retrieve(k) PROVE Abstract!Next
  BY <1>2, RetrieveImplements DEF Abstract!Next
<1>3. CASE UNCHANGED vars
  <2>1. MappedDict' = MappedDict /\ answer' = answer /\ call' = call
    BY <1>3, Mapped, MappedNext DEF vars, Held
  <2> QED BY <2>1 DEF Abstract!vars, MappedDict
<1>4. ASSUME NEW k \in Key, DeletePair(k) PROVE Abstract!Next
  BY <1>4, DeleteImplements DEF Abstract!Next
<1>5. CASE DestroyHashTable
  BY <1>5, DestroyImplements DEF Abstract!Next
<1> QED BY <1>1, <1>2, <1>3, <1>4, <1>5 DEF Next

(* The table is a dictionary, for every set of keys, every hash function,      *)
(* whatever collides, and every size it starts with, call by call: an insert   *)
(* binds the key it is called with to the value it is called with, a delete    *)
(* unbinds the key it is called with, retrieve answers with the last value     *)
(* inserted for the key it is called with, and nothing changes another key.    *)
THEOREM TableIsDictionary == Spec => ImplementsDictionary
<1>1. Init => Abstract!Init
  <2> SUFFICES ASSUME Init PROVE Abstract!Init
    OBVIOUS
  <2>1. NodeSet(entries) = {} /\ TableInv
    <3>1. PICK size \in Sizes : entries = [s \in 1 .. size |-> <<>>]
      BY DEF Init
    <3> QED BY <3>1, TableInit, TableAssumption, EmptyChains DEF NodeSet
  <2>2. MappedDict = [k \in {} |-> NULL]
    BY <2>1, Mapped DEF Held, DictOf
  <2> QED BY <2>2 DEF Init, Abstract!Init, MappedDict
<1>2. Spec => Abstract!Spec
  BY <1>1, TableInvariant, StepsImplement, PTL DEF Spec, Abstract!Spec
<1> QED BY <1>2 DEF ImplementsDictionary
=============================================================================
