----------------------------- MODULE Induction -----------------------------
(***************************************************************************)
(* Induction over the natural numbers, stated with a set in place of a     *)
(* predicate, the existence of what a recursion along them defines, and    *)
(* what FlattenSeq computes: the lemmas the proofs about tables, lists     *)
(* and texts stand on.                                                     *)
(***************************************************************************)
EXTENDS Integers, SequencesExt, SequenceTheorems, WellFoundedInduction, TLAPS

(* A well-founded relation has a minimal element in every set.                 *)
LEMMA MinimalElement ==
  ASSUME NEW S, NEW R, NEW T, IsWellFoundedOn(R, S), T \subseteq S, T # {}
  PROVE  \E n \in T : \A m \in T : ~(<<m, n>> \in R)
BY WFMin, Zenon

(* The smaller numbers of a number, as a relation.                             *)
LEMMA LessIsWellFounded ==
  \E R : IsWellFoundedOn(R, Nat) /\ \A m, n \in Nat : m < n => <<m, n>> \in R
<1>1. IsWellFoundedOn(OpToRel(<, Nat), Nat)
  BY NatLessThanWellFounded
<1>2. \A m, n \in Nat : m < n => <<m, n>> \in OpToRel(<, Nat)
  BY DEF OpToRel
<1> QED BY <1>1, <1>2

(* Every set of natural numbers has a least one.                               *)
LEMMA LeastNatural ==
  ASSUME NEW T, T \subseteq Nat, T # {}
  PROVE  \E n \in T : \A m \in T : n <= m
<1>1. PICK R : IsWellFoundedOn(R, Nat) /\ \A m, n \in Nat : m < n => <<m, n>> \in R
  BY LessIsWellFounded
<1>2. PICK n \in T : \A m \in T : ~(<<m, n>> \in R)
  BY <1>1, MinimalElement
<1>3. \A m \in T : ~(m < n)
  BY <1>1, <1>2
<1>4. \A m \in T : n <= m
  BY <1>3
<1> QED BY <1>4

LEMMA MinIsLeast ==
  ASSUME NEW T, T \subseteq Nat, T # {}
  PROVE  Min(T) \in T /\ \A m \in T : Min(T) <= m
BY LeastNatural DEF Min

(* A set that has 0, and with a number the next one, has every number.         *)
LEMMA NaturalInduction ==
  ASSUME NEW T, 0 \in T, \A n \in Nat : n \in T => n + 1 \in T
  PROVE  Nat \subseteq T
<1> SUFFICES ASSUME Nat \ T # {} PROVE FALSE
  OBVIOUS
<1>1. PICK n \in Nat \ T : \A m \in Nat \ T : n <= m
  BY LeastNatural
<1>2. n # 0 /\ n - 1 \in Nat /\ n - 1 \notin Nat \ T
  BY <1>1
<1> QED BY <1>1, <1>2

(* A recursion that starts with v and comes to each number up to n from a      *)
(* smaller one defines a function.                                             *)
Climbs(g, v, step, up, n) == g[0] = v /\ \A i \in 1 .. n : g[i] = step[i][g[up[i]]]

LEMMA ClimbDefines ==
  ASSUME NEW V, NEW v \in V, NEW step \in [Nat -> [V -> V]], NEW up \in [Nat -> Nat], NEW n \in Nat,
         \A i \in Nat : i # 0 => up[i] < i
  PROVE  \E g \in [0 .. n -> V] : Climbs(g, v, step, up, n)
<1> DEFINE Defined(m, g) == g[0] = v /\ \A i \in 1 .. m : g[i] = step[i][g[up[i]]]
           T == {m \in Nat : \E g \in [0 .. m -> V] : Defined(m, g)}
<1>1. 0 \in T
  <2>1. [i \in 0 .. 0 |-> v] \in [0 .. 0 -> V] /\ Defined(0, [i \in 0 .. 0 |-> v])
    OBVIOUS
  <2> QED BY <2>1
<1>2. ASSUME NEW m \in Nat, m \in T PROVE m + 1 \in T
  <2>1. PICK g \in [0 .. m -> V] : Defined(m, g)
    BY <1>2
  <2> DEFINE h == [i \in 0 .. m + 1 |-> IF i = m + 1 THEN step[m + 1][g[up[m + 1]]] ELSE g[i]]
  <2>2. up[m + 1] \in 0 .. m /\ g[up[m + 1]] \in V /\ step[m + 1][g[up[m + 1]]] \in V
    OBVIOUS
  <2>3. h \in [0 .. m + 1 -> V]
    BY <2>2
  <2>4. h[0] = v
    BY <2>1
  <2>5. ASSUME NEW i \in 1 .. m + 1 PROVE h[i] = step[i][h[up[i]]]
    <3>1. CASE i = m + 1
      <4>1. i \in 0 .. m + 1 /\ up[i] \in 0 .. m + 1 /\ up[i] # m + 1
        BY <2>2, <3>1
      <4> QED BY <3>1, <4>1
    <3>2. CASE i # m + 1
      <4>1. i \in 1 .. m /\ i # 0 /\ up[i] \in Nat
        BY <3>2
      <4>2. up[i] < i
        BY <4>1
      <4>3. up[i] \in 0 .. m /\ up[i] # m + 1
        BY <4>1, <4>2
      <4> QED BY <2>1, <4>1, <4>3
    <3> QED BY <3>1, <3>2
  <2>6. Defined(m + 1, h)
    BY <2>4, <2>5
  <2> HIDE DEF h, Defined
  <2>7. \E f \in [0 .. m + 1 -> V] : Defined(m + 1, f)
    BY <2>3, <2>6
  <2> QED BY <2>7
<1>3. Nat \subseteq T
  <2> HIDE DEF T
  <2> QED BY <1>1, <1>2, NaturalInduction
<1> QED BY <1>3 DEF Climbs

(* So does one that comes to each number from the one before.                  *)
Recurses(g, v, step, n) == g[0] = v /\ \A i \in 1 .. n : g[i] = step[i][g[i - 1]]

LEMMA RecursionDefines ==
  ASSUME NEW V, NEW v \in V, NEW step \in [Nat -> [V -> V]], NEW n \in Nat
  PROVE  \E g \in [0 .. n -> V] : Recurses(g, v, step, n)
<1> DEFINE up == [i \in Nat |-> IF i = 0 THEN 0 ELSE i - 1]
<1>1. up \in [Nat -> Nat] /\ (\A i \in Nat : i # 0 => up[i] < i) /\ \A i \in 1 .. n : up[i] = i - 1
  OBVIOUS
<1> HIDE DEF up
<1>2. PICK g \in [0 .. n -> V] : Climbs(g, v, step, up, n)
  BY <1>1, ClimbDefines
<1> QED BY <1>1, <1>2 DEF Climbs, Recurses
-----------------------------------------------------------------------------
(* What the chains of a table hold, and that they hold nothing twice.          *)
Holds(chains, x) == \E s \in 1 .. Len(chains) : \E i \in 1 .. Len(chains[s]) : chains[s][i] = x
Distinct(chains) ==
  \A s, t \in 1 .. Len(chains) : \A i \in 1 .. Len(chains[s]), j \in 1 .. Len(chains[t]) :
    chains[s][i] = chains[t][j] => s = t /\ i = j

(* FlattenSeq appends one chain after the other.                               *)
LEMMA FlattenedStepwise ==
  ASSUME NEW S, NEW e \in Seq(Seq(S)), Len(e) # 0
  PROVE  \E h : /\ DOMAIN h = 1 .. Len(e)
                /\ h[1] = e[1]
                /\ \A i \in 1 .. Len(e), j \in 1 .. Len(e) : j = i + 1 => h[j] = h[i] \o e[j]
                /\ FlattenSeq(e) = h[Len(e)]
<1>1. PICK n \in Nat : n = Len(e) /\ n >= 1
  BY LenProperties
<1>2. e \in [1 .. n -> Seq(S)]
  BY <1>1, LenProperties
<1> DEFINE Flat(h) == h = [i \in 1 .. Len(e) |-> IF i = 1 THEN e[i] ELSE h[i - 1] \o e[i]]
           step == [i \in Nat |-> [q \in Seq(S) |-> IF i \in 1 .. n THEN q \o e[i] ELSE q]]
<1>3. step \in [Nat -> [Seq(S) -> Seq(S)]] /\ <<>> \in Seq(S)
  BY <1>2, ConcatProperties, EmptySeq
<1>4. PICK g \in [0 .. n -> Seq(S)] : /\ g[0] = <<>>
                                     /\ \A i \in 1 .. n : g[i] = step[i][g[i - 1]]
  <2> HIDE DEF step
  <2> DEFINE V == Seq(S)
  <2>1. step \in [Nat -> [V -> V]] /\ <<>> \in V
    BY <1>3
  <2> HIDE DEF V
  <2>2. \E g \in [0 .. n -> V] : Recurses(g, <<>>, step, n)
    BY <2>1, RecursionDefines
  <2> QED BY <2>2 DEF V, Recurses
<1>5. \A i \in 1 .. n : g[i] = g[i - 1] \o e[i]
  <2> TAKE i \in 1 .. n
  <2>1. i \in Nat /\ i - 1 \in 0 .. n
    OBVIOUS
  <2>2. g[i - 1] \in Seq(S)
    BY <2>1
  <2> QED BY <1>4, <2>1, <2>2
<1>6. g[1] = e[1]
  <2>1. 1 \in 1 .. n /\ 1 - 1 = 0
    BY <1>1
  <2>2. g[1] = g[0] \o e[1] /\ g[0] = <<>> /\ e[1] \in Seq(S)
    BY <1>2, <1>4, <1>5, <2>1
  <2> QED BY <2>2, ConcatEmptySeq
<1> DEFINE h == [i \in 1 .. n |-> g[i]]
<1>7. Flat(h)
  <2>1. ASSUME NEW i \in 1 .. n PROVE h[i] = IF i = 1 THEN e[i] ELSE h[i - 1] \o e[i]
    <3>1. CASE i = 1
      BY <1>6, <3>1
    <3>2. CASE i # 1
      <4>1. i - 1 \in 1 .. n
        BY <3>2
      <4> QED BY <1>5, <3>2, <4>1
    <3> QED BY <3>1, <3>2
  <2> QED BY <1>1, <2>1
<1> DEFINE f == CHOOSE k : Flat(k)
<1>8. Flat(f)
  <2> HIDE DEF h, Flat
  <2> QED BY <1>7
<1>9. FlattenSeq(e) = f[n]
  BY <1>1 DEF FlattenSeq
<1> HIDE DEF f
<1>10. DOMAIN f = 1 .. n /\ \A i \in 1 .. n : f[i] = IF i = 1 THEN e[i] ELSE f[i - 1] \o e[i]
  BY <1>1, <1>8
<1> HIDE DEF Flat
<1>11. f[1] = e[1]
  <2>1. 1 \in 1 .. n
    BY <1>1
  <2> QED BY <1>10, <2>1
<1>12. ASSUME NEW i \in 1 .. n, NEW j \in 1 .. n, j = i + 1 PROVE f[j] = f[i] \o e[j]
  <2>1. j # 1 /\ j - 1 = i
    BY <1>12
  <2> QED BY <1>10, <2>1
<1> QED BY <1>1, <1>9, <1>10, <1>11, <1>12

(* A list of what the first m chains hold, without repetition if they have none. *)
Lists(q, e, m) ==
  /\ \A p \in 1 .. Len(q) : \E s \in 1 .. m : \E i \in 1 .. Len(e[s]) : q[p] = e[s][i]
  /\ \A s \in 1 .. m : \A i \in 1 .. Len(e[s]) : \E p \in 1 .. Len(q) : q[p] = e[s][i]
  /\ Distinct(e) => \A p, r \in 1 .. Len(q) : q[p] = q[r] => p = r

LEMMA ListGrows ==
  ASSUME NEW S, NEW e \in Seq(Seq(S)), NEW m \in Nat, NEW k \in 1 .. Len(e), k = m + 1,
         NEW q \in Seq(S), Lists(q, e, m)
  PROVE  q \o e[k] \in Seq(S) /\ Lists(q \o e[k], e, k)
<1> DEFINE c == e[k]
           l == q \o c
<1>1. /\ 1 .. m \subseteq 1 .. k /\ k \notin 1 .. m /\ c \in Seq(S) /\ Len(c) \in Nat /\ Len(q) \in Nat
      /\ l \in Seq(S) /\ Len(l) = Len(q) + Len(c)
  BY LenProperties, ConcatProperties
<1>2. \A p \in 1 .. Len(q) : p \in 1 .. Len(l) /\ l[p] = q[p]
  BY <1>1, ConcatProperties
<1>3. \A i \in 1 .. Len(c) : Len(q) + i \in 1 .. Len(l) /\ l[Len(q) + i] = c[i]
  <2> TAKE i \in 1 .. Len(c)
  <2>1. Len(q) + i \in 1 .. Len(q) + Len(c) /\ ~(Len(q) + i <= Len(q)) /\ Len(q) + i - Len(q) = i
    BY <1>1
  <2> QED BY <1>1, <2>1, ConcatProperties
<1>4. ASSUME NEW p \in 1 .. Len(l), p \notin 1 .. Len(q) PROVE p - Len(q) \in 1 .. Len(c)
  BY <1>1, <1>4
<1>5. \A p \in 1 .. Len(l) : \/ p \in 1 .. Len(q) /\ l[p] = q[p]
                             \/ \E i \in 1 .. Len(c) : p = Len(q) + i /\ l[p] = c[i]
  <2> TAKE p \in 1 .. Len(l)
  <2>1. CASE p \in 1 .. Len(q)
    BY <1>2, <2>1
  <2>2. CASE p \notin 1 .. Len(q)
    <3>1. p - Len(q) \in 1 .. Len(c) /\ p = Len(q) + (p - Len(q))
      BY <1>1, <1>4, <2>2
    <3> QED BY <1>3, <3>1
  <2> QED BY <2>1, <2>2
<1> HIDE DEF l
<1>6. ASSUME NEW p \in 1 .. Len(l)
      PROVE  \E s \in 1 .. k : \E i \in 1 .. Len(e[s]) : l[p] = e[s][i]
  <2>1. CASE p \in 1 .. Len(q) /\ l[p] = q[p]
    <3>1. PICK s \in 1 .. m : \E i \in 1 .. Len(e[s]) : q[p] = e[s][i]
      BY <2>1 DEF Lists
    <3> QED BY <1>1, <2>1, <3>1
  <2>2. CASE \E i \in 1 .. Len(c) : l[p] = c[i]
    BY <1>1, <2>2
  <2> QED BY <1>5, <2>1, <2>2
<1>7. ASSUME NEW s \in 1 .. k, NEW i \in 1 .. Len(e[s])
      PROVE  \E p \in 1 .. Len(l) : l[p] = e[s][i]
  <2>1. CASE s \in 1 .. m
    <3>1. PICK p \in 1 .. Len(q) : q[p] = e[s][i]
      BY <2>1 DEF Lists
    <3> QED BY <1>2, <3>1
  <2>2. CASE s = k
    BY <1>3, <2>2
  <2> QED BY <2>1, <2>2
<1>8. ASSUME Distinct(e), NEW p \in 1 .. Len(l), NEW r \in 1 .. Len(l), l[p] = l[r]
      PROVE  p = r
  <2>1. ASSUME NEW x \in 1 .. Len(q), NEW i \in 1 .. Len(c) PROVE q[x] # c[i]
    <3>1. PICK s \in 1 .. m : \E j \in 1 .. Len(e[s]) : q[x] = e[s][j]
      BY DEF Lists
    <3>2. s \in 1 .. Len(e) /\ s # k
      BY <1>1
    <3> QED BY <1>8, <3>1, <3>2 DEF Distinct
  <2>2. CASE p \in 1 .. Len(q) /\ l[p] = q[p] /\ r \in 1 .. Len(q) /\ l[r] = q[r]
    BY <1>8, <2>2 DEF Lists
  <2>3. CASE /\ \E i \in 1 .. Len(c) : p = Len(q) + i /\ l[p] = c[i]
             /\ \E i \in 1 .. Len(c) : r = Len(q) + i /\ l[r] = c[i]
    <3>1. PICK i \in 1 .. Len(c) : p = Len(q) + i /\ l[p] = c[i]
      BY <2>3
    <3>2. PICK j \in 1 .. Len(c) : r = Len(q) + j /\ l[r] = c[j]
      BY <2>3
    <3>3. k \in 1 .. Len(e) /\ i \in 1 .. Len(e[k]) /\ j \in 1 .. Len(e[k]) /\ e[k][i] = e[k][j]
      BY <1>1, <1>8, <3>1, <3>2
    <3>4. i = j
      <4>1. Distinct(e)
        BY <1>8
      <4> QED BY ONLY <3>3, <4>1 DEF Distinct
    <3> QED BY <3>1, <3>2, <3>4
  <2> QED BY <1>5, <1>8, <2>1, <2>2, <2>3
<1>9. Lists(l, e, k)
  BY <1>6, <1>7, <1>8 DEF Lists
<1> QED BY <1>1, <1>9 DEF l

(* FlattenSeq lists what all chains hold.                                      *)
LEMMA FlattenLists ==
  ASSUME NEW S, NEW e \in Seq(Seq(S)), Len(e) # 0
  PROVE  FlattenSeq(e) \in Seq(S) /\ Lists(FlattenSeq(e), e, Len(e))
<1>1. Len(e) \in Nat /\ Len(e) >= 1 /\ \A i \in 1 .. Len(e) : e[i] \in Seq(S)
  BY LenProperties
<1>2. PICK h : /\ h[1] = e[1]
               /\ \A i \in 1 .. Len(e), j \in 1 .. Len(e) : j = i + 1 => h[j] = h[i] \o e[j]
               /\ FlattenSeq(e) = h[Len(e)]
  BY FlattenedStepwise
<1> DEFINE Good(m) == h[m] \in Seq(S) /\ Lists(h[m], e, m)
           T == {m \in Nat : m \in 1 .. Len(e) => Good(m)}
<1>3. Good(1)
  <2>1. <<>> \in Seq(S) /\ Lists(<<>>, e, 0)
    BY EmptySeq DEF Lists
  <2>2. 1 \in 1 .. Len(e) /\ 0 \in Nat /\ 1 = 0 + 1
    BY <1>1
  <2>3. <<>> \o e[1] \in Seq(S) /\ Lists(<<>> \o e[1], e, 1)
    BY ONLY <2>1, <2>2, ListGrows, e \in Seq(Seq(S))
  <2>4. <<>> \o e[1] = e[1]
    BY <1>1, ConcatEmptySeq
  <2> QED BY <1>2, <2>3, <2>4
<1>4. 0 \in T
  OBVIOUS
<1>5. ASSUME NEW m \in Nat, m \in T PROVE m + 1 \in T
  <2>1. SUFFICES ASSUME NEW k \in 1 .. Len(e), k = m + 1 PROVE Good(k)
    OBVIOUS
  <2>2. CASE m = 0
    BY <1>3, <2>1, <2>2
  <2>3. CASE m # 0
    <3>1. m \in 1 .. Len(e)
      BY <1>1, <2>1, <2>3
    <3>2. Good(m) /\ h[k] = h[m] \o e[k]
      BY <1>2, <1>5, <2>1, <3>1
    <3>3. h[m] \o e[k] \in Seq(S) /\ Lists(h[m] \o e[k], e, k)
      BY <2>1, <3>2, ListGrows
    <3> QED BY <3>2, <3>3
  <2> QED BY <2>2, <2>3
<1>6. Nat \subseteq T
  <2> HIDE DEF T
  <2> QED BY <1>4, <1>5, NaturalInduction
<1>7. Len(e) \in T
  <2> HIDE DEF T
  <2> QED BY <1>1, <1>6
<1> QED BY <1>1, <1>2, <1>7
-----------------------------------------------------------------------------
(* F gives the sum of w over each subset of 1..n, in whatever order it is added. *)
SumsOver(F, w, n) == /\ F \in [SUBSET (1 .. n) -> Nat]
                     /\ F[{}] = 0
                     /\ \A s \in SUBSET (1 .. n) : \A x \in s : F[s] = w[x] + F[s \ {x}]

LEMMA SumsExist ==
  ASSUME NEW w \in [Nat -> Nat], NEW n \in Nat
  PROVE  \E F : SumsOver(F, w, n)
<1> DEFINE T == {m \in Nat : \E F : SumsOver(F, w, m)}
<1>1. 0 \in T
  <2> DEFINE F == [s \in SUBSET (1 .. 0) |-> 0]
  <2>1. SUBSET (1 .. 0) = {{}}
    <3>1. 1 .. 0 = {}
      OBVIOUS
    <3> QED BY ONLY <3>1, Zenon
  <2>2. F \in [SUBSET (1 .. 0) -> Nat] /\ F[{}] = 0
    BY <2>1
  <2>3. \A s \in SUBSET (1 .. 0) : \A x \in s : FALSE
    BY <2>1
  <2> HIDE DEF F
  <2>4. SumsOver(F, w, 0)
    BY <2>2, <2>3 DEF SumsOver
  <2> QED BY <2>4
<1>2. ASSUME NEW m \in Nat, m \in T PROVE m + 1 \in T
  <2>1. PICK F : SumsOver(F, w, m)
    BY <1>2
  <2> DEFINE Own(s) == IF m + 1 \in s THEN w[m + 1] ELSE 0
             G == [s \in SUBSET (1 .. m + 1) |-> Own(s) + F[s \ {m + 1}]]
  <2>2. \A s \in SUBSET (1 .. m + 1) : s \ {m + 1} \in SUBSET (1 .. m)
    OBVIOUS
  <2>3. \A s \in SUBSET (1 .. m + 1) : Own(s) \in Nat /\ F[s \ {m + 1}] \in Nat
    BY <2>1, <2>2 DEF SumsOver
  <2>4. G \in [SUBSET (1 .. m + 1) -> Nat]
    <3> HIDE DEF Own
    <3>1. ASSUME NEW s \in SUBSET (1 .. m + 1) PROVE Own(s) + F[s \ {m + 1}] \in Nat
      <4>1. Own(s) \in Nat /\ F[s \ {m + 1}] \in Nat
        BY <2>3
      <4>2. \A i, j \in Nat : i + j \in Nat
        OBVIOUS
      <4> QED BY ONLY <4>1, <4>2
    <3> QED BY ONLY <3>1, Zenon DEF G
  <2>5. G[{}] = 0
    <3>1. {} \in SUBSET (1 .. m + 1) /\ {} \ {m + 1} = {} /\ Own({}) = 0
      OBVIOUS
    <3>2. F[{}] = 0
      BY <2>1 DEF SumsOver
    <3> QED BY <3>1, <3>2
  <2>6. ASSUME NEW s \in SUBSET (1 .. m + 1), NEW x \in s PROVE G[s] = w[x] + G[s \ {x}]
    <3>1. s \ {x} \in SUBSET (1 .. m + 1)
      OBVIOUS
    <3>2. G[s] = Own(s) + F[s \ {m + 1}] /\ G[s \ {x}] = Own(s \ {x}) + F[(s \ {x}) \ {m + 1}]
      BY <3>1
    <3>3. Own(s) \in Nat /\ Own(s \ {x}) \in Nat /\ F[s \ {m + 1}] \in Nat
          /\ F[(s \ {x}) \ {m + 1}] \in Nat /\ w[x] \in Nat
      BY <2>3, <3>1
    <3>4. CASE x = m + 1
      <4>1. (s \ {x}) \ {m + 1} = s \ {m + 1} /\ Own(s) = w[x] /\ Own(s \ {x}) = 0
        BY <3>4
      <4>2. F[(s \ {x}) \ {m + 1}] = F[s \ {m + 1}]
        BY ONLY <4>1, Zenon
      <4> HIDE DEF G, Own
      <4> QED BY ONLY <3>2, <3>3, <4>1, <4>2
    <3>5. CASE x # m + 1
      <4>1. (s \ {x}) \ {m + 1} = (s \ {m + 1}) \ {x} /\ x \in s \ {m + 1} /\ Own(s \ {x}) = Own(s)
        BY <3>5
      <4>2. F[s \ {m + 1}] = w[x] + F[(s \ {m + 1}) \ {x}]
        BY <2>1, <2>2, <4>1 DEF SumsOver
      <4>3. F[(s \ {x}) \ {m + 1}] = F[(s \ {m + 1}) \ {x}]
        BY ONLY <4>1, Zenon
      <4> HIDE DEF G, Own
      <4> QED BY ONLY <3>2, <3>3, <4>1, <4>2, <4>3
    <3> QED BY <3>4, <3>5
  <2> HIDE DEF G
  <2>7. SumsOver(G, w, m + 1)
    BY <2>4, <2>5, <2>6 DEF SumsOver
  <2> QED BY <2>7
<1>3. Nat \subseteq T
  <2> HIDE DEF T
  <2> QED BY <1>1, <1>2, NaturalInduction
<1> QED BY <1>3

(* Whatever takes one element after the other comes to that sum.               *)
Adds(g, w, D, n) == /\ D \subseteq 1 .. n
                    /\ g[{}] = 0
                    /\ \A s \in SUBSET D : s # {} => \E x \in s : g[s] = w[x] + g[s \ {x}]

LEMMA SumsAreUnique ==
  ASSUME NEW n \in Nat, NEW w, NEW F, SumsOver(F, w, n), NEW D, NEW g, Adds(g, w, D, n)
  PROVE  \A s \in SUBSET D : g[s] = F[s]
<1>0. D \subseteq 1 .. n
  BY DEF Adds
<1> DEFINE one == [i \in Nat |-> 1]
<1>1. PICK C : SumsOver(C, one, n)
  <2>1. one \in [Nat -> Nat]
    OBVIOUS
  <2> HIDE DEF one
  <2> QED BY <2>1, SumsExist
<1>2. /\ \A s \in SUBSET D : C[s] \in Nat
      /\ \A s \in SUBSET D : \A x \in s : C[s] = 1 + C[s \ {x}]
  <2>1. \A s \in SUBSET D : s \in SUBSET (1 .. n) /\ \A x \in s : x \in Nat
    BY <1>0
  <2> QED BY <1>1, <2>1 DEF SumsOver
<1> HIDE DEF one
<1> DEFINE T == {m \in Nat : \A s \in SUBSET D : C[s] = m => g[s] = F[s]}
<1>3. 0 \in T
  <2> SUFFICES ASSUME NEW s \in SUBSET D, C[s] = 0 PROVE g[s] = F[s]
    OBVIOUS
  <2>1. ASSUME NEW x \in s PROVE FALSE
    <3>1. s \ {x} \in SUBSET D
      OBVIOUS
    <3>2. C[s] = 1 + C[s \ {x}] /\ C[s \ {x}] \in Nat
      BY <1>2, <3>1
    <3> QED BY <3>2
  <2>2. s = {}
    BY <2>1
  <2> QED BY <2>2 DEF Adds, SumsOver
<1>4. ASSUME NEW m \in Nat, m \in T PROVE m + 1 \in T
  <2> SUFFICES ASSUME NEW s \in SUBSET D, C[s] = m + 1 PROVE g[s] = F[s]
    OBVIOUS
  <2>1. CASE s = {}
    BY <2>1 DEF Adds, SumsOver
  <2>2. CASE s # {}
    <3>1. PICK x \in s : g[s] = w[x] + g[s \ {x}]
      BY <2>2 DEF Adds
    <3>2. s \ {x} \in SUBSET D /\ s \in SUBSET (1 .. n)
      BY <1>0
    <3>3. C[s \ {x}] \in Nat /\ C[s] = 1 + C[s \ {x}]
      BY <1>2, <3>2
    <3>4. C[s \ {x}] = m
      BY <3>3
    <3>5. g[s \ {x}] = F[s \ {x}]
      BY <1>4, <3>2, <3>4
    <3>6. F[s] = w[x] + F[s \ {x}]
      BY <3>2 DEF SumsOver
    <3> QED BY <3>1, <3>5, <3>6
  <2> QED BY <2>1, <2>2
<1>5. Nat \subseteq T
  <2> HIDE DEF T
  <2> QED BY <1>3, <1>4, NaturalInduction
<1> QED BY <1>2, <1>5

(* Along all the numbers, too.                                                 *)
StepOn(step, V) == step \in [Nat -> [V -> V]]
IteratesFrom(g, V, v, step) == g \in [Nat -> V] /\ g[0] = v /\ \A i \in Nat : i # 0 => g[i] = step[i][g[i - 1]]

LEMMA IterationExists ==
  ASSUME NEW V, NEW v \in V, NEW step, StepOn(step, V)
  PROVE  \E g : IteratesFrom(g, V, v, step)
<1> USE DEF StepOn
<1> DEFINE upto(n) == CHOOSE g : g \in [0 .. n -> V] /\ Recurses(g, v, step, n)
<1>1. \A n \in Nat : upto(n) \in [0 .. n -> V] /\ Recurses(upto(n), v, step, n)
  <2> TAKE n \in Nat
  <2>1. \E g : g \in [0 .. n -> V] /\ Recurses(g, v, step, n)
    BY RecursionDefines
  <2> QED BY <2>1
<1> HIDE DEF upto
<1>2. ASSUME NEW n \in Nat
      PROVE  \A i \in Nat : i <= n => upto(n + 1)[i] = upto(n)[i]
  <2> DEFINE T == {i \in Nat : i <= n => upto(n + 1)[i] = upto(n)[i]}
  <2>1. Recurses(upto(n), v, step, n) /\ Recurses(upto(n + 1), v, step, n + 1)
    BY <1>1
  <2>2. 0 \in T
    BY <2>1 DEF Recurses
  <2>3. ASSUME NEW i \in Nat, i \in T PROVE i + 1 \in T
    <3>1. SUFFICES ASSUME i + 1 <= n PROVE upto(n + 1)[i + 1] = upto(n)[i + 1]
      OBVIOUS
    <3>2. i + 1 \in 1 .. n /\ i + 1 \in 1 .. n + 1 /\ (i + 1) - 1 = i /\ i <= n
      BY <3>1
    <3>3. upto(n)[i + 1] = step[i + 1][upto(n)[(i + 1) - 1]]
      BY <2>1, <3>2 DEF Recurses
    <3>4. upto(n + 1)[i + 1] = step[i + 1][upto(n + 1)[(i + 1) - 1]]
      BY <2>1, <3>2 DEF Recurses
    <3> QED BY <2>3, <3>2, <3>3, <3>4
  <2>4. Nat \subseteq T
    <3> HIDE DEF T
    <3> QED BY <2>2, <2>3, NaturalInduction
  <2> QED BY <2>4
<1> DEFINE g == [n \in Nat |-> upto(n)[n]]
<1>3. \A n \in Nat : upto(n)[n] \in V
  <2> TAKE n \in Nat
  <2>1. upto(n) \in [0 .. n -> V] /\ n \in 0 .. n
    BY <1>1
  <2> QED BY <2>1
<1>4. g \in [Nat -> V]
  BY <1>3
<1>5. g[0] = v
  BY <1>1 DEF Recurses
<1>6. ASSUME NEW i \in Nat, i # 0 PROVE g[i] = step[i][g[i - 1]]
  <2>1. i - 1 \in Nat /\ (i - 1) + 1 = i /\ i - 1 <= i - 1 /\ i \in 1 .. i
    BY <1>6
  <2>2. upto((i - 1) + 1)[i - 1] = upto(i - 1)[i - 1]
    BY <1>2, <2>1
  <2>3. upto(i)[i] = step[i][upto(i)[i - 1]]
    BY <1>1, <2>1 DEF Recurses
  <2> QED BY <2>1, <2>2, <2>3
<1> QED BY <1>4, <1>5, <1>6 DEF IteratesFrom

LEMMA RecursionOnNat ==
  ASSUME NEW V, NEW v \in V, NEW step \in [Nat -> [V -> V]]
  PROVE  \E g \in [Nat -> V] : g[0] = v /\ \A i \in Nat : i # 0 => g[i] = step[i][g[i - 1]]
<1>1. StepOn(step, V)
  BY DEF StepOn
<1>2. \E g : IteratesFrom(g, V, v, step)
  BY <1>1, IterationExists
<1> QED BY <1>2 DEF IteratesFrom

(* What the sequences of a sequence come to, one after the other.              *)
Growth(h, e, S) == /\ h \in [0 .. Len(e) -> Seq(S)]
                   /\ h[0] = <<>>
                   /\ \A i, j \in 0 .. Len(e) : j = i + 1 => h[j] = h[i] \o e[j]

LEMMA FlattenGrows ==
  ASSUME NEW S, NEW e \in Seq(Seq(S))
  PROVE  \E h : Growth(h, e, S) /\ FlattenSeq(e) = h[Len(e)]
<1>1. PICK n \in Nat : n = Len(e)
  BY LenProperties
<1>2. CASE n = 0
  <2> DEFINE h == [i \in 0 .. 0 |-> <<>>]
  <2>1. e = <<>>
    BY <1>1, <1>2, EmptySeq
  <2>2. FlattenSeq(e) = <<>>
    BY <1>1, <1>2, <2>1 DEF FlattenSeq
  <2>3. <<>> \in Seq(S)
    BY EmptySeq
  <2>4. \A i, j \in 0 .. 0 : ~(j = i + 1)
    OBVIOUS
  <2>5. Growth(h, e, S) /\ h[0] = <<>>
    BY <1>1, <1>2, <2>3, <2>4 DEF Growth
  <2> QED BY <1>1, <1>2, <2>2, <2>5
<1>3. CASE n # 0
  <2>1. PICK f : /\ f[1] = e[1]
                 /\ \A i \in 1 .. Len(e), j \in 1 .. Len(e) : j = i + 1 => f[j] = f[i] \o e[j]
                 /\ FlattenSeq(e) = f[Len(e)]
    BY <1>1, <1>3, FlattenedStepwise
  <2>2. \A i \in 1 .. n : e[i] \in Seq(S)
    BY <1>1, ElementOfSeq
  <2> DEFINE T == {i \in Nat : i \in 1 .. n => f[i] \in Seq(S)}
  <2>3. 0 \in T
    OBVIOUS
  <2>4. ASSUME NEW i \in Nat, i \in T PROVE i + 1 \in T
    <3> SUFFICES ASSUME i + 1 \in 1 .. n PROVE f[i + 1] \in Seq(S)
      OBVIOUS
    <3>1. CASE i = 0
      BY <2>1, <2>2, <3>1
    <3>2. CASE i # 0
      <4>1. i \in 1 .. n
        BY <3>2
      <4>2. f[i + 1] = f[i] \o e[i + 1]
        BY <1>1, <2>1, <4>1
      <4> QED BY <2>2, <2>4, <4>1, <4>2, ConcatProperties
    <3> QED BY <3>1, <3>2
  <2>5. Nat \subseteq T
    <3> HIDE DEF T
    <3> QED BY <2>3, <2>4, NaturalInduction
  <2>6. \A i \in 1 .. n : f[i] \in Seq(S)
    BY <2>5
  <2> DEFINE h == [i \in 0 .. Len(e) |-> IF i = 0 THEN <<>> ELSE f[i]]
  <2>7. h \in [0 .. Len(e) -> Seq(S)] /\ h[0] = <<>>
    BY <1>1, <2>6, EmptySeq
  <2>8. ASSUME NEW i \in 0 .. Len(e), NEW j \in 0 .. Len(e), j = i + 1 PROVE h[j] = h[i] \o e[j]
    <3>1. CASE i = 0
      <4>1. e[1] \in Seq(S) /\ j = 1
        BY <1>1, <1>3, <2>2, <2>8, <3>1
      <4>2. <<>> \o e[1] = e[1]
        BY <4>1, ConcatEmptySeq
      <4>3. h[j] = e[1] /\ h[i] = <<>>
        BY <2>1, <3>1, <4>1
      <4> QED BY <4>1, <4>2, <4>3
    <3>2. CASE i # 0
      <4>1. i \in 1 .. Len(e) /\ j \in 1 .. Len(e) /\ j # 0
        BY <1>1, <2>8, <3>2
      <4>2. f[j] = f[i] \o e[j]
        BY <2>1, <2>8, <4>1
      <4> QED BY <3>2, <4>1, <4>2
    <3> QED BY <3>1, <3>2
  <2>9. FlattenSeq(e) = h[Len(e)]
    BY <1>1, <1>3, <2>1
  <2> HIDE DEF h
  <2> QED BY <2>7, <2>8, <2>9 DEF Growth
<1> QED BY <1>2, <1>3

LEMMA GrowthIsUnique ==
  ASSUME NEW S, NEW e \in Seq(Seq(S)), NEW g, Growth(g, e, S), NEW f \in Seq(Seq(S)), NEW h, Growth(h, f, S),
         Len(e) <= Len(f), \A i \in 1 .. Len(e) : f[i] = e[i]
  PROVE  \A i \in 0 .. Len(e) : h[i] = g[i]
<1>1. PICK n \in Nat : n = Len(e)
  BY LenProperties
<1>2. PICK m \in Nat : m = Len(f)
  BY LenProperties
<1> DEFINE T == {i \in Nat : i \in 0 .. n => h[i] = g[i]}
<1>3. 0 \in T
  BY DEF Growth
<1>4. ASSUME NEW i \in Nat, i \in T PROVE i + 1 \in T
  <2> SUFFICES ASSUME i + 1 \in 0 .. n PROVE h[i + 1] = g[i + 1]
    OBVIOUS
  <2>1. /\ i \in 0 .. Len(e) /\ i \in 0 .. Len(f) /\ i + 1 \in 0 .. Len(e) /\ i + 1 \in 0 .. Len(f)
        /\ i + 1 \in 1 .. Len(e) /\ i \in 0 .. n
    BY <1>1, <1>2
  <2>2. g[i + 1] = g[i] \o e[i + 1] /\ h[i + 1] = h[i] \o f[i + 1]
    BY <2>1 DEF Growth
  <2> QED BY <1>4, <2>1, <2>2
<1>5. Nat \subseteq T
  <2> HIDE DEF T
  <2> QED BY <1>3, <1>4, NaturalInduction
<1> QED BY <1>1, <1>5

LEMMA FlattenAppend ==
  ASSUME NEW S, NEW e \in Seq(Seq(S)), NEW x \in Seq(S)
  PROVE  /\ FlattenSeq(e) \in Seq(S)
         /\ FlattenSeq(Append(e, x)) = FlattenSeq(e) \o x
<1> DEFINE f == Append(e, x)
<1>1. PICK n \in Nat : n = Len(e)
  BY LenProperties
<1>2. f \in Seq(Seq(S)) /\ Len(f) = n + 1 /\ f[n + 1] = x /\ \A i \in 1 .. n : f[i] = e[i]
  BY <1>1, AppendProperties
<1> HIDE DEF f
<1>3. PICK g : Growth(g, e, S) /\ FlattenSeq(e) = g[n]
  BY <1>1, FlattenGrows
<1>4. PICK h : Growth(h, f, S) /\ FlattenSeq(f) = h[n + 1]
  BY <1>2, FlattenGrows
<1>5. \A i \in 0 .. n : h[i] = g[i]
  <2>1. Len(e) <= Len(f) /\ \A i \in 1 .. Len(e) : f[i] = e[i]
    BY <1>1, <1>2
  <2>2. \A i \in 0 .. Len(e) : h[i] = g[i]
    BY ONLY <1>2, <1>3, <1>4, <2>1, GrowthIsUnique, e \in Seq(Seq(S))
  <2> QED BY <1>1, <2>2
<1>6. h[n + 1] = h[n] \o f[n + 1]
  <2>1. n \in 0 .. Len(f) /\ n + 1 \in 0 .. Len(f)
    BY <1>2
  <2> QED BY <1>4, <2>1 DEF Growth
<1>7. h[n] = g[n] /\ g[n] \in Seq(S)
  <2>1. n \in 0 .. n /\ n \in 0 .. Len(e)
    BY <1>1
  <2> QED BY <1>3, <1>5, <2>1 DEF Growth
<1> QED BY <1>2, <1>3, <1>4, <1>6, <1>7 DEF f
LEMMA Regroup ==
  ASSUME NEW S
  PROVE  \A p, q, r \in Seq(S) : p \o (q \o r) = (p \o q) \o r
<1>1. ASSUME NEW p \in Seq(S), NEW q \in Seq(S), NEW r \in Seq(S)
      PROVE  p \o (q \o r) = (p \o q) \o r
  BY ConcatAssociative
<1> QED BY <1>1
-----------------------------------------------------------------------------
(* Induction along a rank: what holds where it holds for all of a lower rank   *)
(* holds everywhere.                                                           *)
LEMMA RankInduction ==
  ASSUME NEW D, NEW rank \in [D -> Nat], NEW T,
         \A d \in D : (\A x \in D : rank[x] < rank[d] => x \in T) => d \in T
  PROVE  D \subseteq T
<1> DEFINE Q == {n \in Nat : \A d \in D : rank[d] < n => d \in T}
<1>1. 0 \in Q
  OBVIOUS
<1>2. ASSUME NEW n \in Nat, n \in Q PROVE n + 1 \in Q
  <2>1. ASSUME NEW d \in D, rank[d] < n + 1 PROVE d \in T
    <3>1. rank[d] \in Nat
      OBVIOUS
    <3>2. \A x \in D : rank[x] \in Nat
      OBVIOUS
    <3>3. \A x \in D : rank[x] < rank[d] => rank[x] < n
      BY <2>1, <3>1, <3>2
    <3>4. \A x \in D : rank[x] < n => x \in T
      BY <1>2
    <3> QED BY <3>3, <3>4
  <2> QED BY <2>1
<1>3. Nat \subseteq Q
  <2> HIDE DEF Q
  <2> QED BY <1>1, <1>2, NaturalInduction
<1>4. ASSUME NEW d \in D PROVE d \in T
  <2>1. rank[d] \in Nat /\ rank[d] + 1 \in Nat /\ rank[d] < rank[d] + 1
    OBVIOUS
  <2>2. rank[d] + 1 \in Q
    BY <2>1, <1>3
  <2> QED BY <2>1, <2>2
<1> QED BY <1>4

(* A recursion that asks only for what has a lower rank defines a function.    *)
AsksBelow(next, D, V, rank) ==
  /\ rank \in [D -> Nat]
  /\ next \in [[D -> V] -> [D -> V]]
  /\ \A g, h \in [D -> V] : \A d \in D :
       (\A x \in D : rank[x] < rank[d] => g[x] = h[x]) => next[g][d] = next[h][d]

LEMMA RankedRecursion ==
  ASSUME NEW D, NEW V, NEW v \in V, NEW rank, NEW next, AsksBelow(next, D, V, rank)
  PROVE  \E f : f \in [D -> V] /\ f = next[f]
<1> USE DEF AsksBelow
<1> DEFINE W == [D -> V]
           none == [d \in D |-> v]
           step == [n \in Nat |-> next]
<1>1. none \in W
  OBVIOUS
<1>2. StepOn(step, W)
  BY DEF StepOn
<1>20. \E g : IteratesFrom(g, W, none, step)
  <2> HIDE DEF W, none, step
  <2> QED BY ONLY <1>1, <1>2, IterationExists
<1> PICK g \in [Nat -> W] : g[0] = none /\ \A i \in Nat : i # 0 => g[i] = step[i][g[i - 1]]
  <2> HIDE DEF W, none, step
  <2> QED BY <1>20 DEF IteratesFrom
<1>3. \A n \in Nat : g[n] \in W
  OBVIOUS
<1>4. \A n \in Nat : g[n + 1] = next[g[n]]
  <2> TAKE n \in Nat
  <2>1. n + 1 \in Nat /\ n + 1 # 0 /\ (n + 1) - 1 = n
    OBVIOUS
  <2>2. g[n + 1] = step[n + 1][g[(n + 1) - 1]]
    BY <2>1
  <2> QED BY <2>1, <2>2
<1> HIDE DEF step, none
<1>5. \A d \in D : rank[d] \in Nat
  OBVIOUS
<1> DEFINE T == {d \in D : \A m, n \in Nat : rank[d] < m /\ rank[d] < n => g[m][d] = g[n][d]}
<1>6. ASSUME NEW d \in D, \A x \in D : rank[x] < rank[d] => x \in T PROVE d \in T
  <2>1. ASSUME NEW m \in Nat, NEW n \in Nat, rank[d] < m, rank[d] < n PROVE g[m][d] = g[n][d]
    <3>1. m - 1 \in Nat /\ n - 1 \in Nat /\ (m - 1) + 1 = m /\ (n - 1) + 1 = n
      BY <1>5, <2>1
    <3>2. \A x \in D : rank[x] < rank[d] => rank[x] < m - 1 /\ rank[x] < n - 1
      BY <1>5, <2>1
    <3>3. \A x \in D : rank[x] < rank[d] => g[m - 1][x] = g[n - 1][x]
      BY <1>6, <3>1, <3>2
    <3>4. g[m - 1] \in W /\ g[n - 1] \in W
      BY <1>3, <3>1
    <3>5. next[g[m - 1]][d] = next[g[n - 1]][d]
      BY <3>3, <3>4
    <3>6. g[m] = next[g[m - 1]] /\ g[n] = next[g[n - 1]]
      <4>1. g[(m - 1) + 1] = next[g[m - 1]] /\ g[(n - 1) + 1] = next[g[n - 1]]
        BY <1>4, <3>1
      <4> QED BY <4>1, <3>1
    <3> QED BY <3>5, <3>6
  <2> QED BY <2>1
<1>7. D \subseteq T
  <2> HIDE DEF T
  <2> QED BY <1>6, RankInduction
<1> DEFINE f == [d \in D |-> g[rank[d] + 1][d]]
<1>8. \A d \in D : rank[d] + 1 \in Nat /\ rank[d] < rank[d] + 1
  BY <1>5
<1>9. f \in W
  <2>1. \A d \in D : g[rank[d] + 1] \in W
    BY <1>3, <1>8
  <2>2. \A d \in D : g[rank[d] + 1][d] \in V
    BY <2>1
  <2> QED BY <2>2
<1>10. ASSUME NEW d \in D PROVE f[d] = next[f][d]
  <2>1. \A x \in D : rank[x] < rank[d] => f[x] = g[rank[d]][x]
    BY <1>5, <1>7, <1>8
  <2>2. g[rank[d]] \in W
    BY <1>3, <1>5
  <2> HIDE DEF f
  <2>3. next[f][d] = next[g[rank[d]]][d]
    BY <1>9, <2>1, <2>2
  <2>4. g[rank[d] + 1] = next[g[rank[d]]]
    BY <1>4, <1>5
  <2>5. f[d] = g[rank[d] + 1][d]
    BY DEF f
  <2> QED BY <2>3, <2>4, <2>5
<1>11. next[f] \in W
  BY <1>9
<1>12. f = next[f]
  <2> HIDE DEF f
  <2>1. f \in [D -> V] /\ next[f] \in [D -> V]
    BY <1>9, <1>11
  <2> QED BY <2>1, <1>10
<1> QED BY <1>9, <1>12
=============================================================================
