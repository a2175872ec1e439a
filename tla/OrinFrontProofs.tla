--------------------------- MODULE OrinFrontProofs ---------------------------
(***************************************************************************)
(* For every set of texts, every set of words and of characters between    *)
(* them, and every room for tokens of two or more: the lexer's tokens fit  *)
(* into their list, the parser stays within it, what both hold has its     *)
(* type, and no name is declared twice where both declarations are seen.   *)
(* The invariant says where the lexer is, how the parser's goals lie in    *)
(* the tree of scopes, and what is on the stack of nodes while a           *)
(* declaration is parsed.                                                  *)
(***************************************************************************)
EXTENDS OrinFront, Induction

-----------------------------------------------------------------------------
(***************************************************************************)
(* Scopes. createSymbolTable (O_symbol_table.c) is called with the scope a *)
(* function works in: the scopes form a tree, and lookupSymbol climbs it.  *)
(* What is around a scope, and what is seen from it, is defined by         *)
(* recursion; by induction over the scopes both are what they should be,   *)
(* and stay so while scopes are added.                                     *)
(***************************************************************************)
(* A scope's parent was created before it.                                     *)
Tree(sc) == Len(sc) \in Nat /\ \A k \in 1 .. Len(sc) : sc[k].parent \in 0 .. k - 1

(* Visible and Around are recursions from a scope to its parent.               *)
AroundIn(sc, s) ==
  LET up[k \in 0 .. Len(sc)] == IF k = 0 THEN {} ELSE {k} \cup up[sc[k].parent] IN up[s]
VisibleIn(sc, s) ==
  LET upwards[k \in 0 .. Len(sc)] == IF k = 0 THEN {} ELSE sc[k].table \cup upwards[sc[k].parent]
  IN  upwards[s]

(* Both collect something of every scope on the way.                           *)
Gathers(g, sc, own) ==
  g = [k \in 0 .. Len(sc) |-> IF k = 0 THEN {} ELSE own[k] \cup g[sc[k].parent]]

(* Such a recursion defines a function: a parent is always an earlier scope.   *)
LEMMA GatheringDefines ==
  ASSUME NEW sc, Tree(sc), NEW S, NEW own \in [1 .. Len(sc) -> SUBSET S]
  PROVE  \E g : Gathers(g, sc, own)
<1> DEFINE n == Len(sc)
           V == SUBSET S
           step == [k \in Nat |-> [x \in V |-> IF k \in 1 .. n THEN own[k] \cup x ELSE x]]
           up == [k \in Nat |-> IF k \in 1 .. n THEN sc[k].parent ELSE 0]
<1>1. n \in Nat /\ {} \in V
  BY DEF Tree
<1>2. step \in [Nat -> [V -> V]]
  OBVIOUS
<1>3. up \in [Nat -> Nat] /\ \A k \in Nat : k # 0 => up[k] < k
  BY DEF Tree
<1>4. \A k \in 1 .. n : up[k] = sc[k].parent /\ up[k] \in 0 .. n /\ \A x \in V : step[k][x] = own[k] \cup x
  BY DEF Tree
<1> HIDE DEF n, V, step, up
<1>5. PICK g \in [0 .. n -> V] : Climbs(g, {}, step, up, n)
  BY <1>1, <1>2, <1>3, ClimbDefines
<1>6. g[0] = {} /\ \A k \in 1 .. n : g[k] = own[k] \cup g[sc[k].parent]
  BY <1>4, <1>5 DEF Climbs
<1>7. \A k \in 0 .. n : g[k] = IF k = 0 THEN {} ELSE own[k] \cup g[sc[k].parent]
  BY <1>1, <1>6
<1>8. g = [k \in 0 .. n |-> IF k = 0 THEN {} ELSE own[k] \cup g[sc[k].parent]]
  BY <1>5, <1>7
<1> QED BY <1>8 DEF Gathers, n

(* The scopes around a scope are it and those around its parent.               *)
LEMMA AroundClimbs ==
  ASSUME NEW sc, Tree(sc)
  PROVE  /\ AroundIn(sc, 0) = {}
         /\ \A k \in 1 .. Len(sc) : AroundIn(sc, k) = {k} \cup AroundIn(sc, sc[k].parent)
<1> DEFINE own == [k \in 1 .. Len(sc) |-> {k}]
           F(f) == f = [k \in 0 .. Len(sc) |-> IF k = 0 THEN {} ELSE {k} \cup f[sc[k].parent]]
           up == CHOOSE f : F(f)
<1>1. own \in [1 .. Len(sc) -> SUBSET (1 .. Len(sc))]
  OBVIOUS
<1>2. PICK g : Gathers(g, sc, own)
  BY <1>1, GatheringDefines
<1>3. \A k \in 0 .. Len(sc) : k # 0 => own[k] = {k}
  BY DEF Tree
<1>4. F(g)
  BY <1>2, <1>3 DEF Gathers
<1>5. F(up)
  BY <1>4
<1>6. \A s : AroundIn(sc, s) = up[s]
  BY DEF AroundIn
<1> HIDE DEF up
<1>7. up[0] = {} /\ \A k \in 1 .. Len(sc) : up[k] = {k} \cup up[sc[k].parent]
  BY <1>5 DEF Tree
<1> QED BY <1>6, <1>7

(* The names seen from a scope are its own and those seen from its parent.     *)
LEMMA VisibleClimbs ==
  ASSUME NEW sc, Tree(sc)
  PROVE  /\ VisibleIn(sc, 0) = {}
         /\ \A k \in 1 .. Len(sc) : VisibleIn(sc, k) = sc[k].table \cup VisibleIn(sc, sc[k].parent)
<1> DEFINE own == [k \in 1 .. Len(sc) |-> sc[k].table]
           S == UNION {sc[k].table : k \in 1 .. Len(sc)}
           F(f) == f = [k \in 0 .. Len(sc) |-> IF k = 0 THEN {} ELSE sc[k].table \cup f[sc[k].parent]]
           up == CHOOSE f : F(f)
<1>1. own \in [1 .. Len(sc) -> SUBSET S]
  OBVIOUS
<1>2. PICK g : Gathers(g, sc, own)
  BY <1>1, GatheringDefines
<1>3. \A k \in 0 .. Len(sc) : k # 0 => own[k] = sc[k].table
  BY DEF Tree
<1>4. F(g)
  BY <1>2, <1>3 DEF Gathers
<1>5. F(up)
  BY <1>4
<1>6. \A s : VisibleIn(sc, s) = up[s]
  BY DEF VisibleIn
<1> HIDE DEF up
<1>7. up[0] = {} /\ \A k \in 1 .. Len(sc) : up[k] = sc[k].table \cup up[sc[k].parent]
  BY <1>5 DEF Tree
<1> QED BY <1>6, <1>7

(* To show something of every scope it is enough to show it of 0, and of each  *)
(* scope when it holds of those before.                                        *)
LEMMA ScopeInduction ==
  ASSUME NEW n \in Nat, NEW T, 0 \in T, \A k \in 1 .. n : (0 .. k - 1) \subseteq T => k \in T
  PROVE  0 .. n \subseteq T
<1> SUFFICES ASSUME (0 .. n) \ T # {} PROVE FALSE
  OBVIOUS
<1>1. (0 .. n) \ T \subseteq Nat
  OBVIOUS
<1>2. PICK k \in (0 .. n) \ T : \A m \in (0 .. n) \ T : k <= m
  BY <1>1, LeastNatural
<1> QED BY <1>2

(* The scopes around a scope are created before it, and include all that are   *)
(* around them.                                                                *)
LEMMA AroundFacts ==
  ASSUME NEW sc, Tree(sc)
  PROVE  /\ \A s \in 0 .. Len(sc) : AroundIn(sc, s) \subseteq 1 .. s
         /\ \A s \in 1 .. Len(sc) : s \in AroundIn(sc, s) /\ AroundIn(sc, s) \subseteq 1 .. Len(sc)
         /\ \A s \in 0 .. Len(sc) : \A o \in AroundIn(sc, s) : AroundIn(sc, o) \subseteq AroundIn(sc, s)
<1> DEFINE A(s) == AroundIn(sc, s)
           T == {s \in 0 .. Len(sc) : A(s) \subseteq 1 .. s /\ \A o \in A(s) : A(o) \subseteq A(s)}
<1>1. A(0) = {} /\ \A k \in 1 .. Len(sc) : A(k) = {k} \cup A(sc[k].parent)
  BY AroundClimbs
<1>2. Len(sc) \in Nat /\ \A k \in 1 .. Len(sc) : sc[k].parent \in 0 .. k - 1
  BY DEF Tree
<1> HIDE DEF A
<1>3. 0 \in T
  BY <1>1, <1>2
<1>4. ASSUME NEW k \in 1 .. Len(sc), (0 .. k - 1) \subseteq T PROVE k \in T
  <2>1. sc[k].parent \in 0 .. k - 1 /\ sc[k].parent \in T
    BY <1>2, <1>4
  <2>2. A(k) = {k} \cup A(sc[k].parent) /\ A(sc[k].parent) \subseteq 1 .. sc[k].parent
    BY <1>1, <2>1
  <2>3. A(k) \subseteq 1 .. k
    BY <2>1, <2>2
  <2>4. ASSUME NEW o \in A(k) PROVE A(o) \subseteq A(k)
    BY <2>1, <2>2
  <2> QED BY <1>2, <2>3, <2>4
<1>5. 0 .. Len(sc) \subseteq T
  <2> HIDE DEF T
  <2> QED BY <1>2, <1>3, <1>4, ScopeInduction
<1>6. \A s \in 1 .. Len(sc) : s \in A(s) /\ A(s) \subseteq 1 .. Len(sc)
  BY <1>1, <1>2, <1>5
<1> QED BY <1>5, <1>6 DEF A

(* What is seen from a scope is what the scopes around it declare.             *)
LEMMA VisibleIsDeclaredAround ==
  ASSUME NEW sc, Tree(sc), NEW s \in 0 .. Len(sc), NEW name
  PROVE  name \in VisibleIn(sc, s) <=> \E o \in AroundIn(sc, s) : name \in sc[o].table
<1> DEFINE A(k) == AroundIn(sc, k)
           W(k) == VisibleIn(sc, k)
           P(k) == name \in W(k) <=> \E o \in A(k) : name \in sc[o].table
           T == {k \in 0 .. Len(sc) : P(k)}
<1>1. /\ A(0) = {} /\ W(0) = {}
      /\ \A k \in 1 .. Len(sc) : A(k) = {k} \cup A(sc[k].parent) /\ W(k) = sc[k].table \cup W(sc[k].parent)
  BY AroundClimbs, VisibleClimbs
<1>2. Len(sc) \in Nat /\ \A k \in 1 .. Len(sc) : sc[k].parent \in 0 .. k - 1
  BY DEF Tree
<1> HIDE DEF A, W
<1>3. 0 \in T
  <2>1. P(0)
    BY <1>1
  <2> HIDE DEF P
  <2> QED BY <1>2, <2>1
<1>4. ASSUME NEW k \in 1 .. Len(sc), (0 .. k - 1) \subseteq T PROVE k \in T
  <2> HIDE DEF P
  <2>1. P(sc[k].parent)
    BY <1>2, <1>4
  <2>2. P(k)
    BY <1>1, <2>1 DEF P
  <2> QED BY <1>2, <2>2
<1>5. 0 .. Len(sc) \subseteq T
  <2> HIDE DEF T
  <2> QED BY <1>2, <1>3, <1>4, ScopeInduction
<1> QED BY <1>5 DEF A, W, P

(* The scopes around a scope stay as they are while scopes are added and       *)
(* declare names.                                                              *)
LEMMA AroundStays ==
  ASSUME NEW sc, NEW sd, Tree(sc), Tree(sd), Len(sc) <= Len(sd),
         \A k \in 1 .. Len(sc) : sd[k].parent = sc[k].parent
  PROVE  \A s \in 0 .. Len(sc) : AroundIn(sd, s) = AroundIn(sc, s)
<1> DEFINE A(k) == AroundIn(sc, k)
           B(k) == AroundIn(sd, k)
           P(k) == B(k) = A(k)
           T == {k \in 0 .. Len(sc) : P(k)}
<1>1. /\ A(0) = {} /\ \A k \in 1 .. Len(sc) : A(k) = {k} \cup A(sc[k].parent)
      /\ B(0) = {} /\ \A k \in 1 .. Len(sd) : B(k) = {k} \cup B(sd[k].parent)
  BY AroundClimbs
<1>2. Len(sc) \in Nat /\ Len(sd) \in Nat /\ \A k \in 1 .. Len(sc) : sc[k].parent \in 0 .. k - 1
  BY DEF Tree
<1> HIDE DEF A, B
<1>3. 0 \in T
  <2>1. P(0)
    BY <1>1
  <2> HIDE DEF P
  <2> QED BY <1>2, <2>1
<1>4. ASSUME NEW k \in 1 .. Len(sc), (0 .. k - 1) \subseteq T PROVE k \in T
  <2> HIDE DEF P
  <2>1. P(sc[k].parent) /\ k \in 1 .. Len(sd) /\ sd[k].parent = sc[k].parent
    BY <1>2, <1>4
  <2>2. P(k)
    BY <1>1, <2>1 DEF P
  <2> QED BY <1>2, <2>2
<1>5. 0 .. Len(sc) \subseteq T
  <2> HIDE DEF T
  <2> QED BY <1>2, <1>3, <1>4, ScopeInduction
<1> QED BY <1>5 DEF A, B, P

-----------------------------------------------------------------------------
(***************************************************************************)
(* Goals and the scopes they belong to.                                    *)
(***************************************************************************)
(* Goals of no scope; goals that create a scope, declare a name or put such    *)
(* goals in their place; what a scope is.                                      *)
Bare == {"match", "leaf", "child"}
Openers == {"statement", "forInit", "insertSymbol", "else", "statements", "program"}
Scoping == [parent : Nat, table : SUBSET Value]

(* No two of the scopes around s declare the same name.                        *)
Apart(sc, s) == \A p, o \in AroundIn(sc, s) : p # o => sc[p].table \cap sc[o].table = {}

(* Goals whose scope exists and sees no name twice; goals of scope x; those of *)
(* them that leave the scopes as they are.                                     *)
Fitting(sc) == {g \in Goal : IF g.do \in Bare THEN g.scope = 0 ELSE g.scope \in 1 .. Len(sc) /\ Apart(sc, g.scope)}
Uniform(x) == {g \in Goal : IF g.do \in Bare THEN g.scope = 0 ELSE g.scope = x}
Plain(x) == {g \in Uniform(x) : g.do \notin Openers}

(* The goals after one that changes scopes belong to scopes around its own: a  *)
(* function that has called another goes on in the scope it had, or in one     *)
(* around it.                                                                  *)
Enclosing(sc, x) == {0} \cup AroundIn(sc, x)
Within(gs, sc, x) == \A j \in 1 .. Len(gs) : gs[j].scope \in Enclosing(sc, x)
Nested(gs, sc) ==
  /\ gs \in Seq(Fitting(sc))
  /\ \A i \in 1 .. Len(gs), j \in 1 .. Len(gs) : i < j /\ gs[i].do \in Openers => gs[j].scope \in Enclosing(sc, gs[i].scope)

LEMMA UniformFits ==
  ASSUME NEW sc, Tree(sc), NEW x \in 1 .. Len(sc), Apart(sc, x), NEW g \in Uniform(x)
  PROVE  g \in Fitting(sc) /\ g.scope \in Enclosing(sc, x) /\ (g.do \in Openers => g.scope = x)
<1>1. x \in AroundIn(sc, x)
  BY AroundFacts
<1>2. g.do \notin Bare => g.scope = x
  BY DEF Uniform
<1>3. g.do \in Openers => g.do \notin Bare
  BY DEF Bare, Openers
<1>4. g \in Goal /\ (g.do \in Bare => g.scope = 0)
  BY DEF Uniform
<1>5. g.scope \in Enclosing(sc, x)
  BY <1>1, <1>2, <1>4 DEF Enclosing
<1> QED BY <1>2, <1>3, <1>4, <1>5 DEF Fitting

LEMMA UniformNests ==
  ASSUME NEW sc, Tree(sc), NEW x \in 1 .. Len(sc), Apart(sc, x),
         NEW new \in Seq(Uniform(x)), NEW rest, Nested(rest, sc), Within(rest, sc, x)
  PROVE  Nested(new \o rest, sc) /\ Within(new \o rest, sc, x)
<1> DEFINE both == new \o rest
<1>1. \A i \in 1 .. Len(new) : /\ new[i] \in Fitting(sc) /\ new[i].scope \in Enclosing(sc, x)
                               /\ new[i].do \in Openers => new[i].scope = x
  <2> TAKE i \in 1 .. Len(new)
  <2>1. new[i] \in Uniform(x)
    BY ElementOfSeq
  <2> QED BY <2>1, UniformFits
<1>2. new \in Seq(Fitting(sc)) /\ rest \in Seq(Fitting(sc))
  <2>1. \A g \in Uniform(x) : g \in Fitting(sc)
    BY UniformFits
  <2> QED BY <2>1 DEF Nested
<1>3. /\ both \in Seq(Fitting(sc)) /\ Len(both) = Len(new) + Len(rest)
      /\ Len(new) \in Nat /\ Len(rest) \in Nat
      /\ \A i \in 1 .. Len(new) + Len(rest) : both[i] = IF i <= Len(new) THEN new[i] ELSE rest[i - Len(new)]
  BY <1>2, ConcatProperties, LenProperties, Zenon
<1> HIDE DEF both
<1>4. ASSUME NEW i \in 1 .. Len(both), i > Len(new)
      PROVE  i - Len(new) \in 1 .. Len(rest) /\ both[i] = rest[i - Len(new)]
  BY <1>3, <1>4
<1>5. ASSUME NEW i \in 1 .. Len(both), i <= Len(new)
      PROVE  i \in 1 .. Len(new) /\ both[i] = new[i]
  BY <1>3, <1>5
<1>6. \A i \in 1 .. Len(both) : both[i].scope \in Enclosing(sc, x)
  <2> TAKE i \in 1 .. Len(both)
  <2>1. CASE i <= Len(new)
    BY <1>1, <1>5, <2>1
  <2>2. CASE i > Len(new)
    BY <1>4, <2>2 DEF Within
  <2> QED BY <1>3, <2>1, <2>2
<1>7. ASSUME NEW i \in 1 .. Len(both), NEW j \in 1 .. Len(both), i < j, both[i].do \in Openers
      PROVE  both[j].scope \in Enclosing(sc, both[i].scope)
  <2>1. CASE i <= Len(new)
    <3>1. both[i].scope = x
      BY <1>1, <1>5, <1>7, <2>1
    <3> QED BY <1>6, <3>1
  <2>2. CASE i > Len(new)
    <3>1. j > Len(new) /\ i - Len(new) < j - Len(new)
      BY <1>3, <1>7, <2>2
    <3>2. /\ i - Len(new) \in 1 .. Len(rest) /\ both[i] = rest[i - Len(new)]
          /\ j - Len(new) \in 1 .. Len(rest) /\ both[j] = rest[j - Len(new)]
      BY <1>4, <2>2, <3>1
    <3> QED BY <1>7, <3>1, <3>2 DEF Nested
  <2> QED BY <1>3, <2>1, <2>2
<1> QED BY <1>3, <1>6, <1>7 DEF Nested, Within, both

LEMMA PlainNests ==
  ASSUME NEW sc, Tree(sc), NEW x \in 1 .. Len(sc), Apart(sc, x),
         NEW new \in Seq(Plain(x)), NEW rest, Nested(rest, sc)
  PROVE  Nested(new \o rest, sc)
<1> DEFINE both == new \o rest
<1>1. \A i \in 1 .. Len(new) : new[i].do \notin Openers
  <2> TAKE i \in 1 .. Len(new)
  <2>1. new[i] \in Plain(x)
    BY ElementOfSeq
  <2> QED BY <2>1 DEF Plain
<1>2. new \in Seq(Fitting(sc)) /\ rest \in Seq(Fitting(sc))
  <2>1. \A g \in Plain(x) : g \in Fitting(sc)
    BY UniformFits DEF Plain
  <2> QED BY <2>1 DEF Nested
<1>3. /\ both \in Seq(Fitting(sc)) /\ Len(both) = Len(new) + Len(rest)
      /\ Len(new) \in Nat /\ Len(rest) \in Nat
      /\ \A i \in 1 .. Len(new) + Len(rest) : both[i] = IF i <= Len(new) THEN new[i] ELSE rest[i - Len(new)]
  BY <1>2, ConcatProperties, LenProperties, Zenon
<1> HIDE DEF both
<1>4. ASSUME NEW i \in 1 .. Len(both), NEW j \in 1 .. Len(both), i < j, both[i].do \in Openers
      PROVE  both[j].scope \in Enclosing(sc, both[i].scope)
  <2>1. CASE i <= Len(new)
    BY <1>1, <1>3, <1>4, <2>1
  <2>2. CASE i > Len(new)
    <3>1. /\ i - Len(new) \in 1 .. Len(rest) /\ both[i] = rest[i - Len(new)]
          /\ j - Len(new) \in 1 .. Len(rest) /\ both[j] = rest[j - Len(new)]
          /\ i - Len(new) < j - Len(new)
      BY <1>3, <1>4, <2>2
    <3> QED BY <1>4, <3>1 DEF Nested
  <2> QED BY <1>3, <2>1, <2>2
<1> QED BY <1>3, <1>4 DEF Nested, both

LEMMA TailNests ==
  ASSUME NEW sc, Tree(sc), NEW gs, Nested(gs, sc), gs # <<>>
  PROVE  /\ Nested(Tail(gs), sc) /\ Head(gs) \in Fitting(sc)
         /\ Head(gs).do \in Openers => Within(Tail(gs), sc, Head(gs).scope)
<1>1. gs \in Seq(Fitting(sc))
  BY DEF Nested
<1>2. /\ Tail(gs) \in Seq(Fitting(sc)) /\ Len(Tail(gs)) = Len(gs) - 1 /\ Head(gs) = gs[1] /\ Head(gs) \in Fitting(sc)
      /\ Len(gs) \in Nat /\ 1 \in 1 .. Len(gs)
      /\ \A i \in 1 .. Len(gs) - 1 : Tail(gs)[i] = gs[i + 1] /\ i + 1 \in 1 .. Len(gs) /\ 1 < i + 1
  BY <1>1
<1>3. ASSUME NEW i \in 1 .. Len(Tail(gs)), NEW j \in 1 .. Len(Tail(gs)), i < j, Tail(gs)[i].do \in Openers
      PROVE  Tail(gs)[j].scope \in Enclosing(sc, Tail(gs)[i].scope)
  <2>1. i + 1 < j + 1 /\ i + 1 \in 1 .. Len(gs) /\ j + 1 \in 1 .. Len(gs) /\ Tail(gs)[i] = gs[i + 1] /\ Tail(gs)[j] = gs[j + 1]
    BY <1>2, <1>3
  <2> QED BY <1>3, <2>1 DEF Nested
<1>4. ASSUME gs[1].do \in Openers, NEW i \in 1 .. Len(Tail(gs)) PROVE Tail(gs)[i].scope \in Enclosing(sc, gs[1].scope)
  BY <1>2, <1>4 DEF Nested
<1> QED BY <1>2, <1>3, <1>4 DEF Nested, Within

LEMMA NestedStays ==
  ASSUME NEW sc, NEW sd, Tree(sc), Tree(sd), Len(sc) <= Len(sd),
         \A k \in 1 .. Len(sc) : sd[k].parent = sc[k].parent,
         NEW gs, Nested(gs, sc), \A i \in 1 .. Len(gs) : gs[i].do \notin Bare => Apart(sd, gs[i].scope)
  PROVE  Nested(gs, sd)
<1>1. \A s \in 0 .. Len(sc) : Enclosing(sd, s) = Enclosing(sc, s)
  BY AroundStays DEF Enclosing
<1>2. gs \in Seq(Fitting(sc)) /\ Len(gs) \in Nat /\ Len(sc) \in Nat /\ Len(sd) \in Nat
  BY LenProperties DEF Nested, Tree
<1>3. ASSUME NEW i \in 1 .. Len(gs)
      PROVE  gs[i] \in Fitting(sd) /\ (gs[i].do \in Openers => gs[i].scope \in 0 .. Len(sc))
  <2>1. gs[i] \in Fitting(sc)
    BY <1>2, ElementOfSeq
  <2> QED BY <1>2, <2>1 DEF Fitting, Openers, Bare
<1>4. gs \in Seq(Fitting(sd))
  BY <1>2, <1>3
<1>5. ASSUME NEW i \in 1 .. Len(gs), NEW j \in 1 .. Len(gs), i < j, gs[i].do \in Openers
      PROVE  gs[j].scope \in Enclosing(sd, gs[i].scope)
  <2>1. gs[j].scope \in Enclosing(sc, gs[i].scope)
    BY <1>5 DEF Nested
  <2> QED BY <1>1, <1>3, <1>5, <2>1
<1> QED BY <1>4, <1>5 DEF Nested

(* A scope is created.                                                         *)
Opens(sd, sc, s) == sd = Append(sc, [parent |-> s, table |-> {}])
LEMMA ScopeAdded ==
  ASSUME NEW sc \in Seq(Scoping), Tree(sc), NEW s \in 1 .. Len(sc), Apart(sc, s), NEW sd, Opens(sd, sc, s)
  PROVE  /\ sd \in Seq(Scoping) /\ Tree(sd) /\ Len(sd) = Len(sc) + 1 /\ Apart(sd, s) /\ Apart(sd, Len(sc) + 1)
         /\ \A gs : Nested(gs, sc) => Nested(gs, sd)
         /\ \A gs : Within(gs, sc, s) => Within(gs, sd, s)
         /\ \A gs : Within(gs, sd, s) => Within(gs, sd, Len(sc) + 1)
<1> DEFINE n == Len(sc) + 1
           new == [parent |-> s, table |-> {}]
<1>1. Len(sc) \in Nat /\ new \in Scoping
  BY DEF Tree, Scoping
<1>2. sd \in Seq(Scoping) /\ Len(sd) = n /\ sd[n] = new /\ \A k \in 1 .. Len(sc) : sd[k] = sc[k]
  BY <1>1 DEF Opens
<1>3. Tree(sd)
  <2> SUFFICES ASSUME NEW k \in 1 .. n PROVE sd[k].parent \in 0 .. k - 1
    BY <1>1, <1>2 DEF Tree
  <2>1. CASE k = n
    BY <1>1, <1>2, <2>1
  <2>2. CASE k # n
    <3>1. k \in 1 .. Len(sc)
      BY <1>1, <2>2
    <3> QED BY <1>2, <3>1 DEF Tree
  <2> QED BY <2>1, <2>2
<1>4. \A k \in 0 .. Len(sc) : AroundIn(sd, k) = AroundIn(sc, k)
  <2>1. Len(sc) <= Len(sd) /\ \A k \in 1 .. Len(sc) : sd[k].parent = sc[k].parent
    BY <1>1, <1>2
  <2> QED BY <1>3, <2>1, AroundStays
<1>5. /\ n \in 1 .. Len(sd) /\ s \in 0 .. Len(sc)
      /\ AroundIn(sd, n) = {n} \cup AroundIn(sc, s) /\ AroundIn(sc, s) \subseteq 1 .. Len(sc)
  <2>1. n \in 1 .. Len(sd) /\ s \in 0 .. Len(sc) /\ sd[n].parent = s
    BY <1>1, <1>2
  <2> HIDE DEF n
  <2>2. AroundIn(sd, n) = {n} \cup AroundIn(sd, sd[n].parent)
    BY <1>3, <2>1, AroundClimbs
  <2>3. AroundIn(sc, s) \subseteq 1 .. Len(sc)
    BY AroundFacts
  <2> QED BY <1>4, <2>1, <2>2, <2>3
<1>6. ASSUME NEW k \in 1 .. Len(sc), Apart(sc, k) PROVE Apart(sd, k)
  <2>1. k \in 0 .. Len(sc) /\ AroundIn(sc, k) \subseteq 1 .. Len(sc)
    BY <1>1, AroundFacts
  <2>2. AroundIn(sd, k) = AroundIn(sc, k)
    BY <1>4, <2>1
  <2> QED BY <1>2, <1>6, <2>1, <2>2 DEF Apart
<1>7. Apart(sd, n)
  <2>1. sd[n].table = {}
    BY <1>2
  <2>2. \A p, o \in AroundIn(sc, s) : p # o => sd[p].table \cap sd[o].table = {}
    BY <1>4, <1>5, <1>6 DEF Apart
  <2> QED BY <1>5, <2>1, <2>2 DEF Apart
<1>8. ASSUME NEW gs, Nested(gs, sc) PROVE Nested(gs, sd)
  <2>1. \A i \in 1 .. Len(gs) : gs[i].do \notin Bare => Apart(sd, gs[i].scope)
    <3> TAKE i \in 1 .. Len(gs)
    <3>1. gs[i] \in Fitting(sc)
      BY <1>8, ElementOfSeq DEF Nested
    <3> QED BY <1>6, <3>1 DEF Fitting
  <2>2. Len(sc) <= Len(sd) /\ \A k \in 1 .. Len(sc) : sd[k].parent = sc[k].parent
    BY <1>1, <1>2
  <2> QED BY <1>3, <1>8, <2>1, <2>2, NestedStays
<1>9. Enclosing(sd, s) = Enclosing(sc, s) /\ Enclosing(sd, s) \subseteq Enclosing(sd, n)
  BY <1>4, <1>5 DEF Enclosing
<1> QED BY <1>2, <1>3, <1>6, <1>7, <1>8, <1>9 DEF Within

Replaced(r, q, i, e) == r = [q EXCEPT ![i] = e]
LEMMA ReplacedElement ==
  ASSUME NEW S, NEW q \in Seq(S), NEW i \in 1 .. Len(q), NEW e \in S, NEW r, Replaced(r, q, i, e)
  PROVE  r \in Seq(S) /\ Len(r) = Len(q) /\ \A j \in 1 .. Len(q) : r[j] = IF j = i THEN e ELSE q[j]
BY ExceptSeq DEF Replaced

(* A name is declared that is not seen.                                        *)
Declares(sd, sc, s, name) == sd = [sc EXCEPT ![s].table = @ \cup {name}]
LEMMA NameAdded ==
  ASSUME NEW sc \in Seq(Scoping), Tree(sc), NEW s \in 1 .. Len(sc), Apart(sc, s),
         NEW name \in Value, name \notin VisibleIn(sc, s),
         NEW sd, Declares(sd, sc, s, name),
         NEW gs, Nested(gs, sc), Within(gs, sc, s)
  PROVE  sd \in Seq(Scoping) /\ Tree(sd) /\ Len(sd) = Len(sc) /\ Nested(gs, sd)
<1> DEFINE new == [sc[s] EXCEPT !.table = @ \cup {name}]
<1>1. Len(sc) \in Nat /\ sc[s] \in Scoping
  BY ElementOfSeq DEF Tree
<1>2. new \in Scoping /\ new.parent = sc[s].parent /\ new.table = sc[s].table \cup {name}
  BY <1>1 DEF Scoping
<1> HIDE DEF new
<1>3. /\ sd \in Seq(Scoping) /\ Len(sd) = Len(sc)
      /\ \A k \in 1 .. Len(sc) : sd[k] = IF k = s THEN new ELSE sc[k]
  <2>1. Replaced(sd, sc, s, new)
    BY DEF Declares, Replaced, new
  <2> QED BY <1>2, <2>1, ReplacedElement
<1>4. \A k \in 1 .. Len(sc) : sd[k].parent = sc[k].parent /\ sd[k].table \subseteq sc[k].table \cup {name}
                              /\ (k # s => sd[k].table = sc[k].table)
  BY <1>2, <1>3
<1>5. Len(sc) <= Len(sd) /\ \A k \in 1 .. Len(sc) : sd[k].parent = sc[k].parent
  BY <1>1, <1>3, <1>4
<1>6. Tree(sd)
  BY <1>1, <1>3, <1>4 DEF Tree
<1>7. \A k \in 0 .. Len(sc) : AroundIn(sd, k) = AroundIn(sc, k)
  BY <1>5, <1>6, AroundStays
<1>8. /\ s \in AroundIn(sc, s) /\ AroundIn(sc, s) \subseteq 1 .. Len(sc)
      /\ \A o \in AroundIn(sc, s) : AroundIn(sc, o) \subseteq AroundIn(sc, s)
      /\ \A o \in AroundIn(sc, s) : name \notin sc[o].table
  <2>1. s \in 0 .. Len(sc)
    BY <1>1
  <2> QED BY <2>1, AroundFacts, VisibleIsDeclaredAround
<1>9. \A p, o \in AroundIn(sc, s) : p # o => sd[p].table \cap sd[o].table = {}
  BY <1>4, <1>8 DEF Apart
<1>10. ASSUME NEW i \in 1 .. Len(gs), gs[i].do \notin Bare PROVE Apart(sd, gs[i].scope)
  <2>1. gs[i] \in Fitting(sc) /\ gs[i].scope \in Enclosing(sc, s)
    BY ElementOfSeq DEF Nested, Within
  <2>2. gs[i].scope \in 1 .. Len(sc) /\ gs[i].scope \in AroundIn(sc, s)
    BY <1>10, <2>1 DEF Fitting, Enclosing
  <2>3. gs[i].scope \in 0 .. Len(sc)
    BY <1>1, <2>2
  <2>4. AroundIn(sd, gs[i].scope) \subseteq AroundIn(sc, s)
    BY <1>7, <1>8, <2>2, <2>3
  <2> QED BY <1>9, <2>4 DEF Apart
<1> QED BY <1>3, <1>5, <1>6, <1>10, NestedStays

-----------------------------------------------------------------------------
(***************************************************************************)
(* The stack of unfinished nodes. Every parse function returns one node;   *)
(* the model keeps them on a stack, and a function's goals take and leave  *)
(* as many as it does.                                                     *)
(***************************************************************************)
(* The goals a declaration puts between the look-up of its name and            *)
(* insertSymbol: each adds a node to the stack of unfinished nodes, takes one  *)
(* from it, or leaves their number as it is, and a goal that continues an      *)
(* expression has an operand on the stack.                                     *)
Pushers == {"primary", "multiplicative", "additive", "expression"}
Loops == {"factors", "terms", "comparisons"}
Inner == Bare \cup Pushers \cup Loops \cup {"initializer"}
Effect(g) == IF g.do \in Pushers THEN 1 ELSE IF g.do = "child" THEN -1 ELSE 0

(* May(g, h, a): with a nodes on the stack g does not reach below the node at  *)
(* height h. Heights and Takes: the goals gs start with a nodes, end with b,   *)
(* and never reach below h.                                                    *)
May(g, h, a) == a >= h /\ a + Effect(g) >= h /\ (g.do \in Loops => a > h)
Heights(gs, h, at) ==
  /\ at \in [1 .. Len(gs) + 1 -> Nat]
  /\ at[Len(gs) + 1] >= h
  /\ \A i \in 1 .. Len(gs) : at[i + 1] = at[i] + Effect(gs[i]) /\ May(gs[i], h, at[i])
Takes(gs, h, a, b) ==
  /\ gs \in Seq({g \in Goal : g.do \in Inner})
  /\ \E at : Heights(gs, h, at) /\ at[1] = a /\ at[Len(gs) + 1] = b

LEMMA TakesNone ==
  ASSUME NEW h \in Nat, NEW a \in Nat, a >= h
  PROVE  Takes(<<>>, h, a, a)
<1>1. Heights(<<>>, h, [i \in 1 .. 1 |-> a]) /\ [i \in 1 .. 1 |-> a][1] = a /\ Len(<<>>) = 0
  BY DEF Heights
<1> HIDE DEF Heights
<1> QED BY <1>1 DEF Takes

LEMMA TakesOne ==
  ASSUME NEW h \in Nat, NEW a \in Nat, NEW g \in Goal, g.do \in Inner, May(g, h, a)
  PROVE  Takes(<<g>>, h, a, a + Effect(g))
<1> DEFINE at == [i \in 1 .. 2 |-> IF i = 1 THEN a ELSE a + Effect(g)]
<1>1. a + Effect(g) \in Nat /\ a + Effect(g) >= h
  BY DEF May, Effect
<1>2. at \in [1 .. 2 -> Nat] /\ at[1] = a /\ at[2] = a + Effect(g)
  BY <1>1
<1> HIDE DEF at
<1>3. Len(<<g>>) = 1 /\ <<g>>[1] = g
  OBVIOUS
<1>4. Heights(<<g>>, h, at)
  BY <1>1, <1>2, <1>3 DEF Heights
<1>5. <<g>> \in Seq({x \in Goal : x.do \in Inner})
  OBVIOUS
<1> QED BY <1>2, <1>3, <1>4, <1>5 DEF Takes

LEMMA TakesBoth ==
  ASSUME NEW h \in Nat, NEW a, NEW b, NEW c, NEW gs, NEW hs, Takes(gs, h, a, b), Takes(hs, h, b, c)
  PROVE  Takes(gs \o hs, h, a, c)
<1> DEFINE S == {g \in Goal : g.do \in Inner}
           m == Len(gs)
           n == Len(hs)
           both == gs \o hs
<1>1. gs \in Seq(S) /\ hs \in Seq(S)
  BY DEF Takes
<1>2. PICK f : Heights(gs, h, f) /\ f[1] = a /\ f[m + 1] = b
  BY DEF Takes
<1>3. PICK g : Heights(hs, h, g) /\ g[1] = b /\ g[n + 1] = c
  BY DEF Takes
<1> HIDE DEF S
<1>4. /\ both \in Seq(S) /\ Len(both) = m + n /\ m \in Nat /\ n \in Nat
      /\ \A i \in 1 .. m + n : both[i] = IF i <= m THEN gs[i] ELSE hs[i - m]
  BY <1>1, ConcatProperties, LenProperties, Zenon
<1> HIDE DEF both, m, n
<1> DEFINE at == [i \in 1 .. m + n + 1 |-> IF i <= m THEN f[i] ELSE g[i - m]]
<1>5. /\ f \in [1 .. m + 1 -> Nat] /\ g \in [1 .. n + 1 -> Nat] /\ g[n + 1] >= h
      /\ \A i \in 1 .. m : f[i + 1] = f[i] + Effect(gs[i]) /\ May(gs[i], h, f[i])
      /\ \A i \in 1 .. n : g[i + 1] = g[i] + Effect(hs[i]) /\ May(hs[i], h, g[i])
  BY <1>2, <1>3 DEF Heights, m, n
<1>6. at \in [1 .. m + n + 1 -> Nat]
  BY <1>4, <1>5
<1>7. at[1] = a /\ at[m + n + 1] = c
  BY <1>2, <1>3, <1>4
<1>8. ASSUME NEW i \in 1 .. m + n
      PROVE  at[i + 1] = at[i] + Effect(both[i]) /\ May(both[i], h, at[i])
  <2>1. CASE i < m
    <3>1. at[i] = f[i] /\ at[i + 1] = f[i + 1] /\ both[i] = gs[i] /\ i \in 1 .. m
      BY <1>4, <2>1
    <3> QED BY <1>5, <3>1
  <2>2. CASE i = m
    <3>1. at[i] = f[i] /\ at[i + 1] = g[1] /\ both[i] = gs[i] /\ i \in 1 .. m
      BY <1>4, <2>2
    <3> QED BY <1>2, <1>3, <1>5, <2>2, <3>1
  <2>3. CASE i > m
    <3>1. i - m \in 1 .. n /\ i + 1 - m = (i - m) + 1 /\ ~(i <= m) /\ ~(i + 1 <= m) /\ i + 1 \in 1 .. m + n + 1
      BY <1>4, <2>3
    <3>2. at[i] = g[i - m] /\ at[i + 1] = g[(i - m) + 1] /\ both[i] = hs[i - m]
      BY <1>4, <3>1
    <3> QED BY <1>5, <3>1, <3>2
  <2> QED BY <1>4, <2>1, <2>2, <2>3
<1> HIDE DEF at
<1>9. Heights(both, h, at)
  BY <1>3, <1>4, <1>5, <1>6, <1>7, <1>8 DEF Heights, n
<1> QED BY <1>4, <1>7, <1>9 DEF Takes, S, both

LEMMA TakesTail ==
  ASSUME NEW h \in Nat, NEW a, NEW b, NEW gs, Takes(gs, h, a, b), gs # <<>>
  PROVE  /\ a \in Nat /\ Head(gs) \in Goal /\ Head(gs).do \in Inner /\ May(Head(gs), h, a)
         /\ Takes(Tail(gs), h, a + Effect(Head(gs)), b)
<1> DEFINE S == {g \in Goal : g.do \in Inner}
           m == Len(gs)
<1>1. gs \in Seq(S)
  BY DEF Takes
<1>2. PICK f : Heights(gs, h, f) /\ f[1] = a /\ f[m + 1] = b
  BY DEF Takes
<1>3. /\ m \in Nat /\ m >= 1 /\ Head(gs) = gs[1] /\ Head(gs) \in S
      /\ Tail(gs) \in Seq(S) /\ Len(Tail(gs)) = m - 1
      /\ \A i \in 1 .. m - 1 : Tail(gs)[i] = gs[i + 1]
  BY <1>1
<1>4. /\ f \in [1 .. m + 1 -> Nat] /\ f[m + 1] >= h
      /\ \A i \in 1 .. m : f[i + 1] = f[i] + Effect(gs[i]) /\ May(gs[i], h, f[i])
  BY <1>2 DEF Heights
<1>5. Head(gs) \in Goal /\ Head(gs).do \in Inner
  BY <1>3
<1> DEFINE t == Tail(gs)
           at == [i \in 1 .. m |-> f[i + 1]]
<1> HIDE DEF m, S, t
<1>6. Len(t) = m - 1 /\ at \in [1 .. Len(t) + 1 -> Nat] /\ at[1] = f[2] /\ at[Len(t) + 1] = f[m + 1]
  BY <1>3, <1>4 DEF t
<1>7. ASSUME NEW i \in 1 .. Len(t)
      PROVE  at[i + 1] = at[i] + Effect(t[i]) /\ May(t[i], h, at[i])
  <2>1. t[i] = gs[i + 1] /\ i + 1 \in 1 .. m /\ at[i] = f[i + 1] /\ at[i + 1] = f[(i + 1) + 1]
    BY <1>3, <1>6 DEF t
  <2> QED BY <1>4, <2>1
<1>8. f[2] = a + Effect(Head(gs)) /\ May(Head(gs), h, a) /\ a \in Nat
  <2>1. 1 \in 1 .. m /\ 1 \in 1 .. m + 1 /\ 1 + 1 = 2
    BY <1>3
  <2> QED BY <1>2, <1>3, <1>4, <2>1
<1> HIDE DEF at
<1>9. Heights(t, h, at)
  BY <1>4, <1>6, <1>7 DEF Heights
<1>10. Takes(t, h, a + Effect(Head(gs)), b)
  BY <1>2, <1>3, <1>6, <1>8, <1>9 DEF Takes, S, t, m
<1> QED BY <1>5, <1>8, <1>10 DEF t

LEMMA ConcatOne ==
  ASSUME NEW S, NEW a \in S, NEW s \in Seq(S)
  PROVE  /\ <<a>> \o s \in Seq(S) /\ <<a>> \o s # <<>> /\ Head(<<a>> \o s) = a /\ Tail(<<a>> \o s) = s
OBVIOUS

LEMMA Pairs == \A a, b : <<a, b>> = <<a>> \o <<b>>
<1> TAKE a, b
<1> DEFINE S == {a, b}
<1>1. <<a>> \in Seq(S) /\ <<b>> \in Seq(S) /\ Len(<<a>>) = 1 /\ Len(<<b>>) = 1 /\ <<a>>[1] = a /\ <<b>>[1] = b
  OBVIOUS
<1>2. /\ <<a>> \o <<b>> \in Seq(S) /\ Len(<<a>> \o <<b>>) = 2
      /\ (<<a>> \o <<b>>)[1] = a /\ (<<a>> \o <<b>>)[2] = b
  BY <1>1
<1>3. <<a, b>> \in Seq(S) /\ Len(<<a, b>>) = 2 /\ <<a, b>>[1] = a /\ <<a, b>>[2] = b
  OBVIOUS
<1> DEFINE x == <<a, b>>
           y == <<a>> \o <<b>>
<1>4. Len(x) = Len(y) /\ x \in Seq(S) /\ y \in Seq(S) /\ \A i \in 1 .. Len(x) : x[i] = y[i]
  BY <1>2, <1>3
<1> HIDE DEF x, y, S
<1>5. x = y
  BY <1>4, SeqEqual
<1> QED BY <1>5 DEF x, y
LEMMA Triples == \A a, b, c : <<a, b, c>> = <<a>> \o <<b, c>>
<1> TAKE a, b, c
<1> DEFINE S == {a, b, c}
<1>1. /\ <<a>> \in Seq(S) /\ <<b, c>> \in Seq(S) /\ Len(<<a>>) = 1 /\ Len(<<b, c>>) = 2
      /\ <<a>>[1] = a /\ <<b, c>>[1] = b /\ <<b, c>>[2] = c
  OBVIOUS
<1>2. /\ <<a>> \o <<b, c>> \in Seq(S) /\ Len(<<a>> \o <<b, c>>) = 3
      /\ (<<a>> \o <<b, c>>)[1] = a /\ (<<a>> \o <<b, c>>)[2] = b /\ (<<a>> \o <<b, c>>)[3] = c
  BY <1>1
<1>3. <<a, b, c>> \in Seq(S) /\ Len(<<a, b, c>>) = 3 /\ <<a, b, c>>[1] = a /\ <<a, b, c>>[2] = b /\ <<a, b, c>>[3] = c
  OBVIOUS
<1> DEFINE x == <<a, b, c>>
           y == <<a>> \o <<b, c>>
<1>4. Len(x) = Len(y) /\ x \in Seq(S) /\ y \in Seq(S) /\ \A i \in 1 .. Len(x) : x[i] = y[i]
  BY <1>2, <1>3
<1> HIDE DEF x, y, S
<1>5. x = y
  BY <1>4, SeqEqual
<1> QED BY <1>5 DEF x, y
LEMMA Quadruples == \A a, b, c, d : <<a, b, c, d>> = <<a>> \o <<b, c, d>>
<1> TAKE a, b, c, d
<1> DEFINE S == {a, b, c, d}
<1>1. /\ <<a>> \in Seq(S) /\ <<b, c, d>> \in Seq(S) /\ Len(<<a>>) = 1 /\ Len(<<b, c, d>>) = 3
      /\ <<a>>[1] = a /\ <<b, c, d>>[1] = b /\ <<b, c, d>>[2] = c /\ <<b, c, d>>[3] = d
  OBVIOUS
<1>2. /\ <<a>> \o <<b, c, d>> \in Seq(S) /\ Len(<<a>> \o <<b, c, d>>) = 4
      /\ (<<a>> \o <<b, c, d>>)[1] = a /\ (<<a>> \o <<b, c, d>>)[2] = b
      /\ (<<a>> \o <<b, c, d>>)[3] = c /\ (<<a>> \o <<b, c, d>>)[4] = d
  BY <1>1
<1>3. <<a, b, c, d>> \in Seq(S) /\ Len(<<a, b, c, d>>) = 4
      /\ <<a, b, c, d>>[1] = a /\ <<a, b, c, d>>[2] = b /\ <<a, b, c, d>>[3] = c /\ <<a, b, c, d>>[4] = d
  OBVIOUS
<1> DEFINE x == <<a, b, c, d>>
           y == <<a>> \o <<b, c, d>>
<1>4. Len(x) = Len(y) /\ x \in Seq(S) /\ y \in Seq(S) /\ \A i \in 1 .. Len(x) : x[i] = y[i]
  BY <1>2, <1>3
<1> HIDE DEF x, y, S
<1>5. x = y
  BY <1>4, SeqEqual
<1> QED BY <1>5 DEF x, y

-----------------------------------------------------------------------------
(***************************************************************************)
(* A declaration under way: from the look-up of its name to insertSymbol.  *)
(***************************************************************************)
(* Due: the goals up to insertSymbol of scope s end with the node at height h  *)
(* on top, and there is no other insertSymbol after it.                        *)
Others == {g \in Goal : g.do # "insertSymbol"}
Due(gs, s, h, a) ==
  \E pre, post : Takes(pre, h, a, h) /\ post \in Seq(Others) /\ gs = pre \o (<<Call("insertSymbol", s)>> \o post)

LEMMA DueSplits ==
  ASSUME NEW s \in Nat, NEW h \in Nat, NEW a, NEW gs, Due(gs, s, h, a)
  PROVE  \/ Head(gs) = Call("insertSymbol", s) /\ a = h /\ Tail(gs) \in Seq(Others)
         \/ /\ Head(gs) \in Goal /\ Head(gs).do \in Inner /\ May(Head(gs), h, a) /\ a \in Nat
            /\ Due(Tail(gs), s, h, a + Effect(Head(gs)))
<1> DEFINE ins == Call("insertSymbol", s)
           I == {g \in Goal : g.do \in Inner}
<1>1. PICK pre, post : Takes(pre, h, a, h) /\ post \in Seq(Others) /\ gs = pre \o (<<ins>> \o post)
  BY DEF Due
<1>2. pre \in Seq(I) /\ ins \in Goal
  BY <1>1 DEF Takes, Call, Goal, Calls
<1>3. post \in Seq(Goal) /\ pre \in Seq(Goal) /\ <<ins>> \o post \in Seq(Goal)
  BY <1>1, <1>2 DEF Others
<1>4. CASE pre = <<>>
  <2>1. gs = <<ins>> \o post
    BY <1>1, <1>3, <1>4
  <2>2. Head(gs) = ins /\ Tail(gs) = post
    BY <1>2, <1>3, <2>1
  <2>3. a = h
    <3>1. PICK at : at[1] = a /\ at[Len(pre) + 1] = h
      BY <1>1 DEF Takes
    <3> QED BY <1>4, <3>1
  <2> QED BY <1>1, <2>2, <2>3
<1>5. CASE pre # <<>>
  <2>1. /\ a \in Nat /\ Head(pre) \in Goal /\ Head(pre).do \in Inner /\ May(Head(pre), h, a)
        /\ Takes(Tail(pre), h, a + Effect(Head(pre)), h)
    BY <1>1, <1>5, TakesTail
  <2> DEFINE rest == <<ins>> \o post
  <2>2. rest \in Seq(Goal) /\ gs = pre \o rest
    BY <1>1, <1>3
  <2> HIDE DEF rest
  <2>3. Head(gs) = Head(pre) /\ Tail(gs) = Tail(pre) \o rest
    BY <1>3, <1>5, <2>2
  <2>4. Due(Tail(gs), s, h, a + Effect(Head(pre)))
    BY <1>1, <2>1, <2>3 DEF Due, rest
  <2> QED BY <2>1, <2>3, <2>4
<1> QED BY <1>4, <1>5

LEMMA DueAfter ==
  ASSUME NEW s \in Nat, NEW h \in Nat, NEW a, NEW b, NEW gs, NEW new, Takes(new, h, b, a), Due(gs, s, h, a)
  PROVE  Due(new \o gs, s, h, b)
<1> DEFINE ins == Call("insertSymbol", s)
<1>1. PICK pre, post : Takes(pre, h, a, h) /\ post \in Seq(Others) /\ gs = pre \o (<<ins>> \o post)
  BY DEF Due
<1>2. Takes(new \o pre, h, b, h)
  BY <1>1, TakesBoth
<1>3. pre \in Seq(Goal) /\ new \in Seq(Goal) /\ post \in Seq(Goal)
  BY <1>1 DEF Takes, Others
<1> DEFINE rest == <<ins>> \o post
<1>4. rest \in Seq(Goal)
  <2>1. ins \in Goal
    BY DEF Call, Goal, Calls
  <2> HIDE DEF ins
  <2> QED BY <1>3, <2>1
<1>5. gs = pre \o rest
  BY <1>1
<1> HIDE DEF rest
<1>6. new \o gs = (new \o pre) \o rest
  BY <1>3, <1>4, <1>5, ConcatAssociative
<1> QED BY <1>1, <1>2, <1>6 DEF Due, rest

(* The goals of a declaration before the name is looked up.                    *)
AsksNow(gs, s, a) == gs # <<>> /\ Head(gs) = Call("absent", s) /\ Due(Tail(gs), s, a, a)
AsksAfterName(gs, s, a) == gs # <<>> /\ Head(gs).do = "leaf" /\ AsksNow(Tail(gs), s, a)
AsksAfterType(gs, s, a) == gs # <<>> /\ Head(gs).do = "leaf" /\ AsksAfterName(Tail(gs), s, a)

(* A list is a sequence, of whatever.                                          *)
IsList(s) == \E S : s \in Seq(S)

(* A node, with the children it has so far; a DECLARATION whose name (its      *)
(* second child) was looked up in scope s and is not seen from there; one      *)
(* whose name is still to be looked up.                                        *)
NodeLike(n) == n = [type |-> n.type, value |-> n.value, children |-> n.children] /\ IsList(n.children)
Chosen(n, sc, s) == /\ NodeLike(n) /\ Len(n.children) >= 2
                    /\ n.children[2].value \in Value /\ n.children[2].value \notin VisibleIn(sc, s)
Unasked(n, gs, s, a) ==
  /\ NodeLike(n)
  /\ \/ Len(n.children) = 0 /\ AsksAfterType(gs, s, a)
     \/ Len(n.children) = 1 /\ AsksAfterName(gs, s, a)
     \/ Len(n.children) = 2 /\ n.children[2].value \in Value /\ AsksNow(gs, s, a)

(* Nothing is being declared; or the name of the node at height h was looked   *)
(* up and is to be inserted; or the innermost node is a declaration whose name *)
(* is not looked up yet.                                                       *)
DeclInv ==
  \/ goals \in Seq(Others)
  \/ \E s \in Nat, h \in 1 .. Len(built) : Due(goals, s, h, Len(built)) /\ Chosen(built[h], scopes, s)
  \/ \E s \in Nat : Len(built) >= 1 /\ Unasked(built[Len(built)], goals, s, Len(built))

LEMMA AppendIsList ==
  ASSUME NEW s, NEW x, IsList(s)
  PROVE  /\ IsList(Append(s, x)) /\ Len(s) \in Nat /\ Len(Append(s, x)) = Len(s) + 1
         /\ Append(s, x)[Len(s) + 1] = x /\ \A i \in 1 .. Len(s) : Append(s, x)[i] = s[i]
<1>1. PICK S : s \in Seq(S)
  BY DEF IsList
<1>2. s \in Seq(S \cup {x}) /\ x \in S \cup {x}
  BY <1>1
<1> QED
  BY <1>2 DEF IsList

LEMMA ChildAdded ==
  ASSUME NEW n, NEW c, NodeLike(n)
  PROVE  /\ NodeLike(AddChild(n, c)) /\ Len(n.children) \in Nat
         /\ Len(AddChild(n, c).children) = Len(n.children) + 1
         /\ AddChild(n, c).children[Len(n.children) + 1] = c
         /\ \A i \in 1 .. Len(n.children) : AddChild(n, c).children[i] = n.children[i]
<1> DEFINE k == Append(n.children, c)
           m == AddChild(n, c)
<1>1. n = [type |-> n.type, value |-> n.value, children |-> n.children]
  BY DEF NodeLike
<1>2. m = [n EXCEPT !.children = k]
  BY DEF AddChild
<1> HIDE DEF k, m
<1>3. m = [type |-> n.type, value |-> n.value, children |-> k]
  BY <1>1, <1>2
<1>4. m.type = n.type /\ m.value = n.value /\ m.children = k
  BY <1>3
<1>5. m = [type |-> m.type, value |-> m.value, children |-> m.children]
  BY <1>3, <1>4
<1>6. /\ IsList(k) /\ Len(n.children) \in Nat /\ Len(k) = Len(n.children) + 1
      /\ k[Len(n.children) + 1] = c /\ \A i \in 1 .. Len(n.children) : k[i] = n.children[i]
  BY AppendIsList DEF NodeLike, k
<1> QED BY <1>4, <1>5, <1>6 DEF NodeLike, m

LEMMA ChosenStays ==
  ASSUME NEW n, NEW m, NEW sc, NEW s, Chosen(n, sc, s), m = n \/ \E c : m = AddChild(n, c)
  PROVE  Chosen(m, sc, s)
<1>1. CASE \E c : m = AddChild(n, c)
  <2>1. PICK c : m = AddChild(n, c)
    BY <1>1
  <2>2. /\ NodeLike(m) /\ Len(n.children) \in Nat /\ Len(m.children) = Len(n.children) + 1
        /\ \A i \in 1 .. Len(n.children) : m.children[i] = n.children[i]
    BY <2>1, ChildAdded DEF Chosen
  <2>3. Len(m.children) >= 2 /\ m.children[2] = n.children[2]
    BY <2>2 DEF Chosen
  <2> QED BY <2>2, <2>3 DEF Chosen
<1> QED BY <1>1

LEMMA InnerIsApart ==
  ASSUME NEW g, g.do \in Inner, NEW s
  PROVE  g # Call("insertSymbol", s) /\ g # Call("absent", s)
<1>1. Call("insertSymbol", s).do = "insertSymbol" /\ Call("absent", s).do = "absent"
  BY DEF Call
<1>2. g.do # "insertSymbol" /\ g.do # "absent"
  BY DEF Inner, Bare, Pushers, Loops
<1> QED BY <1>1, <1>2

(* A step within an initializer.                                               *)
LEMMA InnerKeepsDecl ==
  ASSUME DeclInv, IsList(built), goals # <<>>, goals \in Seq(Goal), Head(goals).do \in Inner \ {"leaf"},
         NEW new \in Seq(Others), goals' = new \o Tail(goals), UNCHANGED scopes,
         \A h \in 1 .. Len(built) : May(Head(goals), h, Len(built)) =>
           /\ Takes(new, h, Len(built'), Len(built) + Effect(Head(goals))) /\ h \in 1 .. Len(built')
           /\ built'[h] = built[h] \/ \E c : built'[h] = AddChild(built[h], c)
  PROVE  DeclInv'
<1>1. CASE goals \in Seq(Others)
  BY <1>1 DEF DeclInv
<1>2. ASSUME NEW s \in Nat, NEW h \in 1 .. Len(built), Due(goals, s, h, Len(built)), Chosen(built[h], scopes, s)
      PROVE  DeclInv'
  <2>1. Head(goals) # Call("insertSymbol", s)
    BY InnerIsApart
  <2>2. May(Head(goals), h, Len(built)) /\ Due(Tail(goals), s, h, Len(built) + Effect(Head(goals)))
    BY <1>2, <2>1, DueSplits
  <2>3. /\ Takes(new, h, Len(built'), Len(built) + Effect(Head(goals))) /\ h \in 1 .. Len(built')
        /\ built'[h] = built[h] \/ \E c : built'[h] = AddChild(built[h], c)
    BY <2>2
  <2>4. Due(goals', s, h, Len(built'))
    BY <2>2, <2>3, DueAfter
  <2>5. Chosen(built'[h], scopes', s)
    BY <1>2, <2>3, ChosenStays
  <2> QED BY <2>3, <2>4, <2>5 DEF DeclInv
<1>3. ASSUME NEW s \in Nat, Unasked(built[Len(built)], goals, s, Len(built)) PROVE FALSE
  <2>1. Head(goals).do = "leaf" \/ Head(goals) = Call("absent", s)
    BY <1>3 DEF Unasked, AsksNow, AsksAfterName, AsksAfterType
  <2> QED BY <2>1, InnerIsApart
<1> QED BY <1>1, <1>2, <1>3 DEF DeclInv

LEMMA CallFacts == \A f, s : Call(f, s).do = f /\ Call(f, s).arg = "" /\ Call(f, s).scope = s
BY DEF Call

(* A step outside a declaration, or that ends one.                             *)
LEMMA OutsideOfDeclaration ==
  ASSUME DeclInv, goals \in Seq(Goal), goals # <<>>,
         Head(goals).do \notin Inner \cup {"insertSymbol", "absent"}
  PROVE  Tail(goals) \in Seq(Others) /\ goals \in Seq(Others)
<1>1. CASE goals \in Seq(Others)
  BY <1>1
<1>2. ASSUME NEW s \in Nat, NEW h \in 1 .. Len(built), Due(goals, s, h, Len(built)) PROVE FALSE
  <2>1. Head(goals) # Call("insertSymbol", s)
    <3>1. Head(goals).do # "insertSymbol" /\ Call("insertSymbol", s).do = "insertSymbol"
      BY CallFacts
    <3> QED BY <3>1
  <2> QED BY <1>2, <2>1, DueSplits
<1>3. ASSUME NEW s \in Nat, Unasked(built[Len(built)], goals, s, Len(built)) PROVE FALSE
  <2>1. Head(goals).do = "leaf" \/ Head(goals) = Call("absent", s)
    BY <1>3 DEF Unasked, AsksNow, AsksAfterName, AsksAfterType
  <2>2. Head(goals).do = "leaf" \/ Head(goals).do = "absent"
    <3>1. Call("absent", s).do = "absent"
      BY DEF Call
    <3> QED BY ONLY <2>1, <3>1
  <2> QED BY <2>2 DEF Inner, Bare
<1> QED BY <1>1, <1>2, <1>3 DEF DeclInv

LEMMA OutsideKeepsDecl ==
  ASSUME DeclInv, goals \in Seq(Goal), goals # <<>>,
         Head(goals).do \notin Inner \cup {"insertSymbol", "absent"},
         NEW new \in Seq(Others), goals' = new \o Tail(goals)
  PROVE  DeclInv'
BY OutsideOfDeclaration DEF DeclInv

(* The symbol to be inserted is the one that was looked up, and is not seen.   *)
LEMMA SymbolIsChosen ==
  ASSUME DeclInv, goals \in Seq(Goal), goals # <<>>, Head(goals).do = "insertSymbol"
  PROVE  /\ Tail(goals) \in Seq(Others)
         /\ Len(built) >= 1 /\ Chosen(built[Len(built)], scopes, Head(goals).scope)
<1>1. CASE goals \in Seq(Others)
  <2>1. Head(goals) \in Others
    BY <1>1
  <2> QED BY <2>1 DEF Others
<1>2. ASSUME NEW s \in Nat, NEW h \in 1 .. Len(built), Due(goals, s, h, Len(built)), Chosen(built[h], scopes, s)
      PROVE  /\ Tail(goals) \in Seq(Others)
             /\ Len(built) >= 1 /\ Chosen(built[Len(built)], scopes, Head(goals).scope)
  <2>1. Head(goals).do \notin Inner
    BY DEF Inner, Bare, Pushers, Loops
  <2>2. Head(goals) = Call("insertSymbol", s) /\ Len(built) = h /\ Tail(goals) \in Seq(Others)
    BY <1>2, <2>1, DueSplits
  <2>3. Head(goals).scope = s
    <3>1. Call("insertSymbol", s).scope = s
      BY CallFacts
    <3> QED BY <2>2, <3>1
  <2> QED BY <1>2, <2>2, <2>3
<1>3. ASSUME NEW s \in Nat, Unasked(built[Len(built)], goals, s, Len(built)) PROVE FALSE
  <2>1. Head(goals).do = "leaf" \/ Head(goals) = Call("absent", s)
    BY <1>3 DEF Unasked, AsksNow, AsksAfterName, AsksAfterType
  <2>2. Head(goals).do = "leaf" \/ Head(goals).do = "absent"
    BY <2>1, CallFacts
  <2> QED BY <2>2
<1> QED BY <1>1, <1>2, <1>3 DEF DeclInv

(* The look-up chooses the name that was added last.                           *)
LEMMA LookUpChooses ==
  ASSUME DeclInv, goals \in Seq(Goal), goals # <<>>, Head(goals).do = "absent",
         Named \notin Visible(Scope), goals' = Tail(goals), UNCHANGED <<built, scopes>>
  PROVE  DeclInv'
<1>1. CASE goals \in Seq(Others)
  BY <1>1 DEF DeclInv
<1>2. ASSUME NEW s \in Nat, NEW h \in 1 .. Len(built), Due(goals, s, h, Len(built)) PROVE FALSE
  <2>1. Head(goals) # Call("insertSymbol", s)
    <3>1. Head(goals).do # "insertSymbol" /\ Call("insertSymbol", s).do = "insertSymbol"
      BY CallFacts
    <3> QED BY <3>1
  <2>2. Head(goals).do \notin Inner
    BY DEF Inner, Bare, Pushers, Loops
  <2> QED BY <1>2, <2>1, <2>2, DueSplits
<1>3. ASSUME NEW s \in Nat, Len(built) >= 1, Unasked(built[Len(built)], goals, s, Len(built)) PROVE DeclInv'
  <2> DEFINE node == built[Len(built)]
  <2>1. Head(goals).do # "leaf"
    OBVIOUS
  <2>2. NodeLike(node) /\ Len(node.children) = 2 /\ node.children[2].value \in Value /\ AsksNow(goals, s, Len(built))
    BY <1>3, <2>1 DEF Unasked, AsksAfterName, AsksAfterType
  <2>3. Scope = s /\ Due(Tail(goals), s, Len(built), Len(built))
    <3>1. Call("absent", s).scope = s
      BY CallFacts
    <3>2. Head(goals) = Call("absent", s) /\ Due(Tail(goals), s, Len(built), Len(built))
      BY <2>2 DEF AsksNow
    <3> QED BY <3>1, <3>2 DEF Scope
  <2>4. Named = node.children[2].value
    BY <2>2 DEF Named, Innermost, Last
  <2>5. Visible(Scope) = VisibleIn(scopes, s)
    BY <2>3 DEF Visible, VisibleIn
  <2>6. Chosen(node, scopes, s)
    BY <2>2, <2>4, <2>5 DEF Chosen
  <2>7. Len(built) \in 1 .. Len(built)
    BY <1>3, <2>2, <2>3 DEF Due, Takes, Heights
  <2>8. /\ Due(goals', s, Len(built'), Len(built')) /\ Chosen(built'[Len(built')], scopes', s)
        /\ Len(built') \in 1 .. Len(built')
    BY <2>3, <2>6, <2>7
  <2> QED BY <2>8 DEF DeclInv
<1> QED BY <1>1, <1>2, <1>3 DEF DeclInv

(* A token becomes a child of the innermost node.                              *)
LEMMA LeafKeepsDecl ==
  ASSUME DeclInv, goals \in Seq(Goal), goals # <<>>, Head(goals).do = "leaf", IsList(built),
         goals' = Tail(goals), UNCHANGED scopes,
         NEW token, token.value \in Value, Len(built') = Len(built),
         Len(built) >= 1 => built'[Len(built)] = AddChild(built[Len(built)], Node(token, <<>>)),
         \A i \in 1 .. Len(built) : i # Len(built) => built'[i] = built[i]
  PROVE  DeclInv'
<1> DEFINE top == Len(built)
           node == built[top]
           next == AddChild(node, Node(token, <<>>))
<1>0. top \in Nat
  BY LenProperties DEF IsList
<1>1. CASE goals \in Seq(Others)
  BY <1>1 DEF DeclInv
<1>2. ASSUME NEW s \in Nat, NEW h \in 1 .. top, Due(goals, s, h, top), Chosen(built[h], scopes, s) PROVE DeclInv'
  <2>1. Head(goals) # Call("insertSymbol", s)
    <3>1. Head(goals).do # "insertSymbol" /\ Call("insertSymbol", s).do = "insertSymbol"
      BY CallFacts
    <3> QED BY <3>1
  <2>2. Effect(Head(goals)) = 0
    BY DEF Effect, Pushers
  <2>3. top + Effect(Head(goals)) = top /\ Len(built') = top
    BY <1>0, <2>2
  <2>4. Due(goals', s, h, Len(built'))
    BY <1>2, <2>1, <2>3, DueSplits
  <2>5. Chosen(built'[h], scopes', s)
    <3>1. built'[h] = built[h] \/ \E c : built'[h] = AddChild(built[h], c)
      BY <1>0
    <3> QED BY <1>2, <3>1, ChosenStays
  <2> QED BY <2>3, <2>4, <2>5 DEF DeclInv
<1>3. ASSUME NEW s \in Nat, top >= 1, Unasked(node, goals, s, top) PROVE DeclInv'
  <2>1. Head(goals) # Call("absent", s)
    BY CallFacts
  <2>2. /\ NodeLike(node)
        /\ \/ Len(node.children) = 0 /\ AsksAfterName(goals', s, top)
           \/ Len(node.children) = 1 /\ AsksNow(goals', s, top)
    BY <1>3, <2>1 DEF Unasked, AsksAfterType, AsksAfterName, AsksNow
  <2>3. /\ NodeLike(next) /\ Len(next.children) = Len(node.children) + 1
        /\ next.children[Len(node.children) + 1] = Node(token, <<>>)
    BY <2>2, ChildAdded
  <2>4. Node(token, <<>>).value = token.value
    BY DEF Node
  <2> HIDE DEF next
  <2>5. Unasked(next, goals', s, top)
    <3>1. CASE Len(node.children) = 0 /\ AsksAfterName(goals', s, top)
      BY <2>3, <3>1 DEF Unasked
    <3>2. CASE Len(node.children) = 1 /\ AsksNow(goals', s, top)
      BY <2>3, <2>4, <3>2 DEF Unasked
    <3> QED BY <2>2, <3>1, <3>2
  <2>6. built'[Len(built')] = next /\ Len(built') = top
    BY <1>3 DEF next
  <2> QED BY <1>3, <2>5, <2>6 DEF DeclInv
<1> QED BY <1>1, <1>2, <1>3 DEF DeclInv

(* A declaration begins.                                                       *)
(* Concatenation, under a name that the provers leave alone.                   *)
Cat(p, q) == p \o q
Associates(S) ==
  /\ \A p, q \in Seq(S) : Cat(p, q) \in Seq(S)
  /\ \A p, q, r \in Seq(S) : Cat(Cat(p, q), r) = Cat(p, Cat(q, r))
LEMMA CatAssociative == \A S : Associates(S)
<1> TAKE S
<1>1. \A p, q \in Seq(S) : Cat(p, q) \in Seq(S)
  BY DEF Cat
<1>2. ASSUME NEW p \in Seq(S), NEW q \in Seq(S), NEW r \in Seq(S)
      PROVE  Cat(Cat(p, q), r) = Cat(p, Cat(q, r))
  BY ConcatAssociative DEF Cat
<1> QED BY <1>1, <1>2 DEF Associates

Regroups(a, b, c, d, e, f, g, h) ==
  Cat(Cat(Cat(Cat(Cat(a, Cat(b, Cat(c, d))), e), f), g), h)
    = Cat(a, Cat(b, Cat(c, Cat(Cat(d, e), Cat(f, Cat(g, h))))))
LEMMA Regrouped ==
  ASSUME NEW S, NEW a \in Seq(S), NEW b \in Seq(S), NEW c \in Seq(S), NEW d \in Seq(S), NEW e \in Seq(S),
         NEW f \in Seq(S), NEW g \in Seq(S), NEW h \in Seq(S)
  PROVE  Regroups(a, b, c, d, e, f, g, h)
<1>1. /\ \A p, q \in Seq(S) : Cat(p, q) \in Seq(S)
      /\ \A p, q, r \in Seq(S) : Cat(Cat(p, q), r) = Cat(p, Cat(q, r))
  <2>1. Associates(S)
    BY CatAssociative
  <2> QED BY <2>1, Zenon DEF Associates
<1> DEFINE m == Cat(a, Cat(b, Cat(c, Cat(d, e))))
           l == Cat(f, Cat(g, h))
<1>2. Cat(Cat(a, Cat(b, Cat(c, d))), e) = m
  BY <1>1
<1>3. m \in Seq(S) /\ l \in Seq(S)
  BY <1>1
<1>4. Cat(m, l) = Cat(a, Cat(b, Cat(c, Cat(Cat(d, e), l))))
  <2> HIDE DEF l
  <2> QED BY <1>1, <1>3
<1>5. Cat(Cat(Cat(m, f), g), h) = Cat(m, l)
  <2> HIDE DEF m
  <2>1. Cat(m, f) \in Seq(S) /\ Cat(g, h) \in Seq(S)
    BY <1>1, <1>3
  <2>2. Cat(Cat(Cat(m, f), g), h) = Cat(Cat(m, f), Cat(g, h))
    BY <1>1, <2>1
  <2>3. Cat(Cat(m, f), Cat(g, h)) = Cat(m, Cat(f, Cat(g, h)))
    BY <1>1, <1>3, <2>1
  <2> QED BY <2>2, <2>3
<1> QED BY <1>2, <1>4, <1>5 DEF Regroups

(* The goals that parseDeclaration (O_parser.c:96) puts in place of its own.   *)
Declaration(leaf, name, s, semi, add) ==
  <<leaf, name, Call("absent", s), Call("initializer", s)>> \o semi \o <<Call("insertSymbol", s)>> \o add

LEMMA DeclarationAsks ==
  ASSUME NEW s \in Nat, NEW leaf \in Goal, NEW name \in Goal, leaf.do = "leaf", name.do = "leaf",
         NEW semi \in Seq({g \in Goal : g.do = "leaf"}), NEW add \in Seq({Child}), NEW rest \in Seq(Others),
         NEW a \in Nat
  PROVE  AsksAfterType(Declaration(leaf, name, s, semi, add) \o rest, s, a)
<1> DEFINE absent == Call("absent", s)
           init == Call("initializer", s)
           ins == Call("insertSymbol", s)
           post == add \o rest
           tail == <<init>> \o semi
           last == <<ins>> \o post
<1>1. absent \in Goal /\ init \in Goal /\ ins \in Goal /\ Child \in Others
  BY DEF Call, Goal, Calls, Child, Others
<1>2. semi \in Seq(Goal) /\ add \in Seq(Goal) /\ rest \in Seq(Goal) /\ post \in Seq(Others)
  BY <1>1 DEF Others
<1>3. init.do = "initializer"
  BY CallFacts
<1> HIDE DEF absent, init, ins
<1>4. /\ <<ins>> \in Seq(Goal) /\ <<init>> \in Seq(Goal) /\ <<absent>> \in Seq(Goal)
      /\ <<name>> \in Seq(Goal) /\ <<leaf>> \in Seq(Goal)
      /\ tail \in Seq(Goal) /\ post \in Seq(Goal)
  BY <1>1, <1>2 DEF Others
<1>5. last \in Seq(Goal)
  <2> HIDE DEF post
  <2> QED BY <1>4
<1>6. Due(tail \o last, s, a, a)
  <2>1. init.do \in Inner /\ a + Effect(init) = a /\ May(init, a, a)
    BY <1>3 DEF Inner, Effect, Pushers, May, Loops
  <2>2. Takes(<<init>>, a, a, a)
    <3>1. Takes(<<init>>, a, a, a + Effect(init))
      BY <1>1, <2>1, TakesOne
    <3> QED BY <2>1, <3>1
  <2> DEFINE at == [i \in 1 .. Len(semi) + 1 |-> a]
  <2>3. \A i \in 1 .. Len(semi) : semi[i].do = "leaf" /\ Effect(semi[i]) = 0 /\ May(semi[i], a, a)
    BY DEF Effect, Pushers, May, Loops
  <2>4. Len(semi) \in Nat
    BY LenProperties
  <2>5. Heights(semi, a, at) /\ at[1] = a /\ at[Len(semi) + 1] = a
    BY <2>3, <2>4 DEF Heights
  <2>6. semi \in Seq({g \in Goal : g.do \in Inner})
    BY DEF Inner, Bare
  <2> HIDE DEF at
  <2>7. Takes(semi, a, a, a)
    BY <2>5, <2>6 DEF Takes
  <2>8. Takes(tail, a, a, a)
    BY <2>2, <2>7, TakesBoth
  <2> QED BY <1>2, <2>8 DEF Due, ins
<1>7. Declaration(leaf, name, s, semi, add) \o rest = <<leaf>> \o (<<name>> \o (<<absent>> \o (tail \o last)))
  <2>1. <<absent, init>> = <<absent>> \o <<init>>
    BY Pairs, Zenon
  <2>2. <<name, absent, init>> = <<name>> \o <<absent, init>>
    BY Triples, Zenon
  <2>3. <<leaf, name, absent, init>> = <<leaf>> \o <<name, absent, init>>
    BY Quadruples, Zenon
  <2>4. <<leaf, name, absent, init>> = <<leaf>> \o (<<name>> \o (<<absent>> \o <<init>>))
    BY <2>1, <2>2, <2>3, Zenon
  <2>5. ((((<<leaf>> \o (<<name>> \o (<<absent>> \o <<init>>))) \o semi) \o <<ins>>) \o add) \o rest
          = <<leaf>> \o (<<name>> \o (<<absent>> \o (tail \o last)))
    <3>1. /\ <<leaf>> \in Seq(Goal) /\ <<name>> \in Seq(Goal) /\ <<absent>> \in Seq(Goal) /\ <<init>> \in Seq(Goal)
          /\ semi \in Seq(Goal) /\ <<ins>> \in Seq(Goal) /\ add \in Seq(Goal) /\ rest \in Seq(Goal)
      BY <1>2, <1>4
    <3>2. Regroups(<<leaf>>, <<name>>, <<absent>>, <<init>>, semi, <<ins>>, add, rest)
      BY <3>1, Regrouped, Zenon
    <3> QED BY <3>2, Zenon DEF Regroups, Cat
  <2> QED BY <2>4, <2>5, Zenon DEF Declaration, absent, init, ins
<1> HIDE DEF tail, last, post
<1> DEFINE third == <<absent>> \o (tail \o last)
           second == <<name>> \o third
<1>8. tail \o last \in Seq(Goal)
  BY <1>4, <1>5
<1>9. AsksNow(third, s, a) /\ third \in Seq(Goal)
  BY <1>1, <1>6, <1>8, ConcatOne DEF AsksNow, absent
<1> HIDE DEF third
<1>10. AsksAfterName(second, s, a) /\ second \in Seq(Goal)
  BY <1>9, ConcatOne DEF AsksAfterName
<1> HIDE DEF second
<1>11. AsksAfterType(<<leaf>> \o second, s, a)
  BY <1>10, ConcatOne DEF AsksAfterType
<1> QED BY <1>7, <1>11 DEF second, third

LEMMA DeclarationBegins ==
  ASSUME NEW s \in Nat, NEW leaf \in Goal, NEW name \in Goal, leaf.do = "leaf", name.do = "leaf",
         NEW semi \in Seq({g \in Goal : g.do = "leaf"}), NEW add \in Seq({Child}), NEW rest \in Seq(Others),
         IsList(built), NEW node, NodeLike(node), Len(node.children) = 0, built' = Append(built, node),
         goals' = Declaration(leaf, name, s, semi, add) \o rest
  PROVE  DeclInv'
<1>1. Len(built') \in Nat /\ Len(built') >= 1 /\ built'[Len(built')] = node
  BY AppendIsList
<1>2. AsksAfterType(goals', s, Len(built'))
  BY <1>1, DeclarationAsks
<1> QED BY <1>1, <1>2 DEF DeclInv, Unasked

-----------------------------------------------------------------------------
(***************************************************************************)
(* The lexer stays in the text.                                            *)
(***************************************************************************)
(* The lexer is in the text or at the zero behind it.                          *)
LexerInv ==
  /\ text \in Texts /\ status \in Statuses
  /\ currentIndex \in 1 .. Len(text) + 1
  /\ tokens \in Seq(Token)
  /\ numberOfTokens \in Nat /\ numberOfTokens >= 2
  /\ tokens_size \in Nat /\ tokens_size <= numberOfTokens
  /\ status = "lexing" => Len(tokens) <= tokens_size

LEMMA TextFacts ==
  ASSUME LexerInv
  PROVE  /\ Len(text) \in Nat /\ DOMAIN text = 1 .. Len(text)
         /\ \A i \in 1 .. Len(text) : text[i] \in Glyph
<1>1. text \in Seq(Glyph)
  BY TextsAssumption DEF LexerInv
<1> QED BY <1>1, LenProperties, ElementOfSeq

LEMMA Glyphs == NUL \in Glyph /\ Glyph \subseteq Value /\ NUL \notin Digits
BY MarksAssumption DEF Ch, Glyph, Value, NUL, Digits

(* The text between two places, as a token stores it.                          *)
LEMMA TakenIsValue ==
  ASSUME LexerInv, NEW i \in Nat, NEW j \in Int, i >= 1, j <= Len(text)
  PROVE  Taken(i, j) \in Value
<1> DEFINE gs == SubSeq(text, i, j)
<1>1. text \in Seq(Glyph) /\ Len(text) \in Nat
  BY TextFacts, TextsAssumption DEF LexerInv
<1>2. gs \in Seq(Glyph)
  <2>1. CASE i <= j
    <3>1. i \in 1 .. Len(text) /\ j \in 1 .. Len(text)
      BY <1>1, <2>1
    <3> QED BY <1>1, <3>1, SubSeqProperties
  <2>2. CASE i > j
    <3>1. gs = <<>>
      BY <1>1, <2>2, SubSeqEmpty
    <3> QED BY <3>1, EmptySeq
  <2> QED BY <1>1, <2>1, <2>2
<1>3. Taken(i, j) = IF Len(gs) = 1 THEN gs[1] ELSE <<"...", gs>>
  BY DEF Taken, Joined
<1> HIDE DEF gs
<1>4. Len(gs) = 1 => gs[1] \in Glyph
  BY <1>2, ElementOfSeq
<1> QED BY <1>2, <1>3, <1>4, Glyphs DEF Value

LEMMA AtFacts ==
  ASSUME LexerInv, NEW i \in Nat
  PROVE  /\ At(i) \in Glyph /\ At(i) \in Value
         /\ At(i) # NUL => i \in 1 .. Len(text)
         /\ At(Len(text) + 1) = NUL /\ At(Len(text) + 2) = NUL
<1>1. /\ Len(text) \in Nat /\ DOMAIN text = 1 .. Len(text)
      /\ \A k \in 1 .. Len(text) : text[k] \in Glyph
  BY TextFacts
<1>2. NUL \in Glyph /\ Glyph \subseteq Value
  BY Glyphs
<1>3. At(i) \in Glyph /\ At(i) \in Value /\ (At(i) # NUL => i \in 1 .. Len(text))
  BY <1>1, <1>2 DEF At
<1>4. Len(text) + 1 \notin DOMAIN text /\ Len(text) + 2 \notin DOMAIN text
  BY <1>1
<1> QED BY <1>3, <1>4 DEF At

(* A search in the text that succeeds at some place.                           *)
LEMMA LeastIn ==
  ASSUME NEW i \in Nat, NEW n \in Nat, NEW S, NEW j \in i .. n, j \in S
  PROVE  \E k \in i .. n : k \in S /\ \A m \in i .. k - 1 : m \notin S
<1>1. (i .. n) \cap S \subseteq Nat /\ j \in (i .. n) \cap S
  OBVIOUS
<1>2. PICK k \in (i .. n) \cap S : \A m \in (i .. n) \cap S : k <= m
  BY <1>1, LeastNatural
<1> QED BY <1>2

LEMMA LineEnds ==
  ASSUME LexerInv, InLineComment
  PROVE  LineEnd \in Nat /\ LineEnd >= 1
<1> DEFINE Test(j) == Is(j, "\n") \/ At(j + 1) = NUL
           P(i) == Test(i) /\ \A m \in currentIndex .. i - 1 : ~Test(m)
           S == {k \in Nat : Test(k)}
<1>1. currentIndex \in Nat /\ currentIndex >= 1 /\ Len(text) \in Nat
  BY TextFacts DEF LexerInv
<1>2. currentIndex \in 1 .. Len(text)
  <2>1. At(currentIndex) # NUL
    BY DEF InLineComment, Is, NUL, Ch
  <2> QED BY <1>1, <2>1, AtFacts
<1>3. Len(text) \in currentIndex .. Len(text) + 1 /\ Len(text) \in S
  BY <1>1, <1>2, AtFacts
<1>4. PICK k \in currentIndex .. Len(text) + 1 : k \in S /\ \A m \in currentIndex .. k - 1 : m \notin S
  <2> HIDE DEF S
  <2>1. Len(text) + 1 \in Nat
    BY <1>1
  <2> QED BY <1>1, <1>3, <2>1, LeastIn, Zenon
<1>5. P(k)
  BY <1>1, <1>4
<1> HIDE DEF P
<1>6. LineEnd = CHOOSE i \in currentIndex .. Len(text) + 1 : P(i)
  BY DEF LineEnd, FirstFrom, P
<1>7. LineEnd \in currentIndex .. Len(text) + 1
  BY <1>4, <1>5, <1>6
<1> QED BY <1>1, <1>7

LEMMA BlockEnds ==
  ASSUME LexerInv, InBlockComment
  PROVE  BlockEnd \in Nat /\ BlockEnd >= 1
<1> DEFINE Test(j) == (Is(j, "*") /\ Is(j + 1, "/")) \/ At(j + 2) = NUL
           P(i) == Test(i) /\ \A m \in currentIndex .. i - 1 : ~Test(m)
           S == {k \in Nat : Test(k)}
<1>1. currentIndex \in Nat /\ currentIndex >= 1 /\ Len(text) \in Nat
  BY TextFacts DEF LexerInv
<1>2. currentIndex \in 1 .. Len(text)
  <2>1. At(currentIndex) # NUL
    BY DEF InBlockComment, Is, NUL, Ch
  <2> QED BY <1>1, <2>1, AtFacts
<1>3. Len(text) \in currentIndex .. Len(text) + 1 /\ Len(text) \in S
  BY <1>1, <1>2, AtFacts
<1>4. PICK k \in currentIndex .. Len(text) + 1 : k \in S /\ \A m \in currentIndex .. k - 1 : m \notin S
  <2> HIDE DEF S
  <2>1. Len(text) + 1 \in Nat
    BY <1>1
  <2> QED BY <1>1, <1>3, <2>1, LeastIn, Zenon
<1>5. P(k)
  BY <1>1, <1>4
<1> HIDE DEF P
<1>6. BlockEnd = CHOOSE i \in currentIndex .. Len(text) + 1 : P(i)
  BY DEF BlockEnd, FirstFrom, P
<1>7. BlockEnd \in currentIndex .. Len(text) + 1
  BY <1>4, <1>5, <1>6
<1> QED BY <1>1, <1>7

(* A token begins in the text.                                                 *)
LEMMA StartInText ==
  ASSUME LexerInv, ~Stopped
  PROVE  Start \in 1 .. Len(text) /\ At(Start) \in Value
<1>1. currentIndex \in Nat /\ currentIndex >= 1 /\ Len(text) \in Nat
  BY TextFacts DEF LexerInv
<1>2. CASE InLineComment
  <2>1. LineEnd \in Nat /\ LineEnd >= 1
    BY <1>2, LineEnds
  <2>2. At(LineEnd + 1) # NUL
    BY <1>2 DEF Stopped
  <2>3. LineEnd + 1 \in 1 .. Len(text)
    BY <2>1, <2>2, AtFacts
  <2>4. Start = LineEnd
    BY <1>2 DEF Start
  <2>5. LineEnd \in 1 .. Len(text)
    BY <1>1, <2>1, <2>3
  <2> QED BY <2>1, <2>4, <2>5, AtFacts
<1>3. CASE ~InLineComment /\ InBlockComment
  <2>1. BlockEnd \in Nat /\ BlockEnd >= 1
    BY <1>3, BlockEnds
  <2>2. At(BlockEnd + 2) # NUL
    BY <1>3 DEF Stopped
  <2>3. BlockEnd + 2 \in 1 .. Len(text)
    BY <2>1, <2>2, AtFacts
  <2>4. Start = BlockEnd + 2
    BY <1>3 DEF Start
  <2> QED BY <2>1, <2>3, <2>4, AtFacts
<1>4. CASE ~InLineComment /\ ~InBlockComment
  <2>1. At(currentIndex) # NUL /\ Start = currentIndex
    BY <1>4 DEF Stopped, Start
  <2> QED BY <1>1, <2>1, AtFacts
<1> QED BY <1>2, <1>3, <1>4

-----------------------------------------------------------------------------
(***************************************************************************)
(* The invariant, and the lexer's steps.                                   *)
(***************************************************************************)
(* The outermost goal is parser's own (O_parser.c:346).                        *)
Rooted(gs) == gs # <<>> /\ gs[Len(gs)].do = "program"

(* The parser: its scopes form a tree, its goals are nested in it, and while   *)
(* it runs a token it has not passed ends the list.                            *)
ParserInv ==
  /\ IsList(built)
  /\ scopes \in Seq(Scoping) /\ Tree(scopes)
  /\ Nested(goals, scopes) /\ Rooted(goals)
  /\ currentToken \in Nat
  /\ status = "lexing" => currentToken = 1
  /\ status = "parsing" => /\ currentToken \in 1 .. Len(tokens)
                           /\ tokens[Len(tokens)].type = "END_OF_TOKENS"
Inv == LexerInv /\ ParserInv /\ DeclInv

LEMMA CountFits ==
  ASSUME LexerInv, Count
  PROVE  /\ numberOfTokens' \in Nat /\ numberOfTokens' >= 2
         /\ tokens_size' \in Nat /\ tokens_size' <= numberOfTokens' /\ tokens_size' = tokens_size + 1
<1>1. CASE tokens_size + 1 > numberOfTokens
  <2>1. numberOfTokens' = (3 * numberOfTokens) \div 2 /\ tokens_size' = tokens_size + 1
    BY <1>1 DEF Count
  <2>2. tokens_size = numberOfTokens
    BY <1>1 DEF LexerInv
  <2>3. numberOfTokens' \in Nat /\ numberOfTokens' >= numberOfTokens + 1
    BY <2>1 DEF LexerInv
  <2> QED
    BY <2>1, <2>2, <2>3 DEF LexerInv
<1>2. CASE ~(tokens_size + 1 > numberOfTokens)
  BY <1>2 DEF Count, LexerInv
<1> QED
  BY <1>1, <1>2

(* What the parser's invariant says does not depend on the lexer, until it     *)
(* ends.                                                                       *)
LEMMA LexingKeepsParser ==
  ASSUME ParserInv, DeclInv, UNCHANGED parserVars, status = "lexing", status' # "parsing"
  PROVE  ParserInv' /\ DeclInv'
BY DEF ParserInv, DeclInv, parserVars

(* A step that stores a token, and goes on or ends.                            *)
LEMMA EmitKeepsInv ==
  ASSUME Inv, status = "lexing", UNCHANGED parserVars, status' \in {"lexing", "wild"},
         NEW type \in TokenType, NEW value \in Value, NEW next \in 1 .. Len(text) + 1, Emit(type, value, next)
  PROVE  Inv'
<1>1. /\ numberOfTokens' \in Nat /\ numberOfTokens' >= 2
      /\ tokens_size' \in Nat /\ tokens_size' <= numberOfTokens' /\ tokens_size' = tokens_size + 1
  BY CountFits DEF Emit, Inv
<1>2. tokens' \in Seq(Token) /\ Len(tokens') = Len(tokens) + 1 /\ Len(tokens) \in Nat
  <2>1. Tok(type, value) \in Token
    BY DEF Tok, Token
  <2>2. tokens' = Append(tokens, Tok(type, value)) /\ tokens \in Seq(Token)
    BY DEF Emit, Inv, LexerInv
  <2> QED
    BY <2>1, <2>2
<1>3. Len(tokens') <= tokens_size'
  BY <1>1, <1>2 DEF Inv, LexerInv
<1>4. text' = text /\ currentIndex' = next
  BY DEF Emit
<1>5. ParserInv' /\ DeclInv'
  BY LexingKeepsParser DEF Inv
<1>6. LexerInv'
  BY <1>1, <1>2, <1>3, <1>4 DEF Inv, LexerInv, Statuses, Ended
<1> QED
  BY <1>5, <1>6 DEF Inv

LEMMA RejectKeepsInv ==
  ASSUME Inv, status = "lexing", UNCHANGED parserVars, UNCHANGED <<tokens, lexerVars>>, status' \in {"literal", "wild"}
  PROVE  Inv'
<1>1. ParserInv' /\ DeclInv'
  BY LexingKeepsParser DEF Inv
<1> QED
  BY <1>1 DEF Inv, LexerInv, lexerVars, Statuses, Ended

LEMMA TokenTypes ==
  /\ DOMAIN OpAndSepTokens \subseteq TokenType /\ Literals \subseteq TokenType
  /\ {"IDENTIFIER", "UNKNOWN", "END_OF_TOKENS"} \subseteq TokenType
  /\ \A w \in DOMAIN KeywordTokens : KeywordTokens[w] \in TokenType
BY DEF TokenType, Range

LEMMA BlankIsGlyph == Ch(" ") # NUL
<1>1. \A a, b : a # b => <<a, 0>> # <<b, 0>>
  OBVIOUS
<1>2. " " # "NUL"
  BY Zenon
<1> QED BY <1>1, <1>2, Zenon DEF Ch, NUL

LEMMA LexingKeepsInv == Inv /\ Lexing => Inv'
<1> SUFFICES ASSUME Inv, LexerNext, UNCHANGED parserVars
             PROVE  Inv'
  BY DEF Lexing
<1>1. LexerInv /\ Len(text) \in Nat /\ currentIndex \in Nat /\ Len(tokens) \in Nat
  BY TextFacts, LenProperties DEF Inv, LexerInv
<1> DEFINE InText == Start \in 1 .. Len(text) /\ At(Start) \in Value /\ Start \in Nat
<1>2. ~Stopped => InText
  BY <1>1, StartInText
<1>3. CASE Blank
  <2>1. currentIndex' = currentIndex + 1 /\ UNCHANGED <<tokens, status, text, tokens_size, numberOfTokens>> /\ status = "lexing"
    BY <1>3 DEF Blank
  <2>2. currentIndex \in 1 .. Len(text)
    <3>1. At(currentIndex) # NUL
      <4>1. At(currentIndex) = Ch(" ")
        BY <1>3, Zenon DEF Blank, Is
      <4>2. Ch(" ") # NUL
        BY BlankIsGlyph
      <4> QED BY <4>1, <4>2, Zenon
    <3> QED BY <1>1, <3>1, AtFacts
  <2>3. currentIndex' \in 1 .. Len(text) + 1
    BY <1>1, <2>1, <2>2
  <2>4. ParserInv' /\ DeclInv'
    BY <2>1, LexingKeepsParser DEF Inv
  <2> QED
    BY <2>1, <2>3, <2>4 DEF Inv, LexerInv
<1>4. CASE Newline
  <2>1. status = "lexing" /\ Count /\ UNCHANGED <<tokens, status, text>> /\ currentIndex' = Start + 1 /\ InText
    BY <1>2, <1>4 DEF Newline, Begins
  <2>2. ParserInv' /\ DeclInv'
    BY <2>1, LexingKeepsParser DEF Inv
  <2>3. currentIndex' \in 1 .. Len(text) + 1
    BY <1>1, <2>1
  <2>4. /\ numberOfTokens' \in Nat /\ numberOfTokens' >= 2
        /\ tokens_size' \in Nat /\ tokens_size' <= numberOfTokens' /\ tokens_size' = tokens_size + 1
    BY <1>1, <2>1, CountFits
  <2> QED
    BY <1>1, <2>1, <2>2, <2>3, <2>4 DEF Inv, LexerInv
<1>5. CASE generateStringLToken
  <2>1. status = "lexing" /\ InText
    BY <1>2, <1>5 DEF generateStringLToken, Begins
  <2> DEFINE Ends(j) == At(j) \in {Ch("\""), NUL}
             P(j) == Ends(j) /\ \A k \in Start + 1 .. j - 1 : ~Ends(k)
             end == CHOOSE j \in Start + 1 .. Len(text) + 1 : P(j)
  <2>2. \/ At(end) = NUL /\ Reject
        \/ At(end) # NUL /\ Emit("STR_L", Taken(Start + 1, end - 1), end + 1) /\ Fits(Start + 1, end - 1, 64)
    BY <1>5, Zenon DEF generateStringLToken, FirstFrom
  <2>3. end \in Start + 1 .. Len(text) + 1
    <3>0. Ends(Len(text) + 1)
      <4>1. At(Len(text) + 1) = NUL
        BY <1>1, <2>1, AtFacts
      <4> QED BY <4>1, Zenon
    <3> HIDE DEF Ends
    <3> DEFINE S == {j \in Nat : Ends(j)}
    <3>1. Start + 1 \in Nat /\ Len(text) + 1 \in Nat /\ Len(text) + 1 \in Start + 1 .. Len(text) + 1 /\ Len(text) + 1 \in S
      BY <1>1, <2>1, <3>0
    <3>2. PICK k \in Start + 1 .. Len(text) + 1 : k \in S /\ \A m \in Start + 1 .. k - 1 : m \notin S
      <4> HIDE DEF S
      <4> QED BY <3>1, LeastIn, Zenon
    <3>3. P(k)
      BY <1>1, <2>1, <3>2
    <3> HIDE DEF P
    <3> QED BY <3>2, <3>3
  <2> HIDE DEF end
  <2>4. CASE At(end) = NUL /\ Reject
    BY <2>1, <2>4, RejectKeepsInv DEF Reject
  <2>5. CASE At(end) # NUL /\ Emit("STR_L", Taken(Start + 1, end - 1), end + 1) /\ Fits(Start + 1, end - 1, 64)
    <3>1. end \in Nat /\ end + 1 \in 1 .. Len(text) + 1
      <4>1. end \in Nat /\ end >= 1
        BY <1>1, <2>1, <2>3
      <4>2. end \in 1 .. Len(text)
        BY <1>1, <2>5, <4>1, AtFacts
      <4> QED BY <1>1, <4>1, <4>2
    <3>2. "STR_L" \in TokenType /\ Taken(Start + 1, end - 1) \in Value
      <4>1. Start + 1 \in Nat /\ Start + 1 >= 1 /\ end - 1 \in Int /\ end - 1 <= Len(text)
        BY <1>1, <2>1, <3>1
      <4> QED BY <1>1, <4>1, TakenIsValue, TokenTypes DEF Literals
    <3>3. status' \in {"lexing", "wild"}
      BY <2>5 DEF Fits, AnyOutcome
    <3> QED
      BY <2>1, <2>5, <3>1, <3>2, <3>3, EmitKeepsInv
  <2> QED
    BY <2>2, <2>4, <2>5
<1>6. CASE generateIntLorFloatLToken
  <2>1. status = "lexing" /\ InText
    BY <1>2, <1>6 DEF generateIntLorFloatLToken, Begins
  <2> DEFINE end == IF ~Is(Start + 1, ".") THEN Start ELSE IF At(Start + 2) \in Digits THEN Start + 2 ELSE Start + 1
             type == IF end = Start THEN "INT_L" ELSE "FLOAT_L"
  <2>2. /\ Emit(type, Taken(Start, end), end + 1)
        /\ Fits(Start, end, 16)
    BY <1>6, Zenon DEF generateIntLorFloatLToken
  <2>3. end + 1 \in 1 .. Len(text) + 1 /\ end \in Int /\ end <= Len(text)
    <3>1. Is(Start + 1, ".") => Start + 1 \in 1 .. Len(text)
      <4>1. Is(Start + 1, ".") => At(Start + 1) # NUL
        BY DEF Is, Ch, NUL
      <4>2. Start + 1 \in Nat
        BY <2>1
      <4> QED BY <1>1, <4>1, <4>2, AtFacts
    <3>2. At(Start + 2) \in Digits => Start + 2 \in 1 .. Len(text)
      <4>1. Start + 2 \in Nat
        BY <2>1
      <4> QED BY <1>1, <4>1, AtFacts, Glyphs
    <3> QED BY <1>1, <2>1, <3>1, <3>2
  <2> HIDE DEF end
  <2>4. type \in TokenType /\ Taken(Start, end) \in Value
    BY <1>1, <2>1, <2>3, TakenIsValue, TokenTypes DEF Literals
  <2> HIDE DEF type
  <2>5. status' \in {"lexing", "wild"}
    BY <2>2 DEF Fits, AnyOutcome
  <2> QED
    BY <2>1, <2>2, <2>3, <2>4, <2>5, EmitKeepsInv
<1>7. CASE generateCharLToken
  <2>1. status = "lexing" /\ InText
    BY <1>2, <1>7 DEF generateCharLToken, Begins
  <2>2. \/ Is(Start + 2, "'") /\ Emit("CHAR_L", At(Start + 1), Start + 3) /\ UNCHANGED status
        \/ status' \in {"literal", "wild"} /\ UNCHANGED <<tokens, lexerVars>>
    BY <1>7, Zenon DEF generateCharLToken, AnyOutcome
  <2>3. CASE Is(Start + 2, "'") /\ Emit("CHAR_L", At(Start + 1), Start + 3) /\ UNCHANGED status
    <3>1. At(Start + 2) # NUL /\ Start + 2 \in Nat
      BY <2>1, <2>3 DEF Is, Ch, NUL
    <3>2. Start + 3 \in 1 .. Len(text) + 1
      BY <1>1, <2>1, <3>1, AtFacts
    <3>3. "CHAR_L" \in TokenType /\ At(Start + 1) \in Value
      <4>1. Start + 1 \in Nat
        BY <2>1
      <4> QED BY <1>1, <4>1, AtFacts, TokenTypes DEF Literals
    <3> QED
      BY <2>1, <2>3, <3>2, <3>3, EmitKeepsInv
  <2>4. CASE status' \in {"literal", "wild"} /\ UNCHANGED <<tokens, lexerVars>>
    BY <2>1, <2>4, RejectKeepsInv
  <2> QED
    BY <2>2, <2>3, <2>4
<1>8. CASE generateKeywordOrIdentifier
  <2>1. status = "lexing" /\ InText
    BY <1>2, <1>8 DEF generateKeywordOrIdentifier, Begins
  <2>2. PICK type \in TokenType : Emit(type, At(Start), Start + 1)
    <3> DEFINE keyword == At(Start)[1]
               type == IF keyword \in DOMAIN KeywordTokens THEN KeywordTokens[keyword] ELSE "IDENTIFIER"
    <3>1. type \in TokenType
      BY TokenTypes
    <3>2. Emit(type, At(Start), Start + 1)
      BY <1>8, Zenon DEF generateKeywordOrIdentifier
    <3> HIDE DEF type
    <3> QED BY <3>1, <3>2
  <2>3. status' \in {"lexing", "wild"}
    BY <1>8 DEF generateKeywordOrIdentifier, Fits, AnyOutcome
  <2>4. Start + 1 \in 1 .. Len(text) + 1
    BY <1>1, <2>1
  <2> QED
    BY <2>1, <2>2, <2>3, <2>4, EmitKeepsInv
<1>9. CASE generateOpAndSepToken
  <2>1. status = "lexing" /\ InText
    BY <1>2, <1>9 DEF generateOpAndSepToken, Begins
  <2> DEFINE value == Spelling(At(Start))
             types == {t \in DOMAIN OpAndSepTokens : OpAndSepTokens[t] = value}
             type == IF types = {} THEN "UNKNOWN" ELSE CHOOSE t \in types : TRUE
  <2>2. Emit(type, NUL, Start + Len(value)) /\ UNCHANGED status
    BY <1>9, Zenon DEF generateOpAndSepToken
  <2>3. type \in TokenType
    <3>1. types \subseteq TokenType /\ "UNKNOWN" \in TokenType
      BY TokenTypes
    <3> HIDE DEF types
    <3> QED BY <3>1
  <2>4. Start + Len(value) \in 1 .. Len(text) + 1
    <3>1. CASE Is(Start + 1, "=")
      <4>1. At(Start + 1) # NUL /\ Start + 1 \in Nat
        BY <2>1, <3>1 DEF Is, Ch, NUL
      <4>2. Len(value) = 2
        BY <3>1 DEF Spelling
      <4> HIDE DEF value
      <4> QED BY <1>1, <2>1, <4>1, <4>2, AtFacts
    <3>2. CASE ~Is(Start + 1, "=")
      <4>1. Len(value) = 1
        BY <3>2 DEF Spelling
      <4> HIDE DEF value
      <4> QED BY <1>1, <2>1, <4>1
    <3> QED BY <3>1, <3>2
  <2>5. NUL \in Value
    BY Glyphs
  <2> HIDE DEF type, value
  <2> QED
    BY <2>1, <2>2, <2>3, <2>4, <2>5, EmitKeepsInv
<1>10. CASE EndLexing
  <2>1. /\ status = "lexing" /\ status' \in {"parsing", "wild"} /\ UNCHANGED lexerVars
        /\ tokens' = Append(tokens, EndOfTokens)
    BY <1>10, Zenon DEF EndLexing, AnyOutcome
  <2>2. EndOfTokens \in Token /\ EndOfTokens.type = "END_OF_TOKENS"
    <3>1. "END_OF_TOKENS" \in TokenType /\ NUL \in Value
      BY TokenTypes, Glyphs
    <3> QED BY <3>1 DEF EndOfTokens, Tok, Token
  <2>3. /\ tokens' \in Seq(Token) /\ Len(tokens') = Len(tokens) + 1
        /\ tokens'[Len(tokens')].type = "END_OF_TOKENS" /\ 1 \in 1 .. Len(tokens')
    <3>1. tokens \in Seq(Token)
      BY <1>1 DEF LexerInv
    <3> HIDE DEF EndOfTokens
    <3> QED BY <1>1, <2>1, <2>2, <3>1
  <2>4. LexerInv'
    BY <1>1, <2>1, <2>3 DEF LexerInv, lexerVars, Statuses, Ended
  <2>5. ParserInv' /\ DeclInv'
    BY <2>1, <2>3 DEF Inv, ParserInv, DeclInv, parserVars
  <2> QED BY <2>4, <2>5 DEF Inv
<1> QED
  BY <1>3, <1>4, <1>5, <1>6, <1>7, <1>8, <1>9, <1>10 DEF LexerNext

-----------------------------------------------------------------------------
(***************************************************************************)
(* The parser's steps.                                                     *)
(***************************************************************************)
(* A step of the parser that passes a token passes none that ends the list.    *)
Passes == \/ UNCHANGED currentToken
          \/ currentToken' = currentToken + 1 /\ Now.type # "END_OF_TOKENS"

LEMMA PassingStays ==
  ASSUME Inv, status = "parsing", Passes
  PROVE  currentToken' \in 1 .. Len(tokens)
<1>1. tokens \in Seq(Token) /\ Len(tokens) \in Nat
  BY LenProperties DEF Inv, LexerInv
<1> QED
  BY <1>1 DEF Inv, ParserInv, Passes, Now

LEMMA NowIsToken ==
  ASSUME Inv, status = "parsing"
  PROVE  Now \in Token /\ Now.value \in Value
<1>1. tokens \in Seq(Token) /\ currentToken \in 1 .. Len(tokens)
  BY DEF Inv, LexerInv, ParserInv
<1>2. Now \in Token
  BY <1>1, ElementOfSeq DEF Now
<1> QED BY <1>2 DEF Token

(* The innermost goal, and what is around it.                                  *)
LEMMA HeadFacts ==
  ASSUME Inv
  PROVE  /\ goals \in Seq(Goal) /\ goals # <<>> /\ Head(goals) \in Goal /\ Tail(goals) \in Seq(Goal)
         /\ Tree(scopes) /\ scopes \in Seq(Scoping) /\ IsList(built) /\ Nested(Tail(goals), scopes)
         /\ Head(goals).do \notin Bare => Scope \in 1 .. Len(scopes) /\ Scope \in Nat /\ Apart(scopes, Scope)
         /\ Head(goals).do \in Openers => Within(Tail(goals), scopes, Scope)
<1>1. Tree(scopes) /\ scopes \in Seq(Scoping) /\ IsList(built) /\ Nested(goals, scopes) /\ goals # <<>>
  BY DEF Inv, ParserInv, Rooted
<1>2. goals \in Seq(Fitting(scopes)) /\ Fitting(scopes) \subseteq Goal
  BY <1>1 DEF Nested, Fitting
<1>3. /\ Nested(Tail(goals), scopes) /\ Head(goals) \in Fitting(scopes)
      /\ Head(goals).do \in Openers => Within(Tail(goals), scopes, Head(goals).scope)
  BY <1>1, TailNests
<1>4. goals \in Seq(Goal)
  BY <1>2
<1>5. Head(goals) \in Goal /\ Tail(goals) \in Seq(Goal)
  BY <1>1, <1>4
<1>6. Head(goals).do \notin Bare => Scope \in 1 .. Len(scopes) /\ Scope \in Nat /\ Apart(scopes, Scope)
  BY <1>3 DEF Fitting, Scope
<1> QED BY <1>1, <1>3, <1>4, <1>5, <1>6 DEF Scope

LEMMA RootStays ==
  ASSUME NEW gs \in Seq(Goal), Rooted(gs), NEW new \in Seq(Goal), Head(gs).do # "program"
  PROVE  Rooted(new \o Tail(gs))
<1>1. /\ Len(gs) \in Nat /\ Len(gs) # 0 /\ Len(new) \in Nat /\ Tail(gs) \in Seq(Goal) /\ Len(Tail(gs)) = Len(gs) - 1
      /\ Head(gs) = gs[1] /\ \A i \in 1 .. Len(gs) - 1 : Tail(gs)[i] = gs[i + 1]
  BY DEF Rooted
<1>2. Len(gs) # 1
  BY <1>1 DEF Rooted
<1> DEFINE rest == Tail(gs)
           m == Len(gs) - 1
<1>3. m \in 1 .. m /\ Len(rest) = m /\ rest \in Seq(Goal) /\ rest[m] = gs[Len(gs)]
  BY <1>1, <1>2
<1> HIDE DEF rest, m
<1>4. /\ Len(new \o rest) = Len(new) + m /\ (new \o rest)[Len(new) + m] = rest[m]
      /\ new \o rest # <<>>
  BY <1>1, <1>3
<1>5. Rooted(new \o rest)
  BY <1>3, <1>4 DEF Rooted
<1> QED BY <1>5 DEF rest

LEMMA RootUnder ==
  ASSUME NEW gs \in Seq(Goal), Rooted(gs), NEW new \in Seq(Goal)
  PROVE  Rooted(new \o gs)
<1>1. Len(gs) \in Nat /\ Len(gs) # 0 /\ Len(new) \in Nat
  BY DEF Rooted
<1>2. /\ Len(new \o gs) = Len(new) + Len(gs) /\ (new \o gs)[Len(new) + Len(gs)] = gs[Len(gs)]
      /\ new \o gs # <<>>
  BY <1>1
<1> QED BY <1>2 DEF Rooted

(* A step that changes the parser's goals.                                     *)
LEMMA GoalsKeepInv ==
  ASSUME Inv, status = "parsing", UNCHANGED lexerVars, UNCHANGED <<tokens, status>>, Passes, Rooted(goals'),
         IsList(built'), scopes' \in Seq(Scoping), Tree(scopes'), Nested(goals', scopes'), DeclInv'
  PROVE  Inv'
<1>2. currentToken' \in 1 .. Len(tokens) /\ currentToken' \in Nat
  BY PassingStays
<1>3. LexerInv'
  BY DEF Inv, LexerInv, lexerVars
<1>4. ParserInv'
  BY <1>2 DEF Inv, ParserInv
<1> QED
  BY <1>3, <1>4 DEF Inv

(* A step that puts new goals in place of the innermost.                       *)
LEMMA StepKeepsInv ==
  ASSUME Inv, status = "parsing", UNCHANGED lexerVars, UNCHANGED <<tokens, status>>, Passes,
         NEW new \in Seq(Goal), Head(goals).do # "program", goals' = new \o Tail(goals),
         IsList(built'), scopes' \in Seq(Scoping), Tree(scopes'), Nested(goals', scopes'), DeclInv'
  PROVE  Inv'
<1>1. Rooted(goals')
  BY HeadFacts, RootStays DEF Inv, ParserInv
<1> QED
  BY <1>1, GoalsKeepInv

LEMMA FailKeepsInv ==
  ASSUME Inv, status = "parsing", UNCHANGED lexerVars, NEW how \in Ended, Fail(how)
  PROVE  Inv'
<1>1. how # "lexing" /\ how # "parsing" /\ how \in Statuses
  BY DEF Ended, Statuses
<1>2. LexerInv'
  BY <1>1 DEF Fail, Inv, LexerInv, lexerVars
<1>3. ParserInv' /\ DeclInv'
  BY <1>1 DEF Fail, Inv, ParserInv, DeclInv, parserVars
<1> QED BY <1>2, <1>3 DEF Inv

(* The goals that a function puts in place of its own.                         *)
(* Goals of scope x other than the one that inserts.                           *)
Spread(x) == {g \in Uniform(x) : g.do # "insertSymbol"}

LEMMA PlainIsSpread ==
  ASSUME NEW x
  PROVE  Plain(x) \subseteq Spread(x) /\ Spread(x) \subseteq Uniform(x) /\ Spread(x) \subseteq Others /\ Uniform(x) \subseteq Goal
BY DEF Plain, Spread, Uniform, Others, Openers

LEMMA BareGoals ==
  ASSUME NEW x
  PROVE  /\ Child \in Plain(x)
         /\ \A t \in TokenType \ {"END_OF_TOKENS"} : Leaf(t) \in Plain(x) /\ Match(t) \in Plain(x)
BY DEF Plain, Uniform, Goal, Calls, Bare, Openers, Child, Leaf, Match

LEMMA CallGoals ==
  ASSUME NEW x \in Nat, NEW f \in Calls \ {"child"}
  PROVE  /\ Call(f, x) \in Uniform(x)
         /\ f # "insertSymbol" => Call(f, x) \in Spread(x)
         /\ f \notin Openers => Call(f, x) \in Plain(x)
<1>1. Call(f, x) \in Goal /\ Call(f, x).do = f /\ Call(f, x).scope = x
  BY DEF Call, Goal
<1>2. f \notin Bare
  BY DEF Calls, Bare
<1> HIDE DEF Call
<1> QED BY <1>1, <1>2 DEF Plain, Spread, Uniform

LEMMA Terminals ==
  {"LPAREN", "RPAREN", "LBRACE", "RBRACE", "SEMICOLON", "EQUAL", "IDENTIFIER", "IF", "ELSE", "WHILE", "FOR", "EXIT", "PRINT", "SCAN"}
    \cup DataTypes \subseteq TokenType \ {"END_OF_TOKENS"}
<1>1. {"LPAREN", "RPAREN", "LBRACE", "RBRACE", "SEMICOLON", "EQUAL"} \subseteq DOMAIN OpAndSepTokens
  BY DEF OpAndSepTokens
<1>2. {"IF", "ELSE", "WHILE", "FOR", "EXIT", "PRINT", "SCAN"} \cup DataTypes \subseteq Range(KeywordTokens)
  <2>1. /\ KeywordTokens["if"] = "IF" /\ KeywordTokens["else"] = "ELSE" /\ KeywordTokens["while"] = "WHILE"
        /\ KeywordTokens["for"] = "FOR" /\ KeywordTokens["exit"] = "EXIT" /\ KeywordTokens["print"] = "PRINT"
        /\ KeywordTokens["scan"] = "SCAN"
        /\ {"if", "else", "while", "for", "exit", "print", "scan"} \subseteq DOMAIN KeywordTokens
    BY DEF KeywordTokens
  <2>2. /\ KeywordTokens["int"] = "INT" /\ KeywordTokens["float"] = "FLOAT"
        /\ KeywordTokens["char"] = "CHAR" /\ KeywordTokens["string"] = "STRING"
        /\ {"int", "float", "char", "string"} \subseteq DOMAIN KeywordTokens
    BY DEF KeywordTokens
  <2> QED BY <2>1, <2>2 DEF Range, DataTypes
<1>3. "END_OF_TOKENS" \notin DataTypes
  BY DEF DataTypes
<1> QED BY <1>1, <1>2, <1>3 DEF TokenType

(* The lists that several functions use.                                       *)
LEMMA PartLists ==
  ASSUME NEW x \in Nat
  PROVE  /\ Expression(x) \in Seq(Plain(x)) /\ Statement(x) \in Seq(Spread(x))
         /\ AddedToFor \in Seq({Child}) /\ Semicolon \in Seq({Leaf("SEMICOLON")})
         /\ AddedToFor \in Seq(Plain(x)) /\ Semicolon \in Seq(Plain(x))
<1>1. Child \in Plain(x) /\ Leaf("SEMICOLON") \in Plain(x) /\ Child \in Spread(x)
  BY BareGoals, Terminals, PlainIsSpread
<1>2. Call("expression", x) \in Plain(x) /\ Call("statement", x) \in Spread(x)
  <2>1. /\ "expression" \in Calls \ {"child"} /\ "statement" \in Calls \ {"child"}
        /\ "expression" \notin Openers /\ "statement" # "insertSymbol"
    BY DEF Calls, Openers
  <2> QED BY <2>1, CallGoals
<1>3. Expression(x) \in Seq(Plain(x)) /\ Statement(x) \in Seq(Spread(x))
  BY <1>1, <1>2 DEF Expression, Statement
<1>4. /\ AddedToFor \in Seq({Child}) /\ Semicolon \in Seq({Leaf("SEMICOLON")})
      /\ AddedToFor \in Seq(Plain(x)) /\ Semicolon \in Seq(Plain(x))
  <2>1. \A S : <<>> \in Seq(S) /\ \A e \in S : <<e>> \in Seq(S)
    OBVIOUS
  <2>2. AddedToFor \in {<<>>, <<Child>>} /\ Semicolon \in {<<>>, <<Leaf("SEMICOLON")>>}
    BY DEF AddedToFor, Semicolon
  <2>3. Child \in {Child} /\ Leaf("SEMICOLON") \in {Leaf("SEMICOLON")}
    OBVIOUS
  <2>4. AddedToFor \in Seq({Child}) /\ AddedToFor \in Seq(Plain(x))
    BY <1>1, <2>1, <2>2, <2>3, Zenon
  <2>5. Semicolon \in Seq({Leaf("SEMICOLON")}) /\ Semicolon \in Seq(Plain(x))
    BY <1>1, <2>1, <2>2, <2>3, Zenon
  <2> QED BY <2>4, <2>5
<1> QED BY <1>3, <1>4

(* Steps of one scope: a call that is no declaration's, one of an expression,  *)
(* and one that looks for a name.                                              *)
LEMMA SeqSubset == ASSUME NEW S, NEW T, S \subseteq T, NEW s \in Seq(S) PROVE s \in Seq(T)
OBVIOUS

LEMMA PlainStep ==
  ASSUME Inv, status = "parsing", UNCHANGED lexerVars, UNCHANGED <<tokens, status, scopes>>, Passes,
         Head(goals).do \notin Bare, Head(goals).do # "program",
         NEW new \in Seq(Plain(Scope)), goals' = new \o Tail(goals), IsList(built'), DeclInv'
  PROVE  Inv'
<1>1. new \in Seq(Goal)
  BY PlainIsSpread, SeqSubset DEF Plain, Uniform
<1>2. Nested(goals', scopes')
  BY HeadFacts, PlainNests
<1> QED BY <1>1, <1>2, HeadFacts, StepKeepsInv

LEMMA SpreadStep ==
  ASSUME Inv, status = "parsing", UNCHANGED lexerVars, UNCHANGED <<tokens, status, scopes>>, Passes,
         Head(goals).do \in Openers, Head(goals).do # "program",
         NEW new \in Seq(Uniform(Scope)), goals' = new \o Tail(goals), IsList(built'), DeclInv'
  PROVE  Inv'
<1>1. new \in Seq(Goal) /\ Head(goals).do \notin Bare
  BY SeqSubset DEF Uniform, Openers, Bare
<1>2. Nested(goals', scopes')
  BY <1>1, HeadFacts, UniformNests
<1> QED BY <1>1, <1>2, HeadFacts, StepKeepsInv

(* A statement's function, that creates a node in the scope it is in.          *)
Ordinary == Head(goals).do \notin Inner \cup {"insertSymbol", "absent", "program"}

LEMMA OrdinaryStep ==
  ASSUME Inv, status = "parsing", UNCHANGED lexerVars, UNCHANGED <<tokens, status, scopes, currentToken>>,
         Ordinary, built' = built \/ \E x : built' = Append(built, x),
         NEW new \in Seq(Plain(Scope)), goals' = new \o Tail(goals)
  PROVE  Inv'
<1>1. IsList(built')
  BY HeadFacts, AppendIsList
<1>2. new \in Seq(Others)
  BY PlainIsSpread, SeqSubset
<1>3. DeclInv'
  BY <1>2, HeadFacts, OutsideKeepsDecl DEF Inv, Ordinary
<1>4. Head(goals).do \notin Bare /\ Head(goals).do # "program"
  BY DEF Ordinary, Inner
<1> QED BY <1>1, <1>3, <1>4, PlainStep DEF Passes

(* A statement's function that creates a scope.                                *)
LEMMA ScopingStep ==
  ASSUME Inv, status = "parsing", UNCHANGED lexerVars, UNCHANGED <<tokens, status, currentToken>>,
         Ordinary, Head(goals).do \in Openers, built' = built \/ \E x : built' = Append(built, x),
         scopes' = NewScopes(Scope),
         NEW before \in Seq(Plain(Scope)), NEW new \in Seq(Spread(NewScope)), NEW after \in Seq(Spread(Scope)),
         goals' = ((before \o new) \o after) \o Tail(goals)
  PROVE  Inv'
<1> DEFINE rest == Tail(goals)
           s == Scope
           n == NewScope
<1>1. /\ s \in 1 .. Len(scopes) /\ s \in Nat /\ Apart(scopes, s) /\ Tree(scopes) /\ scopes \in Seq(Scoping)
      /\ Nested(rest, scopes) /\ Within(rest, scopes, s) /\ rest \in Seq(Goal)
  BY HeadFacts DEF Openers, Bare
<1>2. before \in Seq(Goal) /\ new \in Seq(Goal) /\ after \in Seq(Goal)
  BY SeqSubset, PlainIsSpread DEF Plain, Uniform, Spread
<1>3. before \in Seq(Others) /\ new \in Seq(Others) /\ after \in Seq(Others)
  BY SeqSubset, PlainIsSpread
<1>4. new \in Seq(Uniform(n)) /\ after \in Seq(Uniform(s))
  BY SeqSubset, PlainIsSpread
<1> HIDE DEF rest, s, n
<1>5. /\ scopes' \in Seq(Scoping) /\ Tree(scopes') /\ Len(scopes') = n /\ n \in 1 .. Len(scopes') /\ s \in 1 .. Len(scopes')
      /\ Apart(scopes', s) /\ Apart(scopes', n)
      /\ Nested(rest, scopes') /\ Within(rest, scopes', s)
      /\ \A gs : Within(gs, scopes', s) => Within(gs, scopes', n)
  <2>1. Opens(scopes', scopes, s)
    BY DEF Opens, NewScopes, s
  <2>2. n = Len(scopes) + 1 /\ Len(scopes) \in Nat
    BY <1>1, LenProperties DEF n, NewScope
  <2> QED BY <1>1, <2>1, <2>2, ScopeAdded
<1> DEFINE tail == after \o rest
           inner == new \o tail
<1>6. Nested(tail, scopes') /\ Within(tail, scopes', s) /\ tail \in Seq(Goal)
  BY <1>1, <1>2, <1>4, <1>5, UniformNests
<1> HIDE DEF tail
<1>7. Nested(inner, scopes') /\ inner \in Seq(Goal)
  BY <1>2, <1>4, <1>5, <1>6, UniformNests
<1> HIDE DEF inner
<1>8. Nested(before \o inner, scopes')
  BY <1>5, <1>7, PlainNests DEF s
<1>9. ((before \o new) \o after) \o rest = before \o inner
  <2>1. Associates(Goal)
    BY CatAssociative
  <2>2. Cat(Cat(Cat(before, new), after), rest) = Cat(before, Cat(new, Cat(after, rest)))
    <3>1. Cat(before, new) \in Seq(Goal) /\ Cat(after, rest) \in Seq(Goal)
      BY <1>1, <1>2, <2>1 DEF Associates
    <3>2. Cat(Cat(Cat(before, new), after), rest) = Cat(Cat(before, new), Cat(after, rest))
      BY <1>1, <1>2, <2>1, <3>1 DEF Associates
    <3>3. Cat(Cat(before, new), Cat(after, rest)) = Cat(before, Cat(new, Cat(after, rest)))
      BY <1>1, <1>2, <2>1, <3>1 DEF Associates
    <3> QED BY <3>2, <3>3
  <2> QED BY <2>2, Zenon DEF Cat, inner, tail
<1> DEFINE all == (before \o new) \o after
<1>10. all \in Seq(Goal) /\ all \in Seq(Others)
  BY <1>2, <1>3
<1>11. goals' = all \o rest /\ Nested(goals', scopes')
  BY <1>8, <1>9 DEF rest
<1> HIDE DEF all
<1>12. DeclInv'
  BY <1>10, <1>11, HeadFacts, OutsideKeepsDecl DEF Inv, Ordinary, rest
<1>13. IsList(built')
  BY HeadFacts, AppendIsList
<1> QED BY <1>5, <1>10, <1>11, <1>12, <1>13, StepKeepsInv DEF Passes, Ordinary, rest

LEMMA ShortLists ==
  ASSUME NEW S
  PROVE  /\ <<>> \in Seq(S) /\ \A a \in S : <<a>> \in Seq(S)
         /\ \A a, b \in S : <<a, b>> \in Seq(S)
         /\ \A a, b, c \in S : <<a, b, c>> \in Seq(S)
OBVIOUS
LEMMA LongLists ==
  ASSUME NEW S
  PROVE  /\ \A a, b, c, d \in S : <<a, b, c, d>> \in Seq(S)
         /\ \A a, b, c, d, e, f \in S : <<a, b, c, d, e, f>> \in Seq(S)
OBVIOUS
LEMMA JoinedLists ==
  ASSUME NEW S, NEW p \in Seq(S), NEW q \in Seq(S)
  PROVE  p \o q \in Seq(S)
OBVIOUS

LEMMA StatementIsOrdinary ==
  ASSUME Head(goals).do \in {"statement", "forInit", "forUpdate", "else", "statements", "present"}
  PROVE  Ordinary
BY DEF Ordinary, Inner, Bare, Pushers, Loops

LEMMA CreatesStep ==
  ASSUME Inv, status = "parsing", UNCHANGED lexerVars, UNCHANGED scopes, Ordinary,
         NEW c, NEW gs \in Seq(Plain(Scope)), Creates(c, gs)
  PROVE  Inv'
BY OrdinaryStep DEF Creates, Instead

LEMMA SimpleStatementsKeepInv ==
  ASSUME Inv, UNCHANGED lexerVars,
         parseAssignment \/ parseExitStatement \/ parsePrintStatement \/ parseScanStatement
  PROVE  Inv'
<1> DEFINE P == Plain(Scope)
<1>1. /\ status = "parsing" /\ Ordinary /\ Scope \in Nat
  <2>1. status = "parsing" /\ Head(goals).do \in {"statement", "forInit", "forUpdate"}
    BY DEF parseAssignment, parseExitStatement, parsePrintStatement, parseScanStatement, Doing
  <2>2. Head(goals).do \notin Bare
    BY <2>1 DEF Bare
  <2> QED BY <2>1, <2>2, StatementIsOrdinary, HeadFacts
<1>2. Expression(Scope) \in Seq(P) /\ Semicolon \in Seq(P) /\ AddedToFor \in Seq(P)
  BY <1>1, PartLists
<1>3. \A t \in {"LPAREN", "RPAREN", "SEMICOLON", "EQUAL", "IDENTIFIER", "EXIT", "PRINT", "SCAN"} : Leaf(t) \in P /\ Match(t) \in P
  BY BareGoals, Terminals
<1>4. Call("present", Scope) \in P
  <2>1. "present" \in Calls \ {"child"} /\ "present" \notin Openers
    BY DEF Calls, Openers
  <2> QED BY <1>1, <2>1, CallGoals
<1> HIDE DEF P
<1>5. CASE parseAssignment
  <2>1. <<Leaf("IDENTIFIER"), Call("present", Scope), Leaf("EQUAL")>> \in Seq(P)
    BY <1>3, <1>4, ShortLists
  <2>2. <<Leaf("IDENTIFIER"), Call("present", Scope), Leaf("EQUAL")>> \o Expression(Scope) \o Semicolon \o AddedToFor \in Seq(P)
    BY <1>2, <2>1, JoinedLists
  <2> QED BY <1>1, <1>5, <2>2, CreatesStep DEF parseAssignment, P
<1>6. CASE parseExitStatement
  <2>1. <<Leaf("EXIT"), Leaf("LPAREN")>> \in Seq(P) /\ <<Leaf("RPAREN"), Leaf("SEMICOLON")>> \in Seq(P)
    BY <1>3, ShortLists
  <2>2. <<Leaf("EXIT"), Leaf("LPAREN")>> \o Expression(Scope) \o <<Leaf("RPAREN"), Leaf("SEMICOLON")>> \in Seq(P)
    BY <1>2, <2>1, JoinedLists
  <2> QED BY <1>1, <1>6, <2>2, CreatesStep DEF parseExitStatement, P
<1>7. CASE parsePrintStatement
  <2>1. <<Leaf("PRINT"), Match("LPAREN")>> \in Seq(P) /\ <<Match("RPAREN"), Leaf("SEMICOLON")>> \in Seq(P)
    BY <1>3, ShortLists
  <2>2. <<Leaf("PRINT"), Match("LPAREN")>> \o Expression(Scope) \o <<Match("RPAREN"), Leaf("SEMICOLON")>> \in Seq(P)
    BY <1>2, <2>1, JoinedLists
  <2> QED BY <1>1, <1>7, <2>2, CreatesStep DEF parsePrintStatement, P
<1>8. CASE parseScanStatement
  <2>1. <<Leaf("SCAN"), Match("LPAREN"), Leaf("IDENTIFIER"), Call("present", Scope), Match("RPAREN"), Leaf("SEMICOLON")>> \in Seq(P)
    BY <1>3, <1>4, LongLists
  <2> QED BY <1>1, <1>8, <2>1, CreatesStep DEF parseScanStatement, P
<1> QED
  BY <1>5, <1>6, <1>7, <1>8

(* A declaration.                                                              *)
LEMMA NodesAreNodes ==
  ASSUME NEW c
  PROVE  NodeLike(Construct(c)) /\ Len(Construct(c).children) = 0
<1> DEFINE n == Construct(c)
<1>1. n = [type |-> "BEGINNING", value |-> Ch(c), children |-> <<>>]
  BY DEF Construct, Node, Tok
<1>2. n.type = "BEGINNING" /\ n.value = Ch(c) /\ n.children = <<>>
  BY <1>1
<1>3. IsList(<<>>)
  <2>1. <<>> \in Seq({})
    OBVIOUS
  <2> QED BY <2>1 DEF IsList
<1> QED BY <1>1, <1>2, <1>3 DEF NodeLike

LEMMA DeclarationKeepsInv ==
  ASSUME Inv, UNCHANGED lexerVars, parseDeclaration
  PROVE  Inv'
<1> DEFINE P == Plain(Scope)
           U == Uniform(Scope)
           new == Declaration(Leaf(Now.type), Leaf("IDENTIFIER"), Scope, Semicolon, AddedToFor)
<1>1. /\ status = "parsing" /\ Head(goals).do \in {"statement", "forInit"} /\ Now.type \in DataTypes
      /\ UNCHANGED <<scopes, tokens, status, currentToken>>
      /\ built' = Append(built, Construct("DECLARATION")) /\ goals' = new \o Tail(goals)
  BY DEF parseDeclaration, Doing, Creates, Instead, DataTypes, Declaration
<1>2. /\ Head(goals).do \in Openers /\ Head(goals).do # "program" /\ Ordinary /\ Scope \in Nat
  <2>1. Head(goals).do \in Openers /\ Head(goals).do # "program" /\ Head(goals).do \notin Bare
    BY <1>1 DEF Openers, Bare
  <2> QED BY <1>1, <2>1, HeadFacts, StatementIsOrdinary
<1>3. /\ Leaf(Now.type) \in U /\ Leaf("IDENTIFIER") \in U /\ Semicolon \in Seq(U) /\ AddedToFor \in Seq(U)
  <2>1. U \in SUBSET Goal /\ P \subseteq U
    BY PlainIsSpread
  <2>2. Leaf(Now.type) \in P /\ Leaf("IDENTIFIER") \in P /\ Semicolon \in Seq(P) /\ AddedToFor \in Seq(P)
    BY <1>1, <1>2, BareGoals, Terminals, PartLists
  <2> HIDE DEF P, U
  <2> QED BY <2>1, <2>2, SeqSubset
<1>4. Call("absent", Scope) \in U /\ Call("initializer", Scope) \in U /\ Call("insertSymbol", Scope) \in U
  <2>1. {"absent", "initializer", "insertSymbol"} \subseteq Calls \ {"child"}
    BY DEF Calls
  <2> QED BY <1>2, <2>1, CallGoals
<1> HIDE DEF U
<1>5. new \in Seq(U)
  <2>1. <<Leaf(Now.type), Leaf("IDENTIFIER"), Call("absent", Scope), Call("initializer", Scope)>> \in Seq(U)
    BY <1>3, <1>4, LongLists
  <2>2. <<Call("insertSymbol", Scope)>> \in Seq(U)
    BY <1>4, ShortLists
  <2> QED BY <1>3, <2>1, <2>2, JoinedLists DEF Declaration
<1>6. IsList(built')
  BY <1>1, HeadFacts, AppendIsList
<1>7. DeclInv'
  <2>1. Leaf(Now.type).do = "leaf" /\ Leaf("IDENTIFIER").do = "leaf" /\ Leaf("SEMICOLON").do = "leaf"
    BY DEF Leaf
  <2>2. Leaf(Now.type) \in Goal /\ Leaf("IDENTIFIER") \in Goal /\ Leaf("SEMICOLON") \in Goal
    <3>1. Leaf("SEMICOLON") \in P
      BY BareGoals, Terminals
    <3> QED BY <1>3, <3>1, PlainIsSpread DEF U, Plain, Uniform
  <2>3. Semicolon \in Seq({g \in Goal : g.do = "leaf"}) /\ AddedToFor \in Seq({Child})
    <3>1. {Leaf("SEMICOLON")} \subseteq {g \in Goal : g.do = "leaf"}
      BY <2>1, <2>2
    <3> QED BY <1>2, <3>1, PartLists, SeqSubset
  <2>4. Tail(goals) \in Seq(Others)
    BY <1>2, HeadFacts, OutsideOfDeclaration DEF Inv, Ordinary
  <2>5. NodeLike(Construct("DECLARATION")) /\ Len(Construct("DECLARATION").children) = 0
    BY NodesAreNodes
  <2> QED BY <1>1, <1>2, <2>1, <2>2, <2>3, <2>4, <2>5, HeadFacts, DeclarationBegins
<1> HIDE DEF new
<1> QED BY <1>1, <1>2, <1>5, <1>6, <1>7, SpreadStep DEF Passes, U

LEMMA EmptyAround ==
  ASSUME NEW S, NEW p \in Seq(S)
  PROVE  <<>> \o p = p /\ p \o <<>> = p
OBVIOUS

LEMMA NestingStatementsKeepInv ==
  ASSUME Inv, UNCHANGED lexerVars,
         \/ parseIfStatement \/ parseWhileStatement \/ parseForStatement \/ parseBlock
         \/ parseElse /\ Now.type = "ELSE"
  PROVE  Inv'
<1> DEFINE P == Plain(Scope)
           Q == Spread(NewScope)
           R == Spread(Scope)
<1>1. /\ status = "parsing" /\ Ordinary /\ Scope \in Nat /\ NewScope \in Nat /\ Head(goals).do \in Openers
      /\ scopes' = NewScopes(Scope) /\ UNCHANGED <<tokens, status, currentToken>>
      /\ built' = built \/ \E x : built' = Append(built, x)
  <2>1. /\ status = "parsing" /\ Head(goals).do \in {"statement", "else"} /\ scopes' = NewScopes(Scope)
        /\ UNCHANGED <<tokens, status, currentToken>>
    BY DEF parseIfStatement, parseWhileStatement, parseForStatement, parseBlock, parseElse, Doing, Creates
  <2>2. built' = built \/ \E x : built' = Append(built, x)
    BY DEF parseIfStatement, parseWhileStatement, parseForStatement, parseBlock, parseElse, Creates
  <2>3. Head(goals).do \notin Bare /\ Head(goals).do \in Openers
    BY <2>1 DEF Bare, Openers
  <2>4. NewScope \in Nat
    BY HeadFacts, LenProperties DEF NewScope
  <2> QED BY <2>1, <2>2, <2>3, <2>4, StatementIsOrdinary, HeadFacts
<1>2. /\ Expression(Scope) \in Seq(P)
      /\ Statement(NewScope) \in Seq(Q) /\ Expression(NewScope) \in Seq(Q)
  <2>1. Expression(NewScope) \in Seq(Plain(NewScope)) /\ Plain(NewScope) \subseteq Q
    BY <1>1, PartLists, PlainIsSpread
  <2>2. Expression(NewScope) \in Seq(Q)
    BY <2>1, SeqSubset
  <2> QED BY <1>1, <2>2, PartLists
<1>3. \A t \in {"LPAREN", "RPAREN", "SEMICOLON", "LBRACE", "IF", "ELSE", "WHILE", "FOR"} :
        Leaf(t) \in P /\ Match(t) \in P /\ Leaf(t) \in Q /\ Match(t) \in Q
  BY BareGoals, Terminals, PlainIsSpread
<1>4. Call("else", Scope) \in R /\ {Call("forInit", NewScope), Call("forUpdate", NewScope), Call("statements", NewScope)} \subseteq Q
  <2>1. {"else", "forInit", "forUpdate", "statements"} \subseteq Calls \ {"child", "insertSymbol"}
    BY DEF Calls
  <2> QED BY <1>1, <2>1, CallGoals
<1>5. ASSUME NEW p \in Seq(P), NEW q \in Seq(Q), NEW r \in Seq(R), goals' = ((p \o q) \o r) \o Tail(goals)
      PROVE  Inv'
  BY <1>1, <1>5, ScopingStep
<1>6. <<>> \in Seq(P) /\ <<>> \in Seq(R)
  BY ShortLists
<1> HIDE DEF P, Q, R
<1>7. ASSUME NEW p \in Seq(P), NEW q \in Seq(Q), goals' = (p \o q) \o Tail(goals)
      PROVE  Inv'
  <2>1. (p \o q) \o <<>> = p \o q
    <3>1. p \in Seq(P \cup Q) /\ q \in Seq(P \cup Q)
      BY SeqSubset
    <3> QED BY <3>1, JoinedLists, EmptyAround
  <2>2. goals' = ((p \o q) \o <<>>) \o Tail(goals)
    BY <1>7, <2>1
  <2> QED BY <1>5, <1>6, <2>2
<1>8. ASSUME NEW q \in Seq(Q), goals' = q \o Tail(goals)
      PROVE  Inv'
  <2>1. <<>> \o q = q
    BY EmptyAround
  <2>2. goals' = (<<>> \o q) \o Tail(goals)
    BY <1>8, <2>1
  <2> QED BY <1>6, <1>7, <2>2
<1>9. CASE parseIfStatement
  <2>1. <<Leaf("IF"), Match("LPAREN")>> \in Seq(P) /\ <<Match("RPAREN")>> \in Seq(P) /\ <<Call("else", Scope)>> \in Seq(R)
    BY <1>3, <1>4, ShortLists
  <2>2. <<Leaf("IF"), Match("LPAREN")>> \o Expression(Scope) \o <<Match("RPAREN")>> \in Seq(P)
    BY <1>2, <2>1, JoinedLists
  <2>3. goals' = (((<<Leaf("IF"), Match("LPAREN")>> \o Expression(Scope) \o <<Match("RPAREN")>>)
                   \o Statement(NewScope)) \o <<Call("else", Scope)>>) \o Tail(goals)
    BY <1>9 DEF parseIfStatement, Creates, Instead
  <2> QED BY <1>2, <1>5, <2>1, <2>2, <2>3
<1>10. CASE parseWhileStatement
  <2>1. <<Leaf("WHILE"), Match("LPAREN")>> \in Seq(P) /\ <<Match("RPAREN")>> \in Seq(P)
    BY <1>3, ShortLists
  <2>2. <<Leaf("WHILE"), Match("LPAREN")>> \o Expression(Scope) \o <<Match("RPAREN")>> \in Seq(P)
    BY <1>2, <2>1, JoinedLists
  <2>3. goals' = ((<<Leaf("WHILE"), Match("LPAREN")>> \o Expression(Scope) \o <<Match("RPAREN")>>)
                  \o Statement(NewScope)) \o Tail(goals)
    BY <1>10 DEF parseWhileStatement, Creates, Instead
  <2> QED BY <1>2, <1>7, <2>2, <2>3
<1>11. CASE parseForStatement
  <2>1. /\ <<Leaf("FOR"), Match("LPAREN"), Call("forInit", NewScope), Match("SEMICOLON")>> \in Seq(Q)
        /\ <<Match("SEMICOLON"), Call("forUpdate", NewScope), Match("RPAREN")>> \in Seq(Q)
    BY <1>3, <1>4, ShortLists, LongLists
  <2>2. <<Leaf("FOR"), Match("LPAREN"), Call("forInit", NewScope), Match("SEMICOLON")>>
        \o Expression(NewScope) \o <<Match("SEMICOLON"), Call("forUpdate", NewScope), Match("RPAREN")>>
        \o Statement(NewScope) \in Seq(Q)
    BY <1>2, <2>1, JoinedLists
  <2> QED BY <1>8, <1>11, <2>2 DEF parseForStatement, Creates, Instead
<1>12. CASE parseBlock
  <2>1. <<Match("LBRACE"), Call("statements", NewScope)>> \in Seq(Q)
    BY <1>3, <1>4, ShortLists
  <2> QED BY <1>8, <1>12, <2>1 DEF parseBlock, Creates, Instead
<1>13. CASE parseElse /\ Now.type = "ELSE"
  <2>1. <<Leaf("ELSE")>> \o Statement(NewScope) \in Seq(Q)
    BY <1>2, <1>3, ShortLists, JoinedLists
  <2> QED BY <1>8, <1>13, <2>1 DEF parseElse, Instead
<1> QED
  BY <1>9, <1>10, <1>11, <1>12, <1>13

(* The parts of statements.                                                    *)
LEMMA PartsKeepInv ==
  ASSUME Inv, UNCHANGED lexerVars,
         \/ CheckPresent \/ parseForInit \/ parseForUpdate \/ parseStatements
         \/ parseElse /\ Now.type # "ELSE"
  PROVE  Inv'
<1>1. /\ status = "parsing" /\ Head(goals).do \in {"present", "forInit", "forUpdate", "statements", "else"} /\ Ordinary
      /\ Scope \in Nat
  <2>1. status = "parsing" /\ Head(goals).do \in {"present", "forInit", "forUpdate", "statements", "else"}
    BY DEF CheckPresent, parseForInit, parseForUpdate, parseStatements, parseElse, Doing
  <2>2. Head(goals).do \notin Bare
    BY <2>1 DEF Bare
  <2> QED BY <2>1, <2>2, StatementIsOrdinary, HeadFacts
<1>2. ASSUME NEW gs \in Seq(Plain(Scope)), Becomes(gs) PROVE Inv'
  BY <1>1, <1>2, OrdinaryStep DEF Becomes, Instead
<1>3. <<>> \in Seq(Plain(Scope)) /\ Expression(Scope) \in Seq(Plain(Scope))
  BY <1>1, ShortLists, PartLists
<1>4. CASE CheckPresent
  <2>1. Becomes(<<>>) \/ Fail("semantic")
    BY <1>4 DEF CheckPresent, Undeclared
  <2>2. "semantic" \in Ended
    BY DEF Ended
  <2> QED BY <1>1, <1>2, <1>3, <2>1, <2>2, FailKeepsInv
<1>5. CASE parseForInit
  BY <1>2, <1>3, <1>5 DEF parseForInit
<1>6. CASE parseForUpdate
  BY <1>2, <1>3, <1>6 DEF parseForUpdate
<1>7. CASE parseElse /\ Now.type # "ELSE"
  BY <1>2, <1>3, <1>7 DEF parseElse, Becomes
<1>8. CASE parseStatements
  <2>1. CASE Now.type = "RBRACE"
    <3>1. <<Match("RBRACE")>> \in Seq(Plain(Scope))
      BY BareGoals, Terminals, ShortLists
    <3> QED BY <1>2, <1>8, <2>1, <3>1 DEF parseStatements
  <2>2. CASE Now.type # "RBRACE"
    <3> DEFINE new == Statement(Scope) \o <<Head(goals)>>
               U == Spread(Scope)
    <3>1. Head(goals).do = "statements" /\ Becomes(new)
      BY <1>8, <2>2 DEF parseStatements, Doing
    <3>2. Head(goals) \in U
      <4>1. Head(goals) \in Goal /\ Head(goals).scope = Scope
        BY HeadFacts DEF Scope
      <4> QED BY <3>1, <4>1 DEF Spread, Uniform, Bare
    <3>3. Statement(Scope) \in Seq(U)
      BY <1>1, PartLists
    <3>4. new \in Seq(U)
      <4> HIDE DEF U
      <4>1. <<Head(goals)>> \in Seq(U)
        BY <3>2, ShortLists
      <4> QED BY <3>3, <4>1, JoinedLists
    <3>5. new \in Seq(Uniform(Scope)) /\ new \in Seq(Others)
      BY <3>4, SeqSubset, PlainIsSpread
    <3> HIDE DEF new
    <3>6. DeclInv'
      BY <1>1, <3>1, <3>5, HeadFacts, OutsideKeepsDecl DEF Inv, Ordinary, Becomes, Instead
    <3>7. Head(goals).do \in Openers /\ Head(goals).do # "program"
      BY <3>1 DEF Openers
    <3> QED BY <1>1, <3>1, <3>5, <3>6, <3>7, HeadFacts, SpreadStep DEF Passes, Becomes, Instead
  <2> QED BY <2>1, <2>2
<1> QED
  BY <1>4, <1>5, <1>6, <1>7, <1>8

-----------------------------------------------------------------------------
(***************************************************************************)
(* Names, tokens and children.                                             *)
(***************************************************************************)
LEMMA insertSymbolKeepsInv == ASSUME Inv, UNCHANGED lexerVars, insertSymbol PROVE Inv'
<1>1. status = "parsing" /\ Head(goals).do = "insertSymbol"
  BY DEF insertSymbol, Doing
<1>2. CASE Fail("semantic")
  <2>1. "semantic" \in Ended
    BY DEF Ended
  <2> QED BY <1>1, <1>2, <2>1, FailKeepsInv
<1>3. CASE Declared(Scope)
  <2>1. /\ Scope \in 1 .. Len(scopes) /\ Scope \in Nat /\ Apart(scopes, Scope) /\ Within(Tail(goals), scopes, Scope)
        /\ Head(goals).do # "program"
    BY <1>1, HeadFacts DEF Bare, Openers
  <2>2. goals' = <<>> \o Tail(goals) /\ UNCHANGED <<tokens, status, currentToken, built>> /\ <<>> \in Seq(Goal)
    BY <1>3 DEF Declared, Instead
  <2>3. goals' = Tail(goals)
    BY <2>2, HeadFacts, EmptyAround
  <2>4. Tail(goals) \in Seq(Others) /\ Len(built) >= 1 /\ Chosen(built[Len(built)], scopes, Scope)
    BY <1>1, HeadFacts, SymbolIsChosen DEF Inv, Scope
  <2>5. Symbol \in Value /\ Symbol \notin VisibleIn(scopes, Scope)
    BY <2>4 DEF Chosen, Symbol, Innermost, Last
  <2>6. Declares(scopes', scopes, Scope, Symbol)
    BY <1>3 DEF Declared, Declares
  <2>7. scopes' \in Seq(Scoping) /\ Tree(scopes') /\ Nested(Tail(goals), scopes')
    BY <2>1, <2>5, <2>6, HeadFacts, NameAdded
  <2>8. Nested(goals', scopes')
    BY <2>3, <2>7
  <2>9. DeclInv'
    BY <2>3, <2>4 DEF DeclInv
  <2> QED BY <1>1, <2>1, <2>2, <2>7, <2>8, <2>9, HeadFacts, StepKeepsInv DEF Passes
<1> QED BY <1>2, <1>3 DEF insertSymbol

LEMMA CheckAbsentKeepsInv == ASSUME Inv, UNCHANGED lexerVars, CheckAbsent PROVE Inv'
<1>1. status = "parsing" /\ Head(goals).do = "absent"
  BY DEF CheckAbsent, Doing
<1>2. CASE Fail("semantic")
  <2>1. "semantic" \in Ended
    BY DEF Ended
  <2> QED BY <1>1, <1>2, <2>1, FailKeepsInv
<1>3. CASE Named \notin Visible(Scope) /\ Becomes(<<>>)
  <2>1. goals' = <<>> \o Tail(goals) /\ UNCHANGED <<tokens, status, currentToken, built, scopes>>
    BY <1>3 DEF Becomes, Instead
  <2>2. goals' = Tail(goals)
    BY <2>1, HeadFacts, EmptyAround
  <2>3. DeclInv'
    BY <1>1, <1>3, <2>1, <2>2, HeadFacts, LookUpChooses DEF Inv
  <2>4. Head(goals).do \notin Bare /\ Head(goals).do # "program" /\ <<>> \in Seq(Plain(Scope))
    BY <1>1 DEF Bare
  <2> QED BY <1>1, <2>1, <2>3, <2>4, HeadFacts, PlainStep DEF Passes
<1> QED BY <1>2, <1>3 DEF CheckAbsent

(* A bare goal is done.                                                        *)
LEMMA BareStep ==
  ASSUME Inv, status = "parsing", UNCHANGED lexerVars, UNCHANGED <<tokens, status, scopes>>, Passes,
         Head(goals).do \in Bare, Instead(<<>>), IsList(built'), DeclInv'
  PROVE  Inv'
<1>1. goals' = <<>> \o Tail(goals) /\ <<>> \in Seq(Goal) /\ Head(goals).do # "program"
  BY DEF Instead, Bare
<1>2. goals' = Tail(goals)
  BY <1>1, HeadFacts, EmptyAround
<1>3. Nested(goals', scopes')
  BY <1>2, HeadFacts
<1> QED BY <1>1, <1>3, HeadFacts, StepKeepsInv

LEMMA matchKeepsInv == ASSUME Inv, UNCHANGED lexerVars, match PROVE Inv'
<1>1. /\ status = "parsing" /\ Head(goals).do = "match" /\ Now.type = Head(goals).arg /\ currentToken' = currentToken + 1
      /\ Instead(<<>>) /\ UNCHANGED <<tokens, status, built, scopes>>
  BY DEF match, Doing
<1>2. Head(goals).arg # "END_OF_TOKENS"
  <2>1. Head(goals) \in Goal
    BY HeadFacts
  <2> QED BY <1>1, <2>1 DEF Goal, Calls
<1>3. Head(goals).do \in Bare /\ Head(goals).do \in Inner \ {"leaf"} /\ Effect(Head(goals)) = 0
  BY <1>1 DEF Bare, Inner, Effect, Pushers
<1>4. Len(built) \in Nat
  BY HeadFacts, LenProperties DEF IsList
<1>5. ASSUME NEW h \in 1 .. Len(built), May(Head(goals), h, Len(built))
      PROVE  /\ Takes(<<>>, h, Len(built'), Len(built) + Effect(Head(goals))) /\ h \in 1 .. Len(built')
             /\ built'[h] = built[h] \/ \E c : built'[h] = AddChild(built[h], c)
  <2>1. h \in Nat /\ Len(built) >= h /\ Len(built) + Effect(Head(goals)) = Len(built) /\ built' = built
    BY <1>1, <1>3, <1>4
  <2>2. Takes(<<>>, h, Len(built), Len(built))
    BY <1>4, <2>1, TakesNone
  <2> QED BY <2>1, <2>2
<1>6. DeclInv'
  <2>1. <<>> \in Seq(Others) /\ goals' = <<>> \o Tail(goals)
    BY <1>1 DEF Instead
  <2> QED BY <1>1, <1>3, <1>5, <2>1, HeadFacts, InnerKeepsDecl DEF Inv
<1> QED BY <1>1, <1>2, <1>3, <1>6, HeadFacts, BareStep DEF Passes

(* Front and Last of a list.                                                   *)
LEMMA FrontIsList ==
  ASSUME NEW s, IsList(s)
  PROVE  /\ IsList(Front(s)) /\ Len(s) \in Nat
         /\ Len(s) >= 1 => Len(Front(s)) = Len(s) - 1 /\ \A i \in 1 .. Len(s) - 1 : Front(s)[i] = s[i]
<1>1. PICK S : s \in Seq(S)
  BY DEF IsList
<1>2. Len(s) \in Nat
  BY <1>1
<1>3. Front(s) \in Seq(S)
  BY <1>1, <1>2 DEF Front
<1>4. ASSUME Len(s) >= 1
      PROVE  Len(Front(s)) = Len(s) - 1 /\ \A i \in 1 .. Len(s) - 1 : Front(s)[i] = s[i]
  <2> DEFINE m == Len(s) - 1
  <2>1. m \in Nat /\ m <= Len(s) /\ Front(s) = SubSeq(s, 1, m)
    BY <1>2, <1>4 DEF Front
  <2> HIDE DEF m
  <2>2. Len(SubSeq(s, 1, m)) = m /\ \A i \in 1 .. m : SubSeq(s, 1, m)[i] = s[i]
    BY <1>1, <1>2, <2>1
  <2> QED BY <2>1, <2>2 DEF m
<1> QED BY <1>2, <1>3, <1>4 DEF IsList

LEMMA BuiltOnIsList ==
  ASSUME NEW node, IsList(built), BuiltOn(node)
  PROVE  /\ IsList(built') /\ Len(built) \in Nat
         /\ Len(built) >= 1 => /\ Len(built') = Len(built) /\ built'[Len(built)] = node
                               /\ \A i \in 1 .. Len(built) : i # Len(built) => built'[i] = built[i]
<1>1. /\ IsList(Front(built)) /\ Len(built) \in Nat
      /\ Len(built) >= 1 => Len(Front(built)) = Len(built) - 1 /\ \A i \in 1 .. Len(built) - 1 : Front(built)[i] = built[i]
  BY FrontIsList
<1> DEFINE f == Front(built)
<1> HIDE DEF f
<1>2. built' = Append(f, node)
  BY DEF BuiltOn, f
<1>3. /\ IsList(f) /\ Len(built) \in Nat
      /\ Len(built) >= 1 => Len(f) = Len(built) - 1 /\ \A i \in 1 .. Len(built) - 1 : f[i] = built[i]
  BY <1>1 DEF f
<1>4. /\ IsList(built') /\ Len(f) \in Nat /\ Len(built') = Len(f) + 1
      /\ built'[Len(f) + 1] = node /\ \A i \in 1 .. Len(f) : built'[i] = f[i]
  BY <1>2, <1>3, AppendIsList
<1>5. ASSUME Len(built) >= 1
      PROVE  /\ Len(built') = Len(built) /\ built'[Len(built)] = node
             /\ \A i \in 1 .. Len(built) : i # Len(built) => built'[i] = built[i]
  <2>1. Len(f) + 1 = Len(built) /\ Len(f) = Len(built) - 1
    BY <1>3, <1>5
  <2> QED BY <1>3, <1>4, <1>5, <2>1
<1> QED BY <1>3, <1>4, <1>5

LEMMA matchChildKeepsInv == ASSUME Inv, UNCHANGED lexerVars, matchChild PROVE Inv'
<1>1. /\ status = "parsing" /\ Head(goals).do = "leaf" /\ Now.type = Head(goals).arg /\ currentToken' = currentToken + 1
      /\ BuiltOn(AddChild(Innermost, Node(Now, <<>>)))
      /\ Instead(<<>>) /\ UNCHANGED <<tokens, status, scopes>>
  BY DEF matchChild, Doing
<1>2. Head(goals).arg # "END_OF_TOKENS"
  <2>1. Head(goals) \in Goal
    BY HeadFacts
  <2> QED BY <1>1, <2>1 DEF Goal, Calls
<1>3. IsList(built)
  BY HeadFacts
<1>4. /\ IsList(built') /\ Len(built) \in Nat
      /\ Len(built) >= 1 => /\ Len(built') = Len(built) /\ built'[Len(built)] = AddChild(Innermost, Node(Now, <<>>))
                            /\ \A i \in 1 .. Len(built) : i # Len(built) => built'[i] = built[i]
  BY <1>1, <1>3, BuiltOnIsList
<1>5. Now.value \in Value
  BY <1>1, NowIsToken
<1>6. goals' = Tail(goals)
  <2>1. goals' = <<>> \o Tail(goals)
    BY <1>1 DEF Instead
  <2> QED BY <2>1, HeadFacts, EmptyAround
<1>7. DeclInv'
  <2>1. CASE Len(built) >= 1
    <3>1. Innermost = built[Len(built)]
      BY DEF Innermost, Last
    <3> QED BY <1>1, <1>3, <1>4, <1>5, <1>6, <2>1, <3>1, HeadFacts, LeafKeepsDecl DEF Inv
  <2>2. CASE ~(Len(built) >= 1)
    <3>1. goals \in Seq(Others)
      <4>1. Len(built) = 0
        BY <1>4, <2>2
      <4> QED BY <4>1 DEF Inv, DeclInv
    <3>2. goals' \in Seq(Others)
      BY <1>6, <3>1, HeadFacts
    <3> QED BY <3>2 DEF DeclInv
  <2> QED BY <2>1, <2>2
<1> QED BY <1>1, <1>2, <1>4, <1>7, BareStep DEF Passes, Bare

LEMMA addChildKeepsInv == ASSUME Inv, UNCHANGED lexerVars, addChild PROVE Inv'
<1> DEFINE f == Front(built)
           g == Front(f)
           node == AddChild(Last(f), Innermost)
<1>1. /\ status = "parsing" /\ Head(goals).do = "child"
      /\ built' = Append(g, node)
      /\ Instead(<<>>) /\ UNCHANGED <<tokens, status, scopes, currentToken>>
  BY DEF addChild, Doing
<1>2. /\ IsList(f) /\ Len(built) \in Nat
      /\ Len(built) >= 1 => Len(f) = Len(built) - 1 /\ \A i \in 1 .. Len(built) - 1 : f[i] = built[i]
  BY HeadFacts, FrontIsList
<1>3. Last(f) = f[Len(f)]
  BY DEF Last
<1> HIDE DEF f
<1>4. /\ IsList(g) /\ Len(f) \in Nat
      /\ Len(f) >= 1 => Len(g) = Len(f) - 1 /\ \A i \in 1 .. Len(f) - 1 : g[i] = f[i]
  BY <1>2, FrontIsList
<1> HIDE DEF g
<1>5. /\ IsList(built') /\ Len(g) \in Nat /\ Len(built') = Len(g) + 1
      /\ built'[Len(g) + 1] = node /\ \A i \in 1 .. Len(g) : built'[i] = g[i]
  <2> HIDE DEF node
  <2> QED BY <1>1, <1>4, AppendIsList
<1>6. ASSUME NEW h \in 1 .. Len(built), May(Head(goals), h, Len(built))
      PROVE  /\ Takes(<<>>, h, Len(built'), Len(built) + Effect(Head(goals))) /\ h \in 1 .. Len(built')
             /\ built'[h] = built[h] \/ \E c : built'[h] = AddChild(built[h], c)
  <2>1. Effect(Head(goals)) = -1 /\ Len(built) - 1 >= h /\ h \in Nat /\ h >= 1
    BY <1>1, <1>2, <1>6 DEF May, Effect, Pushers
  <2>2. /\ Len(f) = Len(built) - 1 /\ Len(f) >= 1 /\ Len(g) = Len(f) - 1 /\ Len(built') = Len(f)
        /\ Len(built) + Effect(Head(goals)) = Len(f)
    BY <1>2, <1>4, <1>5, <2>1
  <2>3. Takes(<<>>, h, Len(f), Len(f))
    BY <1>4, <2>1, <2>2, TakesNone
  <2>4. h \in 1 .. Len(f)
    BY <1>4, <2>1, <2>2
  <2>5. CASE h = Len(f)
    <3>1. built'[h] = node /\ f[h] = built[h]
      BY <1>2, <1>5, <2>1, <2>2, <2>4, <2>5
    <3>2. built'[h] = AddChild(built[h], Innermost)
      BY <1>3, <2>5, <3>1
    <3> QED BY <2>2, <2>3, <2>4, <3>2
  <2>6. CASE h # Len(f)
    <3>1. h \in 1 .. Len(g) /\ h \in 1 .. Len(f) - 1 /\ h \in 1 .. Len(built) - 1
      BY <1>4, <1>5, <2>2, <2>4, <2>6
    <3>2. built'[h] = built[h]
      BY <1>2, <1>4, <1>5, <2>2, <3>1
    <3> QED BY <2>2, <2>3, <2>4, <3>2
  <2> QED BY <2>5, <2>6
<1>7. DeclInv'
  <2>1. <<>> \in Seq(Others) /\ goals' = <<>> \o Tail(goals)
    BY <1>1 DEF Instead
  <2>2. Head(goals).do \in Inner \ {"leaf"}
    BY <1>1 DEF Inner, Bare
  <2> QED BY <1>1, <1>6, <2>1, <2>2, HeadFacts, InnerKeepsDecl DEF Inv
<1> QED BY <1>1, <1>5, <1>7, BareStep DEF Passes, Bare

-----------------------------------------------------------------------------
(***************************************************************************)
(* Expressions.                                                            *)
(***************************************************************************)
LEMMA TakesTwo ==
  ASSUME NEW h \in Nat, NEW a, NEW b, NEW c, NEW g1, NEW g2, Takes(<<g1>>, h, a, b), Takes(<<g2>>, h, b, c)
  PROVE  Takes(<<g1, g2>>, h, a, c)
<1>1. Takes(<<g1>> \o <<g2>>, h, a, c)
  BY TakesBoth
<1> QED BY <1>1, Pairs, Zenon
LEMMA TakesThree ==
  ASSUME NEW h \in Nat, NEW a, NEW b, NEW c, NEW d, NEW g1, NEW g2, NEW g3,
         Takes(<<g1>>, h, a, b), Takes(<<g2>>, h, b, c), Takes(<<g3>>, h, c, d)
  PROVE  Takes(<<g1, g2, g3>>, h, a, d)
<1>1. Takes(<<g2, g3>>, h, b, d)
  BY TakesTwo
<1>2. Takes(<<g1>> \o <<g2, g3>>, h, a, d)
  BY <1>1, TakesBoth
<1> QED BY <1>2, Triples, Zenon

(* What the goals of expressions take and leave.                               *)
LEMMA GoalTakes ==
  ASSUME NEW h \in Nat, NEW a \in Nat, a >= h, NEW g \in Goal
  PROVE  /\ g.do \in {"match", "leaf", "initializer"} => Takes(<<g>>, h, a, a)
         /\ g.do \in Pushers => Takes(<<g>>, h, a, a + 1)
         /\ g.do \in Loops => Takes(<<g>>, h, a + 1, a + 1)
         /\ g.do = "child" => Takes(<<g>>, h, a + 1, a)
<1>1. ASSUME g.do \in {"match", "leaf", "initializer"} PROVE Takes(<<g>>, h, a, a)
  <2>1. g.do \in Inner /\ Effect(g) = 0 /\ a + 0 = a
    BY <1>1 DEF Inner, Bare, Effect, Pushers
  <2>2. May(g, h, a)
    BY <1>1, <2>1 DEF May, Loops
  <2>3. Takes(<<g>>, h, a, a + Effect(g))
    BY <2>1, <2>2, TakesOne
  <2> QED BY <2>1, <2>3
<1>2. ASSUME g.do \in Pushers PROVE Takes(<<g>>, h, a, a + 1)
  <2>1. g.do \in Inner /\ Effect(g) = 1
    BY <1>2 DEF Inner, Effect
  <2>2. May(g, h, a)
    BY <1>2, <2>1 DEF May, Loops, Pushers
  <2>3. Takes(<<g>>, h, a, a + Effect(g))
    BY <2>1, <2>2, TakesOne
  <2> QED BY <2>1, <2>3
<1>3. ASSUME g.do \in Loops PROVE Takes(<<g>>, h, a + 1, a + 1)
  <2>1. g.do \in Inner /\ Effect(g) = 0 /\ a + 1 \in Nat /\ a + 1 >= h /\ a + 1 + 0 = a + 1
    BY <1>3 DEF Inner, Effect, Loops, Pushers
  <2>2. May(g, h, a + 1)
    BY <1>3, <2>1 DEF May
  <2>3. Takes(<<g>>, h, a + 1, a + 1 + Effect(g))
    BY <2>1, <2>2, TakesOne
  <2> QED BY <2>1, <2>3
<1>4. ASSUME g.do = "child" PROVE Takes(<<g>>, h, a + 1, a)
  <2>1. g.do \in Inner /\ Effect(g) = -1 /\ a + 1 \in Nat /\ a + 1 >= h /\ a + 1 + (-1) = a
    BY <1>4 DEF Inner, Effect, Bare, Pushers
  <2>2. May(g, h, a + 1)
    BY <1>4, <2>1 DEF May, Loops
  <2>3. Takes(<<g>>, h, a + 1, a + 1 + Effect(g))
    BY <2>1, <2>2, TakesOne
  <2> QED BY <2>1, <2>3
<1> QED BY <1>1, <1>2, <1>3, <1>4

(* A step of an expression or an initializer.                                  *)
(* The step does to the stack what its goal says, and leaves new goals that do *)
(* the rest.                                                                   *)
Leaves(new, h) ==
  /\ Takes(new, h, Len(built'), Len(built) + Effect(Head(goals))) /\ h \in 1 .. Len(built')
  /\ built'[h] = built[h] \/ \E c : built'[h] = AddChild(built[h], c)

LEMMA InnerStep ==
  ASSUME Inv, status = "parsing", UNCHANGED lexerVars, UNCHANGED <<tokens, status, scopes>>, Passes,
         Head(goals).do \in Inner, Head(goals).do \notin Bare,
         NEW new \in Seq(Plain(Scope)), Instead(new), IsList(built'),
         \A h \in 1 .. Len(built) : May(Head(goals), h, Len(built)) => Leaves(new, h)
  PROVE  Inv'
<1>1. goals' = new \o Tail(goals) /\ new \in Seq(Others)
  BY SeqSubset, PlainIsSpread DEF Instead
<1>2. Head(goals).do \in Inner \ {"leaf"} /\ Head(goals).do # "program"
  BY DEF Bare, Inner, Pushers, Loops
<1>3. \A h \in 1 .. Len(built) : May(Head(goals), h, Len(built)) =>
        /\ Takes(new, h, Len(built'), Len(built) + Effect(Head(goals))) /\ h \in 1 .. Len(built')
        /\ built'[h] = built[h] \/ \E c : built'[h] = AddChild(built[h], c)
  BY DEF Leaves
<1>4. DeclInv'
  BY <1>1, <1>2, <1>3, HeadFacts, InnerKeepsDecl DEF Inv
<1> QED BY <1>1, <1>2, <1>4, PlainStep

LEMMA OperatorsKeepInv ==
  ASSUME Inv, UNCHANGED lexerVars, NEW level \in Pushers, NEW loop \in Loops, NEW operand \in Pushers, NEW types,
         "END_OF_TOKENS" \notin types, Operators(level, loop, operand, types)
  PROVE  Inv'
<1> DEFINE P == Plain(Scope)
           n == Len(built)
<1>1. /\ status = "parsing" /\ Head(goals).do \in {level, loop}
  BY DEF Operators, Doing
<1>2. Head(goals).do \in Inner /\ Head(goals).do \notin Bare /\ n \in Nat /\ Scope \in Nat
  <2>1. Head(goals).do \in Inner /\ Head(goals).do \notin Bare
    BY <1>1 DEF Inner, Bare, Pushers, Loops
  <2>2. n \in Nat
    BY HeadFacts, LenProperties DEF IsList
  <2> QED BY <2>1, <2>2, HeadFacts
<1>3. /\ Call(operand, Scope) \in P /\ Call(loop, Scope) \in P /\ Child \in P
      /\ Call(operand, Scope).do = operand /\ Call(loop, Scope).do = loop /\ Child.do = "child"
  <2>1. /\ operand \in Calls \ {"child"} /\ operand \notin Openers
        /\ loop \in Calls \ {"child"} /\ loop \notin Openers
    BY DEF Pushers, Loops, Calls, Openers
  <2>2. Call(operand, Scope) \in P /\ Call(loop, Scope) \in P
    BY <1>2, <2>1, CallGoals
  <2>3. Child.do = "child"
    BY DEF Child
  <2> QED BY <2>2, <2>3, BareGoals, CallFacts
<1>4. P \subseteq Goal
  BY DEF Plain, Uniform
<1> DEFINE first == Call(operand, Scope)
           second == Call(loop, Scope)
           child == Child
<1> HIDE DEF P, first, second, child
<1>5. /\ first \in P /\ second \in P /\ child \in P
      /\ first \in Goal /\ second \in Goal /\ child \in Goal
      /\ first.do \in Pushers /\ second.do \in Loops /\ child.do = "child"
  BY <1>3, <1>4 DEF first, second, child
<1>6. CASE Doing(level) /\ Becomes(<<first, second>>)
  <2>1. /\ Head(goals).do = level /\ Instead(<<first, second>>) /\ UNCHANGED <<tokens, status, currentToken, built, scopes>>
        /\ Effect(Head(goals)) = 1
    BY <1>6 DEF Doing, Becomes, Effect
  <2>2. <<first, second>> \in Seq(P)
    BY <1>5, ShortLists
  <2>3. ASSUME NEW h \in 1 .. n, May(Head(goals), h, n) PROVE Leaves(<<first, second>>, h)
    <3>1. h \in Nat /\ n >= h /\ Len(built') = n /\ n + Effect(Head(goals)) = n + 1 /\ built'[h] = built[h]
      BY <1>2, <2>1
    <3>2. Takes(<<first>>, h, n, n + 1) /\ Takes(<<second>>, h, n + 1, n + 1)
      BY <1>2, <1>5, <3>1, GoalTakes
    <3>3. Takes(<<first, second>>, h, n, n + 1)
      BY <3>1, <3>2, TakesTwo
    <3> QED BY <3>1, <3>3 DEF Leaves
  <2>4. IsList(built')
    BY <2>1, HeadFacts
  <2> QED BY <1>1, <1>2, <2>1, <2>2, <2>3, <2>4, InnerStep DEF Passes, P
<1>7. CASE /\ Doing(loop) /\ Now.type \in types
           /\ BuiltOn(Node(Now, <<Innermost>>)) /\ currentToken' = currentToken + 1
           /\ Instead(<<first, child, second>>) /\ UNCHANGED <<tokens, status, scopes>>
  <2> DEFINE node == Node(Now, <<Innermost>>)
  <2>1. Head(goals).do = loop /\ Effect(Head(goals)) = 0
    BY <1>7 DEF Doing, Effect, Pushers, Loops
  <2>2. <<first, child, second>> \in Seq(P)
    BY <1>5, ShortLists
  <2>3. BuiltOn(node) /\ IsList(built)
    BY <1>7, HeadFacts
  <2> HIDE DEF node
  <2>4. /\ IsList(built')
        /\ n >= 1 => Len(built') = n /\ \A i \in 1 .. n : i # n => built'[i] = built[i]
    BY <2>3, BuiltOnIsList
  <2>5. ASSUME NEW h \in 1 .. n, May(Head(goals), h, n) PROVE Leaves(<<first, child, second>>, h)
    <3>1. h \in Nat /\ n > h /\ n >= 1 /\ n + Effect(Head(goals)) = n
      BY <1>2, <2>1, <2>5 DEF May
    <3>2. Len(built') = n /\ built'[h] = built[h]
      BY <1>2, <2>4, <3>1
    <3>3. Takes(<<first>>, h, n, n + 1) /\ Takes(<<child>>, h, n + 1, n)
      BY <1>2, <1>5, <3>1, GoalTakes
    <3>4. Takes(<<second>>, h, n, n)
      <4>1. n - 1 \in Nat /\ n - 1 >= h /\ (n - 1) + 1 = n
        BY <1>2, <3>1
      <4>2. Takes(<<second>>, h, (n - 1) + 1, (n - 1) + 1)
        BY <1>5, <3>1, <4>1, GoalTakes
      <4> QED BY <4>1, <4>2
    <3>5. Takes(<<first, child, second>>, h, n, n)
      BY <3>1, <3>3, <3>4, TakesThree
    <3> QED BY <3>1, <3>2, <3>5 DEF Leaves
  <2>6. Now.type # "END_OF_TOKENS"
    BY <1>7
  <2> QED BY <1>1, <1>2, <1>7, <2>2, <2>4, <2>5, <2>6, InnerStep DEF Passes, P
<1>8. CASE Doing(loop) /\ Becomes(<<>>)
  <2>1. /\ Head(goals).do = loop /\ Instead(<<>>) /\ UNCHANGED <<tokens, status, currentToken, built, scopes>>
        /\ Effect(Head(goals)) = 0 /\ <<>> \in Seq(P)
    BY <1>8 DEF Doing, Becomes, Effect, Pushers, Loops
  <2>2. ASSUME NEW h \in 1 .. n, May(Head(goals), h, n) PROVE Leaves(<<>>, h)
    <3>1. h \in Nat /\ n >= h /\ Len(built') = n /\ n + Effect(Head(goals)) = n /\ built'[h] = built[h]
      BY <1>2, <2>1
    <3>2. Takes(<<>>, h, n, n)
      BY <1>2, <3>1, TakesNone
    <3> QED BY <3>1, <3>2 DEF Leaves
  <2>3. IsList(built')
    BY <2>1, HeadFacts
  <2> QED BY <1>1, <1>2, <2>1, <2>2, <2>3, InnerStep DEF Passes, P
<1> QED
  BY <1>6, <1>7, <1>8 DEF Operators, first, second, child

LEMMA PrimaryKeepsInv == ASSUME Inv, UNCHANGED lexerVars, parsePrimaryExpr PROVE Inv'
<1> DEFINE n == Len(built)
           P == Plain(Scope)
<1>1. status = "parsing" /\ Head(goals).do = "primary"
  BY DEF parsePrimaryExpr, Doing
<1>2. Head(goals).do \in Inner /\ Head(goals).do \notin Bare /\ n \in Nat /\ Scope \in Nat /\ Effect(Head(goals)) = 1
  <2>1. Head(goals).do \in Inner /\ Head(goals).do \notin Bare /\ Effect(Head(goals)) = 1
    BY <1>1 DEF Inner, Bare, Pushers, Effect
  <2>2. n \in Nat
    BY HeadFacts, LenProperties DEF IsList
  <2> QED BY <2>1, <2>2, HeadFacts
<1> HIDE DEF P
<1>3. CASE Becomes(<<Match("LPAREN"), Call("expression", Scope), Match("RPAREN")>>)
  <2> DEFINE open == Match("LPAREN")
             expr == Call("expression", Scope)
             close == Match("RPAREN")
  <2>1. /\ open \in P /\ expr \in P /\ close \in P /\ open.do = "match" /\ close.do = "match" /\ expr.do \in Pushers
    <3>1. open.do = "match" /\ close.do = "match" /\ expr.do \in Pushers
      BY DEF Match, Call, Pushers
    <3>2. "expression" \in Calls \ {"child"} /\ "expression" \notin Openers
      BY DEF Calls, Openers
    <3> QED BY <1>2, <3>1, <3>2, BareGoals, Terminals, CallGoals DEF P
  <2>2. open \in Goal /\ expr \in Goal /\ close \in Goal
    BY <2>1 DEF P, Plain, Uniform
  <2> HIDE DEF open, expr, close
  <2>3. Instead(<<open, expr, close>>) /\ UNCHANGED <<tokens, status, currentToken, built, scopes>>
    BY <1>3 DEF Becomes, open, expr, close
  <2>4. <<open, expr, close>> \in Seq(P)
    BY <2>1, ShortLists
  <2>5. ASSUME NEW h \in 1 .. n, May(Head(goals), h, n) PROVE Leaves(<<open, expr, close>>, h)
    <3>1. h \in Nat /\ n >= h /\ Len(built') = n /\ n + Effect(Head(goals)) = n + 1 /\ built'[h] = built[h]
          /\ n + 1 \in Nat /\ n + 1 >= h
      BY <1>2, <2>3
    <3>2. Takes(<<open>>, h, n, n) /\ Takes(<<expr>>, h, n, n + 1)
      BY <1>2, <2>1, <2>2, <3>1, GoalTakes
    <3>3. Takes(<<close>>, h, n + 1, n + 1)
      BY <2>1, <2>2, <3>1, GoalTakes
    <3>4. Takes(<<open, expr, close>>, h, n, n + 1)
      BY <3>1, <3>2, <3>3, TakesThree
    <3> QED BY <3>1, <3>4 DEF Leaves
  <2>6. IsList(built')
    BY <2>3, HeadFacts
  <2> QED BY <1>1, <1>2, <2>3, <2>4, <2>5, <2>6, InnerStep DEF Passes, P
<1>4. CASE Undeclared
  <2>1. "semantic" \in Ended
    BY DEF Ended
  <2> QED BY <1>1, <1>4, <2>1, FailKeepsInv DEF Undeclared
<1>5. CASE /\ Now.type \in Literals \cup {"IDENTIFIER"}
           /\ built' = Append(built, Node(Now, <<>>)) /\ currentToken' = currentToken + 1
           /\ Instead(<<>>) /\ UNCHANGED <<tokens, status, scopes>>
  <2> DEFINE node == Node(Now, <<>>)
  <2>1. built' = Append(built, node)
    BY <1>5
  <2> HIDE DEF node
  <2>2. IsList(built') /\ Len(built') = n + 1 /\ \A i \in 1 .. n : built'[i] = built[i]
    BY <2>1, HeadFacts, AppendIsList
  <2>3. ASSUME NEW h \in 1 .. n, May(Head(goals), h, n) PROVE Leaves(<<>>, h)
    <3>1. h \in Nat /\ n + 1 \in Nat /\ n + 1 >= h /\ Len(built') = n + 1 /\ n + Effect(Head(goals)) = n + 1
          /\ built'[h] = built[h] /\ h \in 1 .. n + 1
      BY <1>2, <2>2
    <3>2. Takes(<<>>, h, n + 1, n + 1)
      BY <3>1, TakesNone
    <3> QED BY <3>1, <3>2 DEF Leaves
  <2>4. Now.type # "END_OF_TOKENS" /\ <<>> \in Seq(P)
    BY <1>5 DEF Literals
  <2> QED BY <1>1, <1>2, <1>5, <2>2, <2>3, <2>4, InnerStep DEF Passes, P
<1> QED
  BY <1>3, <1>4, <1>5 DEF parsePrimaryExpr

LEMMA InitializerKeepsInv == ASSUME Inv, UNCHANGED lexerVars, parseInitializer PROVE Inv'
<1> DEFINE n == Len(built)
           P == Plain(Scope)
           new == IF Now.type = "EQUAL" THEN <<Leaf("EQUAL")>> \o Expression(Scope) ELSE <<>>
<1>1. /\ status = "parsing" /\ Head(goals).do = "initializer" /\ Instead(new)
      /\ UNCHANGED <<tokens, status, currentToken, built, scopes>>
  BY DEF parseInitializer, Doing, Becomes
<1>2. Head(goals).do \in Inner /\ Head(goals).do \notin Bare /\ n \in Nat /\ Scope \in Nat /\ Effect(Head(goals)) = 0
  <2>1. Head(goals).do \in Inner /\ Head(goals).do \notin Bare /\ Effect(Head(goals)) = 0
    BY <1>1 DEF Inner, Bare, Pushers, Effect
  <2>2. n \in Nat
    BY HeadFacts, LenProperties DEF IsList
  <2> QED BY <2>1, <2>2, HeadFacts
<1> HIDE DEF P
<1> DEFINE equal == Leaf("EQUAL")
           expr == Call("expression", Scope)
           child == Child
<1>3. /\ equal \in P /\ expr \in P /\ child \in P /\ equal.do = "leaf" /\ expr.do \in Pushers /\ child.do = "child"
  <2>1. equal.do = "leaf" /\ expr.do \in Pushers /\ child.do = "child"
    BY DEF Leaf, Call, Child, Pushers
  <2>2. "expression" \in Calls \ {"child"} /\ "expression" \notin Openers
    BY DEF Calls, Openers
  <2> QED BY <1>2, <2>1, <2>2, BareGoals, Terminals, CallGoals DEF P
<1>4. equal \in Goal /\ expr \in Goal /\ child \in Goal
  BY <1>3 DEF P, Plain, Uniform
<1> HIDE DEF equal, expr, child
<1>5. new = <<>> \/ new = <<equal>> \o <<expr, child>>
  BY DEF Expression, equal, expr, child
<1> HIDE DEF new
<1>6. new \in Seq(P)
  <2>1. <<equal>> \in Seq(P) /\ <<expr, child>> \in Seq(P) /\ <<>> \in Seq(P)
    BY <1>3, ShortLists
  <2> QED BY <1>5, <2>1, JoinedLists
<1>7. ASSUME NEW h \in 1 .. n, May(Head(goals), h, n) PROVE Leaves(new, h)
  <2>1. h \in Nat /\ n >= h /\ Len(built') = n /\ n + Effect(Head(goals)) = n /\ built'[h] = built[h]
    BY <1>1, <1>2
  <2>2. Takes(<<>>, h, n, n)
    BY <1>2, <2>1, TakesNone
  <2>3. Takes(<<equal>>, h, n, n) /\ Takes(<<expr>>, h, n, n + 1) /\ Takes(<<child>>, h, n + 1, n)
    BY <1>2, <1>3, <1>4, <2>1, GoalTakes
  <2>4. Takes(<<expr, child>>, h, n, n)
    BY <2>1, <2>3, TakesTwo
  <2>5. Takes(<<equal>> \o <<expr, child>>, h, n, n)
    BY <2>1, <2>3, <2>4, TakesBoth
  <2>6. Takes(new, h, n, n)
    BY <1>5, <2>2, <2>5
  <2> QED BY <2>1, <2>6 DEF Leaves
<1>8. IsList(built')
  BY <1>1, HeadFacts
<1> QED BY <1>1, <1>2, <1>6, <1>7, <1>8, InnerStep DEF Passes, P

-----------------------------------------------------------------------------
(***************************************************************************)
(* All steps.                                                              *)
(***************************************************************************)
LEMMA ExpressionsKeepInv ==
  ASSUME Inv, UNCHANGED lexerVars, parseMultiplicativeExpr \/ parseAdditiveExpr \/ parseExpression
  PROVE  Inv'
<1>1. {"primary", "multiplicative", "additive", "expression"} \subseteq Pushers /\ {"factors", "terms", "comparisons"} \subseteq Loops
  BY DEF Pushers, Loops
<1>2. CASE parseMultiplicativeExpr
  BY <1>1, <1>2, OperatorsKeepInv DEF parseMultiplicativeExpr, Products
<1>3. CASE parseAdditiveExpr
  BY <1>1, <1>3, OperatorsKeepInv DEF parseAdditiveExpr, Sums
<1>4. CASE parseExpression
  BY <1>1, <1>4, OperatorsKeepInv DEF parseExpression, Relations
<1> QED
  BY <1>2, <1>3, <1>4

LEMMA parserKeepsInv == ASSUME Inv, UNCHANGED lexerVars, parser PROVE Inv'
<1>1. status = "parsing" /\ Head(goals).do = "program"
  BY DEF parser, Doing
<1>2. CASE status' \in {"accepted", "wild"} /\ UNCHANGED <<tokens, parserVars>>
  <2>1. status' \in Ended
    BY <1>2 DEF Ended
  <2> QED BY <1>1, <1>2, <2>1, FailKeepsInv DEF Fail
<1>3. CASE Becomes(Statement(Scope) \o <<Head(goals)>>)
  <2> DEFINE new == Statement(Scope) \o <<Head(goals)>>
             U == Spread(Scope)
             rest == Tail(goals)
  <2>1. /\ Scope \in 1 .. Len(scopes) /\ Scope \in Nat /\ Apart(scopes, Scope) /\ Tree(scopes)
        /\ Nested(rest, scopes) /\ Within(rest, scopes, Scope)
    <3>1. Head(goals).do \notin Bare /\ Head(goals).do \in Openers
      BY <1>1 DEF Bare, Openers
    <3> QED BY <3>1, HeadFacts
  <2>2. Head(goals) \in U
    <3>1. Head(goals) \in Goal /\ Head(goals).scope = Scope
      BY HeadFacts DEF Scope
    <3> QED BY <1>1, <3>1 DEF Spread, Uniform, Bare
  <2>3. Statement(Scope) \in Seq(U)
    BY <2>1, PartLists
  <2>4. new \in Seq(U)
    <3> HIDE DEF U
    <3>1. <<Head(goals)>> \in Seq(U)
      BY <2>2, ShortLists
    <3> QED BY <2>3, <3>1, JoinedLists
  <2>5. new \in Seq(Uniform(Scope)) /\ new \in Seq(Others) /\ new \in Seq(Goal)
    BY <2>4, SeqSubset, PlainIsSpread
  <2>6. goals' = new \o rest /\ UNCHANGED <<tokens, status, currentToken, built, scopes>>
    BY <1>3 DEF Becomes, Instead
  <2>7. Rooted(goals')
    <3>1. Statement(Scope) \in Seq(Goal) /\ <<Head(goals)>> \in Seq(Goal) /\ rest \in Seq(Goal) /\ goals \in Seq(Goal)
      <4>1. U \subseteq Goal
        BY PlainIsSpread
      <4> HIDE DEF U, rest
      <4> QED BY <2>3, <4>1, SeqSubset, ShortLists, HeadFacts DEF rest
    <3>2. new \o rest = Statement(Scope) \o (<<Head(goals)>> \o rest)
      <4> HIDE DEF rest
      <4> QED BY <3>1, ConcatAssociative
    <3>3. <<Head(goals)>> \o rest = goals
      BY HeadFacts
    <3>4. new \o rest = Statement(Scope) \o goals
      <4> HIDE DEF new, rest
      <4> QED BY <3>2, <3>3
    <3>5. Rooted(Statement(Scope) \o goals)
      BY <3>1, RootUnder DEF Inv, ParserInv
    <3> QED BY <2>6, <3>4, <3>5
  <2> HIDE DEF new
  <2>8. DeclInv'
    <3>1. Head(goals).do \notin Inner \cup {"insertSymbol", "absent"}
      BY <1>1 DEF Inner, Bare, Pushers, Loops
    <3> QED BY <2>5, <2>6, <3>1, HeadFacts, OutsideKeepsDecl DEF Inv
  <2>9. Nested(goals', scopes')
    BY <2>1, <2>5, <2>6, UniformNests
  <2> QED BY <1>1, <2>6, <2>7, <2>8, <2>9, HeadFacts, GoalsKeepInv DEF Passes
<1> QED BY <1>2, <1>3, Zenon DEF parser, AnyOutcome

LEMMA ParsingKeepsInv == Inv /\ Parsing => Inv'
<1> SUFFICES ASSUME Inv, ParserNext, UNCHANGED lexerVars
             PROVE  Inv'
  BY DEF Parsing
<1>1. CASE Unexpected
  <2>1. "syntax" \in Ended /\ status = "parsing" /\ Fail("syntax")
    BY <1>1 DEF Unexpected, Ended
  <2> QED BY <2>1, FailKeepsInv
<1>2. CASE match \/ matchChild \/ addChild
  BY <1>2, matchKeepsInv, matchChildKeepsInv, addChildKeepsInv
<1>3. CASE parsePrimaryExpr \/ parseMultiplicativeExpr \/ parseAdditiveExpr \/ parseExpression
  BY <1>3, PrimaryKeepsInv, ExpressionsKeepInv
<1>4. CASE parseDeclaration \/ CheckAbsent \/ parseInitializer \/ insertSymbol
  BY <1>4, DeclarationKeepsInv, CheckAbsentKeepsInv, InitializerKeepsInv, insertSymbolKeepsInv
<1>5. CASE parseAssignment \/ parseExitStatement \/ parsePrintStatement \/ parseScanStatement
  BY <1>5, SimpleStatementsKeepInv
<1>6. CASE parseIfStatement \/ parseElse \/ parseWhileStatement \/ parseForStatement \/ parseBlock
  BY <1>6, NestingStatementsKeepInv, PartsKeepInv
<1>7. CASE CheckPresent \/ parseForInit \/ parseForUpdate \/ parseStatements
  BY <1>7, PartsKeepInv
<1>8. CASE parser
  BY <1>8, parserKeepsInv
<1> QED
  BY <1>1, <1>2, <1>3, <1>4, <1>5, <1>6, <1>7, <1>8 DEF ParserNext

-----------------------------------------------------------------------------
LEMMA InitInv == Init => Inv
<1> SUFFICES ASSUME Init PROVE Inv
  OBVIOUS
<1> DEFINE root == Call("program", 1)
           global == [parent |-> 0, table |-> {}]
<1>1. goals = <<root>> /\ scopes = <<global>> /\ currentToken = 1 /\ built = <<Construct("PROGRAM")>>
  BY DEF Init, ParserInit
<1>2. global \in Scoping /\ global.parent = 0 /\ global.table = {}
  BY DEF Scoping
<1>3. root \in Goal /\ root.do = "program" /\ root.scope = 1
  BY DEF Call, Goal, Calls
<1> HIDE DEF root, global
<1>4. scopes \in Seq(Scoping) /\ Len(scopes) = 1 /\ scopes[1] = global
  BY <1>1, <1>2
<1>5. Tree(scopes)
  BY <1>2, <1>4 DEF Tree
<1>6. Apart(scopes, 1)
  <2>1. AroundIn(scopes, 1) \subseteq 1 .. 1
    BY <1>4, <1>5, AroundFacts
  <2> QED BY <2>1 DEF Apart
<1>7. Nested(goals, scopes) /\ Rooted(goals)
  <2>1. root \in Fitting(scopes)
    BY <1>3, <1>4, <1>6 DEF Fitting, Bare
  <2>2. goals \in Seq(Fitting(scopes)) /\ Len(goals) = 1 /\ goals[1] = root /\ goals # <<>>
    BY <1>1, <2>1
  <2> QED BY <1>3, <2>2 DEF Nested, Rooted
<1>8. IsList(built)
  <2>1. built \in Seq({Construct("PROGRAM")})
    BY <1>1
  <2> QED BY <2>1 DEF IsList
<1>9. DeclInv
  <2>1. root \in Others
    BY <1>3 DEF Others
  <2> QED BY <1>1, <2>1 DEF DeclInv
<1>10. LexerInv
  <2>1. text \in Texts /\ currentIndex = 1 /\ tokens = <<>> /\ tokens_size = 0 /\ numberOfTokens = InitialTokens /\ status = "lexing"
    BY DEF Init, LexerInit
  <2>2. Len(text) \in Nat
    BY <2>1, TextsAssumption, LenProperties
  <2>3. tokens \in Seq(Token) /\ Len(tokens) = 0
    BY <2>1
  <2> QED BY <2>1, <2>2, <2>3, RoomAssumption DEF LexerInv, Statuses
<1>11. status = "lexing"
  BY DEF Init, LexerInit
<1>12. ParserInv
  BY <1>1, <1>4, <1>5, <1>7, <1>8, <1>11 DEF ParserInv
<1> QED
  BY <1>9, <1>10, <1>12 DEF Inv

LEMMA NextKeepsInv == Inv /\ [Next]_vars => Inv'
<1> SUFFICES ASSUME Inv, [Next]_vars PROVE Inv'
  OBVIOUS
<1>1. CASE UNCHANGED vars
  <2>1. UNCHANGED <<tokens, status, text, currentIndex, tokens_size, numberOfTokens, currentToken, goals, built, scopes>>
    BY <1>1 DEF vars, lexerVars, parserVars
  <2>2. LexerInv'
    BY <2>1 DEF Inv, LexerInv
  <2>3. ParserInv' /\ DeclInv'
    BY <2>1 DEF Inv, ParserInv, DeclInv
  <2> QED BY <2>2, <2>3 DEF Inv
<1> QED
  BY <1>1, LexingKeepsInv, ParsingKeepsInv DEF Next

LEMMA InvIsInvariant == Spec => []Inv
BY InitInv, NextKeepsInv, PTL DEF Spec

(***************************************************************************)
(* For every text, what the lexer and the parser hold is what their        *)
(* functions declare: tokens of the kinds O_lexer.c makes, goals that are  *)
(* calls of the parser's functions, scopes whose tables hold names.        *)
(***************************************************************************)
THEOREM FrontTypes == Spec => []TypeOK
<1>1. Inv => TypeOK
  <2> SUFFICES ASSUME Inv PROVE TypeOK
    OBVIOUS
  <2>1. goals \in Seq(Goal)
    BY HeadFacts
  <2> QED BY <2>1 DEF TypeOK, Inv, LexerInv, ParserInv, Scoping
<1> QED
  BY <1>1, InvIsInvariant, PTL

(***************************************************************************)
(* O_parser.c:103, 121: parseDeclaration looks the name up before it       *)
(* parses the initializer and inserts it after. In whatever is parsed      *)
(* between the two no scope around the declaration comes to declare the    *)
(* name, and the node that is inserted is still the one whose name was     *)
(* looked up: no two of the scopes around what is still to be parsed       *)
(* declare the same name.                                                  *)
(***************************************************************************)
THEOREM NamesDeclaredOnce == Spec => []DeclaredOnce
<1>1. Inv => DeclaredOnce
  <2> SUFFICES ASSUME Inv, NEW i \in DOMAIN goals, NEW s \in Around(goals[i].scope), NEW o \in Around(goals[i].scope), s # o
               PROVE  scopes[s].table \cap scopes[o].table = {}
    BY DEF DeclaredOnce
  <2>1. Tree(scopes) /\ goals \in Seq(Fitting(scopes)) /\ i \in 1 .. Len(goals)
    BY DEF Inv, ParserInv, Nested
  <2>2. goals[i] \in Fitting(scopes)
    BY <2>1, ElementOfSeq
  <2>3. Around(goals[i].scope) = AroundIn(scopes, goals[i].scope)
    BY DEF Around, AroundIn
  <2>4. CASE goals[i].do \in Bare
    <3>1. AroundIn(scopes, goals[i].scope) = {}
      BY <2>1, <2>2, <2>4, AroundClimbs DEF Fitting
    <3> QED BY <2>3, <3>1
  <2>5. CASE goals[i].do \notin Bare
    BY <2>2, <2>3, <2>5 DEF Fitting, Apart
  <2> QED BY <2>4, <2>5
<1> QED
  BY <1>1, InvIsInvariant, PTL

(***************************************************************************)
(* O_lexer.c:203: for every text the list has room for what is stored in   *)
(* it, and for its last entry wherever a newline was counted.              *)
(***************************************************************************)
THEOREM TokensAlwaysFit == Spec => []TokensFit
<1>1. Inv => TokensFit
  <2> SUFFICES ASSUME Inv PROVE TokensFit
    OBVIOUS
  <2>1. Len(tokens) \in Nat
    BY LenProperties DEF Inv, LexerInv
  <2> QED BY <2>1 DEF TokensFit, Inv, LexerInv
<1> QED
  BY <1>1, InvIsInvariant, PTL

(***************************************************************************)
(* The parser looks only at tokens of the list, for every text.            *)
(***************************************************************************)
THEOREM ParserReadsOnlyTokens == Spec => []ReadsOnlyTokens
<1>1. Inv => ReadsOnlyTokens
  <2> SUFFICES ASSUME Inv, status = "parsing"
               PROVE  /\ currentToken \in DOMAIN tokens
                      /\ Now.type = "IDENTIFIER" => currentToken + 1 \in DOMAIN tokens
    BY DEF ReadsOnlyTokens
  <2>1. tokens \in Seq(Token) /\ Len(tokens) \in Nat /\ DOMAIN tokens = 1 .. Len(tokens)
    BY LenProperties DEF Inv, LexerInv
  <2> QED
    BY <2>1 DEF Inv, ParserInv, Now
<1> QED
  BY <1>1, InvIsInvariant, PTL
=============================================================================
