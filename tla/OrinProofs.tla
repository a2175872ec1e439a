------------------------------ MODULE OrinProofs ------------------------------
(***************************************************************************)
(* Proofs about the middle of the Orin compiler, for every set of programs *)
(* and every input: the generated code does what its program does; it      *)
(* keeps its shape through all passes, and each pass keeps what it does    *)
(* wherever what the pass takes for granted holds.                         *)
(***************************************************************************)
EXTENDS OrinMeaning, Induction, FiniteSetTheorems

(* Trees.                                                                      *)
LEMMA SizeFacts == \A p \in Expr \cup Stmt : Size[p] \in Nat
BY TreesAssumption

(* The parts of a sequence that begins with a statement.                       *)
LEMMA HeadAndTail ==
  ASSUME NEW S, NEW s \in Seq(S), s # <<>>
  PROVE  /\ Len(s) \in Nat /\ Len(s) > 0 /\ Head(s) \in S /\ Tail(s) \in Seq(S) /\ Len(Tail(s)) = Len(s) - 1
         /\ \A i \in 1 .. Len(s) - 1 : Tail(s)[i] = s[i + 1]
BY HeadTailProperties, LenProperties, EmptySeq

WeightOf(w, ss) == IF ss = <<>> THEN 0 ELSE 1 + Size[Head(ss)] + w[Tail(ss)]

LEMMA WeightFacts ==
  /\ Weight \in [Seq(Stmt) -> Nat]
  /\ Weight[<<>>] = 0
  /\ \A ss \in Seq(Stmt) : ss # <<>> => Weight[ss] = 1 + Size[Head(ss)] + Weight[Tail(ss)]
<1> DEFINE D == Seq(Stmt)
           rank == [ss \in D |-> Len(ss)]
           next == [w \in [D -> Nat] |-> [ss \in D |-> WeightOf(w, ss)]]
           IsWeight(w) == w = [ss \in Seq(Stmt) |-> IF ss = <<>> THEN 0 ELSE 1 + Size[Head(ss)] + w[Tail(ss)]]
<1>1. rank \in [D -> Nat]
  BY LenProperties
<1>2. ASSUME NEW w, NEW ss \in D, ss # <<>> => w[Tail(ss)] \in Nat PROVE WeightOf(w, ss) \in Nat
  BY <1>2, HeadAndTail, SizeFacts DEF WeightOf
<1>3. next \in [[D -> Nat] -> [D -> Nat]]
  <2>1. ASSUME NEW w \in [D -> Nat], NEW ss \in D PROVE WeightOf(w, ss) \in Nat
    BY <1>2, HeadAndTail
  <2> QED BY <2>1
<1>4. ASSUME NEW w \in [D -> Nat], NEW h \in [D -> Nat], NEW ss \in D,
             \A x \in D : rank[x] < rank[ss] => w[x] = h[x]
      PROVE  next[w][ss] = next[h][ss]
  <2>1. ss # <<>> => Tail(ss) \in D /\ rank[Tail(ss)] < rank[ss]
    BY HeadAndTail
  <2>2. WeightOf(w, ss) = WeightOf(h, ss)
    BY <2>1, <1>4 DEF WeightOf
  <2> QED BY <2>2
<1>5. AsksBelow(next, D, Nat, rank)
  <2> HIDE DEF next, rank, D
  <2> QED BY <1>1, <1>3, <1>4 DEF AsksBelow
<1>6. PICK f : f \in [D -> Nat] /\ f = next[f]
  <2> HIDE DEF next, rank, D
  <2>1. 0 \in Nat
    OBVIOUS
  <2> QED BY ONLY <2>1, <1>5, RankedRecursion
<1>7. IsWeight(f)
  BY <1>6 DEF WeightOf
<1>8. IsWeight(Weight)
  <2>1. Weight = CHOOSE w : IsWeight(w)
    BY DEF Weight
  <2> HIDE DEF IsWeight
  <2> QED BY <1>7, <2>1
<1>9. \A ss \in D : Weight[ss] = WeightOf(Weight, ss)
  BY <1>8 DEF WeightOf
<1>10. DOMAIN Weight = D /\ Weight = [ss \in D |-> Weight[ss]]
  BY <1>8
<1> HIDE DEF IsWeight, next
<1> DEFINE T == {x \in D : Weight[x] \in Nat}
<1>11. ASSUME NEW ss \in D, \A x \in D : rank[x] < rank[ss] => x \in T PROVE ss \in T
  <2>1. ss # <<>> => Tail(ss) \in D /\ rank[Tail(ss)] < rank[ss]
    BY HeadAndTail
  <2>2. ss # <<>> => Weight[Tail(ss)] \in Nat
    BY <1>11, <2>1
  <2> QED BY <2>2, <1>2, <1>9
<1>12. D \subseteq T
  <2> HIDE DEF rank, D, T
  <2> QED BY ONLY <1>1, <1>11, RankInduction
<1>13. Weight \in [D -> Nat]
  BY <1>10, <1>12
<1>14. <<>> \in D
  BY EmptySeq
<1> QED BY <1>9, <1>13, <1>14 DEF WeightOf

LEMMA ConcatHeadTail ==
  ASSUME NEW S, NEW a \in Seq(S), NEW b \in Seq(S), a # <<>>
  PROVE  a \o b \in Seq(S) /\ a \o b # <<>> /\ Head(a \o b) = Head(a) /\ Tail(a \o b) = Tail(a) \o b
<1>1. /\ Len(a) \in Nat /\ Len(a) > 0 /\ Len(b) \in Nat /\ Tail(a) \in Seq(S) /\ Len(Tail(a)) = Len(a) - 1
      /\ \A i \in 1 .. Len(a) - 1 : Tail(a)[i] = a[i + 1]
  BY HeadAndTail, LenProperties
<1>2. /\ a \o b \in Seq(S) /\ Len(a \o b) = Len(a) + Len(b)
      /\ \A i \in 1 .. Len(a) + Len(b) : (a \o b)[i] = IF i <= Len(a) THEN a[i] ELSE b[i - Len(a)]
  BY ConcatProperties
<1>3. a \o b # <<>>
  BY <1>1, <1>2, EmptySeq
<1>4. Head(a \o b) = Head(a)
  BY <1>1, <1>2, <1>3
<1>5. /\ Tail(a \o b) \in Seq(S) /\ Len(Tail(a \o b)) = Len(a) + Len(b) - 1
      /\ \A i \in 1 .. Len(a) + Len(b) - 1 : Tail(a \o b)[i] = (a \o b)[i + 1]
  BY <1>2, <1>3, HeadAndTail
<1>6. /\ Tail(a) \o b \in Seq(S) /\ Len(Tail(a) \o b) = Len(a) + Len(b) - 1
      /\ \A i \in 1 .. Len(a) + Len(b) - 1 :
           (Tail(a) \o b)[i] = IF i <= Len(a) - 1 THEN Tail(a)[i] ELSE b[i - (Len(a) - 1)]
  <2>1. Len(Tail(a)) + Len(b) = Len(a) + Len(b) - 1
    BY <1>1
  <2> QED BY <1>1, <2>1, ConcatProperties
<1>7. ASSUME NEW i \in 1 .. Len(a) + Len(b) - 1 PROVE Tail(a \o b)[i] = (Tail(a) \o b)[i]
  <2>1. i \in Nat /\ i + 1 \in 1 .. Len(a) + Len(b) /\ i + 1 - Len(a) = i - (Len(a) - 1)
    BY <1>1
  <2>2. CASE i <= Len(a) - 1
    <3>1. i \in 1 .. Len(a) - 1 /\ i + 1 <= Len(a)
      BY <2>1, <2>2, <1>1
    <3> QED BY <3>1, <2>1, <2>2, <1>1, <1>2, <1>5, <1>6
  <2>3. CASE ~(i <= Len(a) - 1)
    <3>1. ~(i + 1 <= Len(a))
      BY <2>1, <2>3, <1>1
    <3> QED BY <3>1, <2>1, <2>3, <1>1, <1>2, <1>5, <1>6
  <2> QED BY <2>2, <2>3
<1>8. Tail(a \o b) = Tail(a) \o b
  BY <1>5, <1>6, <1>7, SeqEqual
<1> QED BY <1>2, <1>3, <1>4, <1>8

LEMMA WeightAdds ==
  \A a, b \in Seq(Stmt) : a \o b \in Seq(Stmt) /\ Weight[a \o b] = Weight[a] + Weight[b]
<1> SUFFICES ASSUME NEW b \in Seq(Stmt) PROVE \A a \in Seq(Stmt) : Weight[a \o b] = Weight[a] + Weight[b]
  BY ConcatProperties
<1> DEFINE T == {a \in Seq(Stmt) : Weight[a \o b] = Weight[a] + Weight[b]}
<1>1. ASSUME NEW a \in Seq(Stmt), \A x \in Seq(Stmt) : Weight[x] < Weight[a] => x \in T PROVE a \in T
  <2>1. CASE a = <<>>
    <3>1. a \o b = b
      BY <2>1, ConcatEmptySeq
    <3> QED BY <3>1, <2>1, WeightFacts
  <2>2. CASE a # <<>>
    <3>1. /\ Tail(a) \in Seq(Stmt) /\ Size[Head(a)] \in Nat /\ Weight[Tail(a)] \in Nat /\ Weight[b] \in Nat
          /\ Weight[a] = 1 + Size[Head(a)] + Weight[Tail(a)]
      BY <2>2, HeadAndTail, SizeFacts, WeightFacts
    <3>2. Weight[Tail(a)] < Weight[a]
      BY <3>1
    <3>3. Weight[Tail(a) \o b] = Weight[Tail(a)] + Weight[b]
      BY <3>1, <3>2, <1>1
    <3>4. Weight[a \o b] = 1 + Size[Head(a)] + Weight[Tail(a) \o b]
      <4>1. a \o b \in Seq(Stmt) /\ a \o b # <<>> /\ Head(a \o b) = Head(a) /\ Tail(a \o b) = Tail(a) \o b
        BY <2>2, ConcatHeadTail
      <4> QED BY <4>1, WeightFacts
    <3> QED BY <3>1, <3>3, <3>4
  <2> QED BY <2>1, <2>2
<1>2. Seq(Stmt) \subseteq T
  <2> HIDE DEF T
  <2> QED BY <1>1, WeightFacts, RankInduction
<1> QED BY <1>2
-----------------------------------------------------------------------------
(* Operands and instructions.  What is computed with are numbers, variables    *)
(* and temporaries; what is written are variables and temporaries, where       *)
(* there is nothing else in its place.                                         *)
Temps == {"t"} \X Nat
Marks == {"L"} \X Nat
Arg == Name \cup {"#"} \X Int \cup Temps
Result == {NULL} \cup Name \cup Temps \cup Marks

LEMMA OperandFacts ==
  /\ Arg \subseteq Operand /\ Result \subseteq Operand /\ Marks \subseteq Operand
  /\ NULL \in Operand /\ Freed \in Operand /\ NULL # Freed /\ ~IsConstant(NULL) /\ ~IsConstant(Freed)
  /\ \A a \in Arg \cup Marks : a # NULL /\ a # Freed
  /\ \A a \in Result : ~IsConstant(a) /\ a # Freed
  /\ \A n \in Nat : Temp(n) \in Temps /\ Label(n) \in Marks
  /\ \A n \in Int : Const(n) \in Arg /\ IsConstant(Const(n)) /\ Const(n)[2] = n
  /\ \A a \in Operand : IsConstant(a) => a[2] \in Int /\ a = Const(a[2])
  /\ Temps \subseteq Arg \cap Result /\ Name \subseteq Arg \cap Result /\ Marks \subseteq Result
<1> USE DEF Operand, Arg, Result, Temps, Marks, NULL, Freed, IsConstant, Temp, Label, Const
<1>1. \A a \in Name : a[1] \notin {"#", "NULL", "freed"}
  BY TreesAssumption
<1>2. /\ Arg \subseteq Operand /\ Result \subseteq Operand /\ Marks \subseteq Operand
      /\ Temps \subseteq Arg \cap Result /\ Name \subseteq Arg \cap Result /\ Marks \subseteq Result
  OBVIOUS
<1>3. NULL \in Operand /\ Freed \in Operand /\ NULL # Freed /\ ~IsConstant(NULL) /\ ~IsConstant(Freed)
  OBVIOUS
<1>4. \A a \in Arg \cup Marks : a # NULL /\ a # Freed
  BY <1>1
<1>5. \A a \in Result : ~IsConstant(a) /\ a # Freed
  BY <1>1
<1>6. \A n \in Nat : Temp(n) \in Temps /\ Label(n) \in Marks
  OBVIOUS
<1>7. \A n \in Int : Const(n) \in Arg /\ IsConstant(Const(n)) /\ Const(n)[2] = n
  OBVIOUS
<1>8. \A a \in Operand : IsConstant(a) => a[2] \in Int /\ a = Const(a[2])
  BY <1>1
<1> QED BY <1>2, <1>3, <1>4, <1>5, <1>6, <1>7, <1>8

Instr == {in \in TACInstruction : Shape(in) /\ in.result \in Result}

\* What an instruction looks like.
LEMMA InstrFacts ==
  ASSUME NEW in \in Instr
  PROVE  /\ in \in TACInstruction /\ in.op \in TacOp /\ in.result \in Result
         /\ in.arg1 \in Operand /\ in.arg2 \in Operand /\ in.result \in Operand
BY OperandFacts DEF Instr, TACInstruction

LEMMA NullOrNot == \A in : /\ "result" \in Given(in) <=> in.result # NULL
                           /\ "arg1" \in Given(in) <=> in.arg1 # NULL
                           /\ "arg2" \in Given(in) <=> in.arg2 # NULL
                           /\ Given(in) \subseteq {"result", "arg1", "arg2"}
BY DEF Given

\* The shape of an instruction, operation by operation.
LEMMA ShapeFacts ==
  ASSUME NEW in
  PROVE  /\ in.op \in Arithmetic => (Shape(in) <=> in.result # NULL /\ in.arg1 # NULL /\ in.arg2 # NULL)
         /\ in.op = "ASSIGN" => (Shape(in) <=> /\ in.result # NULL /\ in.arg1 # NULL
                                               /\ in.arg2 # NULL => Freed \in {in.arg1, in.arg2})
         /\ in.op = "LABEL" => (Shape(in) <=> in.result # NULL /\ in.arg1 = NULL /\ in.arg2 = NULL)
         /\ in.op = "IF" => (Shape(in) <=> in.result = NULL /\ in.arg1 # NULL /\ in.arg2 # NULL)
         /\ in.op = "GOTO" => (Shape(in) <=> in.arg1 # NULL /\ (in.result = NULL => in.arg2 = NULL))
         /\ in.op \in {"PRINT", "SCAN", "EXIT"} =>
              (Shape(in) <=> in.result = NULL /\ in.arg1 # NULL /\ in.arg2 = NULL)
<1>1. /\ Given(in) = {"result", "arg1", "arg2"} <=> in.result # NULL /\ in.arg1 # NULL /\ in.arg2 # NULL
      /\ {"result", "arg1"} \subseteq Given(in) <=> in.result # NULL /\ in.arg1 # NULL
      /\ Given(in) = {"result"} <=> in.result # NULL /\ in.arg1 = NULL /\ in.arg2 = NULL
      /\ Given(in) = {"arg1", "arg2"} <=> in.result = NULL /\ in.arg1 # NULL /\ in.arg2 # NULL
      /\ Given(in) = {"arg1"} <=> in.result = NULL /\ in.arg1 # NULL /\ in.arg2 = NULL
  BY DEF Given
<1> HIDE DEF NULL, Freed
<1>2. in.op \in Arithmetic => (Shape(in) <=> in.result # NULL /\ in.arg1 # NULL /\ in.arg2 # NULL)
  BY <1>1 DEF Shape, Arithmetic
<1>3. in.op = "ASSIGN" => (Shape(in) <=> /\ in.result # NULL /\ in.arg1 # NULL
                                         /\ in.arg2 # NULL => Freed \in {in.arg1, in.arg2})
  BY <1>1 DEF Shape, Arithmetic
<1>4. in.op = "LABEL" => (Shape(in) <=> in.result # NULL /\ in.arg1 = NULL /\ in.arg2 = NULL)
  BY <1>1 DEF Shape, Arithmetic
<1>5. in.op = "IF" => (Shape(in) <=> in.result = NULL /\ in.arg1 # NULL /\ in.arg2 # NULL)
  BY <1>1 DEF Shape, Arithmetic
<1>6. in.op = "GOTO" => (Shape(in) <=> in.arg1 # NULL /\ (in.result = NULL => in.arg2 = NULL))
  BY DEF Shape, Arithmetic
<1>7. in.op \in {"PRINT", "SCAN", "EXIT"} =>
        (Shape(in) <=> in.result = NULL /\ in.arg1 # NULL /\ in.arg2 = NULL)
  BY <1>1 DEF Shape, Arithmetic
<1> QED BY ONLY <1>2, <1>3, <1>4, <1>5, <1>6, <1>7

\* The instructions that generation and the passes make.
LEMMA TacFacts ==
  ASSUME NEW op \in TacOp, NEW result \in Result, NEW arg1 \in Operand, NEW arg2 \in Operand
  PROVE  /\ TAC(op, result, arg1, arg2).op = op /\ TAC(op, result, arg1, arg2).result = result
         /\ TAC(op, result, arg1, arg2).arg1 = arg1 /\ TAC(op, result, arg1, arg2).arg2 = arg2
         /\ TAC(op, result, arg1, arg2) \in TACInstruction
         /\ Shape(TAC(op, result, arg1, arg2)) => TAC(op, result, arg1, arg2) \in Instr
BY OperandFacts DEF TAC, TACInstruction, Instr

LEMMA MadeInstr ==
  /\ \A op \in Arithmetic, r \in Temps \cup Name, a, b \in Arg : TAC(op, r, a, b) \in Instr
  /\ \A r \in Temps \cup Name, a \in Arg : TAC("ASSIGN", r, a, NULL) \in Instr
  /\ \A l \in Marks : TAC("LABEL", l, NULL, NULL) \in Instr
  /\ \A l \in Marks : TAC("GOTO", NULL, l, NULL) \in Instr
  /\ \A a \in Arg, l \in Marks : TAC("IF", NULL, a, l) \in Instr
  /\ \A a \in Arg : TAC("PRINT", NULL, a, NULL) \in Instr /\ TAC("EXIT", NULL, a, NULL) \in Instr
                    /\ TAC("SCAN", NULL, a, NULL) \in Instr
<1>0. /\ \A a \in Arg \cup Marks : a # NULL /\ a \in Operand
      /\ \A a \in Temps \cup Name \cup Marks : a # NULL /\ a \in Result
      /\ NULL \in Operand /\ NULL \in Result
  BY OperandFacts DEF Arg, Result
<1>00. Arithmetic \subseteq TacOp /\ {"ASSIGN", "LABEL", "GOTO", "IF", "PRINT", "EXIT", "SCAN"} \subseteq TacOp
  BY DEF TacOp
<1> HIDE DEF NULL
<1>1. ASSUME NEW op \in Arithmetic, NEW r \in Temps \cup Name, NEW a \in Arg, NEW b \in Arg
      PROVE  TAC(op, r, a, b) \in Instr
  <2>1. /\ TAC(op, r, a, b).op = op /\ TAC(op, r, a, b).result = r
        /\ TAC(op, r, a, b).arg1 = a /\ TAC(op, r, a, b).arg2 = b
        /\ Shape(TAC(op, r, a, b)) => TAC(op, r, a, b) \in Instr
    BY <1>0, <1>00, TacFacts
  <2>2. Shape(TAC(op, r, a, b))
    BY <2>1, <1>0, ShapeFacts
  <2> QED BY <2>1, <2>2
<1>2. ASSUME NEW r \in Temps \cup Name, NEW a \in Arg PROVE TAC("ASSIGN", r, a, NULL) \in Instr
  <2>1. /\ TAC("ASSIGN", r, a, NULL).op = "ASSIGN" /\ TAC("ASSIGN", r, a, NULL).result = r
        /\ TAC("ASSIGN", r, a, NULL).arg1 = a /\ TAC("ASSIGN", r, a, NULL).arg2 = NULL
        /\ Shape(TAC("ASSIGN", r, a, NULL)) => TAC("ASSIGN", r, a, NULL) \in Instr
    BY <1>0, <1>00, TacFacts
  <2>2. Shape(TAC("ASSIGN", r, a, NULL))
    BY <2>1, <1>0, ShapeFacts
  <2> QED BY <2>1, <2>2
<1>3. ASSUME NEW l \in Marks PROVE TAC("LABEL", l, NULL, NULL) \in Instr /\ TAC("GOTO", NULL, l, NULL) \in Instr
  BY <1>0, <1>00, TacFacts, ShapeFacts
<1>4. ASSUME NEW a \in Arg, NEW l \in Marks PROVE TAC("IF", NULL, a, l) \in Instr
  BY <1>0, <1>00, TacFacts, ShapeFacts
<1>5. ASSUME NEW a \in Arg, NEW op \in {"PRINT", "EXIT", "SCAN"} PROVE TAC(op, NULL, a, NULL) \in Instr
  BY <1>0, <1>00, TacFacts, ShapeFacts
<1> QED BY <1>1, <1>2, <1>3, <1>4, <1>5
-----------------------------------------------------------------------------
(* The code of expressions.                                                    *)
ExprCode == [code : Seq(Instr), arg : Arg, temps : Nat]
ExprOf(g, e, temps) ==
  IF e.kind # "op" THEN [code |-> <<>>, arg |-> e.operand, temps |-> temps]
  ELSE LET left == g[e.left][temps]
           right == g[e.right][left.temps]
       IN  [code |-> left.code \o right.code \o <<TAC(e.op, Temp(right.temps), left.arg, right.arg)>>,
            arg |-> Temp(right.temps), temps |-> right.temps + 1]

LEMMA ExprFacts ==
  ASSUME NEW e \in Expr
  PROVE  /\ e.kind # "op" => e.operand \in Name \cup {"#"} \X Int
         /\ e.kind = "op" => /\ e.op \in Arithmetic /\ e.left \in Expr /\ e.right \in Expr
                             /\ Size[e.left] < Size[e] /\ Size[e.right] < Size[e]
<1>1. \/ e.kind \in {"leaf", "literal"} /\ e.operand \in Name \cup {"#"} \X Int
      \/ /\ e.kind = "op" /\ e.op \in Arithmetic /\ e.left \in Expr /\ e.right \in Expr
         /\ Size[e.left] < Size[e] /\ Size[e.right] < Size[e]
  BY TreesAssumption
<1> QED BY <1>1

LEMMA ThreeParts ==
  ASSUME NEW S, NEW a \in Seq(S), NEW b \in Seq(S), NEW x \in S
  PROVE  a \o b \o <<x>> \in Seq(S)
<1>1. a \o b \in Seq(S) /\ <<x>> \in Seq(S)
  BY ConcatProperties
<1> QED BY <1>1, ConcatProperties

LEMMA ExprOfTyped ==
  ASSUME NEW g, NEW e \in Expr, NEW temps \in Nat,
         e.kind = "op" => \A t \in Nat : g[e.left][t] \in ExprCode /\ g[e.right][t] \in ExprCode
  PROVE  ExprOf(g, e, temps) \in ExprCode
<1>1. CASE e.kind # "op"
  <2>1. e.operand \in Arg
    BY <1>1, ExprFacts DEF Arg
  <2> QED BY <1>1, <2>1, EmptySeq DEF ExprOf, ExprCode
<1>2. CASE e.kind = "op"
  <2> PICK left : left = g[e.left][temps]
    OBVIOUS
  <2>1. left \in ExprCode
    BY <1>2
  <2> PICK right : right = g[e.right][left.temps]
    OBVIOUS
  <2>2. right \in ExprCode
    BY <1>2, <2>1 DEF ExprCode
  <2>3. Temp(right.temps) \in Temps /\ Temp(right.temps) \in Arg
    BY <2>2, OperandFacts DEF ExprCode
  <2> PICK in : in = TAC(e.op, Temp(right.temps), left.arg, right.arg)
    OBVIOUS
  <2>4. in \in Instr
    BY <2>1, <2>2, <2>3, <1>2, ExprFacts, MadeInstr, Zenon DEF ExprCode
  <2>5. left.code \o right.code \o <<in>> \in Seq(Instr)
    BY <2>1, <2>2, <2>4, ThreeParts, Zenon DEF ExprCode
  <2>6. ExprOf(g, e, temps) = [code |-> left.code \o right.code \o <<in>>,
                               arg |-> Temp(right.temps), temps |-> right.temps + 1]
    BY <1>2 DEF ExprOf
  <2>7. right.temps + 1 \in Nat
    <3>1. right.temps \in Nat
      BY ONLY <2>2 DEF ExprCode
    <3> QED BY ONLY <3>1
  <2> PICK made, arg, n : made = left.code \o right.code \o <<in>> /\ arg = Temp(right.temps) /\ n = right.temps + 1
    BY Zenon
  <2>8. [code |-> made, arg |-> arg, temps |-> n] \in ExprCode
    BY <2>3, <2>5, <2>7, Zenon DEF ExprCode
  <2> QED BY <2>6, <2>8, Zenon
<1> QED BY <1>1, <1>2

(* An expression's code is what its parts' codes are put together to, and of   *)
(* instructions of their shape.                                                *)
LEMMA GenExprFacts ==
  /\ \A e \in Expr, t \in Nat : GenExpr[e][t] = ExprOf(GenExpr, e, t)
  /\ \A e \in Expr, t \in Nat : GenExpr[e][t] \in ExprCode
<1> DEFINE V == [Nat -> ExprCode]
           rank == [e \in Expr |-> Size[e]]
           next == [g \in [Expr -> V] |-> [e \in Expr |-> [t \in Nat |-> ExprOf(g, e, t)]]]
           IsGen(g) == g = [e \in Expr |-> [temps \in Nat |->
             IF e.kind # "op" THEN [code |-> <<>>, arg |-> e.operand, temps |-> temps]
             ELSE LET left == g[e.left][temps]
                      right == g[e.right][left.temps]
                  IN  [code |-> left.code \o right.code \o <<TAC(e.op, Temp(right.temps), left.arg, right.arg)>>,
                       arg |-> Temp(right.temps), temps |-> right.temps + 1]]]
<1>1. rank \in [Expr -> Nat]
  BY SizeFacts
<1>2. next \in [[Expr -> V] -> [Expr -> V]]
  <2>1. ASSUME NEW g \in [Expr -> V], NEW e \in Expr, NEW t \in Nat PROVE ExprOf(g, e, t) \in ExprCode
    <3>1. e.kind = "op" => g[e.left] \in V /\ g[e.right] \in V
      BY ExprFacts
    <3>2. e.kind = "op" => \A n \in Nat : g[e.left][n] \in ExprCode /\ g[e.right][n] \in ExprCode
      BY <3>1
    <3> QED BY <3>2, ExprOfTyped, Zenon
  <2> QED BY <2>1
<1>3. ASSUME NEW g \in [Expr -> V], NEW h \in [Expr -> V], NEW e \in Expr,
             \A x \in Expr : rank[x] < rank[e] => g[x] = h[x]
      PROVE  next[g][e] = next[h][e]
  <2>1. e.kind = "op" => g[e.left] = h[e.left] /\ g[e.right] = h[e.right]
    BY <1>3, ExprFacts
  <2>2. \A t \in Nat : ExprOf(g, e, t) = ExprOf(h, e, t)
    BY <2>1, Zenon DEF ExprOf
  <2> QED BY <2>2
<1>4. AsksBelow(next, Expr, V, rank)
  <2> HIDE DEF next, rank, V
  <2> QED BY <1>1, <1>2, <1>3 DEF AsksBelow
<1>5. \E v : v \in V
  <2>1. \E a : a \in Arg
    <3>1. Temp(0) \in Arg
      BY OperandFacts
    <3> QED BY <3>1
  <2> PICK a \in Arg : TRUE
    BY <2>1
  <2>2. [code |-> <<>>, arg |-> a, temps |-> 0] \in ExprCode
    BY EmptySeq DEF ExprCode
  <2>3. [t \in Nat |-> [code |-> <<>>, arg |-> a, temps |-> 0]] \in V
    BY <2>2
  <2> QED BY <2>3
<1>6. PICK f : f \in [Expr -> V] /\ f = next[f]
  <2> HIDE DEF next, rank, V
  <2> QED BY ONLY <1>5, <1>4, RankedRecursion
<1>7. IsGen(f)
  BY <1>6, Zenon DEF ExprOf
<1>8. IsGen(GenExpr)
  <2>1. GenExpr = CHOOSE g : IsGen(g)
    BY DEF GenExpr
  <2> HIDE DEF IsGen
  <2> QED BY <1>7, <2>1
<1>9. \A e \in Expr : GenExpr[e] = [t \in Nat |-> ExprOf(GenExpr, e, t)]
  BY <1>8, Zenon DEF ExprOf
<1>10. \A e \in Expr, t \in Nat : GenExpr[e][t] = ExprOf(GenExpr, e, t)
  BY <1>9
<1> HIDE DEF IsGen, next
<1> DEFINE T == {e \in Expr : \A t \in Nat : GenExpr[e][t] \in ExprCode}
<1>11. ASSUME NEW e \in Expr, \A x \in Expr : rank[x] < rank[e] => x \in T PROVE e \in T
  <2>1. e.kind = "op" => e.left \in T /\ e.right \in T
    BY <1>11, ExprFacts
  <2>2. e.kind = "op" => \A t \in Nat : GenExpr[e.left][t] \in ExprCode /\ GenExpr[e.right][t] \in ExprCode
    BY <2>1
  <2>3. \A t \in Nat : ExprOf(GenExpr, e, t) \in ExprCode
    BY <2>2, ExprOfTyped
  <2> QED BY <2>3, <1>10
<1>12. Expr \subseteq T
  <2> HIDE DEF rank, T
  <2> QED BY ONLY <1>1, <1>11, RankInduction
<1> QED BY <1>10, <1>12
-----------------------------------------------------------------------------
(* The code of statements.                                                     *)
StmtCode == [code : Seq(Instr), temps : Nat, labels : Nat]

\* What a statement is made of, kind by kind.
LEMMA StmtFacts ==
  ASSUME NEW st \in Stmt
  PROVE  /\ st.kind \in {"declare", "scan", "assign", "print", "exit", "block", "if", "for"}
         /\ st.kind \in {"declare", "scan", "assign"} => st.name \in Name
         /\ st.kind \in {"assign", "print", "exit", "if", "for"} => st.expr \in Expr
         /\ st.kind = "block" => st.body \in Seq(Stmt) /\ Weight[st.body] < Size[st]
         /\ st.kind = "if" => /\ st.body \in Seq(Stmt) /\ st.els \in Seq(Stmt)
                              /\ Weight[st.body] + Weight[st.els] < Size[st]
         /\ st.kind = "for" => /\ st.init \in Seq(Stmt) /\ st.body \in Seq(Stmt) /\ st.update \in Seq(Stmt)
                               /\ [st EXCEPT !.init = <<>>] \in Stmt
                               /\ Weight[st.init] + Weight[st.body] + Weight[st.update] < Size[st]
<1>1. \/ st.kind \in {"declare", "scan"} /\ st.name \in Name
      \/ st.kind = "assign" /\ st.name \in Name /\ st.expr \in Expr
      \/ st.kind \in {"print", "exit"} /\ st.expr \in Expr
      \/ st.kind = "block" /\ st.body \in Seq(Stmt) /\ Weight[st.body] < Size[st]
      \/ /\ st.kind = "if" /\ st.expr \in Expr /\ st.body \in Seq(Stmt) /\ st.els \in Seq(Stmt)
         /\ Weight[st.body] + Weight[st.els] < Size[st]
      \/ /\ st.kind = "for" /\ st.expr \in Expr /\ st.init \in Seq(Stmt) /\ st.body \in Seq(Stmt)
         /\ st.update \in Seq(Stmt) /\ [st EXCEPT !.init = <<>>] \in Stmt
         /\ Weight[st.init] + Weight[st.body] + Weight[st.update] < Size[st]
  BY TreesAssumption
<1> QED BY <1>1

\* The sequences that are parts of a statement have less in them than it.
Part(st, ss) == \/ st.kind \in {"block", "if"} /\ ss = st.body
                \/ st.kind = "if" /\ ss = st.els
                \/ st.kind = "for" /\ (ss = st.init \/ ss = st.body \o st.update)

LEMMA PartFacts ==
  ASSUME NEW st \in Stmt, NEW ss, Part(st, ss)
  PROVE  ss \in Seq(Stmt) /\ Weight[ss] < Size[st]
<1>1. Size[st] \in Nat /\ \A s \in Seq(Stmt) : Weight[s] \in Nat
  BY SizeFacts, WeightFacts
<1>2. CASE st.kind = "block"
  BY <1>2, StmtFacts DEF Part
<1>0. ASSUME NEW a \in Nat, NEW b \in Nat, NEW c \in Nat, NEW n \in Nat, a + b + c < n
      PROVE  a < n /\ b < n /\ c < n /\ b + c < n
  BY <1>0
<1>3. CASE st.kind = "if"
  <2>1. /\ st.body \in Seq(Stmt) /\ st.els \in Seq(Stmt) /\ Weight[st.body] + Weight[st.els] < Size[st]
    BY <1>3, StmtFacts
  <2>2. Weight[st.body] < Size[st] /\ Weight[st.els] < Size[st]
    BY ONLY <2>1, <1>1
  <2>3. ss = st.body \/ ss = st.els
    BY <1>3 DEF Part
  <2> QED BY <2>1, <2>2, <2>3
<1>4. CASE st.kind = "for"
  <2>1. /\ st.init \in Seq(Stmt) /\ st.body \in Seq(Stmt) /\ st.update \in Seq(Stmt)
        /\ Weight[st.init] + Weight[st.body] + Weight[st.update] < Size[st]
    BY <1>4, StmtFacts
  <2>2. st.body \o st.update \in Seq(Stmt) /\ Weight[st.body \o st.update] = Weight[st.body] + Weight[st.update]
    BY <2>1, WeightAdds
  <2>3. ss = st.init \/ ss = st.body \o st.update
    BY <1>4 DEF Part
  <2>4. Weight[st.init] < Size[st] /\ Weight[st.body] + Weight[st.update] < Size[st]
    <3>1. Weight[st.init] \in Nat /\ Weight[st.body] \in Nat /\ Weight[st.update] \in Nat /\ Size[st] \in Nat
      BY <1>1, <2>1
    <3> QED BY ONLY <3>1, <2>1, <1>0
  <2> QED BY <2>1, <2>2, <2>3, <2>4
<1> QED BY <1>2, <1>3, <1>4 DEF Part

(* The code around the parts.                                                  *)
LEMMA PiecesTyped ==
  ASSUME NEW cond \in ExprCode, NEW l \in Nat, NEW m \in Nat, NEW body \in Seq(Instr), NEW els \in Seq(Instr)
  PROVE  /\ Place(l) \in Seq(Instr) /\ Goto(l) \in Seq(Instr)
         /\ Branch(cond, l, m) \in Seq(Instr)
         /\ If(cond, l, body) \in Seq(Instr)
         /\ IfElse(cond, l, body, m, els) \in Seq(Instr)
         /\ Loop(l, cond, body) \in Seq(Instr)
<1>1. ASSUME NEW n \in Nat PROVE Place(n) \in Seq(Instr) /\ Goto(n) \in Seq(Instr)
  BY OperandFacts, MadeInstr DEF Place, Goto
<1>2. ASSUME NEW n \in Nat PROVE <<TAC("IF", NULL, cond.arg, Label(n))>> \in Seq(Instr)
  BY OperandFacts, MadeInstr DEF ExprCode
<1>3. cond.code \in Seq(Instr)
  BY DEF ExprCode
<1>4. ASSUME NEW a \in Seq(Instr), NEW b \in Seq(Instr) PROVE a \o b \in Seq(Instr)
  BY ConcatProperties
<1>5. ASSUME NEW n \in Nat, NEW k \in Nat PROVE Branch(cond, n, k) \in Seq(Instr)
  <2> PICK i : i = <<TAC("IF", NULL, cond.arg, Label(n))>>
    OBVIOUS
  <2> PICK p, q : p = Goto(k) /\ q = Place(n)
    OBVIOUS
  <2>1. i \in Seq(Instr) /\ p \in Seq(Instr) /\ q \in Seq(Instr)
    BY <1>1, <1>2
  <2>2. Branch(cond, n, k) = cond.code \o i \o p \o q
    BY DEF Branch
  <2> QED BY <2>1, <2>2, <1>3, <1>4
<1>6. l + 1 \in Nat /\ l + 2 \in Nat
  OBVIOUS
<1> HIDE DEF Place, Goto
<1>7. If(cond, l, body) \in Seq(Instr)
  BY <1>1, <1>4, <1>5, <1>6 DEF If
<1>8. IfElse(cond, l, body, m, els) \in Seq(Instr)
  BY <1>1, <1>4, <1>5, <1>6 DEF IfElse
<1>9. Loop(l, cond, body) \in Seq(Instr)
  BY <1>1, <1>4, <1>5, <1>6 DEF Loop
<1> QED BY <1>1, <1>5, <1>7, <1>8, <1>9

TypedFor(gen, st) == \A ss : Part(st, ss) => \A t, l \in Nat : gen[ss][t][l] \in StmtCode

LEMMA GenStmtTyped ==
  ASSUME NEW gen, NEW st \in Stmt, NEW t \in Nat, NEW l \in Nat, TypedFor(gen, st)
  PROVE  GenStmt(gen, st, t, l) \in StmtCode
<1>1. st.expr \in Expr => \A n \in Nat : GenExpr[st.expr][n] \in ExprCode
  BY GenExprFacts
<1>2. CASE st.kind = "declare"
  BY <1>2, EmptySeq DEF GenStmt, StmtCode
<1>3. CASE st.kind = "scan"
  <2>1. st.name \in Arg
    BY <1>3, StmtFacts, OperandFacts
  <2>2. <<TAC("SCAN", NULL, st.name, NULL)>> \in Seq(Instr)
    BY <2>1, MadeInstr
  <2> QED BY <1>3, <2>2 DEF GenStmt, StmtCode
<1>4. CASE st.kind \in {"assign", "print", "exit"}
  <2> PICK value : value = GenExpr[st.expr][t]
    OBVIOUS
  <2>1. value \in ExprCode
    BY <1>1, <1>4, StmtFacts
  <2>2. ASSUME NEW in \in Instr PROVE value.code \o <<in>> \in Seq(Instr)
    BY <2>1, ConcatProperties DEF ExprCode
  <2>3. ASSUME NEW in \in Instr PROVE [code |-> value.code \o <<in>>, temps |-> value.temps, labels |-> l] \in StmtCode
    BY <2>1, <2>2 DEF StmtCode, ExprCode
  <2>4. CASE st.kind = "assign"
    <3>1. TAC("ASSIGN", st.name, value.arg, NULL) \in Instr
      BY <2>1, <2>4, StmtFacts, MadeInstr DEF ExprCode
    <3> QED BY <2>3, <2>4, <3>1 DEF GenStmt
  <2>5. CASE st.kind = "print"
    <3>1. TAC("PRINT", NULL, value.arg, NULL) \in Instr
      BY <2>1, MadeInstr DEF ExprCode
    <3> QED BY <2>3, <2>5, <3>1 DEF GenStmt
  <2>6. CASE st.kind = "exit"
    <3>1. TAC("EXIT", NULL, value.arg, NULL) \in Instr
      BY <2>1, MadeInstr DEF ExprCode
    <3> QED BY <2>3, <2>6, <3>1 DEF GenStmt
  <2> QED BY <1>4, <2>4, <2>5, <2>6
<1>5. CASE st.kind = "block"
  <2>1. Part(st, st.body)
    BY <1>5 DEF Part
  <2> QED BY <1>5, <2>1 DEF GenStmt, TypedFor
<1>6. CASE st.kind = "if"
  <2> PICK value : value = GenExpr[st.expr][t]
    OBVIOUS
  <2>1. value \in ExprCode
    BY <1>1, <1>6, StmtFacts
  <2>2. Part(st, st.body) /\ Part(st, st.els)
    BY <1>6 DEF Part
  <2> PICK b : b = gen[st.body][value.temps][l + 2]
    OBVIOUS
  <2>3. b \in StmtCode
    BY <2>1, <2>2 DEF TypedFor, ExprCode
  <2> PICK e : e = gen[st.els][b.temps][b.labels + 1]
    BY Zenon
  <2>4. e \in StmtCode
    <3>1. b.temps \in Nat /\ b.labels \in Nat
      BY <2>3, Zenon DEF StmtCode
    <3>2. b.labels + 1 \in Nat
      BY ONLY <3>1
    <3> QED BY <2>2, <3>1, <3>2, Zenon DEF TypedFor
  <2>5. If(value, l, b.code) \in Seq(Instr) /\ IfElse(value, l, b.code, b.labels, e.code) \in Seq(Instr)
    BY <2>1, <2>3, <2>4, PiecesTyped, Zenon DEF StmtCode
  <2>6. GenStmt(gen, st, t, l) = IF st.els = <<>> THEN [b EXCEPT !.code = If(value, l, b.code)]
                                 ELSE [e EXCEPT !.code = IfElse(value, l, b.code, b.labels, e.code)]
    BY <1>6, Zenon DEF GenStmt
  <2> PICK c, d : c = If(value, l, b.code) /\ d = IfElse(value, l, b.code, b.labels, e.code)
    BY Zenon
  <2>7. [b EXCEPT !.code = c] \in StmtCode /\ [e EXCEPT !.code = d] \in StmtCode
    <3>1. ASSUME NEW x \in StmtCode, NEW y \in Seq(Instr) PROVE [x EXCEPT !.code = y] \in StmtCode
      BY Zenon DEF StmtCode
    <3> QED BY <2>3, <2>4, <2>5, <3>1, Zenon
  <2> QED BY <2>6, <2>7, Zenon
<1>7. CASE st.kind = "for"
  <2>1. Part(st, st.init) /\ Part(st, st.body \o st.update)
    BY <1>7 DEF Part
  <2> PICK i : i = gen[st.init][t][l]
    OBVIOUS
  <2>2. i \in StmtCode
    BY <2>1 DEF TypedFor
  <2> PICK c : c = GenExpr[st.expr][i.temps]
    OBVIOUS
  <2>3. c \in ExprCode
    BY <1>1, <1>7, <2>2, StmtFacts, Zenon DEF StmtCode
  <2> PICK b : b = gen[st.body \o st.update][c.temps][i.labels + 3]
    BY Zenon
  <2>4. b \in StmtCode
    <3>1. c.temps \in Nat /\ i.labels \in Nat
      BY <2>2, <2>3, Zenon DEF StmtCode, ExprCode
    <3>2. i.labels + 3 \in Nat
      BY ONLY <3>1
    <3> QED BY <2>1, <3>1, <3>2, Zenon DEF TypedFor
  <2> PICK d : d = i.code \o Loop(i.labels, c, b.code)
    BY Zenon
  <2>5. d \in Seq(Instr)
    BY <2>2, <2>3, <2>4, PiecesTyped, ConcatProperties, Zenon DEF StmtCode
  <2>6. GenStmt(gen, st, t, l) = [b EXCEPT !.code = d]
    BY <1>7, Zenon DEF GenStmt
  <2>7. [b EXCEPT !.code = d] \in StmtCode
    BY <2>4, <2>5, Zenon DEF StmtCode
  <2> QED BY <2>6, <2>7, Zenon
<1> QED BY <1>2, <1>3, <1>4, <1>5, <1>6, <1>7, StmtFacts

\* What a statement's code is follows from the codes of its parts.
LEMMA GenStmtAsks ==
  ASSUME NEW g, NEW h, NEW st \in Stmt, NEW t \in Nat, NEW l \in Nat, TypedFor(g, st),
         \A ss : Part(st, ss) => g[ss] = h[ss]
  PROVE  GenStmt(g, st, t, l) = GenStmt(h, st, t, l)
<1>1. CASE st.kind \in {"declare", "scan", "assign", "print", "exit"}
  BY <1>1 DEF GenStmt
<1>2. CASE st.kind = "block"
  <2>1. g[st.body] = h[st.body]
    BY <1>2 DEF Part
  <2> QED BY <1>2, <2>1 DEF GenStmt
<1>3. CASE st.kind = "if"
  <2>1. g[st.body] = h[st.body] /\ g[st.els] = h[st.els]
    BY <1>3 DEF Part
  <2> QED BY <1>3, <2>1 DEF GenStmt
<1>4. CASE st.kind = "for"
  <2>1. g[st.init] = h[st.init] /\ g[st.body \o st.update] = h[st.body \o st.update]
    BY <1>4 DEF Part
  <2> QED BY <1>4, <2>1 DEF GenStmt
<1> QED BY <1>1, <1>2, <1>3, <1>4, StmtFacts

StmtsOf(gen, ss, t, l) ==
  IF ss = <<>> THEN [code |-> <<>>, temps |-> t, labels |-> l]
  ELSE LET first == GenStmt(gen, Head(ss), t, l)
           rest == gen[Tail(ss)][first.temps][first.labels]
       IN  [rest EXCEPT !.code = first.code \o @]

\* The parts of the first statement, and what follows it, weigh less than all.
Below(ss, x) == x = Tail(ss) \/ Part(Head(ss), x)

LEMMA BelowFacts ==
  ASSUME NEW ss \in Seq(Stmt), ss # <<>>, NEW x, Below(ss, x)
  PROVE  Head(ss) \in Stmt /\ x \in Seq(Stmt) /\ Weight[x] \in Nat /\ Weight[ss] \in Nat /\ Weight[x] < Weight[ss]
<1>1. Head(ss) \in Stmt /\ Tail(ss) \in Seq(Stmt)
  BY HeadAndTail
<1>2. Weight[ss] = 1 + Size[Head(ss)] + Weight[Tail(ss)] /\ \A y \in Seq(Stmt) : Weight[y] \in Nat
  BY WeightFacts
<1>3. Size[Head(ss)] \in Nat /\ Weight[Tail(ss)] \in Nat
  BY <1>1, <1>2, SizeFacts
<1>4. CASE x = Tail(ss)
  BY <1>1, <1>2, <1>3, <1>4
<1>5. CASE Part(Head(ss), x)
  <2>1. x \in Seq(Stmt) /\ Weight[x] < Size[Head(ss)]
    BY <1>1, <1>5, PartFacts
  <2> QED BY <1>1, <1>2, <1>3, <2>1
<1> QED BY <1>4, <1>5 DEF Below

LEMMA StmtsOfTyped ==
  ASSUME NEW gen, NEW ss \in Seq(Stmt), NEW t \in Nat, NEW l \in Nat,
         ss # <<>> => \A x : Below(ss, x) => \A n, m \in Nat : gen[x][n][m] \in StmtCode
  PROVE  StmtsOf(gen, ss, t, l) \in StmtCode
<1>1. CASE ss = <<>>
  BY <1>1, EmptySeq DEF StmtsOf, StmtCode
<1>2. CASE ss # <<>>
  <2> PICK first : first = GenStmt(gen, Head(ss), t, l)
    OBVIOUS
  <2>1. first \in StmtCode
    <3>1. Head(ss) \in Stmt
      BY <1>2, HeadAndTail
    <3>2. TypedFor(gen, Head(ss))
      BY <1>2 DEF TypedFor, Below
    <3> QED BY <3>1, <3>2, GenStmtTyped
  <2> PICK rest : rest = gen[Tail(ss)][first.temps][first.labels]
    OBVIOUS
  <2>2. rest \in StmtCode
    <3>1. first.temps \in Nat /\ first.labels \in Nat
      BY <2>1 DEF StmtCode
    <3> QED BY <1>2, <3>1 DEF Below
  <2> PICK c : c = first.code \o rest.code
    BY Zenon
  <2>3. c \in Seq(Instr)
    BY <2>1, <2>2, ConcatProperties, Zenon DEF StmtCode
  <2>4. StmtsOf(gen, ss, t, l) = [rest EXCEPT !.code = c]
    BY <1>2, Zenon DEF StmtsOf
  <2>5. [rest EXCEPT !.code = c] \in StmtCode
    BY <2>2, <2>3, Zenon DEF StmtCode
  <2> QED BY <2>4, <2>5, Zenon
<1> QED BY <1>1, <1>2

(* A sequence's code is its first statement's before the others'.              *)
LEMMA GenStmtsFacts ==
  /\ \A ss \in Seq(Stmt), t \in Nat, l \in Nat : GenStmts[ss][t][l] = StmtsOf(GenStmts, ss, t, l)
  /\ \A ss \in Seq(Stmt), t \in Nat, l \in Nat : GenStmts[ss][t][l] \in StmtCode
<1> DEFINE D == Seq(Stmt)
           V == [Nat -> [Nat -> StmtCode]]
           next == [g \in [D -> V] |-> [ss \in D |-> [t \in Nat |-> [l \in Nat |-> StmtsOf(g, ss, t, l)]]]]
           IsGen(g) == g = [ss \in Seq(Stmt) |-> [temps \in Nat |-> [labels \in Nat |->
             IF ss = <<>> THEN [code |-> <<>>, temps |-> temps, labels |-> labels]
             ELSE LET first == GenStmt(g, Head(ss), temps, labels)
                      rest == g[Tail(ss)][first.temps][first.labels]
                  IN  [rest EXCEPT !.code = first.code \o @]]]]
<1>1. Weight \in [D -> Nat]
  BY WeightFacts
<1>0. ASSUME NEW g \in [D -> V], NEW x \in D PROVE \A n, m \in Nat : g[x][n][m] \in StmtCode
  <2>1. g[x] \in V
    OBVIOUS
  <2> QED BY <2>1
<1>2. next \in [[D -> V] -> [D -> V]]
  <2>1. ASSUME NEW g \in [D -> V], NEW ss \in D, NEW t \in Nat, NEW l \in Nat PROVE StmtsOf(g, ss, t, l) \in StmtCode
    <3>1. ss # <<>> => \A x : Below(ss, x) => x \in D
      BY BelowFacts
    <3>2. ss # <<>> => \A x : Below(ss, x) => \A n, m \in Nat : g[x][n][m] \in StmtCode
      BY <3>1, <1>0
    <3> QED BY <3>2, StmtsOfTyped, Zenon
  <2> QED BY <2>1
<1>3. ASSUME NEW g \in [D -> V], NEW h \in [D -> V], NEW ss \in D,
             \A x \in D : Weight[x] < Weight[ss] => g[x] = h[x]
      PROVE  next[g][ss] = next[h][ss]
  <2>1. ss # <<>> => \A x : Below(ss, x) => g[x] = h[x] /\ x \in D
    BY <1>3, BelowFacts
  <2>2. ASSUME NEW t \in Nat, NEW l \in Nat PROVE StmtsOf(g, ss, t, l) = StmtsOf(h, ss, t, l)
    <3>1. CASE ss = <<>>
      BY <3>1 DEF StmtsOf
    <3>2. CASE ss # <<>>
      <4>1. Head(ss) \in Stmt /\ g[Tail(ss)] = h[Tail(ss)] /\ \A x : Part(Head(ss), x) => g[x] = h[x]
        BY <3>2, <2>1, HeadAndTail DEF Below
      <4>2. TypedFor(g, Head(ss))
        <5>1. \A x : Part(Head(ss), x) => x \in D
          BY <3>2, <2>1 DEF Below
        <5> QED BY <5>1, <1>0 DEF TypedFor
      <4>3. GenStmt(g, Head(ss), t, l) = GenStmt(h, Head(ss), t, l)
        BY <4>1, <4>2, GenStmtAsks
      <4> QED BY <4>1, <4>3, Zenon DEF StmtsOf
    <3> QED BY <3>1, <3>2
  <2> QED BY <2>2
<1>4. AsksBelow(next, D, V, Weight)
  <2> HIDE DEF next, V, D
  <2> QED BY <1>1, <1>2, <1>3 DEF AsksBelow
<1>5. \E v : v \in V
  <2>1. [code |-> <<>>, temps |-> 0, labels |-> 0] \in StmtCode
    BY EmptySeq DEF StmtCode
  <2>2. [t \in Nat |-> [l \in Nat |-> [code |-> <<>>, temps |-> 0, labels |-> 0]]] \in V
    BY <2>1
  <2> QED BY <2>2
<1>6. PICK f : f \in [D -> V] /\ f = next[f]
  <2> HIDE DEF next, V, D
  <2> QED BY ONLY <1>5, <1>4, RankedRecursion
<1>7. IsGen(f)
  BY <1>6, Zenon DEF StmtsOf
<1>8. IsGen(GenStmts)
  <2>1. GenStmts = CHOOSE g : IsGen(g)
    BY DEF GenStmts
  <2> HIDE DEF IsGen
  <2> QED BY <1>7, <2>1
<1>9. \A ss \in D : GenStmts[ss] = [t \in Nat |-> [l \in Nat |-> StmtsOf(GenStmts, ss, t, l)]]
  BY <1>8, Zenon DEF StmtsOf
<1>10. \A ss \in D, t \in Nat, l \in Nat : GenStmts[ss][t][l] = StmtsOf(GenStmts, ss, t, l)
  <2> TAKE ss \in D, t \in Nat, l \in Nat
  <2> HIDE DEF IsGen, next
  <2>1. GenStmts[ss] = [n \in Nat |-> [m \in Nat |-> StmtsOf(GenStmts, ss, n, m)]]
    BY <1>9
  <2> QED BY <2>1
<1> HIDE DEF IsGen, next
<1> DEFINE T == {ss \in D : \A t, l \in Nat : GenStmts[ss][t][l] \in StmtCode}
<1>11. ASSUME NEW ss \in D, \A x \in D : Weight[x] < Weight[ss] => x \in T PROVE ss \in T
  <2>1. ss # <<>> => \A x : Below(ss, x) => x \in T
    BY <1>11, BelowFacts
  <2>2. ss # <<>> => \A x : Below(ss, x) => \A n, m \in Nat : GenStmts[x][n][m] \in StmtCode
    BY <2>1
  <2>3. \A t, l \in Nat : StmtsOf(GenStmts, ss, t, l) \in StmtCode
    BY <2>2, StmtsOfTyped
  <2> QED BY <2>3, <1>10
<1>12. D \subseteq T
  <2> HIDE DEF D, T
  <2> QED BY ONLY <1>1, <1>11, RankInduction
<1> QED BY <1>10, <1>12

LEMMA GeneratedTyped == \A t \in Trees : Generated(t) \in Seq(Instr)
<1>1. ASSUME NEW t \in Trees PROVE Generated(t) \in Seq(Instr)
  <2>1. t \in Seq(Stmt)
    BY TreesAssumption
  <2>2. GenStmts[t][0][0] \in StmtCode
    BY <2>1, GenStmtsFacts
  <2> QED BY <2>2 DEF Generated, StmtCode
<1> QED BY <1>1
-----------------------------------------------------------------------------
(* The passes keep the instructions well formed.  First those that change one  *)
(* instruction after the other.                                                *)
LEMMA CodeFacts ==
  ASSUME NEW c \in Seq(Instr)
  PROVE  /\ Len(c) \in Nat /\ DOMAIN c = 1 .. Len(c) /\ c \in [1 .. Len(c) -> Instr]
         /\ \A i \in 1 .. Len(c) : c[i] \in Instr
BY LenProperties

\* A function on a sequence's places is a sequence as long, evaluated or not.
LEMMA TupleFacts ==
  ASSUME NEW c \in Seq(Instr), NEW f \in [DOMAIN c -> Instr]
  PROVE  /\ Tuple(f) = f /\ f \in Seq(Instr) /\ Len(f) = Len(c)
         /\ \A i \in DOMAIN c : Tuple(f)[i] = f[i]
<1>1. DOMAIN c = 1 .. Len(c) /\ Len(c) \in Nat
  BY CodeFacts
<1>2. f \in Seq(Instr) /\ Len(f) = Len(c)
  BY <1>1, LenProperties
<1>3. <<>> \o f = f
  BY <1>2, ConcatEmptySeq
<1> QED BY <1>2, <1>3 DEF Tuple

\* The same length and labels; each instruction is what has become of its own.
Becomes(c, d, f) == /\ d \in Seq(Instr) /\ Len(d) = Len(c)
                    /\ \A i \in 1 .. Len(c) : d[i] = f[c[i]]

FoldOne(in) == IF Folds(in) THEN TAC("ASSIGN", in.result, Folded(in), NULL) ELSE in
SimplifyOne(in) == IF NeutralFirst(in) THEN [in EXCEPT !.op = "ASSIGN", !.arg1 = Freed]
                   ELSE IF NeutralSecond(in) THEN [in EXCEPT !.op = "ASSIGN", !.arg2 = Freed]
                   ELSE in
ReduceOne(in) == IF in.op # "MUL" THEN in
                 ELSE IF in.arg1 = Const(2) THEN [in EXCEPT !.op = "ADD", !.arg1 = in.arg2]
                 ELSE IF in.arg2 = Const(2) THEN [in EXCEPT !.op = "ADD", !.arg2 = in.arg1]
                 ELSE in

\* Numbers are computed from numbers.
LEMMA ComputeFacts ==
  \A op \in Arithmetic, x, y \in Int : Compute(op, x, y) \in Int
<1> SUFFICES ASSUME NEW op \in Arithmetic, NEW x \in Int, NEW y \in Int PROVE Compute(op, x, y) \in Int
  OBVIOUS
<1>1. \A n \in Int : Abs(n) \in Nat /\ (n # 0 => Abs(n) > 0)
  BY DEF Abs
<1>2. \A b : Truth(b) \in Int
  BY DEF Truth
<1>3. ASSUME y # 0 PROVE Quotient(x, y) \in Int
  <2> PICK a, b : a = Abs(x) /\ b = Abs(y)
    OBVIOUS
  <2>1. a \in Nat /\ b \in Nat /\ b > 0
    BY <1>1, <1>3
  <2>2. a \div b \in Int
    BY <2>1
  <2> QED BY <2>2 DEF Quotient
<1>4. CASE op \in {"ADD", "SUB", "MUL"}
  <2>1. x + y \in Int /\ x - y \in Int /\ x * y \in Int
    OBVIOUS
  <2> QED BY <1>4, <2>1 DEF Compute
<1>5. CASE op = "DIV"
  BY <1>3, <1>5 DEF Compute
<1>6. CASE op = "MOD"
  <2>1. CASE y = 0
    BY <1>6, <2>1 DEF Compute
  <2>2. CASE y # 0
    <3> PICK q : q = Quotient(x, y)
      OBVIOUS
    <3>1. q \in Int
      BY <1>3, <2>2
    <3>2. y * q \in Int
      BY <3>1
    <3>3. x - y * q \in Int
      BY <3>2
    <3>4. Compute(op, x, y) = x - y * q
      BY <1>6, <2>2 DEF Compute
    <3> QED BY <3>3, <3>4
  <2> QED BY <2>1, <2>2
<1>7. CASE op \in {"EQ", "NE", "LT", "LE", "GT", "GE"}
  BY <1>2, <1>7 DEF Compute
<1> QED BY <1>4, <1>5, <1>6, <1>7 DEF Arithmetic

\* What is an int is not changed by being made one.
LEMMA WrappedFacts ==
  /\ \A n \in Int : Wrapped(n) \in Int /\ atoi(n) \in Int
  /\ \A n \in -IntMax - 1 .. IntMax : Wrapped(n) = n /\ atoi(n) = n
<1>1. \A n \in Int : Wrapped(n) \in Int
  BY WidthsAssumption DEF Wrapped
<1>2. \A n \in Int : atoi(n) \in Int
  <2> SUFFICES ASSUME NEW n \in Int PROVE atoi(n) \in Int
    OBVIOUS
  <2>1. (IF n > LongMax THEN LongMax ELSE IF n < -LongMax - 1 THEN -LongMax - 1 ELSE n) \in Int
    BY WidthsAssumption
  <2> QED BY <1>1, <2>1 DEF atoi
<1>3. ASSUME NEW n \in -IntMax - 1 .. IntMax PROVE Wrapped(n) = n
  <2> PICK x, d : x = n + IntMax + 1 /\ d = 2 * (IntMax + 1)
    OBVIOUS
  <2>1. x \in Nat /\ d \in Nat /\ x < d /\ 0 < d
    BY WidthsAssumption
  <2>2. x % d = x
    BY ONLY <2>1
  <2>3. Wrapped(n) = (x % d) - IntMax - 1
    BY DEF Wrapped
  <2> QED BY <2>1, <2>2, <2>3, WidthsAssumption
<1>4. ASSUME NEW n \in -IntMax - 1 .. IntMax PROVE atoi(n) = n
  <2>1. ~(n > LongMax) /\ ~(n < -LongMax - 1)
    BY WidthsAssumption
  <2> QED BY <1>3, <2>1 DEF atoi
<1> QED BY <1>1, <1>2, <1>3, <1>4

LEMMA FoldedFacts ==
  ASSUME NEW in \in Instr, Folds(in)
  PROVE  /\ in.op \in Arithmetic /\ IsConstant(in.arg1) /\ IsConstant(in.arg2)
         /\ in.arg1[2] \in Int /\ in.arg2[2] \in Int
         /\ computeOperation(in.op, atoi(in.arg1[2]), atoi(in.arg2[2])) \in Int
<1>1. in.op \in Arithmetic /\ IsConstant(in.arg1) /\ IsConstant(in.arg2)
  BY DEF Folds
<1>2. in.arg1[2] \in Int /\ in.arg2[2] \in Int
  BY <1>1, InstrFacts, OperandFacts
<1> PICK x, y : x = atoi(in.arg1[2]) /\ y = atoi(in.arg2[2])
  OBVIOUS
<1>3. x \in Int /\ y \in Int
  BY <1>2, WrappedFacts
<1>4. computeOperation(in.op, x, y) \in Int
  BY <1>1, <1>3, ComputeFacts, WrappedFacts DEF computeOperation
<1> QED BY <1>1, <1>2, <1>4

LEMMA OnesTyped ==
  ASSUME NEW in \in Instr
  PROVE  FoldOne(in) \in Instr /\ SimplifyOne(in) \in Instr /\ ReduceOne(in) \in Instr
<1>1. /\ in \in TACInstruction /\ in.op \in TacOp /\ in.result \in Result
      /\ in.arg1 \in Operand /\ in.arg2 \in Operand /\ in.result \in Operand
  BY InstrFacts
<1>2. Shape(in)
  BY DEF Instr
<1>3. in.op \in Arithmetic => in.result # NULL /\ in.arg1 # NULL /\ in.arg2 # NULL
  BY <1>2, ShapeFacts
<1>4. NULL \in Operand /\ Freed \in Operand /\ NULL # Freed
  BY OperandFacts
<1>5. "ASSIGN" \in TacOp /\ "ADD" \in TacOp /\ "ADD" \in Arithmetic /\ "MUL" \in Arithmetic
  BY DEF TacOp, Arithmetic
<1> HIDE DEF NULL, Freed
<1>6. FoldOne(in) \in Instr
  <2>1. CASE Folds(in)
    <3> PICK k : k = Folded(in)
      OBVIOUS
    <3>0. in.op \in Arithmetic
      BY <2>1 DEF Folds
    <3>1. k \in Arg /\ k # NULL /\ k \in Operand
      BY <2>1, FoldedFacts, OperandFacts DEF Folded
    <3> PICK x : x = TAC("ASSIGN", in.result, k, NULL)
      OBVIOUS
    <3>2. /\ x.op = "ASSIGN" /\ x.result = in.result /\ x.arg1 = k /\ x.arg2 = NULL
          /\ Shape(x) => x \in Instr
      BY <1>1, <1>4, <1>5, <3>1, TacFacts
    <3>3. Shape(x)
      BY <1>3, <3>0, <3>1, <3>2, ShapeFacts
    <3>4. FoldOne(in) = x
      BY <2>1 DEF FoldOne
    <3> QED BY <3>2, <3>3, <3>4
  <2>2. CASE ~Folds(in)
    BY <2>2 DEF FoldOne
  <2> QED BY <2>1, <2>2
<1>7. ASSUME NEW x \in TACInstruction, Shape(x), x.result = in.result PROVE x \in Instr
  BY <1>1, <1>7 DEF Instr
<1>8. SimplifyOne(in) \in Instr
  <2>0. NeutralFirst(in) \/ NeutralSecond(in) => in.op \in Arithmetic
    BY DEF NeutralFirst, NeutralSecond, Arithmetic
  <2>1. CASE NeutralFirst(in)
    <3> PICK x : x = [in EXCEPT !.op = "ASSIGN", !.arg1 = Freed]
      OBVIOUS
    <3>1. /\ x \in TACInstruction /\ x.op = "ASSIGN" /\ x.result = in.result /\ x.arg1 = Freed
      BY <1>1, <1>4, <1>5 DEF TACInstruction
    <3>2. Shape(x)
      BY <1>3, <1>4, <2>0, <2>1, <3>1, ShapeFacts
    <3> QED BY <1>7, <2>1, <3>1, <3>2 DEF SimplifyOne
  <2>2. CASE ~NeutralFirst(in) /\ NeutralSecond(in)
    <3> PICK x : x = [in EXCEPT !.op = "ASSIGN", !.arg2 = Freed]
      OBVIOUS
    <3>1. /\ x \in TACInstruction /\ x.op = "ASSIGN" /\ x.result = in.result
          /\ x.arg1 = in.arg1 /\ x.arg2 = Freed
      BY <1>1, <1>4, <1>5 DEF TACInstruction
    <3>2. Shape(x)
      BY <1>3, <1>4, <2>0, <2>2, <3>1, ShapeFacts
    <3> QED BY <1>7, <2>2, <3>1, <3>2 DEF SimplifyOne
  <2>3. CASE ~NeutralFirst(in) /\ ~NeutralSecond(in)
    BY <2>3 DEF SimplifyOne
  <2> QED BY <2>1, <2>2, <2>3
<1>9. ReduceOne(in) \in Instr
  <2>1. CASE in.op = "MUL" /\ in.arg1 = Const(2)
    <3> PICK x : x = [in EXCEPT !.op = "ADD", !.arg1 = in.arg2]
      OBVIOUS
    <3>1. /\ x \in TACInstruction /\ x.op = "ADD" /\ x.result = in.result
          /\ x.arg1 = in.arg2 /\ x.arg2 = in.arg2
      BY <1>1, <1>5 DEF TACInstruction
    <3>2. Shape(x)
      BY <1>3, <1>5, <2>1, <3>1, ShapeFacts
    <3> QED BY <1>7, <2>1, <3>1, <3>2 DEF ReduceOne
  <2>2. CASE in.op = "MUL" /\ in.arg1 # Const(2) /\ in.arg2 = Const(2)
    <3> PICK x : x = [in EXCEPT !.op = "ADD", !.arg2 = in.arg1]
      OBVIOUS
    <3>1. /\ x \in TACInstruction /\ x.op = "ADD" /\ x.result = in.result
          /\ x.arg1 = in.arg1 /\ x.arg2 = in.arg1
      BY <1>1, <1>5 DEF TACInstruction
    <3>2. Shape(x)
      BY <1>3, <1>5, <2>2, <3>1, ShapeFacts
    <3> QED BY <1>7, <2>2, <3>1, <3>2 DEF ReduceOne
  <2>3. CASE ~(in.op = "MUL" /\ (in.arg1 = Const(2) \/ in.arg2 = Const(2)))
    BY <2>3 DEF ReduceOne
  <2> QED BY <2>1, <2>2, <2>3
<1> QED BY <1>6, <1>8, <1>9

LEMMA MapFacts ==
  ASSUME NEW c \in Seq(Instr)
  PROVE  /\ Becomes(c, ConstantFolding(c), [in \in Instr |-> FoldOne(in)])
         /\ Becomes(c, AlgebraicSimplification(c), [in \in Instr |-> SimplifyOne(in)])
         /\ Becomes(c, StrengthReduction(c), [in \in Instr |-> ReduceOne(in)])
<1>1. Len(c) \in Nat /\ DOMAIN c = 1 .. Len(c) /\ \A i \in 1 .. Len(c) : c[i] \in Instr
  BY CodeFacts
<1>2. Becomes(c, ConstantFolding(c), [in \in Instr |-> FoldOne(in)])
  <2> DEFINE f == [i \in DOMAIN c |-> FoldOne(c[i])]
  <2>1. f \in [DOMAIN c -> Instr]
    BY <1>1, OnesTyped
  <2>2. ConstantFolding(c) = Tuple(f)
    BY DEF ConstantFolding, Map, FoldOne
  <2>3. Tuple(f) = f /\ f \in Seq(Instr) /\ Len(f) = Len(c)
    <3> HIDE DEF f
    <3> QED BY <2>1, TupleFacts
  <2> QED BY <1>1, <2>2, <2>3 DEF Becomes
<1>3. Becomes(c, AlgebraicSimplification(c), [in \in Instr |-> SimplifyOne(in)])
  <2> DEFINE f == [i \in DOMAIN c |-> SimplifyOne(c[i])]
  <2>1. f \in [DOMAIN c -> Instr]
    BY <1>1, OnesTyped
  <2>2. AlgebraicSimplification(c) = Tuple(f)
    BY DEF AlgebraicSimplification, Map, SimplifyOne
  <2>3. Tuple(f) = f /\ f \in Seq(Instr) /\ Len(f) = Len(c)
    <3> HIDE DEF f
    <3> QED BY <2>1, TupleFacts
  <2> QED BY <1>1, <2>2, <2>3 DEF Becomes
<1>4. Becomes(c, StrengthReduction(c), [in \in Instr |-> ReduceOne(in)])
  <2> DEFINE f == [i \in DOMAIN c |-> ReduceOne(c[i])]
  <2>1. f \in [DOMAIN c -> Instr]
    BY <1>1, OnesTyped
  <2>2. StrengthReduction(c) = Tuple(f)
    BY DEF StrengthReduction, Map, ReduceOne
  <2>3. Tuple(f) = f /\ f \in Seq(Instr) /\ Len(f) = Len(c)
    <3> HIDE DEF f
    <3> QED BY <2>1, TupleFacts
  <2> QED BY <1>1, <2>2, <2>3 DEF Becomes
<1> QED BY <1>2, <1>3, <1>4
-----------------------------------------------------------------------------
(* The passes that go through the code in order.                               *)
PutIn(in, var, by) == [in EXCEPT !.arg1 = Replaced(@, var, by), !.arg2 = Replaced(@, var, by)]

LEMMA PutInFacts ==
  ASSUME NEW in \in Instr, NEW var \in Result, NEW by \in Operand, var # NULL, by # NULL
  PROVE  /\ PutIn(in, var, by) \in Instr
         /\ PutIn(in, var, by).op = in.op /\ PutIn(in, var, by).result = in.result
         /\ PutIn(in, var, by).arg1 = Replaced(in.arg1, var, by)
         /\ PutIn(in, var, by).arg2 = Replaced(in.arg2, var, by)
<1>1. /\ in \in TACInstruction /\ in.op \in TacOp /\ in.result \in Result
      /\ in.arg1 \in Operand /\ in.arg2 \in Operand /\ Shape(in)
  BY InstrFacts DEF Instr
<1>2. var # Freed
  BY OperandFacts
<1> HIDE DEF NULL, Freed
<1>3. \A a \in Operand : /\ Replaced(a, var, by) \in Operand
                         /\ Replaced(a, var, by) = NULL <=> a = NULL
                         /\ a = Freed => Replaced(a, var, by) = Freed
  BY <1>2 DEF Replaced
<1> PICK x : x = PutIn(in, var, by)
  OBVIOUS
<1>4. /\ x \in TACInstruction /\ x.op = in.op /\ x.result = in.result
      /\ x.arg1 = Replaced(in.arg1, var, by) /\ x.arg2 = Replaced(in.arg2, var, by)
  BY <1>1, <1>3 DEF PutIn, TACInstruction
<1>5. /\ x.arg1 = NULL <=> in.arg1 = NULL
      /\ x.arg2 = NULL <=> in.arg2 = NULL
      /\ Freed \in {in.arg1, in.arg2} => Freed \in {x.arg1, x.arg2}
  BY <1>1, <1>3, <1>4
<1>6. Shape(x)
  <2>1. CASE in.op \in Arithmetic
    BY <1>1, <1>4, <1>5, <2>1, ShapeFacts
  <2>2. CASE in.op = "ASSIGN"
    BY <1>1, <1>4, <1>5, <2>2, ShapeFacts
  <2>3. CASE in.op = "LABEL"
    BY <1>1, <1>4, <1>5, <2>3, ShapeFacts
  <2>4. CASE in.op = "IF"
    BY <1>1, <1>4, <1>5, <2>4, ShapeFacts
  <2>5. CASE in.op = "GOTO"
    BY <1>1, <1>4, <1>5, <2>5, ShapeFacts
  <2>6. CASE in.op \in {"PRINT", "SCAN", "EXIT"}
    BY <1>1, <1>4, <1>5, <2>6, ShapeFacts
  <2> QED BY <1>1, <2>1, <2>2, <2>3, <2>4, <2>5, <2>6 DEF TacOp
<1> QED BY <1>1, <1>4, <1>6 DEF Instr

LEMMA PropagatedFacts ==
  ASSUME NEW c \in Seq(Instr), NEW i \in 1 .. Len(c), c[i].op = "ASSIGN"
  PROVE  /\ c[i].result \in Result /\ c[i].result # NULL /\ c[i].arg1 \in Operand /\ c[i].arg1 # NULL
         /\ Propagated(c, i) \in Seq(Instr) /\ Len(Propagated(c, i)) = Len(c)
         /\ \A j \in 1 .. Len(c) :
              Propagated(c, i)[j] = IF j \in Reach(c, i) THEN PutIn(c[j], c[i].result, c[i].arg1) ELSE c[j]
<1>1. Len(c) \in Nat /\ DOMAIN c = 1 .. Len(c) /\ \A j \in 1 .. Len(c) : c[j] \in Instr
  BY CodeFacts
<1>2. Shape(c[i]) /\ c[i].result \in Result /\ c[i].arg1 \in Operand
  BY <1>1, InstrFacts DEF Instr
<1>3. c[i].result # NULL /\ c[i].arg1 # NULL
  BY <1>2, ShapeFacts
<1> DEFINE f == [j \in DOMAIN c |-> IF j \in Reach(c, i) THEN PutIn(c[j], c[i].result, c[i].arg1) ELSE c[j]]
<1>4. f \in [DOMAIN c -> Instr]
  BY <1>1, <1>2, <1>3, PutInFacts
<1>5. Propagated(c, i) = Tuple(f)
  BY DEF Propagated, PutIn
<1>6. Tuple(f) = f /\ f \in Seq(Instr) /\ Len(f) = Len(c)
  <2> HIDE DEF f
  <2> QED BY <1>4, TupleFacts
<1> QED BY <1>1, <1>2, <1>3, <1>5, <1>6

\* An instruction that computes what an earlier one has computed.
Same(c, i) == {j \in 1 .. i - 1 : /\ <<c[j].op, c[j].arg1, c[j].arg2>> = <<c[i].op, c[i].arg1, c[i].arg2>>
                                  /\ NULL \notin {c[i].arg1, c[i].arg2}}
First(c, i) == CHOOSE j \in Same(c, i) : \A k \in Same(c, i) : j <= k
Shared(c, i) == [c EXCEPT ![i] = TAC("ASSIGN", c[i].result, c[First(c, i)].result, NULL)]

LEMMA SharedFacts ==
  ASSUME NEW c \in Seq(Instr), NEW i \in 1 .. Len(c), c[i].op \in Arithmetic, Same(c, i) # {}
  PROVE  /\ First(c, i) \in 1 .. i - 1 /\ First(c, i) \in 1 .. Len(c)
         /\ c[First(c, i)].op = c[i].op /\ c[First(c, i)].arg1 = c[i].arg1 /\ c[First(c, i)].arg2 = c[i].arg2
         /\ Shared(c, i) \in Seq(Instr) /\ Len(Shared(c, i)) = Len(c)
         /\ \A j \in 1 .. Len(c) : j # i => Shared(c, i)[j] = c[j]
         /\ Shared(c, i)[i].op = "ASSIGN" /\ Shared(c, i)[i].result = c[i].result
         /\ Shared(c, i)[i].arg1 = c[First(c, i)].result /\ Shared(c, i)[i].arg2 = NULL
<1>1. Len(c) \in Nat /\ DOMAIN c = 1 .. Len(c) /\ \A j \in 1 .. Len(c) : c[j] \in Instr
  BY CodeFacts
<1> PICK f : f = First(c, i)
  OBVIOUS
<1>2. f \in Same(c, i)
  <2> DEFINE T == Same(c, i)
  <2>1. T \subseteq Nat /\ T # {}
    BY DEF Same
  <2>2. \E j \in T : \A k \in T : j <= k
    <3> HIDE DEF T
    <3> QED BY <2>1, LeastNatural
  <2>3. f = CHOOSE j \in T : \A k \in T : j <= k
    BY DEF First
  <2> HIDE DEF T
  <2>4. f \in T
    BY <2>2, <2>3
  <2> QED BY <2>4 DEF T
<1>3. f \in 1 .. i - 1 /\ f \in 1 .. Len(c) /\ c[f].op = c[i].op /\ c[f].arg1 = c[i].arg1 /\ c[f].arg2 = c[i].arg2
  BY <1>1, <1>2 DEF Same
<1>4. /\ c[f] \in Instr /\ c[i] \in Instr /\ Shape(c[f]) /\ Shape(c[i])
      /\ c[f].result \in Operand /\ c[i].result \in Result
  BY <1>1, <1>3, InstrFacts DEF Instr
<1>5. c[f].result # NULL /\ c[i].result # NULL
  BY <1>3, <1>4, ShapeFacts
<1> PICK x : x = TAC("ASSIGN", c[i].result, c[f].result, NULL)
  OBVIOUS
<1>6. /\ x.op = "ASSIGN" /\ x.result = c[i].result /\ x.arg1 = c[f].result /\ x.arg2 = NULL
      /\ Shape(x) => x \in Instr
  <2>1. "ASSIGN" \in TacOp /\ NULL \in Operand
    BY OperandFacts DEF TacOp
  <2> QED BY <1>4, <2>1, TacFacts
<1>7. x \in Instr
  BY <1>5, <1>6, ShapeFacts
<1> PICK d : d = [c EXCEPT ![i] = x]
  OBVIOUS
<1>8. d \in [1 .. Len(c) -> Instr] /\ d[i] = x /\ \A j \in 1 .. Len(c) : j # i => d[j] = c[j]
  BY <1>1, <1>7, CodeFacts
<1>9. d \in Seq(Instr) /\ Len(d) = Len(c)
  BY <1>1, <1>8, LenProperties
<1>10. d = Shared(c, i)
  BY DEF Shared
<1> QED BY <1>3, <1>6, <1>8, <1>9, <1>10

Change(pass, c, i) ==
  CASE pass = "constants" -> IF c[i].op = "ASSIGN" /\ IsConstant(c[i].arg1) THEN Propagated(c, i) ELSE c
    [] pass = "copies" -> IF c[i].op = "ASSIGN" /\ ~IsConstant(c[i].arg1) THEN Propagated(c, i) ELSE c
    [] pass = "common" -> IF c[i].op \in Arithmetic /\ Same(c, i) # {} THEN Shared(c, i) ELSE c
Walks == {"constants", "copies", "common"}
Walk(g, pass, c) == g[0] = c /\ \A i \in 1 .. Len(c) : g[i] = Change(pass, g[i - 1], i)

LEMMA ChangeTyped ==
  ASSUME NEW pass \in Walks, NEW c \in Seq(Instr), NEW i \in 1 .. Len(c)
  PROVE  Change(pass, c, i) \in Seq(Instr) /\ Len(Change(pass, c, i)) = Len(c)
<1>1. c[i].op = "ASSIGN" => Propagated(c, i) \in Seq(Instr) /\ Len(Propagated(c, i)) = Len(c)
  BY PropagatedFacts
<1>2. c[i].op \in Arithmetic /\ Same(c, i) # {} => Shared(c, i) \in Seq(Instr) /\ Len(Shared(c, i)) = Len(c)
  BY SharedFacts
<1>3. CASE pass \in {"constants", "copies"}
  BY <1>1, <1>3 DEF Change
<1>4. CASE pass = "common"
  BY <1>2, <1>4 DEF Change
<1> QED BY <1>3, <1>4 DEF Walks

LEMMA WalkExists ==
  ASSUME NEW pass \in Walks, NEW c \in Seq(Instr)
  PROVE  \E g \in [0 .. Len(c) -> {d \in Seq(Instr) : Len(d) = Len(c)}] : Walk(g, pass, c)
<1> PICK n : n = Len(c)
  OBVIOUS
<1>0. n \in Nat
  BY LenProperties
<1> DEFINE V == {d \in Seq(Instr) : Len(d) = n}
           step == [i \in Nat |-> [d \in V |-> IF i \in 1 .. n THEN Change(pass, d, i) ELSE d]]
<1>1. step \in [Nat -> [V -> V]]
  BY ChangeTyped
<1>2. c \in V
  OBVIOUS
<1>3. PICK g \in [0 .. n -> V] : Recurses(g, c, step, n)
  <2> HIDE DEF step, V
  <2> QED BY <1>0, <1>1, <1>2, RecursionDefines
<1>4. ASSUME NEW i \in 1 .. n PROVE g[i] = Change(pass, g[i - 1], i)
  <2>1. i \in Nat /\ i - 1 \in 0 .. n
    BY <1>0
  <2>2. g[i - 1] \in V
    BY <2>1
  <2>3. g[i] = step[i][g[i - 1]]
    BY <1>3 DEF Recurses
  <2> HIDE DEF V
  <2> QED BY <2>1, <2>2, <2>3
<1> QED BY <1>3, <1>4 DEF Walk, Recurses

\* Whatever walks so walks through codes of that length.
LEMMA WalkTyped ==
  ASSUME NEW pass \in Walks, NEW c \in Seq(Instr), NEW g, Walk(g, pass, c)
  PROVE  \A i \in 0 .. Len(c) : g[i] \in Seq(Instr) /\ Len(g[i]) = Len(c)
<1> PICK n : n = Len(c)
  OBVIOUS
<1>0. n \in Nat
  BY LenProperties
<1> DEFINE T == {i \in Nat : i <= n => g[i] \in Seq(Instr) /\ Len(g[i]) = n}
<1>1. 0 \in T
  BY DEF Walk
<1>2. ASSUME NEW i \in Nat, i \in T PROVE i + 1 \in T
  <2> SUFFICES ASSUME i + 1 <= n PROVE g[i + 1] \in Seq(Instr) /\ Len(g[i + 1]) = n
    OBVIOUS
  <2>1. i + 1 \in 1 .. n /\ (i + 1) - 1 = i /\ i <= n
    BY <1>0
  <2>2. g[i] \in Seq(Instr) /\ Len(g[i]) = n
    BY <1>2, <2>1
  <2>3. g[i + 1] = Change(pass, g[i], i + 1)
    BY <2>1 DEF Walk
  <2> QED BY <2>1, <2>2, <2>3, ChangeTyped
<1>3. Nat \subseteq T
  <2> HIDE DEF T
  <2> QED BY <1>1, <1>2, NaturalInduction
<1> QED BY <1>0, <1>3

\* The passes are walks.
LEMMA PassesWalk ==
  ASSUME NEW c \in Seq(Instr)
  PROVE  /\ \E g : Walk(g, "constants", c) /\ ConstantPropagation(c) = g[Len(c)]
         /\ \E g : Walk(g, "copies", c) /\ CopyPropagation(c) = g[Len(c)]
         /\ \E g : Walk(g, "common", c) /\ CommonSubexpressions(c) = g[Len(c)]
<1>0. Len(c) \in Nat /\ \A i \in 1 .. Len(c) : i # 0 /\ i \in 0 .. Len(c)
  BY LenProperties
<1>1. \E g : Walk(g, "constants", c) /\ ConstantPropagation(c) = g[Len(c)]
  <2> DEFINE IsWalk(g) == g = [i \in 0 .. Len(c) |->
        IF i = 0 THEN c ELSE IF g[i - 1][i].op = "ASSIGN" /\ IsConstant(g[i - 1][i].arg1)
                             THEN Propagated(g[i - 1], i) ELSE g[i - 1]]
             after == CHOOSE g : IsWalk(g)
  <2>1. PICK g \in [0 .. Len(c) -> {d \in Seq(Instr) : Len(d) = Len(c)}] : Walk(g, "constants", c)
    BY WalkExists DEF Walks
  <2>2. IsWalk(g)
    BY <2>1, <1>0 DEF Walk, Change
  <2>3. IsWalk(after)
    <3> HIDE DEF IsWalk
    <3> QED BY <2>2
  <2>4. ConstantPropagation(c) = after[Len(c)]
    BY DEF ConstantPropagation, InOrder
  <2> HIDE DEF after
  <2>5. Walk(after, "constants", c)
    <3>1. after[0] = c
      BY <2>3, <1>0
    <3>2. ASSUME NEW i \in 1 .. Len(c)
          PROVE  after[i] = IF after[i - 1][i].op = "ASSIGN" /\ IsConstant(after[i - 1][i].arg1)
                        THEN Propagated(after[i - 1], i) ELSE after[i - 1]
      BY <2>3, <1>0
    <3>3. ASSUME NEW i \in 1 .. Len(c) PROVE after[i] = Change("constants", after[i - 1], i)
      BY <3>2 DEF Change
    <3> HIDE DEF IsWalk
    <3> QED BY <3>1, <3>3 DEF Walk
  <2> QED BY <2>4, <2>5
<1>2. \E g : Walk(g, "copies", c) /\ CopyPropagation(c) = g[Len(c)]
  <2> DEFINE IsWalk(g) == g = [i \in 0 .. Len(c) |->
        IF i = 0 THEN c ELSE IF g[i - 1][i].op = "ASSIGN" /\ ~IsConstant(g[i - 1][i].arg1)
                             THEN Propagated(g[i - 1], i) ELSE g[i - 1]]
             after == CHOOSE g : IsWalk(g)
  <2>1. PICK g \in [0 .. Len(c) -> {d \in Seq(Instr) : Len(d) = Len(c)}] : Walk(g, "copies", c)
    BY WalkExists DEF Walks
  <2>2. IsWalk(g)
    BY <2>1, <1>0 DEF Walk, Change
  <2>3. IsWalk(after)
    <3> HIDE DEF IsWalk
    <3> QED BY <2>2
  <2>4. CopyPropagation(c) = after[Len(c)]
    BY DEF CopyPropagation, InOrder
  <2> HIDE DEF after
  <2>5. Walk(after, "copies", c)
    <3>1. after[0] = c
      BY <2>3, <1>0
    <3>2. ASSUME NEW i \in 1 .. Len(c)
          PROVE  after[i] = IF after[i - 1][i].op = "ASSIGN" /\ ~IsConstant(after[i - 1][i].arg1)
                        THEN Propagated(after[i - 1], i) ELSE after[i - 1]
      BY <2>3, <1>0
    <3>3. ASSUME NEW i \in 1 .. Len(c) PROVE after[i] = Change("copies", after[i - 1], i)
      BY <3>2 DEF Change
    <3> HIDE DEF IsWalk
    <3> QED BY <3>1, <3>3 DEF Walk
  <2> QED BY <2>4, <2>5
<1>3. \E g : Walk(g, "common", c) /\ CommonSubexpressions(c) = g[Len(c)]
  <2> DEFINE IsWalk(g) == g = [i \in 0 .. Len(c) |->
        IF i = 0 THEN c ELSE IF g[i - 1][i].op \in Arithmetic /\ Same(g[i - 1], i) # {}
                             THEN Shared(g[i - 1], i) ELSE g[i - 1]]
             after == CHOOSE g : IsWalk(g)
  <2>1. PICK g \in [0 .. Len(c) -> {d \in Seq(Instr) : Len(d) = Len(c)}] : Walk(g, "common", c)
    BY WalkExists DEF Walks
  <2>2. IsWalk(g)
    <3>1. g[0] = c
      BY <2>1 DEF Walk
    <3>2. ASSUME NEW i \in 1 .. Len(c)
          PROVE  g[i] = IF g[i - 1][i].op \in Arithmetic /\ Same(g[i - 1], i) # {}
                        THEN Shared(g[i - 1], i) ELSE g[i - 1]
      <4>1. g[i] = Change("common", g[i - 1], i)
        BY <2>1 DEF Walk
      <4>2. \A d : Change("common", d, i) = IF d[i].op \in Arithmetic /\ Same(d, i) # {} THEN Shared(d, i) ELSE d
        BY ONLY DEF Change
      <4> QED BY ONLY <4>1, <4>2
    <3> DEFINE h == [i \in 0 .. Len(c) |-> IF i = 0 THEN c ELSE IF g[i - 1][i].op \in Arithmetic /\ Same(g[i - 1], i) # {}
                                          THEN Shared(g[i - 1], i) ELSE g[i - 1]]
    <3>3. ASSUME NEW i \in 0 .. Len(c) PROVE g[i] = h[i]
      <4>1. CASE i = 0
        BY <3>1, <4>1
      <4>2. CASE i # 0
        <5>1. i \in 1 .. Len(c)
          BY <1>0, <4>2
        <5>2. g[i] = IF g[i - 1][i].op \in Arithmetic /\ Same(g[i - 1], i) # {} THEN Shared(g[i - 1], i) ELSE g[i - 1]
          BY ONLY <5>1, <3>2
        <5> QED BY <4>2, <5>2
      <4> QED BY <4>1, <4>2
    <3>4. g = h
      <4> DEFINE D == 0 .. Len(c)
      <4>1. DOMAIN g = D /\ DOMAIN h = D /\ g = [i \in D |-> g[i]] /\ h = [i \in D |-> h[i]]
        OBVIOUS
      <4> HIDE DEF h
      <4> QED BY ONLY <4>1, <3>3
    <3> QED BY ONLY <3>4 DEF IsWalk
  <2>3. IsWalk(after)
    <3> HIDE DEF IsWalk
    <3> QED BY <2>2
  <2>4. CommonSubexpressions(c) = after[Len(c)]
    BY DEF CommonSubexpressions, InOrder, Shared, First, Same
  <2> HIDE DEF after
  <2>5. Walk(after, "common", c)
    <3>1. after[0] = c
      BY <2>3, <1>0
    <3>2. ASSUME NEW i \in 1 .. Len(c)
          PROVE  after[i] = IF after[i - 1][i].op \in Arithmetic /\ Same(after[i - 1], i) # {}
                        THEN Shared(after[i - 1], i) ELSE after[i - 1]
      BY <2>3, <1>0
    <3>3. ASSUME NEW i \in 1 .. Len(c) PROVE after[i] = Change("common", after[i - 1], i)
      BY <3>2 DEF Change
    <3> HIDE DEF IsWalk
    <3> QED BY <3>1, <3>3 DEF Walk
  <2> QED BY <2>4, <2>5
<1> QED BY <1>1, <1>2, <1>3
-----------------------------------------------------------------------------
(* The passes that take instructions out.  Where those that stay come to.      *)
Keeps(k, c) ==
  /\ DOMAIN k = 0 .. Len(c) /\ k[0] = <<>>
  /\ \A i \in 1 .. Len(c) : k[i] = IF Dead(c, i) THEN k[i - 1] ELSE Append(k[i - 1], c[i])

Thins(c, d, at) ==
  /\ at \in [0 .. Len(c) -> 0 .. Len(d)] /\ at[0] = 0 /\ at[Len(c)] = Len(d)
  /\ \A i \in 1 .. Len(c) : IF Dead(c, i) THEN at[i] = at[i - 1] ELSE at[i] = at[i - 1] + 1 /\ d[at[i]] = c[i]
  /\ \A i, j \in 0 .. Len(c) : i <= j => at[i] <= at[j]
  /\ \A m \in 1 .. Len(d) : \E i \in 1 .. Len(c) : ~Dead(c, i) /\ at[i] = m

LEMMA DeadCodeFacts ==
  ASSUME NEW c \in Seq(Instr)
  PROVE  /\ DeadCodeElimination(c) \in Seq(Instr)
         /\ \E at : Thins(c, DeadCodeElimination(c), at)
<1> PICK n : n = Len(c)
  OBVIOUS
<1>0. n \in Nat /\ \A i \in 1 .. n : c[i] \in Instr
  BY CodeFacts
<1>1. PICK k \in [0 .. n -> Seq(Instr)] : Keeps(k, c) /\ DeadCodeElimination(c) = k[n]
  <2> DEFINE V == Seq(Instr)
             step == [i \in Nat |-> [q \in V |-> IF i \in 1 .. n /\ ~Dead(c, i) THEN Append(q, c[i]) ELSE q]]
             IsKept(f) == f = [i \in 0 .. Len(c) |-> IF i = 0 THEN <<>>
                                                     ELSE IF Dead(c, i) THEN f[i - 1]
                                                     ELSE Append(f[i - 1], c[i])]
             kept == CHOOSE f : IsKept(f)
  <2>1. step \in [Nat -> [V -> V]] /\ <<>> \in V
    BY <1>0, AppendProperties, EmptySeq
  <2>2. PICK g \in [0 .. n -> V] : Recurses(g, <<>>, step, n)
    <3> HIDE DEF step, V
    <3> QED BY <1>0, <2>1, RecursionDefines
  <2>3. ASSUME NEW i \in 1 .. n PROVE g[i] = IF Dead(c, i) THEN g[i - 1] ELSE Append(g[i - 1], c[i])
    <3>1. i \in Nat /\ i - 1 \in 0 .. n
      BY <1>0
    <3>2. g[i - 1] \in V /\ g[i] = step[i][g[i - 1]]
      BY <2>2, <3>1 DEF Recurses
    <3> HIDE DEF V
    <3> QED BY <3>1, <3>2
  <2>4. IsKept(g)
    <3>1. g[0] = <<>>
      BY <2>2 DEF Recurses
    <3>2. \A i \in 0 .. n : i # 0 => i \in 1 .. n
      BY <1>0
    <3> QED BY <2>3, <3>1, <3>2
  <2>5. IsKept(kept)
    <3> HIDE DEF IsKept
    <3> QED BY <2>4
  <2>6. DeadCodeElimination(c) = kept[n]
    BY DEF DeadCodeElimination
  <2> HIDE DEF kept
  <2>7. Keeps(kept, c)
    <3>1. 0 \in 0 .. n /\ \A i \in 1 .. n : i \in 0 .. n /\ i # 0
      BY <1>0
    <3> QED BY <2>5, <3>1 DEF Keeps
  <2>8. \A i \in 0 .. n : kept[i] = g[i]
    <3> DEFINE T == {i \in Nat : i <= n => kept[i] = g[i]}
    <3>1. 0 \in T
      BY <2>2, <2>7 DEF Keeps, Recurses
    <3>2. ASSUME NEW i \in Nat, i \in T PROVE i + 1 \in T
      <4> SUFFICES ASSUME i + 1 <= n PROVE kept[i + 1] = g[i + 1]
        OBVIOUS
      <4>1. i + 1 \in 1 .. n /\ (i + 1) - 1 = i /\ kept[i] = g[i]
        BY <1>0, <3>2
      <4>2. kept[i + 1] = IF Dead(c, i + 1) THEN kept[i] ELSE Append(kept[i], c[i + 1])
        BY <2>7, <4>1 DEF Keeps
      <4>3. g[i + 1] = IF Dead(c, i + 1) THEN g[i] ELSE Append(g[i], c[i + 1])
        BY <2>3, <4>1
      <4> QED BY <4>1, <4>2, <4>3
    <3>3. Nat \subseteq T
      <4> HIDE DEF T
      <4> QED BY <3>1, <3>2, NaturalInduction
    <3> QED BY <1>0, <3>3
  <2>9. kept \in [0 .. n -> Seq(Instr)]
    <3>1. kept = [i \in 0 .. n |-> kept[i]]
      BY <2>5
    <3> QED BY <2>8, <3>1
  <2> QED BY <2>6, <2>7, <2>9
<1> DEFINE at == [i \in 0 .. n |-> Len(k[i])]
<1>2. \A i \in 0 .. n : k[i] \in Seq(Instr) /\ Len(k[i]) \in Nat /\ at[i] = Len(k[i])
  BY LenProperties
<1>3. /\ \A i \in 1 .. n : Dead(c, i) => k[i] = k[i - 1]
      /\ \A i \in 1 .. n : ~Dead(c, i) => /\ Len(k[i]) = Len(k[i - 1]) + 1 /\ k[i][Len(k[i])] = c[i]
                                          /\ \A m \in 1 .. Len(k[i - 1]) : k[i][m] = k[i - 1][m]
  <2> SUFFICES ASSUME NEW i \in 1 .. n
               PROVE  /\ Dead(c, i) => k[i] = k[i - 1]
                      /\ ~Dead(c, i) => /\ Len(k[i]) = Len(k[i - 1]) + 1 /\ k[i][Len(k[i])] = c[i]
                                        /\ \A m \in 1 .. Len(k[i - 1]) : k[i][m] = k[i - 1][m]
    OBVIOUS
  <2>1. i - 1 \in 0 .. n
    BY <1>0
  <2>2. k[i] = IF Dead(c, i) THEN k[i - 1] ELSE Append(k[i - 1], c[i])
    BY <1>1 DEF Keeps
  <2>3. k[i - 1] \in Seq(Instr) /\ c[i] \in Instr
    BY <1>0, <1>2, <2>1
  <2> QED BY <2>2, <2>3, AppendProperties
<1> HIDE DEF at
<1> DEFINE Upto(i) == /\ \A j \in 0 .. i : Len(k[j]) <= Len(k[i])
                      /\ \A j \in 1 .. i : ~Dead(c, j) => k[i][Len(k[j])] = c[j]
                      /\ \A m \in 1 .. Len(k[i]) : \E j \in 1 .. i : ~Dead(c, j) /\ Len(k[j]) = m
           T == {i \in Nat : i <= n => Upto(i)}
<1>4. 0 \in T
  <2>1. Len(k[0]) = 0
    BY <1>1, EmptySeq DEF Keeps
  <2> QED BY <2>1
<1>5. ASSUME NEW i \in Nat, i \in T PROVE i + 1 \in T
  <2> SUFFICES ASSUME i + 1 <= n PROVE Upto(i + 1)
    OBVIOUS
  <2>1. /\ i + 1 \in 1 .. n /\ i + 1 \in 0 .. n /\ i \in 0 .. n /\ (i + 1) - 1 = i /\ i <= n
        /\ \A j \in 0 .. i + 1 : j = i + 1 \/ j \in 0 .. i
        /\ \A j \in 1 .. i + 1 : j = i + 1 \/ j \in 1 .. i
        /\ \A j \in 0 .. i : j \in 0 .. n
        /\ \A j \in 1 .. i : j \in 0 .. i /\ j \in 1 .. n /\ j \in 1 .. i + 1
        /\ i + 1 \in 1 .. i + 1
    BY <1>0
  <2>2. Upto(i)
    BY <1>5, <2>1
  <2> PICK a, b : a = Len(k[i]) /\ b = Len(k[i + 1])
    OBVIOUS
  <2>3. a \in Nat /\ b \in Nat /\ \A j \in 0 .. i : Len(k[j]) \in Nat
    BY <1>2, <2>1
  <2>4. CASE Dead(c, i + 1)
    <3>1. k[i + 1] = k[i]
      BY <1>3, <2>1, <2>4
    <3>2. \A j \in 0 .. i + 1 : Len(k[j]) <= b
      BY <2>1, <2>2, <2>3, <3>1
    <3>3. \A j \in 1 .. i + 1 : ~Dead(c, j) => k[i + 1][Len(k[j])] = c[j]
      BY <2>1, <2>2, <2>4, <3>1
    <3>4. \A m \in 1 .. b : \E j \in 1 .. i + 1 : ~Dead(c, j) /\ Len(k[j]) = m
      BY <2>1, <2>2, <3>1
    <3> QED BY <3>2, <3>3, <3>4
  <2>5. CASE ~Dead(c, i + 1)
    <3>1. /\ b = a + 1 /\ k[i + 1][b] = c[i + 1]
          /\ \A m \in 1 .. a : k[i + 1][m] = k[i][m]
      BY <1>3, <2>1, <2>5
    <3>2. ASSUME NEW j \in 0 .. i + 1 PROVE Len(k[j]) <= b
      <4>1. CASE j = i + 1
        BY <2>3, <4>1
      <4>2. CASE j # i + 1
        <5>1. Len(k[j]) <= a /\ Len(k[j]) \in Nat
          BY <2>1, <2>2, <2>3, <4>2
        <5> QED BY <2>3, <3>1, <5>1
      <4> QED BY <4>1, <4>2
    <3>3. ASSUME NEW j \in 1 .. i + 1, ~Dead(c, j) PROVE k[i + 1][Len(k[j])] = c[j]
      <4>1. CASE j = i + 1
        BY <3>1, <4>1
      <4>2. CASE j # i + 1
        <5>1. j \in 1 .. i /\ j \in 0 .. i /\ j \in 1 .. n
          BY <2>1, <4>2
        <5>2. Len(k[j]) <= a /\ k[i][Len(k[j])] = c[j]
          BY <2>2, <3>3, <5>1
        <5>3. Len(k[j]) >= 1
          <6>1. Len(k[j]) = Len(k[j - 1]) + 1
            BY <1>3, <3>3, <5>1
          <6>2. j - 1 \in 0 .. n
            BY <5>1, <1>0
          <6> QED BY <1>2, <6>1, <6>2
        <5>4. Len(k[j]) \in 1 .. a
          BY <2>3, <5>1, <5>2, <5>3
        <5> QED BY <3>1, <5>2, <5>4
      <4> QED BY <4>1, <4>2
    <3>4. ASSUME NEW m \in 1 .. b PROVE \E j \in 1 .. i + 1 : ~Dead(c, j) /\ Len(k[j]) = m
      <4>1. CASE m = b
        BY <2>1, <2>5, <4>1
      <4>2. CASE m # b
        <5>1. m \in 1 .. a
          BY <2>3, <3>1, <4>2
        <5> QED BY <2>1, <2>2, <5>1
      <4> QED BY <4>1, <4>2
    <3> QED BY <3>2, <3>3, <3>4
  <2> QED BY <2>4, <2>5
<1>6. \A i \in 0 .. n : Upto(i)
  <2>1. Nat \subseteq T
    <3> HIDE DEF T
    <3> QED BY <1>4, <1>5, NaturalInduction
  <2> HIDE DEF Upto
  <2> QED BY <1>0, <2>1
<1> PICK d : d = k[n]
  OBVIOUS
<1>7. n \in 0 .. n /\ Upto(n) /\ 0 \in 0 .. n
  <2> HIDE DEF Upto
  <2> QED BY <1>0, <1>6
<1>8. at \in [0 .. n -> 0 .. Len(d)]
  <2>1. \A i \in 0 .. n : Len(k[i]) \in 0 .. Len(d)
    BY <1>2, <1>7
  <2> QED BY <2>1 DEF at
<1>9. at[0] = 0 /\ at[n] = Len(d)
  BY <1>1, <1>2, <1>7, EmptySeq DEF Keeps
<1>10. ASSUME NEW i \in 1 .. n
       PROVE  IF Dead(c, i) THEN at[i] = at[i - 1] ELSE at[i] = at[i - 1] + 1 /\ d[at[i]] = c[i]
  <2>1. i - 1 \in 0 .. n /\ i \in 0 .. n
    BY <1>0
  <2>2. at[i] = Len(k[i]) /\ at[i - 1] = Len(k[i - 1])
    BY <1>2, <2>1
  <2> QED BY <1>3, <1>7, <2>2
<1>11. ASSUME NEW i \in 0 .. n, NEW j \in 0 .. n, i <= j PROVE at[i] <= at[j]
  <2>1. i \in 0 .. j
    BY <1>11
  <2>2. Upto(j)
    <3> HIDE DEF Upto
    <3> QED BY <1>6
  <2> QED BY <1>2, <2>1, <2>2
<1>12. \A m \in 1 .. Len(d) : \E i \in 1 .. n : ~Dead(c, i) /\ at[i] = m
  <2>1. \A i \in 1 .. n : i \in 0 .. n
    BY <1>0
  <2> QED BY <1>2, <1>7, <2>1
<1>13. Thins(c, d, at)
  BY <1>8, <1>9, <1>10, <1>11, <1>12 DEF Thins
<1>14. d \in Seq(Instr)
  BY <1>2, <1>7
<1> QED BY <1>1, <1>13, <1>14

Mark(c, i) == IF Overwritten(c, i) THEN [c[i] EXCEPT !.op = "GOTO", !.arg1 = c[i].result] ELSE c[i]
\* What begins at k of the marked code.
Begins(c, d, k) ==
  /\ k \in 1 .. Len(c) + 1
  /\ \A i \in 1 .. k - 1 : Overwritten(c, i)
  /\ k <= Len(c) => ~Overwritten(c, k)
  /\ Len(d) = Len(c) + 1 - k
  /\ \A i \in k .. Len(c) : d[i + 1 - k] = Mark(c, i)

LEMMA MarkFacts ==
  ASSUME NEW c \in Seq(Instr), NEW i \in 1 .. Len(c)
  PROVE  /\ Mark(c, i) \in Instr
         /\ Overwritten(c, i) => /\ Mark(c, i).op = "GOTO" /\ Mark(c, i).result = c[i].result
                                 /\ Mark(c, i).arg1 = c[i].result /\ Mark(c, i).arg2 = c[i].arg2
         /\ ~Overwritten(c, i) => Mark(c, i) = c[i]
<1>1. CASE Overwritten(c, i)
  <2>1. c[i] \in Instr /\ c[i] \in TACInstruction /\ c[i].result \in Result /\ c[i].result \in Operand /\ Shape(c[i])
    BY CodeFacts, InstrFacts DEF Instr
  <2>2. c[i].result # NULL
    BY <1>1, <2>1, ShapeFacts DEF Overwritten
  <2> PICK x : x = [c[i] EXCEPT !.op = "GOTO", !.arg1 = c[i].result]
    OBVIOUS
  <2>3. /\ x \in TACInstruction /\ x.op = "GOTO" /\ x.result = c[i].result /\ x.arg1 = c[i].result
        /\ x.arg2 = c[i].arg2
    <3>1. "GOTO" \in TacOp
      BY DEF TacOp
    <3> QED BY <2>1, <3>1 DEF TACInstruction
  <2>4. Shape(x)
    BY <2>2, <2>3, ShapeFacts
  <2>5. x \in Instr
    BY <2>1, <2>3, <2>4 DEF Instr
  <2> QED BY <1>1, <2>3, <2>5 DEF Mark
<1>2. CASE ~Overwritten(c, i)
  BY <1>2, CodeFacts DEF Mark
<1> QED BY <1>1, <1>2

LEMMA PeepholeFacts ==
  ASSUME NEW c \in Seq(Instr)
  PROVE  Peephole(c) \in Seq(Instr) /\ \E k : Begins(c, Peephole(c), k)
<1> PICK n : n = Len(c)
  OBVIOUS
<1>0. n \in Nat /\ DOMAIN c = 1 .. n /\ ~Overwritten(c, n)
  BY CodeFacts DEF Overwritten
<1> DEFINE marked == [i \in DOMAIN c |-> Mark(c, i)]
           kept == {i \in DOMAIN c : \E j \in 1 .. i : ~Overwritten(c, j)}
           Stop == {i \in 1 .. n + 1 : i <= n => ~Overwritten(c, i)}
<1>1. PICK k \in Stop : \A i \in Stop : k <= i
  <2>1. n + 1 \in Stop /\ Stop \subseteq Nat
    BY <1>0
  <2> HIDE DEF Stop
  <2> QED BY <2>1, LeastNatural
<1>2. k \in 1 .. n + 1 /\ k \in Nat /\ (k <= n => ~Overwritten(c, k)) /\ \A i \in 1 .. k - 1 : Overwritten(c, i)
  <2>1. ASSUME NEW i \in 1 .. k - 1, ~Overwritten(c, i) PROVE FALSE
    <3>1. i \in Stop /\ i < k
      BY <1>0, <2>1
    <3> QED BY <1>1, <3>1
  <2> QED BY <1>0, <1>1, <2>1
<1>3. kept = k .. n
  <2>1. ASSUME NEW i \in kept PROVE i \in k .. n
    <3>1. PICK j \in 1 .. i : ~Overwritten(c, j)
      OBVIOUS
    <3>2. i \in 1 .. n /\ ~(j \in 1 .. k - 1)
      BY <1>0, <1>2, <3>1
    <3> QED BY <1>0, <1>2, <3>2
  <2>2. ASSUME NEW i \in k .. n PROVE i \in kept
    <3>1. i \in 1 .. n /\ k \in 1 .. i /\ ~Overwritten(c, k)
      BY <1>0, <1>2
    <3> QED BY <1>0, <3>1
  <2> QED BY <2>1, <2>2
<1>4. Cardinality(kept) = n - k + 1
  <2>1. k \in Int /\ n \in Int /\ (k > n => n - k + 1 = 0)
    BY <1>0, <1>2
  <2> QED BY <1>3, <2>1, FS_Interval
<1>5. Peephole(c) = SubSeq(marked, k, n)
  <2>1. n - Cardinality(kept) + 1 = k
    BY <1>0, <1>2, <1>4
  <2>2. Peephole(c) = SubSeq(marked, n - Cardinality(kept) + 1, n)
    BY DEF Peephole, Mark
  <2> QED BY <2>1, <2>2
<1>6. \A i \in k .. n : marked[i] = Mark(c, i) /\ Mark(c, i) \in Instr
  BY <1>0, <1>2, MarkFacts
<1> HIDE DEF marked, kept
<1> PICK d : d = SubSeq(marked, k, n)
  OBVIOUS
<1>7. /\ d \in Seq(Instr) /\ Len(d) = IF k <= n THEN n - k + 1 ELSE 0
      /\ \A i \in 1 .. n - k + 1 : d[i] = marked[k + i - 1]
  BY <1>0, <1>2, <1>6, SubSeqProperties
<1>8. Len(d) = n + 1 - k
  BY <1>0, <1>2, <1>7
<1>9. ASSUME NEW i \in k .. n PROVE d[i + 1 - k] = Mark(c, i)
  <2>1. i + 1 - k \in 1 .. n - k + 1 /\ k + (i + 1 - k) - 1 = i
    BY <1>0, <1>2
  <2> QED BY <1>6, <1>7, <2>1
<1> QED BY <1>2, <1>5, <1>7, <1>8, <1>9 DEF Begins
-----------------------------------------------------------------------------
(* The instructions stay well formed.                                          *)
LEMMA PassesTyped ==
  ASSUME NEW c \in Seq(Instr)
  PROVE  /\ ConstantFolding(c) \in Seq(Instr) /\ ConstantPropagation(c) \in Seq(Instr)
         /\ CopyPropagation(c) \in Seq(Instr) /\ AlgebraicSimplification(c) \in Seq(Instr)
         /\ DeadCodeElimination(c) \in Seq(Instr) /\ StrengthReduction(c) \in Seq(Instr)
         /\ Peephole(c) \in Seq(Instr) /\ CommonSubexpressions(c) \in Seq(Instr)
<1>1. Len(c) \in 0 .. Len(c)
  <2>1. Len(c) \in Nat
    BY LenProperties
  <2> QED BY <2>1
<1>2. \A pass \in Walks : \A g : Walk(g, pass, c) => g[Len(c)] \in Seq(Instr)
  BY <1>1, WalkTyped
<1>3. ConstantPropagation(c) \in Seq(Instr) /\ CopyPropagation(c) \in Seq(Instr) /\ CommonSubexpressions(c) \in Seq(Instr)
  BY <1>2, PassesWalk DEF Walks
<1> QED BY <1>3, MapFacts, DeadCodeFacts, PeepholeFacts DEF Becomes

WellFormed == stage \in Stages /\ tree \in Trees /\ code \in Seq(Instr)

LEMMA WellFormedStep == WellFormed /\ [Next]_vars => WellFormed'
<1> SUFFICES ASSUME WellFormed, [Next]_vars PROVE WellFormed'
  OBVIOUS
<1> USE DEF WellFormed, Do, Stages
<1>1. CASE Generate
  BY <1>1, GeneratedTyped DEF Generate
<1>2. CASE Fold
  BY <1>2, PassesTyped DEF Fold
<1>3. CASE PropagateConstants
  BY <1>3, PassesTyped DEF PropagateConstants
<1>4. CASE PropagateCopies
  BY <1>4, PassesTyped DEF PropagateCopies
<1>5. CASE Simplify
  BY <1>5, PassesTyped DEF Simplify
<1>6. CASE EliminateDead
  BY <1>6, PassesTyped DEF EliminateDead
<1>7. CASE Reduce
  BY <1>7, PassesTyped DEF Reduce
<1>8. CASE Peep
  BY <1>8, PassesTyped DEF Peep
<1>9. CASE Share
  BY <1>9, PassesTyped DEF Share
<1>10. CASE UNCHANGED vars
  BY <1>10 DEF vars
<1> QED BY <1>1, <1>2, <1>3, <1>4, <1>5, <1>6, <1>7, <1>8, <1>9, <1>10 DEF Next

LEMMA AlwaysWellFormed == Spec => []WellFormed
<1>1. Init => WellFormed
  BY EmptySeq DEF Init, WellFormed, Stages
<1> QED BY <1>1, WellFormedStep, PTL DEF Spec

(* Whatever the program, the generator and every pass of optimizeCode leave    *)
(* code whose instructions have the operands they need and no others.          *)
THEOREM OrinCodeIsWellFormed == Spec => []OrinTypeOK
<1>1. WellFormed => OrinTypeOK
  <2> SUFFICES ASSUME WellFormed PROVE OrinTypeOK
    OBVIOUS
  <2>1. \A i \in DOMAIN code : code[i] \in TACInstruction /\ Shape(code[i])
    BY CodeFacts DEF WellFormed, Instr
  <2>2. code \in [1 .. Len(code) -> TACInstruction] /\ Len(code) \in Nat
    BY <2>1, CodeFacts DEF WellFormed
  <2> PICK c, n : c = code /\ n = Len(code)
    OBVIOUS
  <2>3. c \in Seq(TACInstruction)
    <3>1. c \in [1 .. n -> TACInstruction] /\ n \in Nat
      BY <2>2
    <3> QED BY ONLY <3>1
  <2> QED BY <2>1, <2>3 DEF OrinTypeOK, WellFormed
<1> QED BY <1>1, AlwaysWellFormed, PTL
-----------------------------------------------------------------------------
(* What the code does.  The states it can be in.                               *)
Envs == UNION {[D -> Int] : D \in SUBSET Operand}
Places == Nat \ {0}
State == [out : Seq(Int), input : Seq(Int), env : Envs, exit : Seq(Int), next : Places]

LEMMA StateFacts ==
  ASSUME NEW s \in State
  PROVE  /\ s.out \in Seq(Int) /\ s.input \in Seq(Int) /\ s.env \in Envs /\ s.exit \in Seq(Int) /\ s.next \in Places
         /\ DOMAIN s.env \subseteq Operand /\ \A a \in DOMAIN s.env : s.env[a] \in Int
         /\ \A a \in Operand : Content(s, a) \in Int
<1>1. /\ s.out \in Seq(Int) /\ s.input \in Seq(Int) /\ s.env \in Envs /\ s.exit \in Seq(Int) /\ s.next \in Places
  BY DEF State
<1> PICK e : e = s.env
  OBVIOUS
<1>2. DOMAIN e \subseteq Operand /\ \A a \in DOMAIN e : e[a] \in Int
  <2>1. PICK D \in SUBSET Operand : e \in [D -> Int]
    BY <1>1 DEF Envs
  <2> QED BY <2>1
<1>3. \A a \in Operand : Content(s, a) \in Int
  BY <1>2, OperandFacts DEF Content
<1> QED BY <1>1, <1>2, <1>3

(* What one instruction does to everything but where the next one is.          *)
Effect == [kind : {"set", "go", "print", "scan", "exit"}, var : Operand, n : Int]
Act(e, s) == CASE e.kind = "set" -> Set(s, e.var, e.n)
               [] e.kind = "print" -> Printed(s, e.n)
               [] e.kind = "scan" -> Scanned(s, e.var)
               [] e.kind = "exit" -> Exited(s, e.n)
               [] e.kind = "go" -> s
Written(e) == IF e.kind \in {"set", "scan"} THEN {e.var} ELSE {}
At(s, p) == [s EXCEPT !.next = p]

LEMMA SetFacts ==
  ASSUME NEW s \in State, NEW var \in Operand, NEW n \in Int
  PROVE  /\ Set(s, var, n) \in State
         /\ Set(s, var, n).out = s.out /\ Set(s, var, n).input = s.input /\ Set(s, var, n).exit = s.exit
         /\ Set(s, var, n).next = s.next
         /\ \A a : Content(Set(s, var, n), a) = IF a = var /\ ~IsConstant(a) THEN n ELSE Content(s, a)
<1> PICK e : e = [a \in DOMAIN s.env \cup {var} |-> IF a = var THEN n ELSE s.env[a]]
  OBVIOUS
<1>1. DOMAIN s.env \subseteq Operand /\ \A a \in DOMAIN s.env : s.env[a] \in Int
  BY StateFacts
<1>2. e \in Envs /\ DOMAIN e = DOMAIN s.env \cup {var}
  <2> PICK D : D = DOMAIN s.env \cup {var}
    OBVIOUS
  <2>1. D \in SUBSET Operand /\ e \in [D -> Int]
    BY <1>1
  <2> QED BY <2>1 DEF Envs
<1> PICK u : u = [s EXCEPT !.env = e]
  OBVIOUS
<1>3. /\ u \in State /\ u.env = e
      /\ u.out = s.out /\ u.input = s.input /\ u.exit = s.exit /\ u.next = s.next
  BY <1>2 DEF State
<1>4. u = Set(s, var, n)
  BY DEF Set
<1>5. \A a : Content(u, a) = IF a = var /\ ~IsConstant(a) THEN n ELSE Content(s, a)
  BY <1>2, <1>3 DEF Content
<1> QED BY <1>3, <1>4, <1>5

LEMMA AtFacts ==
  ASSUME NEW s \in State, NEW p \in Places
  PROVE  /\ At(s, p) \in State /\ At(s, p).next = p
         /\ At(s, p).out = s.out /\ At(s, p).input = s.input /\ At(s, p).exit = s.exit /\ At(s, p).env = s.env
         /\ \A a : Content(At(s, p), a) = Content(s, a)
<1> PICK u : u = At(s, p)
  OBVIOUS
<1>1. /\ u \in State /\ u.next = p /\ u.out = s.out /\ u.input = s.input /\ u.exit = s.exit /\ u.env = s.env
  BY DEF State, At
<1> QED BY <1>1 DEF Content

LEMMA ExitedFacts ==
  ASSUME NEW s \in State, NEW n \in Int
  PROVE  /\ Exited(s, n) \in State /\ Ended(Exited(s, n)) /\ Exited(s, n).exit = <<n>>
         /\ Exited(s, n).out = s.out /\ Exited(s, n).input = s.input /\ Exited(s, n).next = s.next
         /\ \A a : Content(Exited(s, n), a) = Content(s, a)
<1> PICK u : u = Exited(s, n)
  OBVIOUS
<1> PICK x : x = <<n>>
  OBVIOUS
<1>1. x \in Seq(Int) /\ x # <<>>
  OBVIOUS
<1>2. /\ u \in State /\ u.exit = x /\ u.out = s.out /\ u.input = s.input /\ u.next = s.next /\ u.env = s.env
  BY <1>1 DEF State, Exited
<1> QED BY <1>1, <1>2 DEF Content, Ended, Running

LEMMA PrintedFacts ==
  ASSUME NEW s \in State, NEW n \in Int
  PROVE  /\ Printed(s, n) \in State /\ Printed(s, n).out = Append(s.out, n)
         /\ Printed(s, n).exit = s.exit /\ Printed(s, n).input = s.input /\ Printed(s, n).next = s.next
         /\ \A a : Content(Printed(s, n), a) = Content(s, a)
<1> PICK u : u = Printed(s, n)
  OBVIOUS
<1> PICK x : x = Append(s.out, n)
  OBVIOUS
<1>1. x \in Seq(Int)
  BY StateFacts, AppendProperties
<1>2. /\ u \in State /\ u.exit = s.exit /\ u.out = x /\ u.input = s.input /\ u.next = s.next /\ u.env = s.env
  BY <1>1 DEF State, Printed
<1> QED BY <1>1, <1>2 DEF Content

LEMMA ScannedFacts ==
  ASSUME NEW s \in State, NEW var \in Operand
  PROVE  LET n == IF s.input = <<>> THEN 0 ELSE Head(s.input)
             rest == IF s.input = <<>> THEN <<>> ELSE Tail(s.input)
         IN  /\ Scanned(s, var) \in State /\ Scanned(s, var).out = s.out /\ Scanned(s, var).exit = s.exit
             /\ Scanned(s, var).next = s.next /\ Scanned(s, var).input = rest
             /\ \A a : Content(Scanned(s, var), a) = IF a = var /\ ~IsConstant(a) THEN n ELSE Content(s, a)
<1>1. CASE s.input = <<>>
  <2>1. Scanned(s, var) = Set(s, var, 0)
    BY <1>1 DEF Scanned
  <2> QED BY <1>1, <2>1, SetFacts
<1>2. CASE s.input # <<>>
  <2> PICK n, rest : n = Head(s.input) /\ rest = Tail(s.input)
    OBVIOUS
  <2>1. n \in Int /\ rest \in Seq(Int)
    BY <1>2, StateFacts, HeadAndTail
  <2> PICK u : u = Set(s, var, n)
    OBVIOUS
  <2>2. /\ u \in State /\ u.out = s.out /\ u.exit = s.exit /\ u.next = s.next
        /\ \A a : Content(u, a) = IF a = var /\ ~IsConstant(a) THEN n ELSE Content(s, a)
    BY <2>1, SetFacts
  <2> PICK w : w = [u EXCEPT !.input = rest]
    OBVIOUS
  <2>3. w \in State /\ w.out = u.out /\ w.exit = u.exit /\ w.next = u.next /\ w.input = rest /\ w.env = u.env
    BY <2>1, <2>2 DEF State
  <2>4. Scanned(s, var) = w
    <3>1. u.input = s.input
      BY <2>1, SetFacts
    <3> QED BY <1>2, <3>1 DEF Scanned
  <2>5. \A a : Content(w, a) = Content(u, a)
    BY <2>3 DEF Content
  <2> QED BY <1>2, <2>2, <2>3, <2>4, <2>5
<1> QED BY <1>1, <1>2

LEMMA ActFacts ==
  ASSUME NEW e \in Effect, NEW s \in State
  PROVE  /\ Act(e, s) \in State /\ Act(e, s).next = s.next
         /\ \A a : a \notin Written(e) \/ IsConstant(a) => Content(Act(e, s), a) = Content(s, a)
         /\ \A a : e.kind = "set" /\ a = e.var /\ ~IsConstant(a) => Content(Act(e, s), a) = e.n
         /\ Ended(s) => Ended(Act(e, s))
<1>1. e.kind \in {"set", "go", "print", "scan", "exit"} /\ e.var \in Operand /\ e.n \in Int
  BY DEF Effect
<1>2. CASE e.kind = "set"
  <2>1. Act(e, s) = Set(s, e.var, e.n) /\ Written(e) = {e.var}
    BY <1>2 DEF Act, Written
  <2> QED BY <1>1, <2>1, SetFacts DEF Ended
<1>3. CASE e.kind = "print"
  <2>1. Act(e, s) = Printed(s, e.n) /\ Written(e) = {}
    BY <1>3 DEF Act, Written
  <2> QED BY <1>1, <1>3, <2>1, PrintedFacts DEF Ended
<1>4. CASE e.kind = "scan"
  <2>1. Act(e, s) = Scanned(s, e.var) /\ Written(e) = {e.var}
    BY <1>4 DEF Act, Written
  <2>2. /\ Scanned(s, e.var) \in State /\ Scanned(s, e.var).next = s.next /\ Scanned(s, e.var).exit = s.exit
        /\ \A a : a # e.var \/ IsConstant(a) => Content(Scanned(s, e.var), a) = Content(s, a)
    BY <1>1, ScannedFacts
  <2> QED BY <1>4, <2>1, <2>2 DEF Ended
<1>5. CASE e.kind = "exit"
  <2>1. Act(e, s) = Exited(s, e.n) /\ Written(e) = {}
    BY <1>5 DEF Act, Written
  <2> QED BY <1>1, <1>5, <2>1, ExitedFacts
<1>6. CASE e.kind = "go"
  <2>1. Act(e, s) = s /\ Written(e) = {}
    BY <1>6 DEF Act, Written
  <2> QED BY <1>6, <2>1
<1> QED BY <1>1, <1>2, <1>3, <1>4, <1>5, <1>6

\* The same but for what X holds, and where they are.
Like(s, t, X) == /\ s.out = t.out /\ s.input = t.input /\ s.exit = t.exit
                 /\ \A a \in Operand \ X : Content(s, a) = Content(t, a)

LEMMA ActLike ==
  ASSUME NEW e \in Effect, NEW s \in State, NEW t \in State, NEW X, Like(s, t, X)
  PROVE  Like(Act(e, s), Act(e, t), X \ Written(e))
<1>1. e.kind \in {"set", "go", "print", "scan", "exit"} /\ e.var \in Operand /\ e.n \in Int
  BY DEF Effect
<1> PICK u, w : u = Act(e, s) /\ w = Act(e, t)
  OBVIOUS
<1>2. /\ u.out = w.out /\ u.input = w.input /\ u.exit = w.exit
      /\ e.kind = "scan" => \A a \in {e.var} : Content(u, a) = Content(w, a)
  <2>1. CASE e.kind = "set"
    <3>1. u = Set(s, e.var, e.n) /\ w = Set(t, e.var, e.n)
      BY <2>1 DEF Act
    <3> QED BY <1>1, <2>1, <3>1, SetFacts DEF Like
  <2>2. CASE e.kind = "print"
    <3>1. u = Printed(s, e.n) /\ w = Printed(t, e.n)
      BY <2>2 DEF Act
    <3>2. s.out = t.out /\ s.input = t.input /\ s.exit = t.exit
      BY DEF Like
    <3>3. u.out = Append(s.out, e.n) /\ u.input = s.input /\ u.exit = s.exit
      BY <1>1, <3>1, PrintedFacts, Zenon
    <3>4. w.out = Append(t.out, e.n) /\ w.input = t.input /\ w.exit = t.exit
      BY <1>1, <3>1, PrintedFacts
    <3> QED BY ONLY <2>2, <3>2, <3>3, <3>4
  <2>3. CASE e.kind = "scan"
    <3>1. u = Scanned(s, e.var) /\ w = Scanned(t, e.var)
      BY <2>3 DEF Act
    <3> PICK n, rest : n = (IF s.input = <<>> THEN 0 ELSE Head(s.input)) /\ rest = IF s.input = <<>> THEN <<>> ELSE Tail(s.input)
      OBVIOUS
    <3>2. /\ u.out = s.out /\ u.exit = s.exit /\ u.input = rest
          /\ \A a : Content(u, a) = IF a = e.var /\ ~IsConstant(a) THEN n ELSE Content(s, a)
      BY <1>1, <3>1, ScannedFacts
    <3>3. /\ w.out = t.out /\ w.exit = t.exit /\ w.input = rest
          /\ \A a : Content(w, a) = IF a = e.var /\ ~IsConstant(a) THEN n ELSE Content(t, a)
      <4>1. t.input = s.input
        BY DEF Like
      <4> QED BY <1>1, <3>1, <4>1, ScannedFacts
    <3>4. \A a : IsConstant(a) => Content(s, a) = Content(t, a)
      BY DEF Content
    <3> QED BY <3>2, <3>3, <3>4 DEF Like
  <2>4. CASE e.kind = "exit"
    <3>1. u = Exited(s, e.n) /\ w = Exited(t, e.n)
      BY <2>4 DEF Act
    <3> QED BY <1>1, <2>4, <3>1, ExitedFacts DEF Like
  <2>5. CASE e.kind = "go"
    BY <2>5 DEF Act, Like
  <2> QED BY <1>1, <2>1, <2>2, <2>3, <2>4, <2>5
<1>3. ASSUME NEW a \in Operand \ (X \ Written(e)) PROVE Content(u, a) = Content(w, a)
  <2>0. \A b : IsConstant(b) => Content(s, b) = Content(t, b)
    BY DEF Content
  <2>1. CASE a \notin Written(e)
    BY <2>1, ActFacts DEF Like
  <2>2. CASE a \in Written(e) /\ IsConstant(a)
    BY <2>0, <2>2, ActFacts
  <2>3. CASE a \in Written(e) /\ ~IsConstant(a)
    <3>1. a = e.var /\ e.kind \in {"set", "scan"}
      BY <2>3 DEF Written
    <3> QED BY <1>2, <2>3, <3>1, ActFacts
  <2> QED BY <2>1, <2>2, <2>3
<1> QED BY <1>2, <1>3 DEF Like

(* An instruction's effect depends on what its operands hold; where the next   *)
(* one is also on the labels.                                                  *)
Does(in, s) ==
  IF in.op \in Arithmetic
  THEN [kind |-> "set", var |-> in.result, n |-> Compute(in.op, Content(s, in.arg1), Content(s, in.arg2))]
  ELSE CASE in.op = "ASSIGN" -> [kind |-> "set", var |-> in.result, n |-> Content(s, in.arg1)]
         [] in.op = "PRINT" -> [kind |-> "print", var |-> NULL, n |-> Content(s, in.arg1)]
         [] in.op = "SCAN" -> [kind |-> "scan", var |-> in.arg1, n |-> 0]
         [] in.op = "EXIT" -> [kind |-> "exit", var |-> NULL, n |-> Content(s, in.arg1)]
         [] OTHER -> [kind |-> "go", var |-> NULL, n |-> 0]
To(c, s) ==
  LET in == c[s.next]
  IN  IF in.op = "GOTO" THEN Landing(c, in.arg1, s.next + 1)
      ELSE IF in.op = "IF" /\ Content(s, in.arg1) # 0 THEN Landing(c, in.arg2, s.next + 1)
      ELSE s.next + 1

LEMMA OpsDiffer ==
  /\ Arithmetic \cap {"ASSIGN", "LABEL", "GOTO", "IF", "PRINT", "SCAN", "EXIT"} = {}
  /\ TacOp = Arithmetic \cup {"ASSIGN", "LABEL", "GOTO", "IF", "PRINT", "SCAN", "EXIT"}
BY DEF Arithmetic, TacOp

LEMMA DoesFacts ==
  ASSUME NEW in \in Instr, NEW s \in State
  PROVE  /\ Does(in, s) \in Effect
         /\ Written(Does(in, s)) \subseteq Sets(in)
         /\ in.op \in Arithmetic =>
              /\ Does(in, s).kind = "set" /\ Does(in, s).var = in.result
              /\ Does(in, s).n = Compute(in.op, Content(s, in.arg1), Content(s, in.arg2))
              /\ Written(Does(in, s)) = {in.result}
         /\ in.op = "ASSIGN" => /\ Does(in, s).kind = "set" /\ Does(in, s).var = in.result
                                /\ Does(in, s).n = Content(s, in.arg1) /\ Written(Does(in, s)) = {in.result}
         /\ in.op \in {"LABEL", "GOTO", "IF"} => Does(in, s).kind = "go" /\ Written(Does(in, s)) = {}
<1>1. /\ in.op \in TacOp /\ in.result \in Operand /\ in.arg1 \in Operand /\ in.arg2 \in Operand /\ NULL \in Operand
  BY InstrFacts, OperandFacts
<1>2. Content(s, in.arg1) \in Int /\ Content(s, in.arg2) \in Int
  BY <1>1, StateFacts
<1> HIDE DEF NULL
<1> PICK e : e = Does(in, s)
  OBVIOUS
<1>3. CASE in.op \in Arithmetic
  <2> PICK n : n = Compute(in.op, Content(s, in.arg1), Content(s, in.arg2))
    OBVIOUS
  <2>1. n \in Int
    BY <1>2, <1>3, ComputeFacts
  <2>2. e = [kind |-> "set", var |-> in.result, n |-> n] /\ in.op \notin {"ASSIGN", "LABEL", "GOTO", "IF", "SCAN"}
    BY <1>3, OpsDiffer DEF Does
  <2> QED BY <1>1, <1>3, <2>1, <2>2 DEF Effect, Written, Sets
<1>4. CASE in.op = "ASSIGN"
  <2>1. e = [kind |-> "set", var |-> in.result, n |-> Content(s, in.arg1)]
    BY <1>4, OpsDiffer DEF Does
  <2> QED BY <1>1, <1>2, <1>4, <2>1, OpsDiffer DEF Effect, Written, Sets
<1>5. CASE in.op \in {"PRINT", "EXIT"}
  <2>1. e.kind \in {"print", "exit"} /\ e \in Effect
    BY <1>1, <1>2, <1>5, OpsDiffer DEF Does, Effect
  <2>2. Written(e) = {}
    BY <2>1 DEF Written
  <2> QED BY <1>5, <2>1, <2>2, OpsDiffer
<1>6. CASE in.op = "SCAN"
  <2>1. e = [kind |-> "scan", var |-> in.arg1, n |-> 0]
    BY <1>6, OpsDiffer DEF Does
  <2> QED BY <1>1, <1>6, <2>1, OpsDiffer DEF Effect, Written, Sets
<1>7. CASE in.op \in {"LABEL", "GOTO", "IF"}
  <2>1. e = [kind |-> "go", var |-> NULL, n |-> 0]
    BY <1>7, OpsDiffer DEF Does
  <2> QED BY <1>1, <1>7, <2>1, OpsDiffer DEF Effect, Written
<1> QED BY <1>1, <1>3, <1>4, <1>5, <1>6, <1>7, OpsDiffer

\* A jump ends at the first such label, or with the next instruction.
LEMMA LandingFacts ==
  ASSUME NEW c \in Seq(Instr), NEW target, NEW otherwise
  PROVE  \/ ~Labels(c, target) /\ Landing(c, target, otherwise) = otherwise
         \/ \E i \in 1 .. Len(c) : /\ c[i].op = "LABEL" /\ c[i].result = target
                                   /\ \A j \in 1 .. Len(c) : c[j].op = "LABEL" /\ c[j].result = target => i <= j
                                   /\ Landing(c, target, otherwise) = i
<1> DEFINE at == {i \in DOMAIN c : c[i].op = "LABEL" /\ c[i].result = target}
<1>1. DOMAIN c = 1 .. Len(c) /\ Len(c) \in Nat
  BY CodeFacts
<1>2. CASE at = {}
  BY <1>2 DEF Landing, Labels
<1>3. CASE at # {}
  <2>1. Landing(c, target, otherwise) = CHOOSE i \in at : \A j \in at : i <= j
    BY <1>3 DEF Landing
  <2>2. \E i \in at : \A j \in at : i <= j
    <3>1. at \subseteq Nat
      BY <1>1
    <3> HIDE DEF at
    <3> QED BY <1>3, <3>1, LeastNatural
  <2> PICK l : l = Landing(c, target, otherwise)
    OBVIOUS
  <2>3. l \in at /\ \A j \in at : l <= j
    <3> HIDE DEF at
    <3> QED BY <2>1, <2>2
  <2> QED BY <1>1, <2>3
<1> QED BY <1>2, <1>3

LEMMA ToFacts ==
  ASSUME NEW c \in Seq(Instr), NEW s \in State, s.next \in 1 .. Len(c)
  PROVE  To(c, s) \in Places
<1>1. \A target : Landing(c, target, s.next + 1) \in Places
  <2>1. s.next + 1 \in Places /\ \A i \in 1 .. Len(c) : i \in Places
    BY StateFacts, CodeFacts DEF Places
  <2> QED BY <2>1, LandingFacts
<1>2. s.next + 1 \in Places
  BY StateFacts DEF Places
<1> QED BY <1>1, <1>2 DEF To

LEMMA StepIs ==
  ASSUME NEW c \in Seq(Instr), NEW s \in State, s.next \in 1 .. Len(c)
  PROVE  CodeStep(c, s) = Act(Does(c[s.next], s), At(s, To(c, s)))
<1> PICK in : in = c[s.next]
  OBVIOUS
<1>1. in \in Instr /\ in.op \in TacOp /\ ~(s.next > Len(c))
  BY CodeFacts, InstrFacts
<1> PICK x, y : x = Content(s, in.arg1) /\ y = Content(s, in.arg2)
  OBVIOUS
<1> PICK gone : gone = [s EXCEPT !.next = s.next + 1]
  OBVIOUS
<1>2. CodeStep(c, s) =
        CASE in.op \in Arithmetic -> Set(gone, in.result, Compute(in.op, x, y))
          [] in.op = "ASSIGN" -> Set(gone, in.result, x)
          [] in.op = "LABEL" -> gone
          [] in.op = "GOTO" -> [s EXCEPT !.next = Landing(c, in.arg1, s.next + 1)]
          [] in.op = "IF" -> IF x # 0 THEN [s EXCEPT !.next = Landing(c, in.arg2, s.next + 1)] ELSE gone
          [] in.op = "PRINT" -> Printed(gone, x)
          [] in.op = "SCAN" -> Scanned(gone, in.arg1)
          [] in.op = "EXIT" -> Exited(gone, x)
  BY <1>1 DEF CodeStep
<1>3. CASE in.op \in Arithmetic
  <2>1. CodeStep(c, s) = Set(gone, in.result, Compute(in.op, x, y))
    BY <1>2, <1>3, OpsDiffer
  <2>2. Does(in, s).kind = "set" /\ Does(in, s).var = in.result /\ Does(in, s).n = Compute(in.op, x, y)
    BY <1>1, <1>3, DoesFacts
  <2>3. At(s, To(c, s)) = gone
    BY <1>3, OpsDiffer DEF At, To
  <2> QED BY <2>1, <2>2, <2>3 DEF Act
<1>4. CASE in.op = "ASSIGN"
  <2>1. CodeStep(c, s) = Set(gone, in.result, x)
    BY <1>2, <1>4, OpsDiffer
  <2>2. Does(in, s).kind = "set" /\ Does(in, s).var = in.result /\ Does(in, s).n = x
    BY <1>1, <1>4, DoesFacts
  <2>3. At(s, To(c, s)) = gone
    BY <1>4 DEF At, To
  <2> QED BY <2>1, <2>2, <2>3 DEF Act
<1>5. CASE in.op \in {"LABEL", "GOTO", "IF"}
  <2>1. Does(in, s).kind = "go"
    BY <1>1, <1>5, DoesFacts
  <2>2. CodeStep(c, s) = At(s, To(c, s))
    <3>1. CASE in.op = "LABEL"
      BY <1>2, <3>1, OpsDiffer DEF At, To
    <3>2. CASE in.op = "GOTO"
      BY <1>2, <3>2, OpsDiffer DEF At, To
    <3>3. CASE in.op = "IF"
      BY <1>2, <3>3, OpsDiffer DEF At, To
    <3> QED BY <1>5, <3>1, <3>2, <3>3
  <2> QED BY <2>1, <2>2 DEF Act
<1>6. CASE in.op \in {"PRINT", "SCAN", "EXIT"}
  <2>1. At(s, To(c, s)) = gone
    BY <1>6 DEF At, To
  <2>2. CASE in.op = "PRINT"
    BY <1>2, <2>1, <2>2, OpsDiffer DEF Does, Act
  <2>3. CASE in.op = "SCAN"
    BY <1>2, <2>1, <2>3, OpsDiffer DEF Does, Act
  <2>4. CASE in.op = "EXIT"
    BY <1>2, <2>1, <2>4, OpsDiffer DEF Does, Act
  <2> QED BY <1>6, <2>2, <2>3, <2>4
<1> QED BY <1>1, <1>3, <1>4, <1>5, <1>6, OpsDiffer

\* A step of a running code; behind its last instruction it ends.
LEMMA StepFacts ==
  ASSUME NEW c \in Seq(Instr), NEW s \in State
  PROVE  /\ CodeStep(c, s) \in State
         /\ s.next > Len(c) => /\ Ended(CodeStep(c, s)) /\ CodeStep(c, s) = Exited(s, 0)
                               /\ CodeStep(c, s).next = s.next
                               /\ \A a : Content(CodeStep(c, s), a) = Content(s, a)
         /\ s.next \in 1 .. Len(c) =>
              /\ CodeStep(c, s).next = To(c, s)
              /\ \A a : a \notin Written(Does(c[s.next], s)) \/ IsConstant(a) => Content(CodeStep(c, s), a) = Content(s, a)
              /\ \A a : Does(c[s.next], s).kind = "set" /\ a = Does(c[s.next], s).var /\ ~IsConstant(a)
                          => Content(CodeStep(c, s), a) = Does(c[s.next], s).n
<1>1. Len(c) \in Nat /\ s.next \in Nat /\ s.next # 0
  BY CodeFacts, StateFacts DEF Places
<1>2. CASE s.next > Len(c)
  <2>1. CodeStep(c, s) = Exited(s, 0)
    BY <1>2 DEF CodeStep
  <2>2. /\ Exited(s, 0) \in State /\ Ended(Exited(s, 0)) /\ Exited(s, 0).next = s.next
        /\ \A a : Content(Exited(s, 0), a) = Content(s, a)
    BY ExitedFacts
  <2>3. ~(s.next \in 1 .. Len(c))
    BY <1>1, <1>2
  <2> QED BY ONLY <2>1, <2>2, <2>3
<1>3. CASE s.next \in 1 .. Len(c)
  <2> PICK e, p : e = Does(c[s.next], s) /\ p = To(c, s)
    OBVIOUS
  <2>1. e \in Effect /\ p \in Places
    BY <1>3, CodeFacts, DoesFacts, ToFacts
  <2> PICK g : g = At(s, p)
    OBVIOUS
  <2>2. g \in State /\ g.next = p /\ \A a : Content(g, a) = Content(s, a)
    BY <2>1, AtFacts
  <2>3. CodeStep(c, s) = Act(e, g)
    BY <1>3, StepIs
  <2>4. /\ Act(e, g) \in State /\ Act(e, g).next = p
        /\ \A a : a \notin Written(e) \/ IsConstant(a) => Content(Act(e, g), a) = Content(s, a)
        /\ \A a : e.kind = "set" /\ a = e.var /\ ~IsConstant(a) => Content(Act(e, g), a) = e.n
    BY <2>1, <2>2, ActFacts
  <2>5. ~(s.next > Len(c))
    BY <1>1, <1>3
  <2> QED BY <2>3, <2>4, <2>5
<1> QED BY <1>1, <1>2, <1>3

\* The same effect on like states leaves like states.
LEMMA StepsAlike ==
  ASSUME NEW c \in Seq(Instr), NEW d \in Seq(Instr), NEW s \in State, NEW t \in State, NEW X, Like(s, t, X),
         s.next \in 1 .. Len(c), t.next \in 1 .. Len(d), Does(c[s.next], s) = Does(d[t.next], t)
  PROVE  Like(CodeStep(c, s), CodeStep(d, t), X \ Written(Does(c[s.next], s)))
<1> PICK e, p, q : e = Does(c[s.next], s) /\ p = To(c, s) /\ q = To(d, t)
  OBVIOUS
<1>1. e \in Effect /\ p \in Places /\ q \in Places
  BY CodeFacts, DoesFacts, ToFacts
<1> PICK g, h : g = At(s, p) /\ h = At(t, q)
  OBVIOUS
<1>2. g \in State /\ h \in State
  BY <1>1, AtFacts
<1>3. Like(g, h, X)
  BY <1>1, AtFacts DEF Like
<1>4. Like(Act(e, g), Act(e, h), X \ Written(e))
  BY <1>1, <1>2, <1>3, ActLike
<1>5. CodeStep(c, s) = Act(e, g) /\ CodeStep(d, t) = Act(e, h)
  BY StepIs
<1> QED BY <1>4, <1>5

LEMMA EndsAlike ==
  ASSUME NEW c, NEW d, NEW s \in State, NEW t \in State, NEW X, Like(s, t, X),
         s.next > Len(c), t.next > Len(d)
  PROVE  Like(CodeStep(c, s), CodeStep(d, t), X)
<1>1. CodeStep(c, s) = Exited(s, 0) /\ CodeStep(d, t) = Exited(t, 0)
  BY DEF CodeStep
<1> QED BY <1>1, ExitedFacts DEF Like

\* The same instruction has the same effect where its operands hold the same.
LEMMA DoesAlike ==
  ASSUME NEW in \in Instr, NEW s \in State, NEW t \in State,
         Content(s, in.arg1) = Content(t, in.arg1), Content(s, in.arg2) = Content(t, in.arg2)
  PROVE  Does(in, s) = Does(in, t)
BY DEF Does
-----------------------------------------------------------------------------
(* Runs.  From the start, step by step, for ever.                              *)
Stepped(c, s) == IF Ended(s) THEN s ELSE CodeStep(c, s)
IsRun(r, c, input) ==
  /\ r \in [Nat -> State] /\ r[0] = Started(input, 1)
  /\ \A i \in Nat : r[i + 1] = Stepped(c, r[i])

LEMMA StartFacts ==
  ASSUME NEW input \in Inputs
  PROVE  /\ Started(input, 1) \in State /\ Started(input, 1).next = 1 /\ ~Ended(Started(input, 1))
         /\ Started(input, 1).out = <<>> /\ Started(input, 1).input = input
         /\ \A a \in DOMAIN Text : ~IsConstant(a) => Content(Started(input, 1), a) = Text[a]
<1> PICK s : s = Started(input, 1)
  OBVIOUS
<1>1. input \in Seq(Int)
  BY InputsAssumption
<1> PICK none : none = <<>>
  OBVIOUS
<1>2. none \in Seq(Int) /\ Text \in Envs
  BY TextAssumption, EmptySeq DEF Envs
<1>3. s = [out |-> none, input |-> input, env |-> Text, exit |-> none, next |-> 1]
  BY DEF Started, Running
<1>4. 1 \in Places
  BY DEF Places
<1>5. s \in State /\ s.next = 1 /\ s.exit = none /\ s.out = none /\ s.input = input /\ s.env = Text
  <2>1. \A o, x, y \in Seq(Int), e \in Envs, p \in Places :
          [out |-> o, input |-> x, env |-> e, exit |-> y, next |-> p] \in State
    BY DEF State
  <2>2. [out |-> none, input |-> input, env |-> Text, exit |-> none, next |-> 1] \in State
    BY ONLY <1>1, <1>2, <1>4, <2>1
  <2>3. s \in State
    BY ONLY <1>3, <2>2
  <2> QED BY <1>3, <2>3
<1> QED BY <1>2, <1>5 DEF Ended, Running, Content

LEMMA RunExists ==
  ASSUME NEW c \in Seq(Instr), NEW input \in Inputs
  PROVE  \E r : IsRun(r, c, input)
<1> DEFINE V == State
           v == Started(input, 1)
           step == [i \in Nat |-> [s \in V |-> Stepped(c, s)]]
<1>1. v \in V
  BY StartFacts
<1>2. StepOn(step, V)
  BY StepFacts DEF Stepped, StepOn
<1>3. PICK r \in [Nat -> V] : r[0] = v /\ \A i \in Nat : i # 0 => r[i] = step[i][r[i - 1]]
  <2> HIDE DEF V, v, step
  <2>1. \E r : IteratesFrom(r, V, v, step)
    BY ONLY <1>1, <1>2, IterationExists
  <2> QED BY <2>1 DEF IteratesFrom
<1>4. ASSUME NEW i \in Nat PROVE r[i + 1] = Stepped(c, r[i])
  <2>1. i + 1 \in Nat /\ i + 1 # 0 /\ (i + 1) - 1 = i /\ r[i] \in V
    OBVIOUS
  <2>2. r[i + 1] = step[i + 1][r[(i + 1) - 1]]
    BY <1>3, <2>1
  <2> HIDE DEF V
  <2> QED BY <2>1, <2>2
<1> QED BY <1>3, <1>4 DEF IsRun

\* What has ended stays as it is.
LEMMA StaysEnded ==
  ASSUME NEW r, NEW c, NEW input, IsRun(r, c, input), NEW k \in Nat, Ended(r[k])
  PROVE  \A n \in Nat : r[k + n] = r[k]
<1> DEFINE T == {n \in Nat : r[k + n] = r[k]}
<1>1. 0 \in T
  OBVIOUS
<1>2. ASSUME NEW n \in Nat, n \in T PROVE n + 1 \in T
  <2>1. k + n \in Nat /\ k + (n + 1) = (k + n) + 1
    OBVIOUS
  <2>2. r[(k + n) + 1] = Stepped(c, r[k + n])
    BY <2>1 DEF IsRun
  <2>3. r[(k + n) + 1] = r[k]
    BY <1>2, <2>2 DEF Stepped
  <2> QED BY <2>1, <2>3
<1>3. Nat \subseteq T
  <2> HIDE DEF T
  <2> QED BY <1>1, <1>2, NaturalInduction
<1> QED BY <1>3

LEMMA StepsAlong ==
  ASSUME NEW r, NEW c, NEW input, IsRun(r, c, input), NEW k \in Nat, NEW n \in Nat
  PROVE  Steps(c, r[k], n) = r[k + n]
<1>1. CASE Ended(r[k])
  BY <1>1, StaysEnded DEF Steps
<1>2. CASE ~Ended(r[k])
  <2> PICK s : s = r[k]
    OBVIOUS
  <2> DEFINE IsWalk(f) == f = [i \in Nat |-> IF i = 0 THEN s
                                              ELSE LET t == f[i - 1] IN IF Ended(t) THEN t ELSE CodeStep(c, t)]
             f == [i \in Nat |-> r[k + i]]
             run == CHOOSE g : IsWalk(g)
  <2>0. ASSUME NEW i \in Nat, i # 0 PROVE r[k + i] = Stepped(c, r[k + (i - 1)]) /\ i - 1 \in Nat
    <3>1. i - 1 \in Nat /\ k + (i - 1) \in Nat /\ (k + (i - 1)) + 1 = k + i
      BY <2>0
    <3>2. r[(k + (i - 1)) + 1] = Stepped(c, r[k + (i - 1)])
      BY <3>1 DEF IsRun
    <3> QED BY <3>1, <3>2
  <2>1. IsWalk(f)
    BY <2>0 DEF Stepped
  <2>2. IsWalk(run)
    <3> HIDE DEF IsWalk, f
    <3> QED BY <2>1
  <2>3. Steps(c, s, n) = run[n]
    BY <1>2 DEF Steps
  <2> HIDE DEF run, f
  <2> DEFINE T == {i \in Nat : run[i] = r[k + i]}
  <2>4. 0 \in T
    BY <2>2
  <2>5. ASSUME NEW i \in Nat, i \in T PROVE i + 1 \in T
    <3>1. i + 1 \in Nat /\ i + 1 # 0 /\ (i + 1) - 1 = i
      OBVIOUS
    <3>2. run[i + 1] = Stepped(c, run[i])
      BY <2>2, <3>1 DEF Stepped
    <3>3. r[k + (i + 1)] = Stepped(c, r[k + i])
      BY <2>0, <3>1
    <3> QED BY <2>5, <3>2, <3>3
  <2>6. Nat \subseteq T
    <3> HIDE DEF T
    <3> QED BY <2>4, <2>5, NaturalInduction
  <2> QED BY <2>3, <2>6
<1> QED BY <1>1, <1>2

LEMMA RunFacts ==
  ASSUME NEW r, NEW c, NEW input, IsRun(r, c, input), NEW n \in Nat
  PROVE  Fuel \in Nat /\ Fuel * (2 * n) \in Nat /\ RunCode(c, input, n) = r[Fuel * (2 * n)]
<1>0. 2 * n = n + n /\ n + n \in Nat
  OBVIOUS
<1> PICK m \in Nat : m = n + n
  BY <1>0
<1>1. Fuel \in Nat /\ Fuel * m \in Nat
  BY InputsAssumption
<1> DEFINE IsWalk(f) == f = [i \in Nat |-> IF i = 0 THEN Started(input, 1) ELSE LET s == f[i - 1] IN Steps(c, Steps(c, s, n), n)]
           f == [i \in Nat |-> r[i * m]]
           round == CHOOSE g : IsWalk(g)
<1>2. ASSUME NEW i \in Nat, i # 0 PROVE r[i * m] = Steps(c, Steps(c, r[(i - 1) * m], n), n) /\ i - 1 \in Nat
  <2> PICK j \in Nat : i = j + 1
    <3>1. i - 1 \in Nat /\ i = (i - 1) + 1
      BY <1>2
    <3> QED BY <3>1
  <2> PICK k \in Nat : k = j * m
    OBVIOUS
  <2>1. i * m = k + m /\ i - 1 = j
    OBVIOUS
  <2>2. k + n \in Nat /\ k + m = (k + n) + n
    OBVIOUS
  <2>3. Steps(c, r[k], n) = r[k + n] /\ Steps(c, r[k + n], n) = r[(k + n) + n]
    BY <2>2, StepsAlong
  <2> QED BY <2>1, <2>2, <2>3
<1>3. r[0] = Started(input, 1) /\ 0 * m = 0
  BY DEF IsRun
<1>4. IsWalk(f)
  BY <1>2, <1>3
<1>5. IsWalk(round)
  <2> HIDE DEF IsWalk, f
  <2> QED BY <1>4
<1>6. RunCode(c, input, n) = round[Fuel]
  BY DEF RunCode
<1> HIDE DEF round, f
<1> DEFINE T == {i \in Nat : round[i] = r[i * m]}
<1>7. 0 \in T
  BY <1>3, <1>5
<1>8. ASSUME NEW i \in Nat, i \in T PROVE i + 1 \in T
  <2>1. i + 1 \in Nat /\ i + 1 # 0 /\ (i + 1) - 1 = i
    OBVIOUS
  <2>2. round[i + 1] = Steps(c, Steps(c, round[i], n), n)
    BY <1>5, <2>1
  <2>3. r[(i + 1) * m] = Steps(c, Steps(c, r[i * m], n), n)
    BY <1>2, <2>1
  <2> QED BY <1>8, <2>2, <2>3
<1>9. Nat \subseteq T
  <2> HIDE DEF T
  <2> QED BY <1>7, <1>8, NaturalInduction
<1> QED BY <1>0, <1>1, <1>6, <1>9

(* Two codes behave the same if their states stay in a relation in which a     *)
(* step of the first is one of the second or none.                             *)
Simulates(R, c, d) ==
  /\ \A input \in Inputs : <<Started(input, 1), Started(input, 1)>> \in R
  /\ \A s, t \in State : <<s, t>> \in R =>
       /\ s.out = t.out /\ s.exit = t.exit
       /\ ~Ended(s) => <<CodeStep(c, s), t>> \in R \/ <<CodeStep(c, s), CodeStep(d, t)>> \in R

LEMMA Simulation ==
  ASSUME NEW c \in Seq(Instr), NEW d \in Seq(Instr), NEW R, Simulates(R, c, d)
  PROVE  SameAsCode(c, d)
<1> SUFFICES ASSUME NEW input \in Inputs, Ended(RunCode(c, input, 2))
             PROVE  Behaviour(RunCode(d, input, 2)) = Behaviour(RunCode(c, input, 2))
  BY DEF SameAsCode
<1>1. PICK r : IsRun(r, c, input)
  BY RunExists
<1>2. PICK q : IsRun(q, d, input)
  BY RunExists
<1>3. (\A i \in Nat : r[i] \in State /\ r[i + 1] = Stepped(c, r[i])) /\ r[0] = Started(input, 1)
  BY <1>1 DEF IsRun
<1>4. (\A i \in Nat : q[i] \in State /\ q[i + 1] = Stepped(d, q[i])) /\ q[0] = Started(input, 1)
  BY <1>2 DEF IsRun
<1> DEFINE T == {k \in Nat : \E m \in 0 .. k : <<r[k], q[m]>> \in R}
<1>5. 0 \in T
  <2>1. <<r[0], q[0]>> \in R /\ 0 \in 0 .. 0
    BY <1>3, <1>4 DEF Simulates
  <2> QED BY <2>1
<1>6. ASSUME NEW k \in Nat, k \in T PROVE k + 1 \in T
  <2>1. PICK m \in 0 .. k : <<r[k], q[m]>> \in R
    BY <1>6
  <2>2. m \in Nat /\ m \in 0 .. k + 1 /\ m + 1 \in 0 .. k + 1
    OBVIOUS
  <2>3. /\ r[k].exit = q[m].exit
        /\ ~Ended(r[k]) => <<CodeStep(c, r[k]), q[m]>> \in R \/ <<CodeStep(c, r[k]), CodeStep(d, q[m])>> \in R
    BY <1>3, <1>4, <2>1, <2>2 DEF Simulates
  <2>4. CASE Ended(r[k])
    <3>1. r[k + 1] = r[k]
      BY <1>3, <2>4 DEF Stepped
    <3>2. <<r[k + 1], q[m]>> \in R
      BY <2>1, <3>1
    <3>3. \E j \in 0 .. k + 1 : <<r[k + 1], q[j]>> \in R
      BY ONLY <2>2, <3>2
    <3>4. k + 1 \in Nat
      OBVIOUS
    <3> QED BY ONLY <3>3, <3>4
  <2>5. CASE ~Ended(r[k])
    <3>1. r[k + 1] = CodeStep(c, r[k])
      BY <1>3, <2>5 DEF Stepped
    <3>2. q[m + 1] = CodeStep(d, q[m])
      BY <1>4, <2>2, <2>3, <2>5 DEF Stepped, Ended
    <3>3. <<r[k + 1], q[m]>> \in R \/ <<r[k + 1], q[m + 1]>> \in R
      BY <2>3, <2>5, <3>1, <3>2
    <3>4. \E j \in 0 .. k + 1 : <<r[k + 1], q[j]>> \in R
      BY ONLY <2>2, <3>3
    <3>5. k + 1 \in Nat
      OBVIOUS
    <3> QED BY ONLY <3>4, <3>5
  <2> QED BY <2>4, <2>5
<1>7. Nat \subseteq T
  <2> HIDE DEF T
  <2> QED BY <1>5, <1>6, NaturalInduction
<1>8. Fuel * (2 * 2) \in Nat /\ RunCode(c, input, 2) = r[Fuel * (2 * 2)] /\ RunCode(d, input, 2) = q[Fuel * (2 * 2)]
  BY <1>1, <1>2, RunFacts
<1> PICK k \in Nat : k = Fuel * (2 * 2)
  BY <1>8
<1>9. PICK m \in 0 .. k : <<r[k], q[m]>> \in R
  BY <1>7
<1>10. m \in Nat /\ k - m \in Nat /\ m + (k - m) = k
  OBVIOUS
<1>11. r[k].out = q[m].out /\ r[k].exit = q[m].exit
  BY <1>3, <1>4, <1>9, <1>10 DEF Simulates
<1>12. q[k] = q[m]
  <2>1. Ended(q[m])
    BY <1>8, <1>11 DEF Ended
  <2>2. q[m + (k - m)] = q[m]
    BY <1>2, <1>10, <2>1, StaysEnded
  <2> QED BY <1>10, <2>2
<1> QED BY <1>8, <1>11, <1>12 DEF Behaviour
-----------------------------------------------------------------------------
(* Passes that change instructions one for one.                                *)
SameMarks(c, d) ==
  /\ Len(d) = Len(c)
  /\ \A i \in 1 .. Len(c) : \A target :
       c[i].op = "LABEL" /\ c[i].result = target <=> d[i].op = "LABEL" /\ d[i].result = target

LEMMA SameLandings ==
  ASSUME NEW c \in Seq(Instr), NEW d \in Seq(Instr), SameMarks(c, d), NEW target, NEW otherwise
  PROVE  Landing(c, target, otherwise) = Landing(d, target, otherwise)
<1>1. DOMAIN c = 1 .. Len(c) /\ DOMAIN d = 1 .. Len(c)
  BY CodeFacts DEF SameMarks
<1>2. {i \in DOMAIN c : c[i].op = "LABEL" /\ c[i].result = target}
      = {i \in DOMAIN d : d[i].op = "LABEL" /\ d[i].result = target}
  BY <1>1 DEF SameMarks
<1> DEFINE at(e) == {i \in DOMAIN e : e[i].op = "LABEL" /\ e[i].result = target}
<1>3. at(c) = at(d)
  BY <1>2
<1>4. \A e : Landing(e, target, otherwise) = IF at(e) = {} THEN otherwise ELSE CHOOSE i \in at(e) : \A j \in at(e) : i <= j
  BY DEF Landing
<1> HIDE DEF at
<1> QED BY ONLY <1>3, <1>4

\* Where there are no labels the next instruction is always the following one.
LEMMA StraightTo ==
  ASSUME NEW c \in Seq(Instr), StraightLine(c), NEW s \in State
  PROVE  To(c, s) = s.next + 1
<1>1. \A target : ~Labels(c, target)
  BY DEF StraightLine, Labels
<1>2. \A target, o : Landing(c, target, o) = o
  BY <1>1, LandingFacts DEF Labels, StraightLine
<1> QED BY <1>2 DEF To

\* What I holds at every step of the one, the two do the same from.
Invariant(I, c) ==
  /\ \A input \in Inputs : Started(input, 1) \in I
  /\ \A s \in State : s \in I /\ ~Ended(s) => CodeStep(c, s) \in I
AlikeIn(I, c, d) ==
  /\ Len(d) = Len(c)
  /\ \A s \in State : s \in I /\ s.next \in 1 .. Len(c) =>
       Does(c[s.next], s) = Does(d[s.next], s) /\ To(c, s) = To(d, s)

LEMMA OneForOne ==
  ASSUME NEW c \in Seq(Instr), NEW d \in Seq(Instr), NEW I, Invariant(I, c), AlikeIn(I, c, d)
  PROVE  SameAsCode(c, d)
<1> DEFINE R == {st \in State \X State : st[1] \in I /\ Like(st[1], st[2], {}) /\ st[1].next = st[2].next}
<1>1. ASSUME NEW input \in Inputs PROVE <<Started(input, 1), Started(input, 1)>> \in R
  BY StartFacts DEF Like, Invariant
<1>2. ASSUME NEW s \in State, NEW t \in State, <<s, t>> \in R, ~Ended(s)
      PROVE  <<CodeStep(c, s), CodeStep(d, t)>> \in R
  <2>1. s \in I /\ Like(s, t, {}) /\ s.next = t.next
    BY <1>2
  <2>2. CodeStep(c, s) \in State /\ CodeStep(d, t) \in State /\ CodeStep(c, s) \in I
    BY <1>2, <2>1, StepFacts DEF Invariant
  <2>3. Len(d) = Len(c) /\ Len(c) \in Nat /\ s.next \in Nat /\ s.next # 0
    BY CodeFacts, StateFacts DEF AlikeIn, Places
  <2>4. CASE s.next > Len(c)
    <3>1. Like(CodeStep(c, s), CodeStep(d, t), {})
      BY <2>1, <2>3, <2>4, EndsAlike
    <3>2. CodeStep(c, s).next = s.next /\ CodeStep(d, t).next = t.next
      <4>1. t.next > Len(d)
        BY <2>1, <2>3, <2>4
      <4> QED BY <2>4, <4>1, StepFacts
    <3> QED BY <2>1, <2>2, <3>1, <3>2
  <2>5. CASE s.next \in 1 .. Len(c)
    <3> PICK in : in = d[s.next]
      OBVIOUS
    <3>1. in \in Instr /\ in.arg1 \in Operand /\ in.arg2 \in Operand
      BY <2>3, <2>5, CodeFacts, InstrFacts
    <3>2. Content(s, in.arg1) = Content(t, in.arg1) /\ Content(s, in.arg2) = Content(t, in.arg2)
      BY <2>1, <3>1 DEF Like
    <3>3. Does(c[s.next], s) = Does(in, s) /\ To(c, s) = To(d, s)
      BY <2>1, <2>5 DEF AlikeIn
    <3>4. Does(in, s) = Does(in, t)
      BY <3>1, <3>2, DoesAlike
    <3>5. To(d, s) = To(d, t)
      BY <2>1, <3>2 DEF To
    <3>6. t.next \in 1 .. Len(d) /\ Does(c[s.next], s) = Does(d[t.next], t)
      BY <2>1, <2>3, <2>5, <3>3, <3>4
    <3>7. Like(CodeStep(c, s), CodeStep(d, t), {} \ Written(Does(c[s.next], s)))
      BY <2>1, <2>5, <3>6, StepsAlike
    <3>8. Like(CodeStep(c, s), CodeStep(d, t), {})
      BY <3>7 DEF Like
    <3>9. CodeStep(c, s).next = To(c, s) /\ CodeStep(d, t).next = To(d, t)
      BY <2>5, <3>6, StepFacts
    <3>10. CodeStep(c, s).next = CodeStep(d, t).next
      BY <3>3, <3>5, <3>9
    <3> QED BY <2>2, <3>8, <3>10
  <2> QED BY <2>3, <2>4, <2>5
<1>3. ASSUME NEW s \in State, NEW t \in State, <<s, t>> \in R PROVE s.out = t.out /\ s.exit = t.exit
  BY <1>3 DEF Like
<1>4. Simulates(R, c, d)
  <2> HIDE DEF R
  <2> QED BY <1>1, <1>2, <1>3 DEF Simulates
<1> QED BY <1>4, Simulation

\* A pass that leaves an instruction or puts another with the same effect there.
Agrees(in, new) ==
  \/ new = in
  \/ /\ {in.op, new.op} \cap {"LABEL", "GOTO", "IF"} = {}
     /\ \A s \in State : Does(in, s) = Does(new, s)

LEMMA AgreesMeans ==
  ASSUME NEW c \in Seq(Instr), NEW d \in Seq(Instr), Len(d) = Len(c), \A i \in 1 .. Len(c) : Agrees(c[i], d[i])
  PROVE  SameAsCode(c, d)
<1>1. SameMarks(c, d)
  BY DEF SameMarks, Agrees
<1>2. \A target, o : Landing(c, target, o) = Landing(d, target, o)
  BY <1>1, SameLandings
<1>3. Invariant(State, c)
  BY StartFacts, StepFacts DEF Invariant
<1>4. AlikeIn(State, c, d)
  <2> SUFFICES ASSUME NEW s \in State, s.next \in 1 .. Len(c)
               PROVE  Does(c[s.next], s) = Does(d[s.next], s) /\ To(c, s) = To(d, s)
    BY DEF AlikeIn
  <2>1. Agrees(c[s.next], d[s.next])
    OBVIOUS
  <2>2. CASE d[s.next] = c[s.next]
    BY <1>2, <2>2 DEF To
  <2>3. CASE d[s.next] # c[s.next]
    BY <2>1, <2>3 DEF Agrees, To
  <2> QED BY <2>2, <2>3
<1> QED BY <1>3, <1>4, OneForOne

LEMMA FoldingMeans ==
  ASSUME NEW c \in Seq(Instr), FoldsWithinInt(c)
  PROVE  SameAsCode(c, ConstantFolding(c))
<1>1. Becomes(c, ConstantFolding(c), [in \in Instr |-> FoldOne(in)])
  BY MapFacts
<1>2. ASSUME NEW i \in 1 .. Len(c) PROVE Agrees(c[i], FoldOne(c[i]))
  <2> PICK in \in Instr : in = c[i]
    BY CodeFacts
  <2>1. CASE Folds(in)
    <3> PICK x, y, n : x = in.arg1[2] /\ y = in.arg2[2] /\ n = Compute(in.op, x, y)
      OBVIOUS
    <3>1. /\ in.op \in Arithmetic /\ IsConstant(in.arg1) /\ IsConstant(in.arg2)
          /\ x \in Int /\ y \in Int
      BY <2>1, FoldedFacts
    <3>2. n \in Int
      BY <3>1, ComputeFacts
    <3>3. {x, y, n} \subseteq -IntMax - 1 .. IntMax
      BY <2>1, CodeFacts DEF FoldsWithinInt
    <3>4. Folded(in) = Const(n)
      <4>1. atoi(x) = x /\ atoi(y) = y /\ Wrapped(n) = n
        BY <3>3, WrappedFacts
      <4> QED BY <4>1 DEF Folded, computeOperation
    <3> PICK new : new = TAC("ASSIGN", in.result, Const(n), NULL)
      OBVIOUS
    <3>5. new = FoldOne(in)
      BY <2>1, <3>4 DEF FoldOne
    <3>6. new \in Instr /\ new.op = "ASSIGN" /\ new.result = in.result /\ new.arg1 = Const(n)
      BY <3>5, OnesTyped DEF TAC
    <3>7. {in.op, new.op} \cap {"LABEL", "GOTO", "IF"} = {}
      BY <3>1, <3>6, OpsDiffer
    <3>8. ASSUME NEW s \in State PROVE Does(in, s) = Does(new, s)
      <4>1. Content(s, in.arg1) = x /\ Content(s, in.arg2) = y
        BY <3>1 DEF Content
      <4>2. Content(s, new.arg1) = n
        <5>1. IsConstant(Const(n)) /\ Const(n)[2] = n
          BY <3>2, OperandFacts
        <5> QED BY <3>6, <5>1 DEF Content
      <4>3. Does(in, s) = [kind |-> "set", var |-> in.result, n |-> n]
        BY <3>1, <4>1 DEF Does
      <4>4. Does(new, s) = [kind |-> "set", var |-> in.result, n |-> n]
        BY <3>6, <4>2, OpsDiffer DEF Does
      <4> QED BY <4>3, <4>4
    <3> QED BY <3>5, <3>7, <3>8 DEF Agrees
  <2>2. CASE ~Folds(in)
    BY <2>2 DEF FoldOne, Agrees
  <2> QED BY <2>1, <2>2
<1> QED BY <1>1, <1>2, CodeFacts, AgreesMeans DEF Becomes

\* The arithmetic of the passes.
LEMMA ComputeSame ==
  /\ \A x \in Int : Compute("MUL", 2, x) = Compute("ADD", x, x) /\ Compute("MUL", x, 2) = Compute("ADD", x, x)
  /\ \A x \in Int : /\ Compute("ADD", x, 0) = x /\ Compute("SUB", x, 0) = x
                    /\ Compute("MUL", x, 1) = x /\ Compute("DIV", x, 1) = x
<1> SUFFICES ASSUME NEW x \in Int
             PROVE  /\ Compute("MUL", 2, x) = Compute("ADD", x, x) /\ Compute("MUL", x, 2) = Compute("ADD", x, x)
                    /\ Compute("ADD", x, 0) = x /\ Compute("SUB", x, 0) = x
                    /\ Compute("MUL", x, 1) = x /\ Compute("DIV", x, 1) = x
  OBVIOUS
<1>1. /\ Compute("MUL", 2, x) = 2 * x /\ Compute("MUL", x, 2) = x * 2 /\ Compute("ADD", x, x) = x + x
      /\ Compute("ADD", x, 0) = x + 0 /\ Compute("SUB", x, 0) = x - 0 /\ Compute("MUL", x, 1) = x * 1
      /\ Compute("DIV", x, 1) = Quotient(x, 1)
  BY DEF Compute
<1>2. Quotient(x, 1) = x
  BY DEF Quotient, Abs
<1> QED BY <1>1, <1>2

LEMMA ReductionMeans == ASSUME NEW c \in Seq(Instr) PROVE SameAsCode(c, StrengthReduction(c))
<1>1. Becomes(c, StrengthReduction(c), [in \in Instr |-> ReduceOne(in)])
  BY MapFacts
<1>2. ASSUME NEW in \in Instr PROVE Agrees(in, ReduceOne(in))
  <2>0. in \in TACInstruction /\ in.arg1 \in Operand /\ in.arg2 \in Operand /\ IsConstant(Const(2)) /\ Const(2)[2] = 2
        /\ "MUL" \in Arithmetic /\ "ADD" \in Arithmetic
    BY InstrFacts, OperandFacts DEF Arithmetic
  <2>1. CASE in.op = "MUL" /\ in.arg1 = Const(2)
    <3> PICK new : new = [in EXCEPT !.op = "ADD", !.arg1 = in.arg2]
      OBVIOUS
    <3>1. new = ReduceOne(in) /\ new.op = "ADD" /\ new.result = in.result /\ new.arg1 = in.arg2 /\ new.arg2 = in.arg2
      BY <2>0, <2>1 DEF ReduceOne, TACInstruction
    <3>2. ASSUME NEW s \in State PROVE Does(in, s) = Does(new, s)
      <4> PICK x : x = Content(s, in.arg2)
        OBVIOUS
      <4>1. x \in Int /\ Content(s, in.arg1) = 2
        BY <2>0, <2>1, StateFacts DEF Content
      <4>2. Does(in, s) = [kind |-> "set", var |-> in.result, n |-> Compute("MUL", 2, x)]
        BY <2>0, <2>1, <4>1 DEF Does
      <4>3. Does(new, s) = [kind |-> "set", var |-> in.result, n |-> Compute("ADD", x, x)]
        BY <2>0, <3>1 DEF Does
      <4> QED BY <4>1, <4>2, <4>3, ComputeSame
    <3> QED BY <2>1, <3>1, <3>2 DEF Agrees
  <2>2. CASE in.op = "MUL" /\ in.arg1 # Const(2) /\ in.arg2 = Const(2)
    <3> PICK new : new = [in EXCEPT !.op = "ADD", !.arg2 = in.arg1]
      OBVIOUS
    <3>1. new = ReduceOne(in) /\ new.op = "ADD" /\ new.result = in.result /\ new.arg1 = in.arg1 /\ new.arg2 = in.arg1
      BY <2>0, <2>2 DEF ReduceOne, TACInstruction
    <3>2. ASSUME NEW s \in State PROVE Does(in, s) = Does(new, s)
      <4> PICK x : x = Content(s, in.arg1)
        OBVIOUS
      <4>1. x \in Int /\ Content(s, in.arg2) = 2
        BY <2>0, <2>2, StateFacts DEF Content
      <4>2. Does(in, s) = [kind |-> "set", var |-> in.result, n |-> Compute("MUL", x, 2)]
        BY <2>0, <2>2, <4>1 DEF Does
      <4>3. Does(new, s) = [kind |-> "set", var |-> in.result, n |-> Compute("ADD", x, x)]
        BY <2>0, <3>1 DEF Does
      <4> QED BY <4>1, <4>2, <4>3, ComputeSame
    <3> QED BY <2>2, <3>1, <3>2 DEF Agrees
  <2>3. CASE ~(in.op = "MUL" /\ (in.arg1 = Const(2) \/ in.arg2 = Const(2)))
    BY <2>3 DEF ReduceOne, Agrees
  <2> QED BY <2>1, <2>2, <2>3
<1> QED BY <1>1, <1>2, CodeFacts, AgreesMeans DEF Becomes

LEMMA SimplificationMeans ==
  ASSUME NEW c \in Seq(Instr), \A i \in DOMAIN c : ~NeutralFirst(c[i])
  PROVE  SameAsCode(c, AlgebraicSimplification(c))
<1>1. Becomes(c, AlgebraicSimplification(c), [in \in Instr |-> SimplifyOne(in)])
  BY MapFacts
<1>2. ASSUME NEW in \in Instr, ~NeutralFirst(in) PROVE Agrees(in, SimplifyOne(in))
  <2>1. CASE NeutralSecond(in)
    <3> PICK new : new = [in EXCEPT !.op = "ASSIGN", !.arg2 = Freed]
      OBVIOUS
    <3>1. new = SimplifyOne(in) /\ new.op = "ASSIGN" /\ new.result = in.result /\ new.arg1 = in.arg1
      BY <1>2, <2>1, InstrFacts DEF SimplifyOne, TACInstruction
    <3>2. in.op \in {"ADD", "SUB", "MUL", "DIV"} /\ in.op \in Arithmetic
      BY <2>1 DEF NeutralSecond, Arithmetic
    <3>3. in.arg2 = Const(IF in.op \in {"ADD", "SUB"} THEN 0 ELSE 1)
      BY <2>1, <3>2 DEF NeutralSecond, Neutral
    <3>4. \A s \in State : Content(s, in.arg2) = IF in.op \in {"ADD", "SUB"} THEN 0 ELSE 1
      <4>1. \A n \in Int : IsConstant(Const(n)) /\ Const(n)[2] = n
        BY OperandFacts
      <4> QED BY <3>3, <4>1 DEF Content
    <3>5. ASSUME NEW s \in State PROVE Does(in, s) = Does(new, s)
      <4> PICK x, y : x = Content(s, in.arg1) /\ y = Content(s, in.arg2)
        OBVIOUS
      <4>1. x \in Int
        BY InstrFacts, StateFacts
      <4>2. Compute(in.op, x, y) = x
        BY <3>2, <3>4, <4>1, ComputeSame
      <4>3. Does(in, s) = [kind |-> "set", var |-> in.result, n |-> Compute(in.op, x, y)]
        BY <3>2 DEF Does
      <4>4. Does(new, s) = [kind |-> "set", var |-> in.result, n |-> x]
        BY <3>1, OpsDiffer DEF Does
      <4> QED BY <4>2, <4>3, <4>4
    <3> QED BY <3>1, <3>2, <3>5 DEF Agrees
  <2>2. CASE ~NeutralSecond(in)
    BY <1>2, <2>2 DEF SimplifyOne, Agrees
  <2> QED BY <2>1, <2>2
<1> QED BY <1>1, <1>2, CodeFacts, AgreesMeans DEF Becomes
-----------------------------------------------------------------------------
(* Copies and constants put in the place of what they were assigned to.        *)
LEMMA ContentsReplaced ==
  ASSUME NEW s, NEW var, NEW by, Content(s, var) = Content(s, by)
  PROVE  \A a : Content(s, Replaced(a, var, by)) = Content(s, a)
BY DEF Replaced

LEMMA ReachFacts ==
  ASSUME NEW c \in Seq(Instr), NEW i \in 1 .. Len(c)
  PROVE  /\ Reach(c, i) \subseteq i + 1 .. Len(c)
         /\ \A p \in Nat : p + 1 \in Reach(c, i) => p = i \/ p \in Reach(c, i)
         /\ \A j \in Reach(c, i) : \A k \in i + 1 .. j : k \in Reach(c, i) /\ ~Assigns(c[k], c[i].result)
         /\ \A j \in i + 1 .. Len(c) : (\A k \in i + 1 .. j : ~Assigns(c[k], c[i].result)) => j \in Reach(c, i)
<1>1. Len(c) \in Nat /\ i \in Nat
  BY CodeFacts
<1>2. \A j : j \in Reach(c, i) <=> j \in i + 1 .. Len(c) /\ \A k \in i + 1 .. j : ~Assigns(c[k], c[i].result)
  BY DEF Reach
<1>3. ASSUME NEW p \in Nat, p + 1 \in Reach(c, i), p # i PROVE p \in Reach(c, i)
  <2>1. p + 1 \in i + 1 .. Len(c) /\ \A k \in i + 1 .. p + 1 : ~Assigns(c[k], c[i].result)
    BY <1>2, <1>3
  <2>2. p \in i + 1 .. Len(c) /\ \A k \in i + 1 .. p : k \in i + 1 .. p + 1
    BY <1>1, <1>3, <2>1
  <2> QED BY <1>2, <2>1, <2>2
<1>4. ASSUME NEW j \in Reach(c, i), NEW k \in i + 1 .. j PROVE k \in Reach(c, i) /\ ~Assigns(c[k], c[i].result)
  <2>1. j \in i + 1 .. Len(c) /\ \A m \in i + 1 .. j : ~Assigns(c[m], c[i].result)
    BY <1>2
  <2>2. k \in i + 1 .. Len(c) /\ \A m \in i + 1 .. k : m \in i + 1 .. j
    BY <1>1, <2>1
  <2> QED BY <1>2, <2>1, <2>2
<1> QED BY <1>2, <1>3, <1>4

\* The instruction after the copy is put in: what it assigns is as it was.
LEMMA PutInMeans ==
  ASSUME NEW in \in Instr, NEW var \in Result, NEW by \in Operand, var # NULL, by # NULL, var \notin Sets(in)
  PROVE  /\ Sets(PutIn(in, var, by)) = Sets(in)
         /\ \A s \in State : Content(s, var) = Content(s, by) => Does(PutIn(in, var, by), s) = Does(in, s)
<1> PICK new : new = PutIn(in, var, by)
  OBVIOUS
<1>1. /\ new.op = in.op /\ new.result = in.result
      /\ new.arg1 = Replaced(in.arg1, var, by) /\ new.arg2 = Replaced(in.arg2, var, by)
  BY PutInFacts
<1>2. in.op = "SCAN" => new.arg1 = in.arg1
  BY <1>1 DEF Sets, Replaced
<1>3. Sets(new) = Sets(in)
  BY <1>1, <1>2 DEF Sets
<1>4. ASSUME NEW s \in State, Content(s, var) = Content(s, by) PROVE Does(new, s) = Does(in, s)
  <2>1. Content(s, new.arg1) = Content(s, in.arg1) /\ Content(s, new.arg2) = Content(s, in.arg2)
    BY <1>1, <1>4, ContentsReplaced
  <2> HIDE DEF NULL
  <2> QED BY <1>1, <1>2, <2>1 DEF Does
<1> QED BY <1>3, <1>4

LEMMA PropagatedKeeps ==
  ASSUME NEW c \in Seq(Instr), StraightLine(c), CopiesHold(c), NEW i \in 1 .. Len(c), c[i].op = "ASSIGN"
  PROVE  StraightLine(Propagated(c, i)) /\ CopiesHold(Propagated(c, i))
<1> PICK d : d = Propagated(c, i)
  OBVIOUS
<1> PICK var, by : var = c[i].result /\ by = c[i].arg1
  OBVIOUS
<1>1. /\ var \in Result /\ var # NULL /\ by \in Operand /\ by # NULL
      /\ d \in Seq(Instr) /\ Len(d) = Len(c)
      /\ \A j \in 1 .. Len(c) : d[j] = IF j \in Reach(c, i) THEN PutIn(c[j], var, by) ELSE c[j]
  BY PropagatedFacts
<1>2. DOMAIN c = 1 .. Len(c) /\ DOMAIN d = 1 .. Len(c) /\ Len(c) \in Nat /\ \A j \in 1 .. Len(c) : c[j] \in Instr
  BY <1>1, CodeFacts
<1>3. \A j \in Reach(c, i) : j \in 1 .. Len(c) /\ Sets(c[j]) \cap {var, by} = {}
  <2>1. i \in DOMAIN c /\ \A j \in i + 1 .. Len(c) : j \in 1 .. Len(c)
    BY <1>2
  <2>2. \A j \in Reach(c, i) : j \in 1 .. Len(c)
    BY <2>1, ReachFacts
  <2>3. \A j \in Reach(c, i) : Sets(c[j]) \cap {c[i].result, c[i].arg1} = {}
    BY <2>1 DEF CopiesHold
  <2> QED BY <2>2, <2>3
<1>4. \A j \in 1 .. Len(c) : /\ d[j].op = c[j].op /\ d[j].result = c[j].result /\ Sets(d[j]) = Sets(c[j])
                             /\ d[j].arg1 = c[j].arg1 \/ (j \in Reach(c, i) /\ c[j].arg1 = var /\ d[j].arg1 = by)
  <2> TAKE j \in 1 .. Len(c)
  <2>1. CASE j \in Reach(c, i)
    <3>1. var \notin Sets(c[j]) /\ d[j] = PutIn(c[j], var, by)
      BY <1>1, <1>3, <2>1
    <3>2. Sets(d[j]) = Sets(c[j])
      BY <1>1, <1>2, <3>1, PutInMeans
    <3>3. d[j].op = c[j].op /\ d[j].result = c[j].result /\ d[j].arg1 = Replaced(c[j].arg1, var, by)
      BY <1>1, <1>2, <3>1, PutInFacts
    <3> QED BY <2>1, <3>2, <3>3 DEF Replaced
  <2>2. CASE j \notin Reach(c, i)
    BY <1>1, <2>2
  <2> QED BY <2>1, <2>2
<1>5. StraightLine(d)
  BY <1>2, <1>4 DEF StraightLine
<1>6. \A k \in 1 .. Len(c) : Reach(d, k) = Reach(c, k)
  <2>1. \A k \in 1 .. Len(c), j \in 1 .. Len(c) : Assigns(d[j], d[k].result) <=> Assigns(c[j], c[k].result)
    BY <1>4 DEF Assigns
  <2> TAKE k \in 1 .. Len(c)
  <2>2. \A j \in k + 1 .. Len(c) : \A m \in k + 1 .. j : m \in 1 .. Len(c)
    BY <1>2
  <2> QED BY <1>1, <2>1, <2>2 DEF Reach
<1>7. ASSUME NEW k \in 1 .. Len(c), d[k].op = "ASSIGN", NEW j \in Reach(d, k)
      PROVE  Sets(d[j]) \cap {d[k].result, d[k].arg1} = {}
  <2>1. j \in Reach(c, k) /\ c[k].op = "ASSIGN" /\ j \in k + 1 .. Len(c) /\ j \in 1 .. Len(c)
    <3>1. j \in Reach(c, k) /\ c[k].op = "ASSIGN"
      BY <1>4, <1>6, <1>7
    <3>2. j \in k + 1 .. Len(c)
      BY <3>1, ReachFacts
    <3> QED BY <1>2, <3>1, <3>2
  <2>2. Sets(d[j]) = Sets(c[j]) /\ Sets(c[j]) \cap {c[k].result, c[k].arg1} = {} /\ d[k].result = c[k].result
    BY <1>2, <1>4, <2>1 DEF CopiesHold
  <2>3. CASE d[k].arg1 = c[k].arg1
    BY <2>2, <2>3
  <2>4. CASE k \in Reach(c, i) /\ c[k].arg1 = var /\ d[k].arg1 = by
    <3>1. ASSUME NEW m \in i + 1 .. j PROVE ~Assigns(c[m], var)
      <4>1. k \in i + 1 .. Len(c)
        BY <2>4, ReachFacts
      <4>2. CASE m <= k
        <5>1. m \in i + 1 .. k
          BY <1>2, <4>2, <4>1
        <5> QED BY <2>4, <5>1, ReachFacts
      <4>3. CASE ~(m <= k)
        <5>1. m \in k + 1 .. j /\ m \in 1 .. Len(c)
          BY <1>2, <2>1, <4>1, <4>3
        <5>2. m \in Reach(c, k)
          BY <2>1, <5>1, ReachFacts
        <5>3. Sets(c[m]) \cap {c[k].result, c[k].arg1} = {}
          BY <1>2, <2>1, <5>2 DEF CopiesHold
        <5>4. Assigns(c[m], var) => Sets(c[m]) = {var}
          BY DEF Assigns, Sets
        <5> QED BY <2>4, <5>3, <5>4
      <4> QED BY <4>2, <4>3
    <3>2. j \in i + 1 .. Len(c)
      <4>1. k \in i + 1 .. Len(c)
        BY <2>4, ReachFacts
      <4> QED BY <1>2, <2>1, <4>1
    <3>3. j \in Reach(c, i)
      BY <3>1, <3>2, ReachFacts
    <3> QED BY <1>3, <2>2, <2>4, <3>3
  <2> QED BY <1>4, <2>3, <2>4
<1>8. CopiesHold(d)
  BY <1>2, <1>7 DEF CopiesHold
<1> QED BY <1>5, <1>8

LEMMA PropagatedMeans ==
  ASSUME NEW c \in Seq(Instr), StraightLine(c), CopiesHold(c), NEW i \in 1 .. Len(c), c[i].op = "ASSIGN"
  PROVE  SameAsCode(c, Propagated(c, i))
<1> PICK d : d = Propagated(c, i)
  OBVIOUS
<1> PICK var, by : var = c[i].result /\ by = c[i].arg1
  OBVIOUS
<1>1. /\ var \in Result /\ var # NULL /\ by \in Operand /\ by # NULL
      /\ d \in Seq(Instr) /\ Len(d) = Len(c)
      /\ \A j \in 1 .. Len(c) : d[j] = IF j \in Reach(c, i) THEN PutIn(c[j], var, by) ELSE c[j]
  BY PropagatedFacts
<1>2. DOMAIN c = 1 .. Len(c) /\ Len(c) \in Nat /\ \A j \in 1 .. Len(c) : c[j] \in Instr
  BY CodeFacts
<1>3. \A j \in Reach(c, i) : j \in 1 .. Len(c) /\ Sets(c[j]) \cap {var, by} = {}
  <2>1. i \in DOMAIN c /\ \A j \in i + 1 .. Len(c) : j \in 1 .. Len(c)
    BY <1>2
  <2>2. \A j \in Reach(c, i) : j \in 1 .. Len(c)
    BY <2>1, ReachFacts
  <2>3. \A j \in Reach(c, i) : Sets(c[j]) \cap {c[i].result, c[i].arg1} = {}
    BY <2>1 DEF CopiesHold
  <2> QED BY <2>2, <2>3
<1>4. StraightLine(d) /\ ~IsConstant(var)
  BY <1>1, PropagatedKeeps, OperandFacts
<1> DEFINE I == {s \in State : s.next \in Reach(c, i) => Content(s, var) = Content(s, by)}
<1>5. Invariant(I, c)
  <2>1. ASSUME NEW input \in Inputs PROVE Started(input, 1) \in I
    <3>1. 1 \notin Reach(c, i)
      BY <1>2, ReachFacts
    <3> QED BY <3>1, StartFacts
  <2>2. ASSUME NEW s \in State, s \in I, ~Ended(s) PROVE CodeStep(c, s) \in I
    <3> PICK u : u = CodeStep(c, s)
      OBVIOUS
    <3>1. u \in State /\ s.next \in Nat /\ s.next # 0
      BY StepFacts, StateFacts DEF Places
    <3>2. CASE s.next > Len(c)
      <4>1. u.next = s.next /\ \A a : Content(u, a) = Content(s, a)
        BY <3>2, StepFacts
      <4> QED BY <2>2, <3>1, <4>1
    <3>3. CASE s.next \in 1 .. Len(c) /\ s.next + 1 \notin Reach(c, i)
      <4>1. u.next = s.next + 1
        BY <3>3, StepFacts, StraightTo
      <4> QED BY <3>1, <3>3, <4>1
    <3>4. CASE s.next \in 1 .. Len(c) /\ s.next + 1 \in Reach(c, i)
      <4> PICK e : e = Does(c[s.next], s)
        OBVIOUS
      <4>1. /\ \A a : a \notin Written(e) \/ IsConstant(a) => Content(u, a) = Content(s, a)
            /\ \A a : e.kind = "set" /\ a = e.var /\ ~IsConstant(a) => Content(u, a) = e.n
        BY <3>4, StepFacts
      <4>2. Content(u, var) = Content(u, by)
        <5>1. CASE s.next = i
          <6>1. e.kind = "set" /\ e.var = var /\ e.n = Content(s, by) /\ Written(e) = {var}
            BY <1>2, <5>1, DoesFacts
          <6>2. Content(u, var) = Content(s, by)
            BY <1>4, <4>1, <6>1
          <6> QED BY <4>1, <6>1, <6>2
        <5>2. CASE s.next \in Reach(c, i)
          <6>1. Written(e) \subseteq Sets(c[s.next])
            BY <1>2, <3>4, DoesFacts
          <6>2. Content(u, var) = Content(s, var) /\ Content(u, by) = Content(s, by)
            BY <1>3, <4>1, <5>2, <6>1
          <6> QED BY <2>2, <5>2, <6>2
        <5> QED BY <3>1, <3>4, <5>1, <5>2, ReachFacts
      <4> QED BY <3>1, <4>2
    <3> QED BY <1>2, <3>1, <3>2, <3>3, <3>4
  <2> HIDE DEF I
  <2> QED BY <2>1, <2>2 DEF Invariant
<1>6. AlikeIn(I, c, d)
  <2> SUFFICES ASSUME NEW s \in State, s \in I, s.next \in 1 .. Len(c)
               PROVE  Does(c[s.next], s) = Does(d[s.next], s) /\ To(c, s) = To(d, s)
    BY <1>1 DEF AlikeIn
  <2>1. To(c, s) = To(d, s)
    BY <1>1, <1>4, StraightTo
  <2>2. CASE s.next \notin Reach(c, i)
    BY <1>1, <2>1, <2>2
  <2>3. CASE s.next \in Reach(c, i)
    <3>1. var \notin Sets(c[s.next]) /\ Content(s, var) = Content(s, by) /\ d[s.next] = PutIn(c[s.next], var, by)
      BY <1>1, <1>3, <2>3
    <3>2. Does(PutIn(c[s.next], var, by), s) = Does(c[s.next], s)
      BY <1>1, <1>2, <3>1, PutInMeans
    <3> QED BY <2>1, <3>1, <3>2
  <2> QED BY <2>2, <2>3
<1> HIDE DEF I
<1> QED BY <1>1, <1>5, <1>6, OneForOne

(* A repeated computation put in the place of its result.                      *)
LEMMA SharedKeeps ==
  ASSUME NEW c \in Seq(Instr), StraightLine(c), ExpressionsHold(c),
         NEW i \in 1 .. Len(c), c[i].op \in Arithmetic, Same(c, i) # {}
  PROVE  StraightLine(Shared(c, i)) /\ ExpressionsHold(Shared(c, i))
<1> PICK d : d = Shared(c, i)
  OBVIOUS
<1>1. /\ d \in Seq(Instr) /\ Len(d) = Len(c) /\ \A j \in 1 .. Len(c) : j # i => d[j] = c[j]
      /\ d[i].op = "ASSIGN" /\ d[i].result = c[i].result
  BY SharedFacts
<1>2. DOMAIN c = 1 .. Len(c) /\ DOMAIN d = 1 .. Len(c) /\ Len(c) \in Nat
  BY <1>1, CodeFacts
<1>3. StraightLine(d)
  BY <1>1, <1>2 DEF StraightLine
<1>4. \A j \in 1 .. Len(c) : Sets(d[j]) = Sets(c[j])
  BY <1>1, OpsDiffer DEF Sets
<1>5. ASSUME NEW j \in 1 .. Len(c), NEW k \in 1 .. Len(c), j < k, d[j].op \in Arithmetic,
             <<d[j].op, d[j].arg1, d[j].arg2>> = <<d[k].op, d[k].arg1, d[k].arg2>>
      PROVE  /\ d[j].result \notin {d[j].arg1, d[j].arg2}
             /\ \A m \in j + 1 .. k - 1 : Sets(d[m]) \cap {d[j].result, d[j].arg1, d[j].arg2} = {}
  <2>1. d[j] = c[j] /\ d[k] = c[k]
    BY <1>1, <1>5, OpsDiffer
  <2>2. \A m \in j + 1 .. k - 1 : m \in 1 .. Len(c)
    BY <1>2
  <2>3. /\ c[j].result \notin {c[j].arg1, c[j].arg2}
        /\ \A m \in j + 1 .. k - 1 : Sets(c[m]) \cap {c[j].result, c[j].arg1, c[j].arg2} = {}
    BY <1>2, <1>5, <2>1 DEF ExpressionsHold
  <2> QED BY <1>4, <2>1, <2>2, <2>3
<1>6. ExpressionsHold(d)
  BY <1>2, <1>5 DEF ExpressionsHold
<1> QED BY <1>3, <1>6

LEMMA SharedMeans ==
  ASSUME NEW c \in Seq(Instr), StraightLine(c), ExpressionsHold(c),
         NEW i \in 1 .. Len(c), c[i].op \in Arithmetic, Same(c, i) # {}
  PROVE  SameAsCode(c, Shared(c, i))
<1> PICK d, f : d = Shared(c, i) /\ f = First(c, i)
  OBVIOUS
<1>1. /\ d \in Seq(Instr) /\ Len(d) = Len(c) /\ \A j \in 1 .. Len(c) : j # i => d[j] = c[j]
      /\ d[i].op = "ASSIGN" /\ d[i].result = c[i].result /\ d[i].arg1 = c[f].result
      /\ f \in 1 .. i - 1 /\ f \in 1 .. Len(c)
      /\ c[f].op = c[i].op /\ c[f].arg1 = c[i].arg1 /\ c[f].arg2 = c[i].arg2
  BY SharedFacts
<1>2. DOMAIN c = 1 .. Len(c) /\ Len(c) \in Nat /\ \A j \in 1 .. Len(c) : c[j] \in Instr
  BY CodeFacts
<1> PICK op, x, y, z : op = c[i].op /\ x = c[i].arg1 /\ y = c[i].arg2 /\ z = c[f].result
  OBVIOUS
<1>3. z \notin {x, y} /\ \A k \in f + 1 .. i - 1 : Sets(c[k]) \cap {z, x, y} = {}
  <2>1. f \in DOMAIN c /\ i \in DOMAIN c /\ f < i
    BY <1>1, <1>2
  <2>2. <<c[f].op, c[f].arg1, c[f].arg2>> = <<c[i].op, c[i].arg1, c[i].arg2>> /\ c[f].op \in Arithmetic
    BY <1>1
  <2>3. /\ c[f].result \notin {c[f].arg1, c[f].arg2}
        /\ \A k \in f + 1 .. i - 1 : Sets(c[k]) \cap {c[f].result, c[f].arg1, c[f].arg2} = {}
    BY <2>1, <2>2 DEF ExpressionsHold
  <2> QED BY <1>1, <2>3
<1>4. StraightLine(d) /\ ~IsConstant(z) /\ \A j \in f + 1 .. i - 1 : j \in 1 .. Len(c)
  <2>1. z \in Result
    BY <1>1, <1>2, InstrFacts
  <2> QED BY <1>1, <1>2, <2>1, SharedKeeps, OperandFacts
<1> DEFINE I == {s \in State : s.next \in f + 1 .. i => Content(s, z) = Compute(op, Content(s, x), Content(s, y))}
<1>5. Invariant(I, c)
  <2>1. ASSUME NEW input \in Inputs PROVE Started(input, 1) \in I
    <3>1. 1 \notin f + 1 .. i
      BY <1>1, <1>2
    <3> QED BY <3>1, StartFacts
  <2>2. ASSUME NEW s \in State, s \in I, ~Ended(s) PROVE CodeStep(c, s) \in I
    <3> PICK u : u = CodeStep(c, s)
      OBVIOUS
    <3>1. u \in State /\ s.next \in Nat /\ s.next # 0
      BY StepFacts, StateFacts DEF Places
    <3>2. CASE s.next > Len(c)
      <4>1. u.next = s.next /\ \A a : Content(u, a) = Content(s, a)
        BY <3>2, StepFacts
      <4> QED BY <2>2, <3>1, <4>1
    <3>3. CASE s.next \in 1 .. Len(c) /\ s.next + 1 \notin f + 1 .. i
      <4>1. u.next = s.next + 1
        BY <3>3, StepFacts, StraightTo
      <4> QED BY <3>1, <3>3, <4>1
    <3>4. CASE s.next \in 1 .. Len(c) /\ s.next + 1 \in f + 1 .. i
      <4> PICK e : e = Does(c[s.next], s)
        OBVIOUS
      <4>1. /\ \A a : a \notin Written(e) \/ IsConstant(a) => Content(u, a) = Content(s, a)
            /\ \A a : e.kind = "set" /\ a = e.var /\ ~IsConstant(a) => Content(u, a) = e.n
        BY <3>4, StepFacts
      <4>2. Content(u, z) = Compute(op, Content(u, x), Content(u, y))
        <5>1. CASE s.next = f
          <6>1. /\ e.kind = "set" /\ e.var = z /\ e.n = Compute(op, Content(s, x), Content(s, y))
                /\ Written(e) = {z}
            BY <1>1, <1>2, <5>1, DoesFacts
          <6>2. Content(u, z) = Compute(op, Content(s, x), Content(s, y))
            BY <1>4, <4>1, <6>1
          <6>3. Content(u, x) = Content(s, x) /\ Content(u, y) = Content(s, y)
            BY <1>3, <4>1, <6>1
          <6> QED BY <6>2, <6>3
        <5>2. CASE s.next # f
          <6>0. s.next \in f + 1 .. i /\ s.next \in f + 1 .. i - 1
            BY <1>1, <3>1, <3>4, <5>2
          <6>1. Written(e) \subseteq Sets(c[s.next])
            BY <1>2, <3>4, DoesFacts
          <6>2. Content(u, z) = Content(s, z) /\ Content(u, x) = Content(s, x) /\ Content(u, y) = Content(s, y)
            BY <1>3, <4>1, <6>0, <6>1
          <6> QED BY <2>2, <6>0, <6>2
        <5> QED BY <5>1, <5>2
      <4> QED BY <3>1, <4>2
    <3> QED BY <1>2, <3>1, <3>2, <3>3, <3>4
  <2> HIDE DEF I
  <2> QED BY <2>1, <2>2 DEF Invariant
<1>6. AlikeIn(I, c, d)
  <2> SUFFICES ASSUME NEW s \in State, s \in I, s.next \in 1 .. Len(c)
               PROVE  Does(c[s.next], s) = Does(d[s.next], s) /\ To(c, s) = To(d, s)
    BY <1>1 DEF AlikeIn
  <2>1. To(c, s) = To(d, s)
    BY <1>1, <1>4, StraightTo
  <2>2. CASE s.next # i
    BY <1>1, <2>1, <2>2
  <2>3. CASE s.next = i
    <3>1. i \in f + 1 .. i
      BY <1>1, <1>2
    <3>2. Content(s, z) = Compute(op, Content(s, x), Content(s, y))
      BY <2>3, <3>1
    <3>3. Does(c[i], s) = [kind |-> "set", var |-> c[i].result, n |-> Compute(op, Content(s, x), Content(s, y))]
      BY DEF Does
    <3>4. Does(d[i], s) = [kind |-> "set", var |-> c[i].result, n |-> Content(s, z)]
      BY <1>1, OpsDiffer DEF Does
    <3> QED BY <2>1, <2>3, <3>2, <3>3, <3>4
  <2> QED BY <2>2, <2>3
<1> HIDE DEF I
<1> QED BY <1>1, <1>5, <1>6, OneForOne

\* Instruction after instruction the code keeps what it does, and what that needs.
LEMMA SameAgain ==
  ASSUME NEW a, NEW b, NEW c, SameAsCode(a, b), SameAsCode(b, c)
  PROVE  SameAsCode(a, c)
<1> SUFFICES ASSUME NEW input \in Inputs, Ended(RunCode(a, input, 2))
             PROVE  Behaviour(RunCode(c, input, 2)) = Behaviour(RunCode(a, input, 2))
  BY DEF SameAsCode
<1>1. Behaviour(RunCode(b, input, 2)) = Behaviour(RunCode(a, input, 2))
  BY DEF SameAsCode
<1>2. Ended(RunCode(b, input, 2))
  BY <1>1 DEF Ended, Behaviour
<1> QED BY <1>1, <1>2 DEF SameAsCode

Needs(pass, c) == StraightLine(c) /\ IF pass = "common" THEN ExpressionsHold(c) ELSE CopiesHold(c)

LEMMA WalksMean ==
  ASSUME NEW pass \in Walks, NEW c \in Seq(Instr), Needs(pass, c), NEW g, Walk(g, pass, c)
  PROVE  SameAsCode(c, g[Len(c)])
<1> PICK n : n = Len(c)
  OBVIOUS
<1>0. n \in Nat
  BY LenProperties
<1>1. ASSUME NEW b \in Seq(Instr), Len(b) = n, Needs(pass, b), NEW i \in 1 .. n
      PROVE  SameAsCode(b, Change(pass, b, i)) /\ Needs(pass, Change(pass, b, i))
  <2>0. SameAsCode(b, b)
    BY DEF SameAsCode
  <2>1. CASE pass = "common"
    <3>1. StraightLine(b) /\ ExpressionsHold(b)
      BY <1>1, <2>1 DEF Needs
    <3>2. Change(pass, b, i) = IF b[i].op \in Arithmetic /\ Same(b, i) # {} THEN Shared(b, i) ELSE b
      BY <2>1 DEF Change
    <3>3. CASE b[i].op \in Arithmetic /\ Same(b, i) # {}
      <4>1. SameAsCode(b, Shared(b, i)) /\ StraightLine(Shared(b, i)) /\ ExpressionsHold(Shared(b, i))
        BY <1>1, <3>1, <3>3, SharedMeans, SharedKeeps
      <4> QED BY <2>1, <3>2, <3>3, <4>1 DEF Needs
    <3> QED BY <1>1, <2>0, <3>2, <3>3
  <2>2. CASE pass # "common"
    <3>1. StraightLine(b) /\ CopiesHold(b)
      BY <1>1, <2>2 DEF Needs
    <3>2. Change(pass, b, i) = b \/ (b[i].op = "ASSIGN" /\ Change(pass, b, i) = Propagated(b, i))
      BY <2>2 DEF Change, Walks
    <3>3. CASE b[i].op = "ASSIGN" /\ Change(pass, b, i) = Propagated(b, i)
      <4>1. SameAsCode(b, Propagated(b, i)) /\ StraightLine(Propagated(b, i)) /\ CopiesHold(Propagated(b, i))
        BY <1>1, <3>1, <3>3, PropagatedMeans, PropagatedKeeps
      <4> QED BY <2>2, <3>3, <4>1 DEF Needs
    <3> QED BY <1>1, <2>0, <3>2, <3>3
  <2> QED BY <2>1, <2>2
<1> DEFINE T == {i \in Nat : i <= n => SameAsCode(c, g[i]) /\ Needs(pass, g[i])}
<1>2. 0 \in T
  <2>1. g[0] = c
    BY DEF Walk
  <2> QED BY <2>1 DEF SameAsCode
<1>3. ASSUME NEW i \in Nat, i \in T PROVE i + 1 \in T
  <2> SUFFICES ASSUME i + 1 <= n PROVE SameAsCode(c, g[i + 1]) /\ Needs(pass, g[i + 1])
    OBVIOUS
  <2>1. i + 1 \in 1 .. n /\ i \in 0 .. n /\ (i + 1) - 1 = i
    BY <1>0
  <2>2. g[i] \in Seq(Instr) /\ Len(g[i]) = n
    BY <2>1, WalkTyped
  <2>3. g[i + 1] = Change(pass, g[i], i + 1)
    BY <2>1 DEF Walk
  <2>4. SameAsCode(g[i], g[i + 1]) /\ Needs(pass, g[i + 1])
    BY <1>1, <1>3, <2>1, <2>2, <2>3
  <2> QED BY <1>3, <2>1, <2>4, SameAgain
<1>4. Nat \subseteq T
  <2> HIDE DEF T
  <2> QED BY <1>2, <1>3, NaturalInduction
<1> QED BY <1>0, <1>4
-----------------------------------------------------------------------------
(* Assignments taken out.  What is not used later need not be the same.        *)
LEMMA LikeMore ==
  ASSUME NEW s, NEW t, NEW X, NEW Y, Like(s, t, X), X \cap Operand \subseteq Y
  PROVE  Like(s, t, Y)
BY DEF Like

LEMMA LikeBoth ==
  ASSUME NEW s, NEW t, NEW u, NEW X, NEW Y, Like(s, t, X), Like(t, u, Y)
  PROVE  Like(s, u, X \cup Y)
BY DEF Like

LEMMA LikeTurned == ASSUME NEW s, NEW t, NEW X, Like(s, t, X) PROVE Like(t, s, X)
BY DEF Like

\* An assignment changes what it assigns, a jump nothing.
LEMMA AssignLike ==
  ASSUME NEW c \in Seq(Instr), NEW s \in State, s.next \in 1 .. Len(c), c[s.next].op \in {"ASSIGN", "GOTO"}
  PROVE  /\ Like(CodeStep(c, s), s, Written(Does(c[s.next], s)))
         /\ c[s.next].op = "ASSIGN" => Written(Does(c[s.next], s)) = {c[s.next].result}
         /\ c[s.next].op = "GOTO" => Written(Does(c[s.next], s)) = {}
<1> PICK e, g : e = Does(c[s.next], s) /\ g = At(s, To(c, s))
  OBVIOUS
<1>1. /\ e \in Effect /\ g \in State /\ c[s.next] \in Instr
      /\ g.out = s.out /\ g.input = s.input /\ g.exit = s.exit /\ \A a : Content(g, a) = Content(s, a)
  BY CodeFacts, DoesFacts, ToFacts, AtFacts
<1>2. /\ c[s.next].op = "ASSIGN" => e.kind = "set" /\ Written(e) = {c[s.next].result}
      /\ c[s.next].op = "GOTO" => e.kind = "go" /\ Written(e) = {}
  BY <1>1, DoesFacts
<1> PICK u : u = Act(e, g)
  OBVIOUS
<1>3. u.out = g.out /\ u.input = g.input /\ u.exit = g.exit
  <2>1. CASE e.kind = "set"
    <3>1. u = Set(g, e.var, e.n) /\ e.var \in Operand /\ e.n \in Int
      BY <1>1, <2>1 DEF Act, Effect
    <3> QED BY <1>1, <3>1, SetFacts
  <2>2. CASE e.kind = "go"
    BY <2>2 DEF Act
  <2> QED BY <1>2, <2>1, <2>2
<1>4. \A a : a \notin Written(e) => Content(u, a) = Content(g, a)
  BY <1>1, ActFacts
<1>5. CodeStep(c, s) = u
  BY StepIs
<1> QED BY <1>1, <1>2, <1>3, <1>4, <1>5 DEF Like

Unused(c, p) == {a \in Operand : \A j \in p .. Len(c) : ~Uses(c[j], a)}

LEMMA UnusedFacts ==
  ASSUME NEW c \in Seq(Instr), NEW p \in 1 .. Len(c)
  PROVE  /\ c[p].arg1 \notin Unused(c, p) /\ c[p].arg2 \notin Unused(c, p)
         /\ \A q \in p .. Len(c) + 1 : Unused(c, p) \subseteq Unused(c, q)
         /\ Dead(c, p) => c[p].op = "ASSIGN" /\ c[p].result \in Unused(c, p + 1)
<1>1. Len(c) \in Nat /\ p \in Nat /\ c[p] \in Instr /\ c[p].result \in Operand
  BY CodeFacts, InstrFacts
<1>2. p \in p .. Len(c) /\ Uses(c[p], c[p].arg1) /\ Uses(c[p], c[p].arg2)
  BY <1>1 DEF Uses
<1>3. \A q \in p .. Len(c) + 1 : \A j \in q .. Len(c) : j \in p .. Len(c)
  BY <1>1
<1>4. Dead(c, p) => c[p].op = "ASSIGN" /\ \A j \in p + 1 .. Len(c) : ~Uses(c[j], c[p].result)
  BY DEF Dead, UsedLater
<1> QED BY <1>1, <1>2, <1>3, <1>4 DEF Unused

\* A jump goes to the same label, or to what is next of that which stays.
LEMMA ThinLandings ==
  ASSUME NEW c \in Seq(Instr), NEW d \in Seq(Instr), NEW at, Thins(c, d, at),
         NEW p \in 1 .. Len(c), NEW target
  PROVE  /\ Landing(c, target, p + 1) \in 1 .. Len(c) + 1
         /\ Landing(d, target, at[p] + 1) = at[Landing(c, target, p + 1) - 1] + 1
<1>1. Len(c) \in Nat /\ Len(d) \in Nat
  BY CodeFacts
<1>2. /\ \A m \in 1 .. Len(d) : \E i \in 1 .. Len(c) : ~Dead(c, i) /\ at[i] = m
      /\ \A i \in 1 .. Len(c) : ~Dead(c, i) => at[i] = at[i - 1] + 1 /\ d[at[i]] = c[i]
      /\ \A i \in 1 .. Len(c) : at[i] \in 0 .. Len(d) /\ at[i - 1] \in 0 .. Len(d)
      /\ \A i, j \in 1 .. Len(c) : i <= j => at[i] <= at[j]
  <2>1. \A i \in 1 .. Len(c) : i \in 0 .. Len(c) /\ i - 1 \in 0 .. Len(c)
    BY <1>1
  <2> QED BY <2>1 DEF Thins
<1>3. \A m \in 1 .. Len(d) : \E i \in 1 .. Len(c) : at[i] = m /\ d[m] = c[i]
  BY <1>2
<1>4. CASE ~Labels(c, target)
  <2>1. ~Labels(d, target)
    BY <1>3, <1>4, CodeFacts DEF Labels
  <2>2. Landing(c, target, p + 1) = p + 1 /\ Landing(d, target, at[p] + 1) = at[p] + 1
    <3>1. \A j \in 1 .. Len(c) : ~(c[j].op = "LABEL" /\ c[j].result = target)
      BY <1>4, CodeFacts DEF Labels
    <3>2. \A j \in 1 .. Len(d) : ~(d[j].op = "LABEL" /\ d[j].result = target)
      BY <2>1, CodeFacts DEF Labels
    <3> QED BY <3>1, <3>2, LandingFacts
  <2> PICK q : q = Landing(c, target, p + 1)
    OBVIOUS
  <2>3. q \in 1 .. Len(c) + 1 /\ q - 1 = p
    BY <1>1, <2>2
  <2> QED BY <2>2, <2>3
<1>5. CASE Labels(c, target)
  <2>1. PICK q \in 1 .. Len(c) : /\ c[q].op = "LABEL" /\ c[q].result = target
                                 /\ \A j \in 1 .. Len(c) : c[j].op = "LABEL" /\ c[j].result = target => q <= j
                                 /\ Landing(c, target, p + 1) = q
    BY <1>5, LandingFacts
  <2>2. ~Dead(c, q)
    BY <2>1 DEF Dead
  <2>3. at[q] = at[q - 1] + 1 /\ d[at[q]] = c[q] /\ at[q] \in 1 .. Len(d)
    BY <1>1, <1>2, <2>2
  <2>4. \A m \in 1 .. Len(d) : d[m].op = "LABEL" /\ d[m].result = target => at[q] <= m
    <3> TAKE m \in 1 .. Len(d)
    <3>1. PICK i \in 1 .. Len(c) : at[i] = m /\ d[m] = c[i]
      BY <1>3
    <3>2. q <= i => at[q] <= at[i]
      BY <1>2
    <3> QED BY <2>1, <3>1, <3>2
  <2>5. Labels(d, target)
    BY <2>1, <2>3, CodeFacts DEF Labels
  <2>6. Landing(d, target, at[p] + 1) = at[q]
    <3>1. PICK m \in 1 .. Len(d) : /\ d[m].op = "LABEL" /\ d[m].result = target
                                   /\ \A j \in 1 .. Len(d) : d[j].op = "LABEL" /\ d[j].result = target => m <= j
                                   /\ Landing(d, target, at[p] + 1) = m
      BY <2>5, LandingFacts
    <3>2. at[q] <= m /\ m <= at[q] /\ m \in Nat /\ at[q] \in Nat
      BY <1>1, <2>1, <2>3, <2>4, <3>1
    <3> QED BY <3>1, <3>2
  <2> QED BY <1>1, <2>1, <2>3, <2>6
<1> QED BY <1>4, <1>5

\* No jump of such code goes back.
LEMMA GoesOn ==
  ASSUME NEW c \in Seq(Instr), NoLoop(c), NEW s \in State, s.next \in 1 .. Len(c)
  PROVE  To(c, s) \in s.next + 1 .. Len(c) + 1
<1>1. DOMAIN c = 1 .. Len(c) /\ Len(c) \in Nat
  BY CodeFacts
<1>2. \A target \in {c[s.next].arg1, c[s.next].arg2} : Landing(c, target, s.next + 1) \in s.next + 1 .. Len(c) + 1
  <2> TAKE target \in {c[s.next].arg1, c[s.next].arg2}
  <2>1. \A j \in 1 .. Len(c) : c[j].op = "LABEL" /\ c[j].result = target => s.next < j
    BY <1>1 DEF NoLoop
  <2>2. \/ Landing(c, target, s.next + 1) = s.next + 1
        \/ \E i \in 1 .. Len(c) : c[i].op = "LABEL" /\ c[i].result = target /\ Landing(c, target, s.next + 1) = i
    BY LandingFacts
  <2> QED BY <1>1, <2>1, <2>2
<1>3. s.next + 1 \in s.next + 1 .. Len(c) + 1
  BY <1>1
<1> QED BY <1>2, <1>3 DEF To

LEMMA DeadMeans ==
  ASSUME NEW c \in Seq(Instr), NoLoop(c)
  PROVE  SameAsCode(c, DeadCodeElimination(c))
<1> PICK d : d = DeadCodeElimination(c)
  OBVIOUS
<1> PICK n : n = Len(c)
  OBVIOUS
<1>1. PICK at : Thins(c, d, at)
  BY DeadCodeFacts
<1>2. d \in Seq(Instr) /\ n \in Nat /\ Len(d) \in Nat
  BY DeadCodeFacts, CodeFacts
<1>3. /\ at[0] = 0 /\ at[n] = Len(d)
      /\ \A i \in 1 .. n : /\ at[i] \in 0 .. Len(d) /\ at[i - 1] \in 0 .. Len(d)
                           /\ IF Dead(c, i) THEN at[i] = at[i - 1] ELSE at[i] = at[i - 1] + 1 /\ d[at[i]] = c[i]
  <2>1. \A i \in 1 .. n : i \in 0 .. n /\ i - 1 \in 0 .. n
    BY <1>2
  <2> QED BY <1>1, <2>1 DEF Thins
<1> DEFINE R == {st \in State \X State : /\ st[1].next \in 1 .. n + 1
                                         /\ st[2].next = at[st[1].next - 1] + 1
                                         /\ Like(st[1], st[2], Unused(c, st[1].next))}
<1>4. ASSUME NEW input \in Inputs PROVE <<Started(input, 1), Started(input, 1)>> \in R
  <2> PICK s : s = Started(input, 1)
    OBVIOUS
  <2>1. s \in State /\ s.next = 1
    BY StartFacts
  <2>2. s.next \in 1 .. n + 1 /\ s.next - 1 = 0 /\ s.next = at[s.next - 1] + 1
    BY <1>2, <1>3, <2>1
  <2>3. Like(s, s, Unused(c, s.next))
    BY DEF Like
  <2> QED BY <2>1, <2>2, <2>3
<1>5. ASSUME NEW s \in State, NEW t \in State, <<s, t>> \in R, ~Ended(s)
      PROVE  <<CodeStep(c, s), t>> \in R \/ <<CodeStep(c, s), CodeStep(d, t)>> \in R
  <2> PICK p : p = s.next
    OBVIOUS
  <2> PICK u, w : u = CodeStep(c, s) /\ w = CodeStep(d, t)
    OBVIOUS
  <2>1. p \in 1 .. n + 1 /\ t.next = at[p - 1] + 1 /\ Like(s, t, Unused(c, p)) /\ u \in State /\ w \in State
    BY <1>2, <1>5, StepFacts
  <2>2. CASE p = n + 1
    <3>1. t.next = Len(d) + 1 /\ s.next > Len(c) /\ t.next > Len(d)
      BY <1>2, <1>3, <2>1, <2>2
    <3>2. Like(u, w, Unused(c, p))
      BY <1>2, <2>1, <3>1, EndsAlike
    <3>3. u.next = p /\ w.next = t.next
      BY <1>2, <3>1, StepFacts
    <3> QED BY <2>1, <3>2, <3>3
  <2>3. CASE p \in 1 .. n /\ Dead(c, p)
    <3>1. c[p].op = "ASSIGN" /\ c[p].result \in Unused(c, p + 1) /\ Unused(c, p) \subseteq Unused(c, p + 1)
      BY <1>2, <2>3, UnusedFacts
    <3>2. Like(u, s, {c[p].result})
      BY <2>3, <3>1, AssignLike
    <3>3. Like(u, t, {c[p].result} \cup Unused(c, p))
      BY <2>1, <3>2, LikeBoth
    <3>4. Like(u, t, Unused(c, p + 1))
      BY <3>1, <3>3, LikeMore
    <3>5. u.next = p + 1
      BY <2>3, <3>1, StepFacts DEF To
    <3>6. p + 1 \in 1 .. n + 1 /\ (p + 1) - 1 = p /\ t.next = at[p] + 1
      BY <1>2, <1>3, <2>1, <2>3
    <3> QED BY <2>1, <3>4, <3>5, <3>6
  <2>4. CASE p \in 1 .. n /\ ~Dead(c, p)
    <3> PICK in : in = c[p]
      OBVIOUS
    <3>1. in \in Instr /\ in.arg1 \in Operand /\ in.arg2 \in Operand
      BY <2>4, CodeFacts, InstrFacts
    <3>2. t.next = at[p] /\ d[t.next] = in /\ at[p] \in 1 .. Len(d)
      BY <1>2, <1>3, <2>1, <2>4
    <3>3. Content(s, in.arg1) = Content(t, in.arg1) /\ Content(s, in.arg2) = Content(t, in.arg2)
      <4>1. in.arg1 \notin Unused(c, p) /\ in.arg2 \notin Unused(c, p)
        BY <2>4, UnusedFacts
      <4> QED BY <2>1, <3>1, <4>1 DEF Like
    <3>4. Does(in, s) = Does(in, t)
      BY <3>1, <3>3, DoesAlike
    <3>5. Like(u, w, Unused(c, p) \ Written(Does(in, s)))
      BY <1>2, <2>1, <2>4, <3>2, <3>4, StepsAlike
    <3> PICK q : q = To(c, s)
      OBVIOUS
    <3>6. q \in p + 1 .. n + 1
      BY <2>4, GoesOn
    <3>7. q \in 1 .. n + 1 /\ q \in p .. Len(c) + 1
      BY <1>2, <2>4, <3>6
    <3>8. Like(u, w, Unused(c, q))
      <4>1. Unused(c, p) \subseteq Unused(c, q)
        BY <2>4, <3>7, UnusedFacts
      <4> QED BY <3>5, <4>1, LikeMore
    <3>9. To(d, t) = at[q - 1] + 1
      <4>1. \A target : Landing(d, target, at[p] + 1) = at[Landing(c, target, p + 1) - 1] + 1
        BY <1>1, <1>2, <2>4, ThinLandings
      <4>2. (p + 1) - 1 = p
        BY <1>2, <2>4
      <4> QED BY <3>2, <3>3, <4>1, <4>2 DEF To
    <3>10. u.next = q /\ w.next = To(d, t)
      BY <1>2, <2>4, <3>2, StepFacts
    <3> QED BY <2>1, <3>7, <3>8, <3>9, <3>10
  <2>5. p \in 1 .. n \/ p = n + 1
    BY <1>2, <2>1
  <2> QED BY <2>2, <2>3, <2>4, <2>5
<1>6. ASSUME NEW s \in State, NEW t \in State, <<s, t>> \in R PROVE s.out = t.out /\ s.exit = t.exit
  BY <1>6 DEF Like
<1>7. Simulates(R, c, d)
  <2> HIDE DEF R
  <2> QED BY <1>4, <1>5, <1>6 DEF Simulates
<1> QED BY <1>2, <1>7, Simulation

(* An assignment that the next one overwrites, turned into a jump to nowhere.  *)
PeepholeKeeps(c) == \A i \in DOMAIN c : Overwritten(c, i) => c[i].result # c[i + 1].arg1 /\ ~Labels(c, c[i].result)
\* What is not the same at p: what the instruction before it does not assign any more.
Stale(c, p) == IF p > 1 /\ Overwritten(c, p - 1) THEN {c[p - 1].result} ELSE {}

LEMMA OverwrittenFacts ==
  ASSUME NEW c \in Seq(Instr), NEW p \in 1 .. Len(c)
  PROVE  /\ Overwritten(c, p) => /\ p + 1 \in 1 .. Len(c) /\ c[p].op = "ASSIGN" /\ Stale(c, p + 1) = {c[p].result}
                                 /\ c[p + 1].op = "ASSIGN" /\ c[p + 1].result = c[p].result
         /\ ~Overwritten(c, p) => Stale(c, p + 1) = {}
         /\ c[p].op = "LABEL" => ~Overwritten(c, p) /\ Stale(c, p) = {}
         /\ Stale(c, p) = {} \/ /\ Stale(c, p) = {c[p].result} /\ c[p].op = "ASSIGN"
                                /\ PeepholeKeeps(c) => c[p].arg1 # c[p].result
<1>1. Len(c) \in Nat /\ p \in Nat /\ DOMAIN c = 1 .. Len(c) /\ (p + 1) - 1 = p /\ p + 1 > 1
  BY CodeFacts
<1>2. \A i \in 1 .. Len(c) : Overwritten(c, i) => /\ i + 1 \in 1 .. Len(c) /\ c[i].op = "ASSIGN"
                                                 /\ c[i + 1].op = "ASSIGN" /\ c[i + 1].result = c[i].result
  BY <1>1 DEF Overwritten, Assigns
<1>3. /\ Overwritten(c, p) => Stale(c, p + 1) = {c[p].result}
      /\ ~Overwritten(c, p) => Stale(c, p + 1) = {}
  BY <1>1 DEF Stale
<1>4. CASE p > 1 /\ Overwritten(c, p - 1)
  <2>1. p - 1 \in 1 .. Len(c) /\ (p - 1) + 1 = p
    BY <1>1, <1>4
  <2>2. c[p].op = "ASSIGN" /\ c[p].result = c[p - 1].result
    BY <1>2, <1>4, <2>1
  <2>3. PeepholeKeeps(c) => c[p - 1].result # c[p].arg1
    BY <1>1, <1>4, <2>1 DEF PeepholeKeeps
  <2>4. Stale(c, p) = {c[p].result}
    BY <1>4, <2>2 DEF Stale
  <2> QED BY <1>2, <1>3, <2>2, <2>3, <2>4
<1>5. CASE ~(p > 1 /\ Overwritten(c, p - 1))
  <2>1. Stale(c, p) = {}
    BY <1>5 DEF Stale
  <2>2. c[p].op = "LABEL" => ~Overwritten(c, p)
    BY DEF Overwritten
  <2> QED BY <1>2, <1>3, <2>1, <2>2
<1> QED BY <1>4, <1>5

LEMMA BegunLandings ==
  ASSUME NEW c \in Seq(Instr), NEW d \in Seq(Instr), NEW k, Begins(c, d, k), NEW p \in k .. Len(c), NEW target
  PROVE  /\ Labels(d, target) => Labels(c, target)
         /\ Landing(c, target, p + 1) \in k .. Len(c) + 1
         /\ Landing(d, target, p + 1 - k + 1) = Landing(c, target, p + 1) - k + 1
<1>1. Len(c) \in Nat /\ k \in 1 .. Len(c) + 1 /\ k \in Nat /\ Len(d) = Len(c) + 1 - k /\ Len(d) \in Nat
  BY CodeFacts DEF Begins
<1> DEFINE Is(e, i) == e[i].op = "LABEL" /\ e[i].result = target
<1>2. \A i \in k .. Len(c) : i + 1 - k \in 1 .. Len(d) /\ (Is(d, i + 1 - k) <=> Is(c, i))
  <2> TAKE i \in k .. Len(c)
  <2>1. i \in 1 .. Len(c) /\ d[i + 1 - k] = Mark(c, i) /\ i + 1 - k \in 1 .. Len(d)
    BY <1>1 DEF Begins
  <2>2. CASE Overwritten(c, i)
    BY <2>1, <2>2, MarkFacts, OverwrittenFacts
  <2>3. CASE ~Overwritten(c, i)
    BY <2>1, <2>3, MarkFacts
  <2> QED BY <2>1, <2>2, <2>3
<1>3. \A m \in 1 .. Len(d) : m + k - 1 \in k .. Len(c) /\ (Is(d, m) <=> Is(c, m + k - 1))
  <2> TAKE m \in 1 .. Len(d)
  <2>1. m + k - 1 \in k .. Len(c) /\ (m + k - 1) + 1 - k = m
    BY <1>1
  <2> HIDE DEF Is
  <2> QED BY <1>2, <2>1
<1>4. \A i \in 1 .. Len(c) : Is(c, i) => i \in k .. Len(c)
  <2> SUFFICES ASSUME NEW i \in 1 .. Len(c), Is(c, i), ~(i \in k .. Len(c)) PROVE FALSE
    OBVIOUS
  <2>1. i \in 1 .. k - 1
    BY <1>1
  <2>2. Overwritten(c, i)
    BY <2>1 DEF Begins
  <2> QED BY <2>2, OverwrittenFacts
<1>5. /\ Labels(c, target) <=> \E i \in 1 .. Len(c) : Is(c, i)
      /\ Labels(d, target) <=> \E i \in 1 .. Len(d) : Is(d, i)
  BY CodeFacts DEF Labels
<1>6. \A o : \/ ~Labels(c, target) /\ Landing(c, target, o) = o
             \/ \E i \in 1 .. Len(c) : Is(c, i) /\ (\A j \in 1 .. Len(c) : Is(c, j) => i <= j) /\ Landing(c, target, o) = i
  BY LandingFacts
<1>7. \A o : \/ ~Labels(d, target) /\ Landing(d, target, o) = o
             \/ \E i \in 1 .. Len(d) : Is(d, i) /\ (\A j \in 1 .. Len(d) : Is(d, j) => i <= j) /\ Landing(d, target, o) = i
  BY LandingFacts
<1> HIDE DEF Is
<1>8. Labels(d, target) <=> Labels(c, target)
  <2>1. \A i \in k .. Len(c) : i \in 1 .. Len(c)
    BY <1>1
  <2>2. ASSUME Labels(d, target) PROVE Labels(c, target)
    BY <1>3, <1>5, <2>1, <2>2
  <2>3. ASSUME Labels(c, target) PROVE Labels(d, target)
    BY <1>2, <1>4, <1>5, <2>3
  <2> QED BY <2>2, <2>3
<1>9. CASE ~Labels(c, target)
  <2>1. /\ Landing(c, target, p + 1) = p + 1
        /\ Landing(d, target, p + 1 - k + 1) = p + 1 - k + 1
    BY <1>5, <1>6, <1>7, <1>8, <1>9
  <2> PICK x, y : x = Landing(c, target, p + 1) /\ y = Landing(d, target, p + 1 - k + 1)
    OBVIOUS
  <2>2. x \in k .. Len(c) + 1 /\ y = x - k + 1
    BY <1>1, <2>1
  <2> QED BY <1>8, <2>2
<1>10. CASE Labels(c, target)
  <2> PICK x, y : x = Landing(c, target, p + 1) /\ y = Landing(d, target, p + 1 - k + 1)
    OBVIOUS
  <2>1. x \in 1 .. Len(c) /\ Is(c, x) /\ \A j \in 1 .. Len(c) : Is(c, j) => x <= j
    BY <1>6, <1>10
  <2>2. y \in 1 .. Len(d) /\ Is(d, y) /\ \A j \in 1 .. Len(d) : Is(d, j) => y <= j
    BY <1>7, <1>8, <1>10
  <2>3. x \in k .. Len(c) /\ x + 1 - k \in 1 .. Len(d) /\ Is(d, x + 1 - k)
    BY <1>2, <1>4, <2>1
  <2>4. y + k - 1 \in 1 .. Len(c) /\ Is(c, y + k - 1)
    <3>1. y + k - 1 \in k .. Len(c) /\ Is(c, y + k - 1)
      BY <1>3, <2>2
    <3> QED BY <1>1, <3>1
  <2>5. y <= x + 1 - k /\ x <= y + k - 1
    BY <2>1, <2>2, <2>3, <2>4
  <2>6. x \in k .. Len(c) + 1 /\ y = x - k + 1
    BY <1>1, <2>1, <2>2, <2>3, <2>5
  <2> QED BY <1>8, <2>6
<1> QED BY <1>9, <1>10

LEMMA PeepholeMeans ==
  ASSUME NEW c \in Seq(Instr), PeepholeKeeps(c)
  PROVE  SameAsCode(c, Peephole(c))
<1> PICK d : d = Peephole(c)
  OBVIOUS
<1> PICK n : n = Len(c)
  OBVIOUS
<1>1. PICK k : Begins(c, d, k)
  BY PeepholeFacts
<1>2. /\ d \in Seq(Instr) /\ n \in Nat /\ k \in Nat /\ k \in 1 .. n + 1 /\ Len(d) = n + 1 - k
      /\ \A i \in 1 .. k - 1 : Overwritten(c, i)
      /\ k <= n => ~Overwritten(c, k)
      /\ \A i \in k .. n : d[i + 1 - k] = Mark(c, i)
  BY <1>1, PeepholeFacts, CodeFacts DEF Begins
<1> DEFINE Where(p) == IF p < k THEN 1 ELSE p - k + 1
           R == {st \in State \X State : /\ st[1].next \in 1 .. n + 1
                                         /\ st[2].next = Where(st[1].next)
                                         /\ Like(st[1], st[2], Stale(c, st[1].next))}
<1>4. ASSUME NEW input \in Inputs PROVE <<Started(input, 1), Started(input, 1)>> \in R
  <2> PICK s : s = Started(input, 1)
    OBVIOUS
  <2>1. s \in State /\ s.next = 1
    BY StartFacts
  <2>2. s.next \in 1 .. n + 1 /\ s.next = Where(s.next)
    BY <1>2, <2>1
  <2>3. Like(s, s, Stale(c, s.next))
    BY DEF Like
  <2> QED BY <2>1, <2>2, <2>3
<1>5. ASSUME NEW s \in State, NEW t \in State, <<s, t>> \in R, ~Ended(s)
      PROVE  <<CodeStep(c, s), t>> \in R \/ <<CodeStep(c, s), CodeStep(d, t)>> \in R
  <2> PICK p : p = s.next
    OBVIOUS
  <2> PICK u, w : u = CodeStep(c, s) /\ w = CodeStep(d, t)
    OBVIOUS
  <2>1. p \in 1 .. n + 1 /\ t.next = Where(p) /\ Like(s, t, Stale(c, p)) /\ u \in State /\ w \in State
    BY <1>2, <1>5, StepFacts
  <2>2. CASE p = n + 1
    <3>1. t.next = Len(d) + 1 /\ s.next > Len(c) /\ t.next > Len(d)
      BY <1>2, <2>1, <2>2
    <3>2. Like(u, w, Stale(c, p))
      BY <1>2, <2>1, <3>1, EndsAlike
    <3>3. u.next = p /\ w.next = t.next
      BY <1>2, <3>1, StepFacts
    <3> QED BY <2>1, <3>2, <3>3
  <2>3. CASE p \in 1 .. n /\ Overwritten(c, p)
    <3>1. /\ c[p].op = "ASSIGN" /\ Stale(c, p + 1) = {c[p].result} /\ Stale(c, p) \subseteq {c[p].result}
          /\ p + 1 \in 1 .. n + 1
      <4>1. /\ c[p].op = "ASSIGN" /\ Stale(c, p + 1) = {c[p].result}
            /\ Stale(c, p) = {} \/ Stale(c, p) = {c[p].result}
        BY <2>3, OverwrittenFacts
      <4>2. p + 1 \in 1 .. n + 1
        BY <1>2, <2>3
      <4> QED BY <4>1, <4>2
    <3>2. Like(u, s, {c[p].result})
      BY <2>3, <3>1, AssignLike
    <3>3. Like(u, t, Stale(c, p + 1))
      <4>1. Like(u, t, {c[p].result} \cup Stale(c, p))
        BY <2>1, <3>2, LikeBoth
      <4>2. ({c[p].result} \cup Stale(c, p)) \cap Operand \subseteq Stale(c, p + 1)
        BY <3>1
      <4> QED BY ONLY <4>1, <4>2, LikeMore
    <3>4. u.next = p + 1
      BY <2>3, <3>1, StepFacts DEF To
    <3>5. CASE p < k
      <4>1. t.next = Where(p + 1)
        BY <1>2, <2>1, <3>5
      <4> QED BY <2>1, <3>1, <3>3, <3>4, <4>1
    <3>6. CASE ~(p < k)
      <4>1. t.next = p + 1 - k /\ t.next \in 1 .. Len(d) /\ p \in k .. n /\ t.next + 1 = Where(p + 1)
        BY <1>2, <2>1, <2>3, <3>6
      <4>2. d[t.next].op = "GOTO" /\ d[t.next].arg1 = c[p].result
        BY <1>2, <2>3, <4>1, MarkFacts
      <4>3. Like(w, t, {})
        BY <1>2, <4>1, <4>2, AssignLike
      <4>4. ~Labels(d, c[p].result)
        <5>1. ~Labels(c, c[p].result)
          BY <2>3, CodeFacts DEF PeepholeKeeps
        <5> QED BY <1>1, <1>2, <4>1, <5>1, BegunLandings
      <4>5. w.next = t.next + 1
        <5>1. Landing(d, c[p].result, t.next + 1) = t.next + 1
          <6>1. \A j \in 1 .. Len(d) : ~(d[j].op = "LABEL" /\ d[j].result = c[p].result)
            BY <1>2, <4>4, CodeFacts DEF Labels
          <6> QED BY <1>2, <6>1, LandingFacts
        <5> QED BY <1>2, <4>1, <4>2, <5>1, StepFacts DEF To
      <4>6. Like(u, w, Stale(c, p + 1))
        <5>1. Like(t, w, {})
          BY <4>3, LikeTurned
        <5>2. Like(u, w, Stale(c, p + 1) \cup {})
          BY <3>3, <5>1, LikeBoth
        <5> QED BY <5>2
      <4> QED BY <2>1, <3>1, <3>4, <4>1, <4>5, <4>6
    <3> QED BY <3>5, <3>6
  <2>4. CASE p \in 1 .. n /\ ~Overwritten(c, p)
    <3> PICK in : in = c[p]
      OBVIOUS
    <3>1. in \in Instr /\ in.arg1 \in Operand /\ in.arg2 \in Operand
      BY <2>4, CodeFacts, InstrFacts
    <3>2. p \in k .. n /\ t.next = p + 1 - k /\ t.next \in 1 .. Len(d)
      <4>1. ~(p \in 1 .. k - 1)
        BY <1>2, <2>4
      <4> QED BY <1>2, <2>1, <2>4, <4>1
    <3>3. d[t.next] = in
      BY <1>2, <2>4, <3>2, MarkFacts
    <3> PICK q : q = To(c, s)
      OBVIOUS
    <3>4. /\ Does(in, s) = Does(in, t) /\ q \in k .. n + 1 /\ To(d, t) = Where(q)
          /\ Stale(c, p) \cap Operand \subseteq Written(Does(in, s))
      <4>1. CASE Stale(c, p) # {}
        <5>1. Stale(c, p) = {in.result} /\ in.op = "ASSIGN" /\ in.arg1 # in.result
          BY <2>4, <4>1, OverwrittenFacts
        <5>2. Content(s, in.arg1) = Content(t, in.arg1)
          BY <2>1, <3>1, <5>1 DEF Like
        <5>3. Does(in, s) = Does(in, t)
          BY <5>1, <5>2, OpsDiffer DEF Does
        <5>4. Written(Does(in, s)) = {in.result}
          BY <3>1, <5>1, DoesFacts
        <5>5. q = p + 1 /\ To(d, t) = t.next + 1
          BY <3>3, <5>1 DEF To
        <5> QED BY <1>2, <3>2, <5>1, <5>3, <5>4, <5>5
      <4>2. CASE Stale(c, p) = {}
        <5>1. Content(s, in.arg1) = Content(t, in.arg1) /\ Content(s, in.arg2) = Content(t, in.arg2)
          BY <2>1, <3>1, <4>2 DEF Like
        <5>2. Does(in, s) = Does(in, t)
          BY <3>1, <5>1, DoesAlike
        <5>3. \A target : /\ Landing(c, target, p + 1) \in k .. n + 1
                          /\ Landing(d, target, p + 1 - k + 1) = Landing(c, target, p + 1) - k + 1
          <6> TAKE target
          <6>1. p \in k .. Len(c)
            BY <3>2
          <6>2. /\ Landing(c, target, p + 1) \in k .. Len(c) + 1
                /\ Landing(d, target, p + 1 - k + 1) = Landing(c, target, p + 1) - k + 1
            <7>1. c \in Seq(Instr) /\ d \in Seq(Instr) /\ Begins(c, d, k)
              BY <1>1, <1>2
            <7> QED BY ONLY <6>1, <7>1, BegunLandings
          <6> QED BY <6>2
        <5>4. p + 1 \in k .. n + 1 /\ t.next + 1 = (p + 1) - k + 1 /\ t.next + 1 = p + 1 - k + 1
          BY <1>2, <3>2
        <5>5. q \in k .. n + 1 /\ To(d, t) = q - k + 1
          BY <3>2, <3>3, <5>1, <5>3, <5>4 DEF To
        <5> QED BY <1>2, <4>2, <5>2, <5>5
      <4> QED BY <4>1, <4>2
    <3>5. Like(u, w, Stale(c, p) \ Written(Does(in, s)))
      BY <1>2, <2>1, <2>4, <3>2, <3>3, <3>4, StepsAlike
    <3>6. Like(u, w, Stale(c, q))
      <4>1. (Stale(c, p) \ Written(Does(in, s))) \cap Operand \subseteq Stale(c, q)
        BY <3>4
      <4> QED BY ONLY <3>5, <4>1, LikeMore
    <3>7. u.next = q /\ w.next = To(d, t)
      BY <1>2, <2>4, <3>2, StepFacts
    <3>8. q \in 1 .. n + 1
      BY <1>2, <3>4
    <3> QED BY <2>1, <3>4, <3>6, <3>7, <3>8
  <2>5. p \in 1 .. n \/ p = n + 1
    BY <1>2, <2>1
  <2> QED BY <2>2, <2>3, <2>4, <2>5
<1>6. ASSUME NEW s \in State, NEW t \in State, <<s, t>> \in R PROVE s.out = t.out /\ s.exit = t.exit
  BY <1>6 DEF Like
<1>7. Simulates(R, c, d)
  <2> HIDE DEF R
  <2> QED BY <1>4, <1>5, <1>6 DEF Simulates
<1> QED BY <1>2, <1>7, Simulation
-----------------------------------------------------------------------------
(* Whatever the program, every pass of optimizeCode keeps what the code prints *)
(* and reads and how it ends, for every input it ends on, wherever what that   *)
(* pass takes for granted holds of the code before it: for folding, that what  *)
(* it folds and the results fit an int.                                        *)
THEOREM OptimizedCodeMeansTheSame == Spec => PassesKeepMeaning
<1> DEFINE Kept == stage # "generate" /\ stage' \notin {"wild", "trapped"} /\ Assumes(stage, code) => SameAsCode(code, code')
<1>1. WellFormed /\ Next => Kept
  <2> SUFFICES ASSUME WellFormed, Next, stage # "generate", stage' \notin {"wild", "trapped"}, Assumes(stage, code)
               PROVE  SameAsCode(code, code')
    OBVIOUS
  <2> PICK c, now : c = code /\ now = stage
    OBVIOUS
  <2>1. c \in Seq(Instr) /\ Assumes(now, c)
    BY DEF WellFormed
  <2>3. CASE Generate
    BY <2>3 DEF Generate, Do
  <2>4. CASE Fold
    <3>1. now = "fold" /\ code' = ConstantFolding(c)
      BY <2>4 DEF Fold, Do
    <3>2. FoldsWithinInt(c)
      BY <2>1, <3>1 DEF Assumes
    <3> QED BY <2>1, <3>1, <3>2, FoldingMeans
  <2>5. CASE PropagateConstants
    <3>1. now = "constants" /\ code' = ConstantPropagation(c)
      BY <2>5 DEF PropagateConstants, Do
    <3>2. StraightLine(c) /\ CopiesHold(c)
      BY <2>1, <3>1 DEF Assumes
    <3> QED BY <2>1, <3>1, <3>2, PassesWalk, WalksMean DEF Needs, Walks
  <2>6. CASE PropagateCopies
    <3>1. now = "copies" /\ code' = CopyPropagation(c)
      BY <2>6 DEF PropagateCopies, Do
    <3>2. StraightLine(c) /\ CopiesHold(c)
      BY <2>1, <3>1 DEF Assumes
    <3> QED BY <2>1, <3>1, <3>2, PassesWalk, WalksMean DEF Needs, Walks
  <2>7. CASE Simplify
    <3>1. now = "simplify" /\ code' = AlgebraicSimplification(c)
      BY <2>7 DEF Simplify, Do
    <3>2. \A i \in DOMAIN c : ~NeutralFirst(c[i])
      BY <2>1, <3>1 DEF Assumes
    <3> QED BY <2>1, <3>1, <3>2, SimplificationMeans
  <2>8. CASE EliminateDead
    <3>1. now = "dead" /\ code' = DeadCodeElimination(c)
      BY <2>8 DEF EliminateDead, Do
    <3>2. NoLoop(c)
      BY <2>1, <3>1 DEF Assumes
    <3> QED BY <2>1, <3>1, <3>2, DeadMeans
  <2>9. CASE Reduce
    BY <2>1, <2>9, ReductionMeans DEF Reduce, Do
  <2>10. CASE Peep
    <3>1. now = "peephole" /\ code' = Peephole(c)
      BY <2>10 DEF Peep, Do
    <3>2. PeepholeKeeps(c)
      BY <2>1, <3>1 DEF Assumes, PeepholeKeeps
    <3> QED BY <2>1, <3>1, <3>2, PeepholeMeans
  <2>11. CASE Share
    <3>1. now = "common" /\ code' = CommonSubexpressions(c)
      BY <2>11 DEF Share, Do
    <3>2. StraightLine(c) /\ ExpressionsHold(c)
      BY <2>1, <3>1 DEF Assumes
    <3> QED BY <2>1, <3>1, <3>2, PassesWalk, WalksMean DEF Needs, Walks
  <2> QED BY <2>3, <2>4, <2>5, <2>6, <2>7, <2>8, <2>9, <2>10, <2>11 DEF Next
<1>2. WellFormed /\ [Next]_vars => [Kept]_vars
  BY <1>1
<1> HIDE DEF Kept
<1>3. Spec => [][Kept]_vars
  BY <1>2, AlwaysWellFormed, PTL DEF Spec
<1> QED BY <1>3 DEF PassesKeepMeaning, Kept
-----------------------------------------------------------------------------
(* The source and its code.  What is in a program: what is in its parts.       *)
Texts == {Literal(a) : a \in DOMAIN Text}
Named(e) == IF e.kind = "literal" THEN Literal(e.operand) ELSE e.operand

LEMMA GivenFacts ==
  ASSUME NEW e \in Expr, e.kind # "op"
  PROVE  /\ e.operand \in Operand /\ Named(e) \in Operand \cup Texts
         /\ e.kind = "literal" => e.operand \in DOMAIN Text
<1>1. e.operand \in Operand
  BY ExprFacts DEF Operand
<1>2. e.kind = "literal" => e.operand \in DOMAIN Text
  BY TextAssumption
<1> QED BY <1>1, <1>2 DEF Named, Texts

LEMMA InExprFacts ==
  /\ \A e \in Expr : InExpr[e] = IF e.kind = "op" THEN InExpr[e.left] \cup InExpr[e.right] ELSE {Named(e)}
  /\ \A e \in Expr : InExpr[e] \subseteq Operand \cup Texts
<1> DEFINE V == SUBSET (Operand \cup Texts)
           rank == [e \in Expr |-> Size[e]]
           Names(g, e) == IF e.kind = "op" THEN g[e.left] \cup g[e.right] ELSE {Named(e)}
           next == [g \in [Expr -> V] |-> [e \in Expr |-> Names(g, e)]]
           IsIn(g) == g = [e \in Expr |-> CASE e.kind = "op" -> g[e.left] \cup g[e.right]
                                             [] e.kind = "literal" -> {Literal(e.operand)}
                                             [] OTHER -> {e.operand}]
<1>1. rank \in [Expr -> Nat]
  BY SizeFacts
<1>2. ASSUME NEW g \in [Expr -> V], NEW e \in Expr PROVE Names(g, e) \in V
  <2>1. CASE e.kind = "op"
    <3>1. g[e.left] \in V /\ g[e.right] \in V
      BY <2>1, ExprFacts
    <3> QED BY <2>1, <3>1
  <2>2. CASE e.kind # "op"
    BY <2>2, GivenFacts
  <2> QED BY <2>1, <2>2
<1>3. next \in [[Expr -> V] -> [Expr -> V]]
  <2> HIDE DEF V, Names
  <2> QED BY <1>2
<1>4. ASSUME NEW g \in [Expr -> V], NEW h \in [Expr -> V], NEW e \in Expr,
             \A x \in Expr : rank[x] < rank[e] => g[x] = h[x]
      PROVE  next[g][e] = next[h][e]
  <2>1. e.kind = "op" => g[e.left] = h[e.left] /\ g[e.right] = h[e.right]
    BY <1>4, ExprFacts
  <2>2. Names(g, e) = Names(h, e)
    BY <2>1
  <2> QED BY <2>2
<1>5. AsksBelow(next, Expr, V, rank)
  <2> HIDE DEF next, rank, V
  <2> QED BY <1>1, <1>3, <1>4 DEF AsksBelow
<1>6. PICK f : f \in [Expr -> V] /\ f = next[f]
  <2>1. {} \in V
    OBVIOUS
  <2> HIDE DEF next, rank, V
  <2> QED BY ONLY <2>1, <1>5, RankedRecursion
<1>7. IsIn(f)
  <2>1. \A e \in Expr : Names(f, e) = CASE e.kind = "op" -> f[e.left] \cup f[e.right]
                                         [] e.kind = "literal" -> {Literal(e.operand)}
                                         [] OTHER -> {e.operand}
    BY DEF Named
  <2>2. f = [e \in Expr |-> Names(f, e)]
    <3> HIDE DEF Names
    <3> QED BY <1>6
  <2> HIDE DEF Names
  <2> QED BY ONLY <2>1, <2>2, Zenon
<1>8. IsIn(InExpr)
  <2>1. InExpr = CHOOSE g : IsIn(g)
    BY DEF InExpr
  <2> HIDE DEF IsIn
  <2> QED BY <1>7, <2>1
<1>9. \A e \in Expr : InExpr[e] = Names(InExpr, e)
  BY <1>8 DEF Named
<1> HIDE DEF IsIn, next
<1> DEFINE T == {e \in Expr : InExpr[e] \subseteq Operand \cup Texts}
<1>10. ASSUME NEW e \in Expr, \A x \in Expr : rank[x] < rank[e] => x \in T PROVE e \in T
  <2>1. CASE e.kind = "op"
    <3>1. e.left \in T /\ e.right \in T
      BY <1>10, <2>1, ExprFacts
    <3> QED BY <1>9, <2>1, <3>1
  <2>2. CASE e.kind # "op"
    <3>1. Named(e) \in Operand \cup Texts /\ InExpr[e] = {Named(e)}
      BY <1>9, <2>2, GivenFacts
    <3> QED BY <3>1
  <2> QED BY <2>1, <2>2
<1>11. Expr \subseteq T
  <2> HIDE DEF rank, T
  <2> QED BY ONLY <1>1, <1>10, RankInduction
<1> QED BY <1>9, <1>11

(* The names in a statement, where a sequence has those that i says.           *)
InStmt(i, st) ==
  CASE st.kind \in {"declare", "scan"} -> {st.name}
    [] st.kind = "assign" -> {st.name} \cup InExpr[st.expr]
    [] st.kind = "block" -> i[st.body]
    [] st.kind = "if" -> InExpr[st.expr] \cup i[st.body \o st.els]
    [] st.kind = "for" -> InExpr[st.expr] \cup i[st.init \o st.body \o st.update]
    [] OTHER -> InExpr[st.expr]
Within(st) == IF st.kind = "block" THEN {st.body}
              ELSE IF st.kind = "if" THEN {st.body \o st.els}
              ELSE IF st.kind = "for" THEN {st.init \o st.body \o st.update}
              ELSE {}

LEMMA WithinFacts ==
  ASSUME NEW st \in Stmt, NEW ss \in Within(st)
  PROVE  ss \in Seq(Stmt) /\ Weight[ss] < Size[st]
<1>1. CASE st.kind = "block"
  BY <1>1, StmtFacts DEF Within
<1>2. CASE st.kind = "if"
  <2>1. st.body \in Seq(Stmt) /\ st.els \in Seq(Stmt) /\ ss = st.body \o st.els
    BY <1>2, StmtFacts DEF Within
  <2>2. ss \in Seq(Stmt) /\ Weight[ss] = Weight[st.body] + Weight[st.els]
    BY <2>1, WeightAdds
  <2> QED BY <1>2, <2>2, StmtFacts
<1>3. CASE st.kind = "for"
  <2>1. st.init \in Seq(Stmt) /\ st.body \in Seq(Stmt) /\ st.update \in Seq(Stmt)
    BY <1>3, StmtFacts
  <2>2. ss = (st.init \o st.body) \o st.update
    BY <1>3 DEF Within
  <2>3. st.init \o st.body \in Seq(Stmt) /\ Weight[st.init \o st.body] = Weight[st.init] + Weight[st.body]
    BY <2>1, WeightAdds
  <2>4. ss \in Seq(Stmt) /\ Weight[ss] = Weight[st.init \o st.body] + Weight[st.update]
    BY <2>1, <2>2, <2>3, WeightAdds
  <2> QED BY <1>3, <2>3, <2>4, StmtFacts
<1> QED BY <1>1, <1>2, <1>3 DEF Within

LEMMA InStmtFacts ==
  ASSUME NEW st \in Stmt, NEW i, \A ss \in Within(st) : i[ss] \subseteq Operand \cup Texts
  PROVE  InStmt(i, st) \subseteq Operand \cup Texts
<1>1. Name \subseteq Operand /\ \A e \in Expr : InExpr[e] \subseteq Operand \cup Texts
  BY OperandFacts, InExprFacts
<1>2. CASE st.kind \in {"declare", "scan", "assign", "print", "exit"}
  BY <1>1, <1>2, StmtFacts DEF InStmt
<1>3. CASE st.kind = "block"
  BY <1>3 DEF InStmt, Within
<1>4. CASE st.kind = "if"
  BY <1>1, <1>4, StmtFacts DEF InStmt, Within
<1>5. CASE st.kind = "for"
  BY <1>1, <1>5, StmtFacts DEF InStmt, Within
<1> QED BY <1>2, <1>3, <1>4, <1>5, StmtFacts

LEMMA InStmtAsks ==
  ASSUME NEW st \in Stmt, NEW i, NEW j, \A ss \in Within(st) : i[ss] = j[ss]
  PROVE  InStmt(i, st) = InStmt(j, st)
BY StmtFacts DEF InStmt, Within

LEMMA InStmtsFacts ==
  /\ InStmts[<<>>] = {}
  /\ \A ss \in Seq(Stmt) : ss # <<>> => InStmts[ss] = InStmts[Tail(ss)] \cup InStmt(InStmts, Head(ss))
<1> DEFINE D == Seq(Stmt)
           V == SUBSET (Operand \cup Texts)
           Names(g, ss) == IF ss = <<>> THEN {} ELSE g[Tail(ss)] \cup InStmt(g, Head(ss))
           next == [g \in [D -> V] |-> [ss \in D |-> Names(g, ss)]]
           IsIn(g) == g = [ss \in Seq(Stmt) |->
             IF ss = <<>> THEN {}
             ELSE LET st == Head(ss)
                  IN  g[Tail(ss)] \cup
                      CASE st.kind \in {"declare", "scan"} -> {st.name}
                        [] st.kind = "assign" -> {st.name} \cup InExpr[st.expr]
                        [] st.kind = "block" -> g[st.body]
                        [] st.kind = "if" -> InExpr[st.expr] \cup g[st.body \o st.els]
                        [] st.kind = "for" -> InExpr[st.expr] \cup g[st.init \o st.body \o st.update]
                        [] OTHER -> InExpr[st.expr]]
<1>1. Weight \in [D -> Nat]
  BY WeightFacts
<1>2. ASSUME NEW ss \in D, ss # <<>>
      PROVE  /\ Head(ss) \in Stmt /\ Tail(ss) \in D /\ Weight[Tail(ss)] < Weight[ss]
             /\ \A x \in Within(Head(ss)) : x \in D /\ Weight[x] < Weight[ss]
  <2>1. Head(ss) \in Stmt /\ Tail(ss) \in D
    BY <1>2, HeadAndTail
  <2>2. Weight[ss] = 1 + Size[Head(ss)] + Weight[Tail(ss)] /\ Size[Head(ss)] \in Nat /\ Weight[Tail(ss)] \in Nat
    BY <1>1, <1>2, <2>1, SizeFacts, WeightFacts
  <2>3. ASSUME NEW x \in Within(Head(ss)) PROVE x \in D /\ Weight[x] < Weight[ss]
    <3>1. x \in D /\ Weight[x] < Size[Head(ss)]
      BY <2>1, WithinFacts
    <3>2. Weight[x] \in Nat
      BY <3>1, <1>1
    <3> QED BY <2>2, <3>1, <3>2
  <2> QED BY <2>1, <2>2, <2>3
<1>3. ASSUME NEW g \in [D -> V], NEW ss \in D PROVE Names(g, ss) \in V
  <2>1. CASE ss # <<>>
    <3>1. g[Tail(ss)] \in V /\ \A x \in Within(Head(ss)) : g[x] \in V
      BY <1>2, <2>1
    <3>2. InStmt(g, Head(ss)) \subseteq Operand \cup Texts
      BY <1>2, <2>1, <3>1, InStmtFacts
    <3> QED BY <2>1, <3>1, <3>2
  <2> QED BY <2>1
<1>4. next \in [[D -> V] -> [D -> V]]
  <2> HIDE DEF V, Names, D
  <2> QED BY <1>3
<1>5. ASSUME NEW g \in [D -> V], NEW h \in [D -> V], NEW ss \in D,
             \A x \in D : Weight[x] < Weight[ss] => g[x] = h[x]
      PROVE  next[g][ss] = next[h][ss]
  <2>1. Names(g, ss) = Names(h, ss)
    <3>1. CASE ss # <<>>
      <4>1. g[Tail(ss)] = h[Tail(ss)] /\ \A x \in Within(Head(ss)) : g[x] = h[x]
        BY <1>2, <1>5, <3>1
      <4>2. InStmt(g, Head(ss)) = InStmt(h, Head(ss))
        BY <1>2, <3>1, <4>1, InStmtAsks
      <4> QED BY <4>1, <4>2
    <3> QED BY <3>1
  <2> QED BY <2>1
<1>6. AsksBelow(next, D, V, Weight)
  <2> HIDE DEF next, V, D
  <2> QED BY <1>1, <1>4, <1>5 DEF AsksBelow
<1>7. PICK f : f \in [D -> V] /\ f = next[f]
  <2>1. {} \in V
    OBVIOUS
  <2> HIDE DEF next, V, D
  <2> QED BY ONLY <2>1, <1>6, RankedRecursion
<1>8. IsIn(f)
  BY <1>7 DEF InStmt
<1>9. IsIn(InStmts)
  <2>1. InStmts = CHOOSE g : IsIn(g)
    BY DEF InStmts
  <2> HIDE DEF IsIn
  <2> QED BY <1>8, <2>1
<1>10. \A ss \in D : InStmts[ss] = Names(InStmts, ss)
  BY <1>9, Zenon DEF InStmt
<1>11. <<>> \in D
  BY EmptySeq
<1> HIDE DEF IsIn, next
<1> QED BY <1>10, <1>11

LEMMA InBoth ==
  \A a, b \in Seq(Stmt) : InStmts[a \o b] = InStmts[a] \cup InStmts[b]
<1> SUFFICES ASSUME NEW b \in Seq(Stmt) PROVE \A a \in Seq(Stmt) : InStmts[a \o b] = InStmts[a] \cup InStmts[b]
  OBVIOUS
<1> DEFINE D == Seq(Stmt)
           rank == [a \in D |-> Len(a)]
           T == {a \in D : InStmts[a \o b] = InStmts[a] \cup InStmts[b]}
<1>0. rank \in [D -> Nat]
  BY LenProperties
<1>1. ASSUME NEW a \in D, \A x \in D : rank[x] < rank[a] => x \in T PROVE a \in T
  <2>1. CASE a = <<>>
    <3>1. a \o b = b
      BY <2>1, ConcatEmptySeq
    <3> QED BY <3>1, <2>1, InStmtsFacts
  <2>2. CASE a # <<>>
    <3>1. Tail(a) \in Seq(Stmt) /\ rank[Tail(a)] < rank[a]
      BY <2>2, HeadAndTail
    <3>2. InStmts[Tail(a) \o b] = InStmts[Tail(a)] \cup InStmts[b]
      BY <3>1, <1>1
    <3>3. a \o b \in Seq(Stmt) /\ a \o b # <<>> /\ Head(a \o b) = Head(a) /\ Tail(a \o b) = Tail(a) \o b
      BY <2>2, ConcatHeadTail
    <3>4. InStmts[a \o b] = InStmts[Tail(a) \o b] \cup InStmt(InStmts, Head(a))
      BY <3>3, InStmtsFacts
    <3>5. InStmts[a] = InStmts[Tail(a)] \cup InStmt(InStmts, Head(a))
      BY <2>2, InStmtsFacts
    <3> QED BY <3>2, <3>4, <3>5
  <2> QED BY <2>1, <2>2
<1>2. D \subseteq T
  <2> HIDE DEF T, rank, D
  <2> QED BY ONLY <1>0, <1>1, RankInduction
<1> QED BY <1>2
(* Nothing in it is one of X; no variable in it and no literal's text is the   *)
(* name of a temporary.                                                        *)
Without(X, e) == InExpr[e] \cap X = {}
Avoids(X, ss) == InStmts[ss] \cap X = {}
Temporary == Temps \cup {Literal(a) : a \in Temps}
Pure(e) == Without(Temporary, e)
Clean(ss) == Avoids(Temporary, ss)

LEMMA WithoutFacts ==
  ASSUME NEW X, NEW e \in Expr, Without(X, e)
  PROVE  /\ e.kind # "op" => Named(e) \notin X
         /\ e.kind = "op" => Without(X, e.left) /\ Without(X, e.right)
<1>1. CASE e.kind = "op"
  <2>1. InExpr[e] = InExpr[e.left] \cup InExpr[e.right]
    BY <1>1, InExprFacts
  <2> QED BY <1>1, <2>1 DEF Without
<1>2. CASE e.kind # "op"
  <2>1. InExpr[e] = {Named(e)}
    BY <1>2, InExprFacts
  <2> QED BY <1>2, <2>1 DEF Without
<1> QED BY <1>1, <1>2

LEMMA PureFacts ==
  ASSUME NEW e \in Expr, Pure(e)
  PROVE  /\ e.kind # "op" => e.operand \in Operand \ Temps /\ e.operand \in Arg
         /\ e.kind = "op" => Pure(e.left) /\ Pure(e.right)
<1>1. CASE e.kind = "op"
  BY <1>1, WithoutFacts DEF Pure
<1>2. CASE e.kind # "op"
  <2>1. e.operand \in Arg /\ e.operand \in Operand
    BY <1>2, ExprFacts DEF Arg, Operand
  <2>2. Named(e) \notin Temporary
    BY <1>2, WithoutFacts DEF Pure
  <2>3. e.operand \notin Temps
    BY <2>2 DEF Named, Temporary
  <2> QED BY <1>2, <2>1, <2>3
<1> QED BY <1>1, <1>2

LEMMA AvoidsBoth ==
  ASSUME NEW X
  PROVE  \A a, b \in Seq(Stmt) : Avoids(X, a \o b) <=> Avoids(X, a) /\ Avoids(X, b)
<1>1. ASSUME NEW a \in Seq(Stmt), NEW b \in Seq(Stmt) PROVE Avoids(X, a \o b) <=> Avoids(X, a) /\ Avoids(X, b)
  <2>1. InStmts[a \o b] = InStmts[a] \cup InStmts[b]
    BY InBoth
  <2> QED BY <2>1 DEF Avoids
<1> QED BY <1>1

LEMMA AvoidsOne ==
  ASSUME NEW X, NEW st \in Stmt
  PROVE  <<st>> \in Seq(Stmt) /\ (Avoids(X, <<st>>) <=> InStmt(InStmts, st) \cap X = {})
<1> PICK ss : ss = <<st>>
  OBVIOUS
<1>1. ss \in Seq(Stmt) /\ ss # <<>> /\ Head(ss) = st /\ Tail(ss) = <<>>
  OBVIOUS
<1>2. InStmts[ss] = InStmt(InStmts, st)
  BY <1>1, InStmtsFacts
<1> QED BY <1>1, <1>2 DEF Avoids

LEMMA AvoidsFacts ==
  ASSUME NEW X, NEW ss \in Seq(Stmt), ss # <<>>, Avoids(X, ss)
  PROVE  LET st == Head(ss)
         IN  /\ Avoids(X, Tail(ss)) /\ Avoids(X, <<st>>)
             /\ st.kind \in {"assign", "print", "exit", "if", "for"} => Without(X, st.expr)
             /\ st.kind \in {"assign", "scan"} => st.name \notin X
             /\ st.kind = "block" => Avoids(X, st.body)
             /\ st.kind = "if" => Avoids(X, st.body) /\ Avoids(X, st.els)
             /\ st.kind = "for" => Avoids(X, st.init) /\ Avoids(X, st.body \o st.update)
<1> PICK st : st = Head(ss)
  OBVIOUS
<1>1. st \in Stmt /\ Tail(ss) \in Seq(Stmt)
  BY HeadAndTail
<1>2. InStmts[ss] = InStmts[Tail(ss)] \cup InStmt(InStmts, st)
  BY InStmtsFacts
<1>3. Avoids(X, Tail(ss)) /\ InStmt(InStmts, st) \cap X = {}
  BY <1>2 DEF Avoids
<1>4. Avoids(X, <<st>>)
  BY <1>1, <1>3, AvoidsOne
<1>5. CASE st.kind \in {"declare", "scan", "assign", "print", "exit"}
  BY <1>1, <1>3, <1>4, <1>5 DEF InStmt, Without
<1>6. CASE st.kind = "block"
  BY <1>1, <1>3, <1>4, <1>6 DEF InStmt, Avoids
<1>7. CASE st.kind = "if"
  <2>1. st.body \in Seq(Stmt) /\ st.els \in Seq(Stmt)
    BY <1>1, <1>7, StmtFacts
  <2>2. Without(X, st.expr) /\ Avoids(X, st.body \o st.els)
    BY <1>1, <1>3, <1>7 DEF InStmt, Without, Avoids
  <2> QED BY <1>3, <1>4, <1>7, <2>1, <2>2, AvoidsBoth
<1>8. CASE st.kind = "for"
  <2>1. st.init \in Seq(Stmt) /\ st.body \in Seq(Stmt) /\ st.update \in Seq(Stmt)
    BY <1>1, <1>8, StmtFacts
  <2>2. Without(X, st.expr) /\ Avoids(X, st.init \o st.body \o st.update)
    BY <1>1, <1>3, <1>8 DEF InStmt, Without, Avoids
  <2>3. st.init \o st.body \in Seq(Stmt) /\ st.body \o st.update \in Seq(Stmt)
    BY <2>1, ConcatProperties
  <2>4. Avoids(X, st.init) /\ Avoids(X, st.body) /\ Avoids(X, st.update)
    BY <2>1, <2>2, <2>3, AvoidsBoth
  <2> QED BY <1>3, <1>4, <1>8, <2>1, <2>2, <2>4, AvoidsBoth
<1> QED BY <1>1, <1>5, <1>6, <1>7, <1>8, StmtFacts

\* The same of temporaries.
LEMMA CleanBoth == \A a, b \in Seq(Stmt) : Clean(a \o b) <=> Clean(a) /\ Clean(b)
BY AvoidsBoth DEF Clean

LEMMA CleanFacts ==
  ASSUME NEW ss \in Seq(Stmt), ss # <<>>, Clean(ss)
  PROVE  LET st == Head(ss)
         IN  /\ Clean(Tail(ss)) /\ Clean(<<st>>)
             /\ st.kind \in {"assign", "print", "exit", "if", "for"} => Pure(st.expr)
             /\ st.kind \in {"assign", "scan"} => st.name \notin Temps
             /\ st.kind = "block" => Clean(st.body)
             /\ st.kind = "if" => Clean(st.body) /\ Clean(st.els)
             /\ st.kind = "for" => Clean(st.init) /\ Clean(st.body \o st.update)
BY AvoidsFacts, Zenon DEF Clean, Pure, Temporary

(* What an expression is worth to the code, which has nothing but a literal's  *)
(* text: it is computed from what its parts are worth, and is the same where   *)
(* all but the temporaries hold the same.                                      *)
Held(e, s) ==
  LET v[f \in Expr] == IF f.kind # "op" THEN Content(s, f.operand) ELSE Compute(f.op, v[f.left], v[f.right])
  IN  v[e]
Valued(s) == \A a \in Operand : Content(s, a) \in Int

\* An expression's worth, where w is that of those without parts.
Worth(w, g, e) == IF e.kind # "op" THEN w[e] ELSE Compute(e.op, g[e.left], g[e.right])

LEMMA WorthTyped ==
  ASSUME NEW w \in [Expr -> Int], NEW g, NEW e \in Expr, e.kind = "op" => g[e.left] \in Int /\ g[e.right] \in Int
  PROVE  Worth(w, g, e) \in Int
<1>1. CASE e.kind = "op"
  BY <1>1, ExprFacts, ComputeFacts DEF Worth
<1>2. CASE e.kind # "op"
  BY <1>2 DEF Worth
<1> QED BY <1>1, <1>2

LEMMA WorthExists ==
  ASSUME NEW w \in [Expr -> Int]
  PROVE  \E f \in [Expr -> Int] : \A e \in Expr : f[e] = Worth(w, f, e)
<1> DEFINE rank == [e \in Expr |-> Size[e]]
           next == [g \in [Expr -> Int] |-> [e \in Expr |-> Worth(w, g, e)]]
<1>1. rank \in [Expr -> Nat]
  BY SizeFacts
<1>2. next \in [[Expr -> Int] -> [Expr -> Int]]
  <2>1. ASSUME NEW g \in [Expr -> Int], NEW e \in Expr PROVE Worth(w, g, e) \in Int
    <3>1. e.kind = "op" => g[e.left] \in Int /\ g[e.right] \in Int
      BY ExprFacts
    <3> QED BY <3>1, WorthTyped
  <2> QED BY <2>1
<1>3. ASSUME NEW g \in [Expr -> Int], NEW h \in [Expr -> Int], NEW e \in Expr,
             \A x \in Expr : rank[x] < rank[e] => g[x] = h[x]
      PROVE  next[g][e] = next[h][e]
  <2>1. e.kind = "op" => g[e.left] = h[e.left] /\ g[e.right] = h[e.right]
    BY <1>3, ExprFacts
  <2>2. Worth(w, g, e) = Worth(w, h, e)
    BY <2>1 DEF Worth
  <2> QED BY <2>2
<1>4. AsksBelow(next, Expr, Int, rank)
  <2> HIDE DEF next, rank
  <2> QED BY <1>1, <1>2, <1>3 DEF AsksBelow
<1>5. PICK f : f \in [Expr -> Int] /\ f = next[f]
  <2>1. 0 \in Int
    OBVIOUS
  <2> HIDE DEF next, rank
  <2> QED BY ONLY <2>1, <1>4, RankedRecursion
<1> QED BY <1>5

LEMMA WorthIsInt ==
  ASSUME NEW w \in [Expr -> Int], NEW v, \A e \in Expr : v[e] = Worth(w, v, e)
  PROVE  \A e \in Expr : v[e] \in Int
<1> DEFINE rank == [e \in Expr |-> Size[e]]
           T == {e \in Expr : v[e] \in Int}
<1>1. rank \in [Expr -> Nat]
  BY SizeFacts
<1>2. ASSUME NEW e \in Expr, \A x \in Expr : rank[x] < rank[e] => x \in T PROVE e \in T
  <2>1. e.kind = "op" => e.left \in T /\ e.right \in T
    BY <1>2, ExprFacts
  <2>2. Worth(w, v, e) \in Int
    BY <2>1, WorthTyped
  <2> QED BY <2>2
<1>3. Expr \subseteq T
  <2> HIDE DEF rank, T
  <2> QED BY ONLY <1>1, <1>2, RankInduction
<1> QED BY <1>3

LEMMA HeldFacts ==
  ASSUME NEW s, Valued(s)
  PROVE  /\ \A e \in Expr : Held(e, s) \in Int
         /\ \A e \in Expr : Held(e, s) = IF e.kind # "op" THEN Content(s, e.operand)
                                          ELSE Compute(e.op, Held(e.left, s), Held(e.right, s))
<1> DEFINE w == [e \in Expr |-> IF e.kind # "op" THEN Content(s, e.operand) ELSE 0]
           IsValue(g) == g = [f \in Expr |-> IF f.kind # "op" THEN Content(s, f.operand)
                                             ELSE Compute(f.op, g[f.left], g[f.right])]
           v == CHOOSE g : IsValue(g)
<1>1. w \in [Expr -> Int]
  BY GivenFacts DEF Valued
<1>2. \A g : \A e \in Expr : Worth(w, g, e) = IF e.kind # "op" THEN Content(s, e.operand)
                                                ELSE Compute(e.op, g[e.left], g[e.right])
  BY DEF Worth
<1>3. PICK f \in [Expr -> Int] : \A e \in Expr : f[e] = Worth(w, f, e)
  <2> HIDE DEF w
  <2> QED BY <1>1, WorthExists
<1>4. IsValue(f)
  <2> HIDE DEF w
  <2> QED BY <1>2, <1>3
<1>5. IsValue(v)
  <2> HIDE DEF IsValue
  <2> QED BY <1>4
<1>6. \A e \in Expr : Held(e, s) = v[e]
  BY DEF Held
<1> HIDE DEF v, w
<1>7. \A e \in Expr : v[e] = Worth(w, v, e)
  BY <1>2, <1>5
<1>8. \A e \in Expr : v[e] \in Int
  BY <1>1, <1>7, WorthIsInt
<1>9. ASSUME NEW e \in Expr
      PROVE  Held(e, s) = IF e.kind # "op" THEN Content(s, e.operand)
                          ELSE Compute(e.op, Held(e.left, s), Held(e.right, s))
  <2>1. e.kind = "op" => Held(e.left, s) = v[e.left] /\ Held(e.right, s) = v[e.right]
    BY <1>6, ExprFacts
  <2> HIDE DEF IsValue
  <2> QED BY <1>2, <1>6, <1>7, <2>1
<1> HIDE DEF IsValue
<1> QED BY <1>6, <1>8, <1>9

\* What it is worth in the program.
LEMMA ValueFacts ==
  ASSUME NEW s, Valued(s)
  PROVE  \A e \in Expr : Value(e, s) = IF e.kind = "op" THEN Compute(e.op, Value(e.left, s), Value(e.right, s))
                                       ELSE IF e.kind = "literal" THEN Text[e.operand]
                                       ELSE Content(s, e.operand)
<1> DEFINE w == [e \in Expr |-> IF e.kind = "op" THEN 0 ELSE IF e.kind = "literal" THEN Text[e.operand]
                                ELSE Content(s, e.operand)]
           IsValue(g) == g = [f \in Expr |-> CASE f.kind = "op" -> Compute(f.op, g[f.left], g[f.right])
                                               [] f.kind = "literal" -> Text[f.operand]
                                               [] OTHER -> Content(s, f.operand)]
           v == CHOOSE g : IsValue(g)
<1>1. w \in [Expr -> Int]
  BY GivenFacts, TextAssumption DEF Valued
<1>2. \A g : \A e \in Expr : Worth(w, g, e) = CASE e.kind = "op" -> Compute(e.op, g[e.left], g[e.right])
                                               [] e.kind = "literal" -> Text[e.operand]
                                               [] OTHER -> Content(s, e.operand)
  BY DEF Worth
<1>3. PICK f \in [Expr -> Int] : \A e \in Expr : f[e] = Worth(w, f, e)
  <2> HIDE DEF w
  <2> QED BY <1>1, WorthExists
<1>4. IsValue(f)
  <2> HIDE DEF w
  <2> QED BY <1>2, <1>3
<1>5. IsValue(v)
  <2> HIDE DEF IsValue
  <2> QED BY <1>4
<1>6. \A e \in Expr : Value(e, s) = v[e]
  BY DEF Value
<1> HIDE DEF v
<1>7. \A e \in Expr : v[e] = Worth(w, v, e)
  <2> HIDE DEF w
  <2> QED BY <1>2, <1>5
<1> SUFFICES ASSUME NEW e \in Expr
             PROVE  Value(e, s) = IF e.kind = "op" THEN Compute(e.op, Value(e.left, s), Value(e.right, s))
                                  ELSE IF e.kind = "literal" THEN Text[e.operand]
                                  ELSE Content(s, e.operand)
  OBVIOUS
<1>8. e.kind = "op" => Value(e.left, s) = v[e.left] /\ Value(e.right, s) = v[e.right]
  BY <1>6, ExprFacts
<1> HIDE DEF IsValue
<1> QED BY <1>6, <1>7, <1>8 DEF Worth

\* The two are the same while the literals it may have hold their texts' values.
Kept(X, s) == \A a \in DOMAIN Text : Literal(a) \notin X => Content(s, a) = Text[a]

LEMMA ValueIsHeld ==
  ASSUME NEW X, NEW s, Valued(s), Kept(X, s)
  PROVE  \A e \in Expr : Without(X, e) => Value(e, s) = Held(e, s)
<1> DEFINE rank == [e \in Expr |-> Size[e]]
           T == {e \in Expr : Without(X, e) => Value(e, s) = Held(e, s)}
<1>1. rank \in [Expr -> Nat]
  BY SizeFacts
<1>2. ASSUME NEW e \in Expr, \A x \in Expr : rank[x] < rank[e] => x \in T PROVE e \in T
  <2> SUFFICES ASSUME Without(X, e) PROVE Value(e, s) = Held(e, s)
    OBVIOUS
  <2>1. CASE e.kind = "op"
    <3>1. e.left \in T /\ e.right \in T
      BY <1>2, <2>1, ExprFacts
    <3>2. Value(e.left, s) = Held(e.left, s) /\ Value(e.right, s) = Held(e.right, s)
      BY <2>1, <3>1, WithoutFacts
    <3>3. /\ Value(e, s) = Compute(e.op, Value(e.left, s), Value(e.right, s))
          /\ Held(e, s) = Compute(e.op, Held(e.left, s), Held(e.right, s))
      BY <2>1, ValueFacts, HeldFacts
    <3> QED BY <3>2, <3>3
  <2>2. CASE e.kind # "op"
    <3>1. Held(e, s) = Content(s, e.operand)
      BY <2>2, HeldFacts
    <3>2. Value(e, s) = IF e.kind = "literal" THEN Text[e.operand] ELSE Content(s, e.operand)
      BY <2>2, ValueFacts
    <3>3. e.kind = "literal" => e.operand \in DOMAIN Text /\ Literal(e.operand) \notin X
      BY <2>2, GivenFacts, WithoutFacts DEF Named
    <3> QED BY <3>1, <3>2, <3>3 DEF Kept
  <2> QED BY <2>1, <2>2
<1>3. Expr \subseteq T
  <2> HIDE DEF rank, T
  <2> QED BY ONLY <1>1, <1>2, RankInduction
<1> QED BY <1>3

LEMMA HeldAlike ==
  ASSUME NEW s, NEW t, Valued(s), Valued(t), \A a \in Operand \ Temps : Content(s, a) = Content(t, a)
  PROVE  \A e \in Expr : Pure(e) => Held(e, s) = Held(e, t)
<1> DEFINE rank == [e \in Expr |-> Size[e]]
           T == {e \in Expr : Pure(e) => Held(e, s) = Held(e, t)}
<1>1. rank \in [Expr -> Nat]
  BY SizeFacts
<1>2. ASSUME NEW e \in Expr, \A x \in Expr : rank[x] < rank[e] => x \in T PROVE e \in T
  <2> SUFFICES ASSUME Pure(e) PROVE Held(e, s) = Held(e, t)
    OBVIOUS
  <2>1. CASE e.kind = "op"
    <3>1. e.left \in T /\ e.right \in T
      BY <1>2, <2>1, ExprFacts
    <3>2. Held(e.left, s) = Held(e.left, t) /\ Held(e.right, s) = Held(e.right, t)
      BY <2>1, <3>1, PureFacts
    <3>3. /\ Held(e, s) = Compute(e.op, Held(e.left, s), Held(e.right, s))
          /\ Held(e, t) = Compute(e.op, Held(e.left, t), Held(e.right, t))
      BY <2>1, HeldFacts
    <3> QED BY <3>2, <3>3
  <2>2. CASE e.kind # "op"
    <3>1. Held(e, s) = Content(s, e.operand) /\ Held(e, t) = Content(t, e.operand)
      BY <2>2, HeldFacts
    <3> QED BY <2>2, <3>1, PureFacts
  <2> QED BY <2>1, <2>2
<1>3. Expr \subseteq T
  <2> HIDE DEF rank, T
  <2> QED BY ONLY <1>1, <1>2, RankInduction
<1> QED BY <1>3
-----------------------------------------------------------------------------
(* Every label of a generated code is placed once.                             *)
OneEach(d) == \A i, j \in 1 .. Len(d) : d[i].op = "LABEL" /\ d[j].op = "LABEL" /\ d[i].result = d[j].result => i = j
Marked(d, N) == OneEach(d) /\ \A i \in 1 .. Len(d) : d[i].op = "LABEL" => \E n \in N : d[i].result = Label(n)

LEMMA MarkedBoth ==
  ASSUME NEW a \in Seq(Instr), NEW b \in Seq(Instr), NEW N, NEW M, N \cap M = {}, Marked(a, N), Marked(b, M)
  PROVE  a \o b \in Seq(Instr) /\ Marked(a \o b, N \cup M)
<1> PICK c : c = a \o b
  OBVIOUS
<1>1. /\ c \in Seq(Instr) /\ Len(a) \in Nat /\ Len(b) \in Nat /\ Len(c) = Len(a) + Len(b)
      /\ \A i \in 1 .. Len(a) + Len(b) : c[i] = IF i <= Len(a) THEN a[i] ELSE b[i - Len(a)]
  BY ConcatProperties, LenProperties
<1> PICK n, m : n = Len(a) /\ m = Len(b)
  OBVIOUS
<1>2. /\ n \in Nat /\ m \in Nat /\ Len(c) = n + m
      /\ \A i \in 1 .. n + m : c[i] = IF i <= n THEN a[i] ELSE b[i - n]
      /\ \A i \in 1 .. n + m : (i <= n => i \in 1 .. n) /\ (~(i <= n) => i - n \in 1 .. m)
  BY <1>1
<1>3. \A k, l : Label(k) = Label(l) => k = l
  BY DEF Label
<1>4. ASSUME NEW i \in 1 .. Len(c), c[i].op = "LABEL"
      PROVE  \/ i <= n /\ i \in 1 .. n /\ c[i] = a[i] /\ \E k \in N : c[i].result = Label(k)
             \/ ~(i <= n) /\ i - n \in 1 .. m /\ c[i] = b[i - n] /\ \E k \in M : c[i].result = Label(k)
  <2>1. CASE i <= n
    <3>1. i \in 1 .. n /\ c[i] = a[i]
      BY <1>2, <2>1
    <3> QED BY <1>4, <2>1, <3>1 DEF Marked
  <2>2. CASE ~(i <= n)
    <3>1. i - n \in 1 .. m /\ c[i] = b[i - n]
      BY <1>2, <2>2
    <3> QED BY <1>4, <2>2, <3>1 DEF Marked
  <2> QED BY <2>1, <2>2
<1>5. ASSUME NEW i \in 1 .. Len(c), NEW j \in 1 .. Len(c), c[i].op = "LABEL", c[j].op = "LABEL", c[i].result = c[j].result
      PROVE  i = j
  <2>1. CASE i <= n /\ j <= n
    <3>1. i \in 1 .. n /\ j \in 1 .. n /\ c[i] = a[i] /\ c[j] = a[j]
      BY <1>4, <1>5, <2>1
    <3> QED BY <1>5, <3>1 DEF Marked, OneEach
  <2>2. CASE ~(i <= n) /\ ~(j <= n)
    <3>1. i - n \in 1 .. m /\ j - n \in 1 .. m /\ c[i] = b[i - n] /\ c[j] = b[j - n]
      BY <1>4, <1>5, <2>2
    <3>2. i - n = j - n
      BY <1>5, <3>1 DEF Marked, OneEach
    <3> QED BY <1>2, <3>2
  <2>3. CASE (i <= n /\ ~(j <= n)) \/ (j <= n /\ ~(i <= n))
    <3>1. \E k \in N, l \in M : Label(k) = Label(l)
      BY <1>4, <1>5, <2>3
    <3> QED BY <1>3, <3>1
  <2> QED BY <2>1, <2>2, <2>3
<1>6. \A i \in 1 .. Len(c) : c[i].op = "LABEL" => \E k \in N \cup M : c[i].result = Label(k)
  BY <1>4
<1> QED BY <1>1, <1>5, <1>6 DEF Marked, OneEach

LEMMA MarkedMore ==
  ASSUME NEW d, NEW N, NEW M, Marked(d, N), N \subseteq M
  PROVE  Marked(d, M)
BY DEF Marked

LEMMA MarkedOne ==
  /\ Marked(<<>>, {})
  /\ \A in \in Instr : in.op # "LABEL" => <<in>> \in Seq(Instr) /\ Marked(<<in>>, {})
  /\ \A l \in Nat : Goto(l) \in Seq(Instr) /\ Marked(Goto(l), {})
  /\ \A l \in Nat : Place(l) \in Seq(Instr) /\ Marked(Place(l), {l})
<1>1. Marked(<<>>, {})
  BY DEF Marked, OneEach
<1>2. ASSUME NEW in \in Instr, in.op # "LABEL" PROVE <<in>> \in Seq(Instr) /\ Marked(<<in>>, {})
  <2> PICK d : d = <<in>>
    OBVIOUS
  <2>1. d \in Seq(Instr) /\ Len(d) = 1 /\ d[1] = in
    OBVIOUS
  <2>2. \A i \in 1 .. Len(d) : d[i].op # "LABEL"
    BY <1>2, <2>1
  <2>3. Marked(d, {})
    BY <2>2 DEF Marked, OneEach
  <2> QED BY <2>1, <2>3
<1>3. ASSUME NEW l \in Nat PROVE Goto(l) \in Seq(Instr) /\ Marked(Goto(l), {})
  <2> PICK in : in = TAC("GOTO", NULL, Label(l), NULL)
    OBVIOUS
  <2>1. in \in Instr /\ in.op = "GOTO"
    BY OperandFacts, MadeInstr DEF TAC
  <2> QED BY <1>2, <2>1 DEF Goto
<1>4. ASSUME NEW l \in Nat PROVE Place(l) \in Seq(Instr) /\ Marked(Place(l), {l})
  <2> PICK in : in = TAC("LABEL", Label(l), NULL, NULL)
    OBVIOUS
  <2>1. in \in Instr /\ in.result = Label(l)
    BY OperandFacts, MadeInstr DEF TAC
  <2> PICK d : d = <<in>>
    OBVIOUS
  <2>2. d \in Seq(Instr) /\ Len(d) = 1 /\ d[1] = in
    BY <2>1
  <2>3. \A i \in 1 .. Len(d) : i = 1 /\ d[i].result = Label(l)
    BY <2>1, <2>2
  <2>4. Marked(d, {l})
    BY <2>3 DEF Marked, OneEach
  <2> QED BY <2>2, <2>4 DEF Place
<1> QED BY <1>1, <1>2, <1>3, <1>4

\* An expression's code has none, and its temporaries are counted up.
LEMMA MarkedExpr ==
  \A e \in Expr, t \in Nat : Marked(GenExpr[e][t].code, {}) /\ t <= GenExpr[e][t].temps
<1> DEFINE rank == [e \in Expr |-> Size[e]]
           T == {e \in Expr : \A t \in Nat : Marked(GenExpr[e][t].code, {}) /\ t <= GenExpr[e][t].temps}
<1>1. rank \in [Expr -> Nat]
  BY SizeFacts
<1>2. ASSUME NEW e \in Expr, \A x \in Expr : rank[x] < rank[e] => x \in T PROVE e \in T
  <2> SUFFICES ASSUME NEW t \in Nat PROVE Marked(GenExpr[e][t].code, {}) /\ t <= GenExpr[e][t].temps
    OBVIOUS
  <2>1. CASE e.kind # "op"
    <3>1. GenExpr[e][t] = [code |-> <<>>, arg |-> e.operand, temps |-> t]
      BY <2>1, GenExprFacts, Zenon DEF ExprOf
    <3> QED BY <3>1, MarkedOne
  <2>2. CASE e.kind = "op"
    <3> PICK left : left = GenExpr[e.left][t]
      OBVIOUS
    <3>1. left \in ExprCode /\ Marked(left.code, {}) /\ t <= left.temps /\ e.op \in Arithmetic
      BY <1>2, <2>2, ExprFacts, GenExprFacts
    <3>2. left.code \in Seq(Instr) /\ left.temps \in Nat /\ left.arg \in Arg
      BY <3>1 DEF ExprCode
    <3> PICK right : right = GenExpr[e.right][left.temps]
      OBVIOUS
    <3>3. right \in ExprCode /\ Marked(right.code, {}) /\ left.temps <= right.temps
      BY <1>2, <2>2, <3>2, ExprFacts, GenExprFacts
    <3>4. right.code \in Seq(Instr) /\ right.temps \in Nat /\ right.arg \in Arg
      BY <3>3, Zenon DEF ExprCode
    <3> PICK in : in = TAC(e.op, Temp(right.temps), left.arg, right.arg)
      OBVIOUS
    <3>5. in \in Instr /\ in.op # "LABEL"
      BY <3>1, <3>2, <3>4, OperandFacts, MadeInstr, OpsDiffer DEF TAC
    <3>6. Marked(left.code \o right.code \o <<in>>, {})
      <4>1. left.code \o right.code \in Seq(Instr) /\ Marked(left.code \o right.code, {})
        <5>1. {} \cap {} = {} /\ {} \cup {} = {}
          OBVIOUS
        <5>2. left.code \o right.code \in Seq(Instr) /\ Marked(left.code \o right.code, {} \cup {})
          BY ONLY <3>1, <3>2, <3>3, <3>4, <5>1, MarkedBoth
        <5> QED BY <5>1, <5>2, Zenon
      <4>2. <<in>> \in Seq(Instr) /\ Marked(<<in>>, {})
        BY <3>5, MarkedOne, Zenon
      <4> PICK a, b : a = left.code \o right.code /\ b = <<in>>
        BY Zenon
      <4>3. a \in Seq(Instr) /\ b \in Seq(Instr) /\ Marked(a, {}) /\ Marked(b, {})
        BY <4>1, <4>2, Zenon
      <4>4. Marked(a \o b, {} \cup {})
        BY ONLY <4>3, MarkedBoth
      <4> QED BY <4>4, Zenon
    <3>7. GenExpr[e][t] = [code |-> left.code \o right.code \o <<in>>, arg |-> Temp(right.temps), temps |-> right.temps + 1]
      BY <2>2, GenExprFacts, Zenon DEF ExprOf
    <3>8. t <= right.temps + 1
      <4> PICK m, n : m = left.temps /\ n = right.temps
        BY Zenon
      <4>1. t \in Nat /\ m \in Nat /\ n \in Nat /\ t <= m /\ m <= n
        BY <3>1, <3>2, <3>3, <3>4, Zenon
      <4>2. t <= n + 1
        BY ONLY <4>1
      <4> QED BY <4>2, Zenon
    <3> PICK x, d, n, p : x = GenExpr[e][t] /\ d = left.code \o right.code \o <<in>> /\ n = right.temps + 1 /\ p = Temp(right.temps)
      BY Zenon
    <3>9. x = [code |-> d, arg |-> p, temps |-> n]
      BY <3>7, Zenon
    <3>10. x.code = d /\ x.temps = n
      BY ONLY <3>9
    <3> QED BY <3>6, <3>8, <3>10, Zenon
  <2> QED BY <2>1, <2>2
<1>3. Expr \subseteq T
  <2> HIDE DEF rank, T
  <2> QED BY ONLY <1>1, <1>2, RankInduction
<1> QED BY <1>3
LEMMA MarkedPieces ==
  ASSUME NEW cond \in ExprCode, Marked(cond.code, {}), NEW l \in Nat, NEW m \in Nat,
         NEW body \in Seq(Instr), NEW N, Marked(body, N), NEW els \in Seq(Instr), NEW M, Marked(els, M)
  PROVE  /\ l \notin N /\ l + 1 \notin N => Marked(If(cond, l, body), N \cup {l, l + 1})
         /\ l \notin N \cup M /\ l + 1 \notin N \cup M /\ m \notin N \cup M \cup {l, l + 1} /\ N \cap M = {} =>
              Marked(IfElse(cond, l, body, m, els), N \cup M \cup {l, l + 1, m})
         /\ l \notin N /\ l + 1 \notin N /\ l + 2 \notin N => Marked(Loop(l, cond, body), N \cup {l, l + 1, l + 2})
<1>1. ASSUME NEW a \in Seq(Instr), NEW A, Marked(a, A), NEW b \in Seq(Instr), NEW B, Marked(b, B), A \cap B = {}
      PROVE  a \o b \in Seq(Instr) /\ Marked(a \o b, A \cup B)
  BY <1>1, MarkedBoth
<1>0. l + 1 \in Nat /\ l + 2 \in Nat
  OBVIOUS
<1>11. ASSUME NEW a \in Seq(Instr), Marked(a, {}), NEW b \in Seq(Instr), NEW B, Marked(b, B)
       PROVE  a \o b \in Seq(Instr) /\ Marked(a \o b, B)
  <2>1. {} \cap B = {} /\ {} \cup B = B
    OBVIOUS
  <2>2. a \o b \in Seq(Instr) /\ Marked(a \o b, {} \cup B)
    BY <1>1, <1>11, <2>1
  <2> QED BY <2>1, <2>2
<1>12. ASSUME NEW a \in Seq(Instr), NEW A, Marked(a, A), NEW b \in Seq(Instr), Marked(b, {})
       PROVE  a \o b \in Seq(Instr) /\ Marked(a \o b, A)
  <2>1. A \cap {} = {} /\ A \cup {} = A
    OBVIOUS
  <2>2. a \o b \in Seq(Instr) /\ Marked(a \o b, A \cup {})
    BY <1>1, <1>12, <2>1
  <2> QED BY <2>1, <2>2
<1>2. /\ \A n \in Nat : Goto(n) \in Seq(Instr) /\ Marked(Goto(n), {})
      /\ \A n \in Nat : Place(n) \in Seq(Instr) /\ Marked(Place(n), {n})
  BY MarkedOne
<1>3. ASSUME NEW y \in Nat, NEW n \in Nat PROVE Branch(cond, y, n) \in Seq(Instr) /\ Marked(Branch(cond, y, n), {y})
  <2> PICK in : in = TAC("IF", NULL, cond.arg, Label(y))
    OBVIOUS
  <2>1. in \in Instr /\ in.op = "IF"
    BY OperandFacts, MadeInstr DEF TAC, ExprCode
  <2>2. <<in>> \in Seq(Instr) /\ Marked(<<in>>, {})
    BY <2>1, MarkedOne
  <2>3. cond.code \in Seq(Instr)
    BY DEF ExprCode
  <2> PICK i, g, p, c : i = <<in>> /\ g = Goto(n) /\ p = Place(y) /\ c = cond.code
    OBVIOUS
  <2>4. c \o i \in Seq(Instr) /\ Marked(c \o i, {})
    BY <2>2, <2>3, <1>12
  <2> PICK d : d = c \o i
    OBVIOUS
  <2>5. d \o g \in Seq(Instr) /\ Marked(d \o g, {})
    BY <2>4, <1>12, <1>2
  <2> PICK f : f = d \o g
    OBVIOUS
  <2>6. f \o p \in Seq(Instr) /\ Marked(f \o p, {y})
    BY <2>5, <1>11, <1>2
  <2>7. Branch(cond, y, n) = f \o p
    BY DEF Branch
  <2> QED BY <2>6, <2>7
<1>4. ASSUME l \notin N, l + 1 \notin N PROVE Marked(If(cond, l, body), N \cup {l, l + 1})
  <2> PICK b, p : b = Branch(cond, l, l + 1) /\ p = Place(l + 1)
    OBVIOUS
  <2>1. b \in Seq(Instr) /\ Marked(b, {l}) /\ p \in Seq(Instr) /\ Marked(p, {l + 1})
    BY <1>0, <1>2, <1>3
  <2>2. b \o body \in Seq(Instr) /\ Marked(b \o body, {l} \cup N)
    BY <2>1, <1>1, <1>4
  <2>3. ({l} \cup N) \cap {l + 1} = {}
    BY <1>4
  <2>4. Marked((b \o body) \o p, ({l} \cup N) \cup {l + 1})
    BY <2>1, <2>2, <2>3, <1>1
  <2>5. ({l} \cup N) \cup {l + 1} = N \cup {l, l + 1}
    OBVIOUS
  <2>6. If(cond, l, body) = (b \o body) \o p
    BY DEF If
  <2> QED BY <2>4, <2>5, <2>6
<1>5. ASSUME l \notin N \cup M, l + 1 \notin N \cup M, m \notin N \cup M \cup {l, l + 1}, N \cap M = {}
      PROVE  Marked(IfElse(cond, l, body, m, els), N \cup M \cup {l, l + 1, m})
  <2> PICK b, p, g, z : b = Branch(cond, l, l + 1) /\ p = Place(l + 1) /\ g = Goto(m) /\ z = Place(m)
    OBVIOUS
  <2>1. /\ b \in Seq(Instr) /\ Marked(b, {l}) /\ p \in Seq(Instr) /\ Marked(p, {l + 1})
        /\ g \in Seq(Instr) /\ Marked(g, {}) /\ z \in Seq(Instr) /\ Marked(z, {m})
    BY <1>0, <1>2, <1>3
  <2>20. {l} \cap N = {}
    BY <1>5
  <2>2. b \o body \in Seq(Instr) /\ Marked(b \o body, {l} \cup N)
    BY <2>1, <2>20, <1>1
  <2> PICK x1, A1 : x1 = b \o body /\ A1 = {l} \cup N
    OBVIOUS
  <2>3. x1 \o g \in Seq(Instr) /\ Marked(x1 \o g, A1)
    BY <2>1, <2>2, <1>12
  <2>4. A1 \cap {l + 1} = {}
    BY <1>5
  <2> PICK x2 : x2 = x1 \o g
    OBVIOUS
  <2>5. x2 \o p \in Seq(Instr) /\ Marked(x2 \o p, A1 \cup {l + 1})
    BY <2>1, <2>3, <2>4, <1>1
  <2> PICK x3, A3 : x3 = x2 \o p /\ A3 = A1 \cup {l + 1}
    OBVIOUS
  <2>6. A3 \cap M = {}
    BY <1>5
  <2>7. x3 \o els \in Seq(Instr) /\ Marked(x3 \o els, A3 \cup M)
    BY <2>5, <2>6, <1>1
  <2> PICK x4, A4 : x4 = x3 \o els /\ A4 = A3 \cup M
    OBVIOUS
  <2>8. A4 \cap {m} = {}
    BY <1>5
  <2>9. Marked(x4 \o z, A4 \cup {m})
    BY <2>1, <2>7, <2>8, <1>1
  <2>10. A4 \cup {m} = N \cup M \cup {l, l + 1, m}
    OBVIOUS
  <2>11. IfElse(cond, l, body, m, els) = x4 \o z
    BY DEF IfElse
  <2> QED BY <2>9, <2>10, <2>11
<1>6. ASSUME l \notin N, l + 1 \notin N, l + 2 \notin N PROVE Marked(Loop(l, cond, body), N \cup {l, l + 1, l + 2})
  <2> PICK h, b, g, z : h = Place(l) /\ b = Branch(cond, l + 2, l + 1) /\ g = Goto(l) /\ z = Place(l + 1)
    OBVIOUS
  <2>1. /\ h \in Seq(Instr) /\ Marked(h, {l}) /\ b \in Seq(Instr) /\ Marked(b, {l + 2})
        /\ g \in Seq(Instr) /\ Marked(g, {}) /\ z \in Seq(Instr) /\ Marked(z, {l + 1})
    BY <1>0, <1>2, <1>3
  <2>20. {l} \cap {l + 2} = {}
    OBVIOUS
  <2>2. h \o b \in Seq(Instr) /\ Marked(h \o b, {l} \cup {l + 2})
    BY <2>1, <2>20, <1>1
  <2> PICK x1, A1 : x1 = h \o b /\ A1 = {l} \cup {l + 2}
    OBVIOUS
  <2>3. A1 \cap N = {}
    BY <1>6
  <2>4. x1 \o body \in Seq(Instr) /\ Marked(x1 \o body, A1 \cup N)
    BY <2>2, <2>3, <1>1
  <2> PICK x2, A2 : x2 = x1 \o body /\ A2 = A1 \cup N
    OBVIOUS
  <2>5. A2 \cap {l + 1} = {}
    BY <1>6
  <2>6. x2 \o g \in Seq(Instr) /\ Marked(x2 \o g, A2)
    BY <2>1, <2>4, <1>12
  <2> PICK x3 : x3 = x2 \o g
    OBVIOUS
  <2>7. Marked(x3 \o z, A2 \cup {l + 1})
    BY <2>1, <2>5, <2>6, <1>1
  <2>8. A2 \cup {l + 1} = N \cup {l, l + 1, l + 2}
    OBVIOUS
  <2>9. Loop(l, cond, body) = x3 \o z
    BY DEF Loop
  <2> QED BY <2>7, <2>8, <2>9
<1> QED BY <1>4, <1>5, <1>6
\* A statement's labels are counted up from l.
Counts(x, l) == l <= x.labels /\ Marked(x.code, l .. x.labels - 1)

LEMMA CountsStmt ==
  ASSUME NEW st \in Stmt, NEW t \in Nat, NEW l \in Nat,
         \A ss : Part(st, ss) => \A n, m \in Nat : Counts(GenStmts[ss][n][m], m)
  PROVE  Counts(GenStmt(GenStmts, st, t, l), l)
<1>1. st.expr \in Expr => \A n \in Nat : GenExpr[st.expr][n] \in ExprCode /\ Marked(GenExpr[st.expr][n].code, {})
  BY GenExprFacts, MarkedExpr
<1>2. l .. l - 1 = {}
  OBVIOUS
<1>20. \A n \in Nat : n + 1 \in Nat /\ n + 2 \in Nat /\ n + 3 \in Nat
  OBVIOUS
<1> PICK x : x = GenStmt(GenStmts, st, t, l)
  OBVIOUS
<1>3. CASE st.kind = "declare"
  <2>1. x = [code |-> <<>>, temps |-> t, labels |-> l]
    BY <1>3 DEF GenStmt
  <2>2. x.code = <<>> /\ x.labels = l
    BY ONLY <2>1
  <2> QED BY <1>2, <2>2, MarkedOne DEF Counts
<1>4. CASE st.kind = "scan"
  <2> PICK in : in = TAC("SCAN", NULL, st.name, NULL)
    OBVIOUS
  <2>1. in \in Instr /\ in.op # "LABEL"
    BY <1>4, StmtFacts, OperandFacts, MadeInstr DEF TAC
  <2>2. x = [code |-> <<in>>, temps |-> t, labels |-> l]
    BY <1>4 DEF GenStmt
  <2>3. x.code = <<in>> /\ x.labels = l
    BY ONLY <2>2
  <2> QED BY <1>2, <2>1, <2>3, MarkedOne DEF Counts
<1>5. CASE st.kind \in {"assign", "print", "exit"}
  <2> PICK value : value = GenExpr[st.expr][t]
    OBVIOUS
  <2>1. value \in ExprCode /\ Marked(value.code, {}) /\ value.code \in Seq(Instr) /\ value.arg \in Arg
    BY <1>1, <1>5, StmtFacts DEF ExprCode
  <2>2. \E in \in Instr : in.op # "LABEL" /\ x = [code |-> value.code \o <<in>>, temps |-> value.temps, labels |-> l]
    <3>1. CASE st.kind = "assign"
      <4> PICK in : in = TAC("ASSIGN", st.name, value.arg, NULL)
        OBVIOUS
      <4>1. in \in Instr /\ in.op # "LABEL"
        BY <2>1, <3>1, StmtFacts, MadeInstr DEF TAC
      <4>2. x = [code |-> value.code \o <<in>>, temps |-> value.temps, labels |-> l]
        BY <3>1 DEF GenStmt
      <4> QED BY <4>1, <4>2, Zenon
    <3>2. CASE st.kind = "print"
      <4> PICK in : in = TAC("PRINT", NULL, value.arg, NULL)
        OBVIOUS
      <4>1. in \in Instr /\ in.op # "LABEL"
        BY <2>1, MadeInstr DEF TAC
      <4>2. x = [code |-> value.code \o <<in>>, temps |-> value.temps, labels |-> l]
        BY <3>2 DEF GenStmt
      <4> QED BY <4>1, <4>2
    <3>3. CASE st.kind = "exit"
      <4> PICK in : in = TAC("EXIT", NULL, value.arg, NULL)
        OBVIOUS
      <4>1. in \in Instr /\ in.op # "LABEL"
        BY <2>1, MadeInstr DEF TAC
      <4>2. x = [code |-> value.code \o <<in>>, temps |-> value.temps, labels |-> l]
        BY <3>3 DEF GenStmt
      <4> QED BY <4>1, <4>2
    <3> QED BY <1>5, <3>1, <3>2, <3>3, Zenon
  <2> PICK in \in Instr : in.op # "LABEL" /\ x = [code |-> value.code \o <<in>>, temps |-> value.temps, labels |-> l]
    BY <2>2
  <2> PICK c, d : c = value.code /\ d = <<in>>
    OBVIOUS
  <2>3. d \in Seq(Instr) /\ Marked(d, {})
    BY MarkedOne
  <2>4. Marked(c \o d, {} \cup {})
    <3>1. {} \cap {} = {}
      OBVIOUS
    <3> QED BY <2>1, <2>3, <3>1, MarkedBoth
  <2>5. {} \cup {} = {}
    OBVIOUS
  <2> PICK y, n : y = c \o d /\ n = value.temps
    OBVIOUS
  <2>6. x = [code |-> y, temps |-> n, labels |-> l]
    OBVIOUS
  <2>7. x.code = y /\ x.labels = l
    BY ONLY <2>6
  <2>8. Marked(y, {})
    BY <2>4, <2>5
  <2> QED BY <1>2, <2>7, <2>8 DEF Counts
<1>6. CASE st.kind = "block"
  <2>1. Part(st, st.body)
    BY <1>6 DEF Part
  <2>2. x = GenStmts[st.body][t][l]
    BY <1>6 DEF GenStmt
  <2> QED BY <2>1, <2>2
<1>7. CASE st.kind = "if"
  <2> PICK value : value = GenExpr[st.expr][t]
    OBVIOUS
  <2>1. value \in ExprCode /\ Marked(value.code, {}) /\ value.temps \in Nat
    BY <1>1, <1>7, StmtFacts DEF ExprCode
  <2>2. Part(st, st.body) /\ Part(st, st.els) /\ st.body \in Seq(Stmt) /\ st.els \in Seq(Stmt)
    BY <1>7, StmtFacts DEF Part
  <2> PICK b : b = GenStmts[st.body][value.temps][l + 2]
    OBVIOUS
  <2>3. b \in StmtCode /\ b.code \in Seq(Instr) /\ b.temps \in Nat /\ b.labels \in Nat
    BY <1>20, <2>1, <2>2, GenStmtsFacts, Zenon DEF StmtCode
  <2>4. Counts(b, l + 2)
    BY <1>20, <2>1, <2>2
  <2> PICK k \in Nat : k = b.labels
    BY <2>3
  <2> PICK e : e = GenStmts[st.els][b.temps][k + 1]
    BY Zenon
  <2>5. e \in StmtCode /\ e.code \in Seq(Instr) /\ e.labels \in Nat /\ Counts(e, k + 1)
    BY <1>20, <2>2, <2>3, GenStmtsFacts, Zenon DEF StmtCode
  <2> PICK n \in Nat : n = e.labels
    BY <2>5, Zenon
  <2>6. /\ l + 2 <= k /\ Marked(b.code, l + 2 .. k - 1)
        /\ k + 1 <= n /\ Marked(e.code, k + 1 .. n - 1)
    BY <2>4, <2>5, Zenon DEF Counts
  <2> PICK N, M : N = l + 2 .. k - 1 /\ M = k + 1 .. n - 1
    BY Zenon
  <2>7. x = IF st.els = <<>> THEN [b EXCEPT !.code = If(value, l, b.code)]
            ELSE [e EXCEPT !.code = IfElse(value, l, b.code, k, e.code)]
    BY <1>7, Zenon DEF GenStmt
  <2>8. l \notin N /\ l + 1 \notin N /\ N \cup {l, l + 1} \subseteq l .. k - 1
    BY ONLY <2>6, l \in Nat, k \in Nat, N = l + 2 .. k - 1
  <2>9. l \notin N \cup M /\ l + 1 \notin N \cup M /\ k \notin N \cup M \cup {l, l + 1} /\ N \cap M = {}
    BY ONLY <2>6, l \in Nat, k \in Nat, n \in Nat, N = l + 2 .. k - 1, M = k + 1 .. n - 1
  <2>10. N \cup M \cup {l, l + 1, k} \subseteq l .. n - 1
    BY ONLY <2>6, l \in Nat, k \in Nat, n \in Nat, N = l + 2 .. k - 1, M = k + 1 .. n - 1
  <2>11. Marked(b.code, N) /\ Marked(e.code, M)
    BY <2>6, Zenon
  <2>12. /\ Marked(If(value, l, b.code), N \cup {l, l + 1})
         /\ Marked(IfElse(value, l, b.code, k, e.code), N \cup M \cup {l, l + 1, k})
    BY ONLY <2>1, <2>3, <2>5, <2>8, <2>9, <2>11, l \in Nat, k \in Nat, MarkedPieces, Zenon
  <2> PICK c, d : c = If(value, l, b.code) /\ d = IfElse(value, l, b.code, k, e.code)
    BY Zenon
  <2>13. Marked(c, l .. k - 1) /\ Marked(d, l .. n - 1)
    BY ONLY <2>8, <2>10, <2>12, c = If(value, l, b.code), d = IfElse(value, l, b.code, k, e.code), MarkedMore
  <2>14. CASE st.els = <<>>
    <3>1. x = [b EXCEPT !.code = c]
      BY <2>7, <2>14, Zenon
    <3>2. x.code = c /\ x.labels = k
      BY <2>3, <3>1, Zenon DEF StmtCode
    <3>3. l <= k
      BY ONLY <2>6, l \in Nat, k \in Nat
    <3> QED BY <2>13, <3>2, <3>3, Zenon DEF Counts
  <2>15. CASE st.els # <<>>
    <3>1. x = [e EXCEPT !.code = d]
      BY <2>7, <2>15, Zenon
    <3>2. x.code = d /\ x.labels = n
      BY <2>5, <3>1, Zenon DEF StmtCode
    <3>3. l <= n
      BY ONLY <2>6, l \in Nat, k \in Nat, n \in Nat
    <3> QED BY <2>13, <3>2, <3>3, Zenon DEF Counts
  <2> QED BY <2>14, <2>15, Zenon
<1>8. CASE st.kind = "for"
  <2>1. /\ Part(st, st.init) /\ Part(st, st.body \o st.update)
        /\ st.init \in Seq(Stmt) /\ st.body \o st.update \in Seq(Stmt)
    BY <1>8, PartFacts DEF Part
  <2> PICK i : i = GenStmts[st.init][t][l]
    OBVIOUS
  <2>2. i \in StmtCode /\ i.code \in Seq(Instr) /\ i.temps \in Nat /\ i.labels \in Nat /\ Counts(i, l)
    BY <2>1, GenStmtsFacts DEF StmtCode
  <2> PICK c : c = GenExpr[st.expr][i.temps]
    OBVIOUS
  <2>3. c \in ExprCode /\ Marked(c.code, {}) /\ c.temps \in Nat
    BY <1>1, <1>8, <2>2, StmtFacts DEF ExprCode
  <2> PICK k \in Nat : k = i.labels
    BY <2>2
  <2> PICK b : b = GenStmts[st.body \o st.update][c.temps][k + 3]
    BY Zenon
  <2>4. b \in StmtCode /\ b.code \in Seq(Instr) /\ b.labels \in Nat /\ Counts(b, k + 3)
    BY <1>20, <2>1, <2>3, GenStmtsFacts, Zenon DEF StmtCode
  <2> PICK n \in Nat : n = b.labels
    BY <2>4, Zenon
  <2>5. /\ l <= k /\ Marked(i.code, l .. k - 1)
        /\ k + 3 <= n /\ Marked(b.code, k + 3 .. n - 1)
    BY <2>2, <2>4, Zenon DEF Counts
  <2> PICK N, M : N = k + 3 .. n - 1 /\ M = l .. k - 1
    BY Zenon
  <2>6. k \notin N /\ k + 1 \notin N /\ k + 2 \notin N
    BY ONLY k \in Nat, n \in Nat, N = k + 3 .. n - 1
  <2> PICK d : d = Loop(k, c, b.code)
    BY Zenon
  <2>7. Marked(d, N \cup {k, k + 1, k + 2}) /\ d \in Seq(Instr)
    <3>1. Marked(b.code, N)
      BY <2>5, Zenon
    <3>2. Marked(Loop(k, c, b.code), N \cup {k, k + 1, k + 2})
      BY ONLY <2>3, <2>4, <2>6, <3>1, k \in Nat, MarkedPieces
    <3>3. Loop(k, c, b.code) \in Seq(Instr)
      BY ONLY <2>3, <2>4, k \in Nat, PiecesTyped
    <3> QED BY <3>2, <3>3, Zenon
  <2> PICK K : K = N \cup {k, k + 1, k + 2}
    BY Zenon
  <2>8. M \cap K = {} /\ M \cup K \subseteq l .. n - 1
    BY ONLY <2>5, l \in Nat, k \in Nat, n \in Nat, N = k + 3 .. n - 1, M = l .. k - 1, K = N \cup {k, k + 1, k + 2}
  <2> PICK y : y = i.code \o d
    BY Zenon
  <2>9. Marked(y, M \cup K)
    BY <2>2, <2>5, <2>7, <2>8, MarkedBoth, Zenon
  <2>10. Marked(y, l .. n - 1)
    BY ONLY <2>8, <2>9, MarkedMore
  <2>11. x = [b EXCEPT !.code = y]
    BY <1>8, Zenon DEF GenStmt
  <2>12. x.code = y /\ x.labels = n
    BY <2>4, <2>11, Zenon DEF StmtCode
  <2>13. l <= n
    BY ONLY <2>5, l \in Nat, k \in Nat, n \in Nat
  <2> QED BY <2>10, <2>12, <2>13, Zenon DEF Counts
<1> QED BY <1>3, <1>4, <1>5, <1>6, <1>7, <1>8, StmtFacts

LEMMA CountsStmts ==
  \A ss \in Seq(Stmt), t \in Nat, l \in Nat : Counts(GenStmts[ss][t][l], l)
<1> DEFINE D == Seq(Stmt)
           T == {ss \in D : \A t, l \in Nat : Counts(GenStmts[ss][t][l], l)}
<1>0. Weight \in [D -> Nat]
  BY WeightFacts
<1>1. ASSUME NEW ss \in D, \A x \in D : Weight[x] < Weight[ss] => x \in T PROVE ss \in T
  <2> SUFFICES ASSUME NEW t \in Nat, NEW l \in Nat PROVE Counts(GenStmts[ss][t][l], l)
    OBVIOUS
  <2> PICK x : x = GenStmts[ss][t][l]
    OBVIOUS
  <2>1. x = StmtsOf(GenStmts, ss, t, l)
    BY GenStmtsFacts
  <2>2. CASE ss = <<>>
    <3>1. x = [code |-> <<>>, temps |-> t, labels |-> l]
      BY <2>1, <2>2 DEF StmtsOf
    <3>2. x.code = <<>> /\ x.labels = l
      BY ONLY <3>1
    <3>3. l .. l - 1 = {}
      OBVIOUS
    <3> QED BY <3>2, <3>3, MarkedOne DEF Counts
  <2>3. CASE ss # <<>>
    <3>1. Head(ss) \in Stmt /\ Tail(ss) \in Seq(Stmt)
      BY <2>3, HeadAndTail
    <3>2. \A y : Below(ss, y) => y \in T
      BY <1>1, <2>3, BelowFacts
    <3>3. \A y : Below(ss, y) => \A n, m \in Nat : Counts(GenStmts[y][n][m], m)
      BY <3>2
    <3> PICK first : first = GenStmt(GenStmts, Head(ss), t, l)
      OBVIOUS
    <3>4. Counts(first, l)
      BY <3>1, <3>3, CountsStmt DEF Below
    <3>5. first \in StmtCode /\ first.code \in Seq(Instr) /\ first.temps \in Nat /\ first.labels \in Nat
      <4>1. TypedFor(GenStmts, Head(ss))
        BY <3>1, PartFacts, GenStmtsFacts DEF TypedFor
      <4> QED BY <3>1, <4>1, GenStmtTyped DEF StmtCode
    <3> PICK k \in Nat : k = first.labels
      BY <3>5
    <3> PICK rest : rest = GenStmts[Tail(ss)][first.temps][k]
      OBVIOUS
    <3>6. rest \in StmtCode /\ rest.code \in Seq(Instr) /\ rest.labels \in Nat /\ Counts(rest, k)
      BY <3>1, <3>3, <3>5, GenStmtsFacts DEF StmtCode, Below
    <3> PICK n \in Nat : n = rest.labels
      BY <3>6
    <3>7. l <= k /\ k <= n /\ Marked(first.code, l .. k - 1) /\ Marked(rest.code, k .. n - 1)
      BY <3>4, <3>6, Zenon DEF Counts
    <3> PICK N, M : N = l .. k - 1 /\ M = k .. n - 1
      OBVIOUS
    <3>8. N \cap M = {} /\ N \cup M \subseteq l .. n - 1
      BY ONLY <3>7, l \in Nat, k \in Nat, n \in Nat, N = l .. k - 1, M = k .. n - 1
    <3> PICK y : y = first.code \o rest.code
      BY Zenon
    <3>9. Marked(y, N \cup M)
      BY <3>5, <3>6, <3>7, <3>8, MarkedBoth, Zenon
    <3>10. Marked(y, l .. n - 1)
      BY <3>8, <3>9, MarkedMore, Zenon
    <3>11. x = [rest EXCEPT !.code = y]
      BY <2>1, <2>3, Zenon DEF StmtsOf
    <3>12. x.code = y /\ x.labels = n
      BY <3>6, <3>11, Zenon DEF StmtCode
    <3>13. l <= n
      BY ONLY <3>7, l \in Nat, k \in Nat, n \in Nat
    <3> QED BY <3>10, <3>12, <3>13, Zenon DEF Counts
  <2> QED BY <2>2, <2>3
<1>2. D \subseteq T
  <2> HIDE DEF D, T
  <2> QED BY ONLY <1>0, <1>1, RankInduction
<1> QED BY <1>2

(* So a jump to a label of a program's code ends where it is placed.           *)
Placed(c) == /\ c \in Seq(Instr)
             /\ \A p \in 1 .. Len(c) : c[p].op = "LABEL" => \A otherwise : Landing(c, c[p].result, otherwise) = p

LEMMA GeneratedPlaced ==
  ASSUME NEW tr \in Trees
  PROVE  Placed(Generated(tr))
<1> PICK c : c = Generated(tr)
  OBVIOUS
<1>1. c \in Seq(Instr)
  BY GeneratedTyped
<1>2. OneEach(c)
  <2>1. tr \in Seq(Stmt)
    BY TreesAssumption
  <2>2. Counts(GenStmts[tr][0][0], 0)
    BY <2>1, CountsStmts
  <2> QED BY <2>2 DEF Counts, Marked, Generated
<1>3. ASSUME NEW p \in 1 .. Len(c), c[p].op = "LABEL", NEW otherwise PROVE Landing(c, c[p].result, otherwise) = p
  <2>1. Labels(c, c[p].result)
    BY <1>1, <1>3, CodeFacts DEF Labels
  <2>2. PICK i \in 1 .. Len(c) : /\ c[i].op = "LABEL" /\ c[i].result = c[p].result
                                 /\ Landing(c, c[p].result, otherwise) = i
    BY ONLY <1>1, <2>1, LandingFacts
  <2>3. i = p
    BY <1>2, <1>3, <2>2 DEF OneEach
  <2> QED BY <2>2, <2>3
<1> QED BY <1>1, <1>3 DEF Placed
-----------------------------------------------------------------------------
(* A piece of code in its place.                                               *)
CodeAt(c, p, d) == p \in Places /\ p + Len(d) <= Len(c) + 1 /\ \A i \in 1 .. Len(d) : c[p + i - 1] = d[i]

LEMMA CodeAtBoth ==
  ASSUME NEW c \in Seq(Instr), NEW a \in Seq(Instr), NEW b \in Seq(Instr), NEW p, CodeAt(c, p, a \o b)
  PROVE  /\ CodeAt(c, p, a) /\ CodeAt(c, p + Len(a), b)
         /\ Len(a) \in Nat /\ Len(b) \in Nat /\ Len(a \o b) = Len(a) + Len(b)
<1> PICK d, n, m, k : d = a \o b /\ n = Len(a) /\ m = Len(b) /\ k = Len(c)
  OBVIOUS
<1>1. /\ n \in Nat /\ m \in Nat /\ Len(d) = n + m /\ k \in Nat
      /\ \A i \in 1 .. n + m : d[i] = IF i <= n THEN a[i] ELSE b[i - n]
  BY ConcatProperties, LenProperties
<1>2. p \in Nat /\ p # 0 /\ p + (n + m) <= k + 1 /\ \A i \in 1 .. n + m : c[p + i - 1] = d[i]
  BY <1>1 DEF CodeAt, Places
<1>3. ASSUME NEW i \in 1 .. n PROVE c[p + i - 1] = a[i]
  <2>1. i \in 1 .. n + m /\ i <= n
    BY <1>1
  <2> QED BY <1>1, <1>2, <2>1
<1>4. ASSUME NEW i \in 1 .. m PROVE c[(p + n) + i - 1] = b[i]
  <2>1. n + i \in 1 .. n + m /\ ~(n + i <= n) /\ (n + i) - n = i /\ p + (n + i) - 1 = (p + n) + i - 1
    BY <1>1, <1>2
  <2>2. c[p + (n + i) - 1] = b[(n + i) - n]
    BY <1>1, <1>2, <2>1
  <2> QED BY <2>1, <2>2
<1>5. p + n <= k + 1 /\ (p + n) + m <= k + 1 /\ p + n \in Nat /\ p + n # 0
  BY <1>1, <1>2
<1> QED BY <1>1, <1>2, <1>3, <1>4, <1>5 DEF CodeAt, Places

LEMMA CodeAtOne ==
  ASSUME NEW c \in Seq(Instr), NEW in, NEW p, CodeAt(c, p, <<in>>)
  PROVE  p \in 1 .. Len(c) /\ c[p] = in /\ p + 1 \in Places
<1> PICK d, k : d = <<in>> /\ k = Len(c)
  OBVIOUS
<1>1. Len(d) = 1 /\ d[1] = in /\ k \in Nat
  BY LenProperties
<1>2. p \in Nat /\ p # 0 /\ p + 1 <= k + 1 /\ c[p + 1 - 1] = in
  BY <1>1 DEF CodeAt, Places
<1>3. p + 1 - 1 = p /\ p \in 1 .. k /\ p + 1 \in Nat /\ p + 1 # 0
  BY <1>1, <1>2
<1> QED BY <1>2, <1>3 DEF Places

LEMMA CodeAtEnds ==
  ASSUME NEW c \in Seq(Instr), NEW d \in Seq(Instr), NEW p, CodeAt(c, p, d)
  PROVE  /\ p \in Places /\ p + Len(d) \in Places /\ p + Len(d) <= Len(c) + 1 /\ p <= p + Len(d)
         /\ Len(d) \in Nat /\ Len(d) <= Len(c)
<1> PICK n, k : n = Len(d) /\ k = Len(c)
  OBVIOUS
<1>1. n \in Nat /\ k \in Nat /\ p \in Nat /\ p # 0 /\ p + n <= k + 1
  BY LenProperties DEF CodeAt, Places
<1>2. p + n \in Nat /\ p + n # 0 /\ p <= p + n /\ n <= k
  BY <1>1
<1> QED BY <1>1, <1>2 DEF Places

(* A run of it from anywhere.                                                  *)
Goes(r, c) == r \in [Nat -> State] /\ \A i \in Nat : r[i + 1] = Stepped(c, r[i])
Live(r, k, p) == ~Ended(r[k]) /\ r[k].next = p

LEMMA OneStep ==
  ASSUME NEW c \in Seq(Instr), NEW r, Goes(r, c), NEW k \in Nat, NEW p \in 1 .. Len(c), Live(r, k, p)
  PROVE  /\ c[p] \in Instr /\ r[k] \in State /\ r[k + 1] \in State
         /\ c[p].op \notin {"GOTO", "IF"} => r[k + 1] = Act(Does(c[p], r[k]), At(r[k], p + 1))
         /\ c[p].op = "LABEL" => r[k + 1] = At(r[k], p + 1)
         /\ c[p].op = "GOTO" => r[k + 1] = At(r[k], Landing(c, c[p].arg1, p + 1))
         /\ c[p].op = "IF" => r[k + 1] = At(r[k], IF Content(r[k], c[p].arg1) # 0
                                                  THEN Landing(c, c[p].arg2, p + 1) ELSE p + 1)
<1>1. c[p] \in Instr /\ r[k] \in State /\ k + 1 \in Nat /\ r[k + 1] \in State /\ r[k + 1] = Stepped(c, r[k])
  BY CodeFacts DEF Goes
<1> PICK s, in : s = r[k] /\ in = c[p]
  OBVIOUS
<1>2. r[k + 1] = Act(Does(in, s), At(s, To(c, s))) /\ s.next = p
  BY <1>1, StepIs DEF Stepped, Live
<1>3. in.op \in {"LABEL", "GOTO", "IF"} => Act(Does(in, s), At(s, To(c, s))) = At(s, To(c, s))
  BY <1>1, DoesFacts DEF Act
<1>4. in.op \notin {"GOTO", "IF"} => To(c, s) = p + 1
  BY <1>2 DEF To
<1>5. in.op = "GOTO" => To(c, s) = Landing(c, in.arg1, p + 1)
  BY <1>2 DEF To
<1>6. in.op = "IF" => To(c, s) = IF Content(s, in.arg1) # 0 THEN Landing(c, in.arg2, p + 1) ELSE p + 1
  BY <1>2 DEF To
<1> QED BY <1>1, <1>2, <1>3, <1>4, <1>5, <1>6

LEMMA AtTwice ==
  ASSUME NEW s \in State
  PROVE  /\ At(s, s.next) = s
         /\ \A p, q \in Places : At(At(s, p), q) = At(s, q)
         /\ \A p \in Places : Ended(At(s, p)) <=> Ended(s)
<1>1. At(s, s.next) = s
  BY DEF At, State
<1>2. \A p, q \in Places : At(At(s, p), q) = At(s, q)
  BY DEF At, State
<1>3. \A p \in Places : Ended(At(s, p)) <=> Ended(s)
  BY AtFacts DEF Ended
<1> QED BY <1>1, <1>2, <1>3

(* Where nothing happens but that the run gets from p to q, no later than one  *)
(* instruction after the other would.                                          *)
Forward(r, p, q) == /\ p \in Places /\ q \in Places /\ p <= q
                    /\ \A k \in Nat : Live(r, k, p) => \E n \in 0 .. q - p : r[k + n] = At(r[k], q)
Hop(r, p, q) == p \in Places /\ q \in Places /\ \A k \in Nat : Live(r, k, p) => r[k + 1] = At(r[k], q)

LEMMA ForwardFacts ==
  ASSUME NEW c \in Seq(Instr), NEW r, Goes(r, c)
  PROVE  /\ \A p \in Places : Forward(r, p, p)
         /\ \A p, q, z : Forward(r, p, q) /\ Forward(r, q, z) => Forward(r, p, z)
         /\ \A p, q : Hop(r, p, q) /\ p < q => Forward(r, p, q)
<1>0. \A k \in Nat : r[k] \in State
  BY DEF Goes
<1>1. ASSUME NEW p \in Places PROVE Forward(r, p, p)
  <2>1. p \in Nat
    BY DEF Places
  <2>2. ASSUME NEW k \in Nat, Live(r, k, p) PROVE \E n \in 0 .. p - p : r[k + n] = At(r[k], p)
    <3>1. r[k] = At(r[k], p) /\ k + 0 = k
      BY <1>0, <2>2, AtTwice DEF Live
    <3>2. 0 \in 0 .. p - p
      BY <2>1
    <3> QED BY <3>1, <3>2
  <2> QED BY <2>1, <2>2 DEF Forward
<1>2. ASSUME NEW p, NEW q, NEW z, Forward(r, p, q), Forward(r, q, z) PROVE Forward(r, p, z)
  <2>1. p \in Places /\ q \in Places /\ z \in Places /\ p \in Nat /\ q \in Nat /\ z \in Nat /\ p <= q /\ q <= z
    BY <1>2 DEF Forward, Places
  <2>2. ASSUME NEW k \in Nat, Live(r, k, p) PROVE \E n \in 0 .. z - p : r[k + n] = At(r[k], z)
    <3>1. PICK n \in 0 .. q - p : r[k + n] = At(r[k], q)
      BY <1>2, <2>2 DEF Forward
    <3>2. n \in Nat /\ k + n \in Nat
      BY <2>1
    <3>3. Live(r, k + n, q)
      BY <1>0, <2>1, <2>2, <3>1, AtFacts, AtTwice DEF Live
    <3>4. PICK m \in 0 .. z - q : r[(k + n) + m] = At(r[k + n], z)
      BY <1>2, <3>2, <3>3 DEF Forward
    <3>5. At(r[k + n], z) = At(r[k], z)
      BY <1>0, <2>1, <3>1, AtTwice
    <3>6. n + m \in 0 .. z - p /\ (k + n) + m = k + (n + m)
      BY ONLY <2>1, <3>2, k \in Nat, n \in 0 .. q - p, m \in 0 .. z - q
    <3> QED BY <3>4, <3>5, <3>6
  <2>3. p <= z
    BY <2>1
  <2> QED BY <2>1, <2>2, <2>3 DEF Forward
<1>3. ASSUME NEW p, NEW q, Hop(r, p, q), p < q PROVE Forward(r, p, q)
  <2>1. p \in Places /\ q \in Places /\ p \in Nat /\ q \in Nat
    BY <1>3 DEF Hop, Places
  <2>2. 1 \in 0 .. q - p /\ p <= q
    BY <1>3, <2>1
  <2> QED BY <1>3, <2>1, <2>2 DEF Forward, Hop
<1> QED BY <1>1, <1>2, <1>3

\* Labels are passed, and jumps end at theirs.
LEMMA JumpsTo ==
  ASSUME NEW c, Placed(c), NEW r, Goes(r, c)
  PROVE  /\ \A p, l : CodeAt(c, p, Place(l)) => Forward(r, p, p + 1)
         /\ \A p, q, l : CodeAt(c, p, Goto(l)) /\ CodeAt(c, q, Place(l)) => Hop(r, p, q)
<1>0. c \in Seq(Instr)
  BY DEF Placed
<1>1. ASSUME NEW p, NEW l, CodeAt(c, p, Place(l)) PROVE Forward(r, p, p + 1)
  <2>1. p \in 1 .. Len(c) /\ c[p] = TAC("LABEL", Label(l), NULL, NULL) /\ p + 1 \in Places /\ p \in Places
    BY <1>0, <1>1, CodeAtOne DEF Place, CodeAt
  <2>2. c[p].op = "LABEL"
    BY <2>1 DEF TAC
  <2>3. Hop(r, p, p + 1)
    BY <1>0, <2>1, <2>2, OneStep DEF Hop
  <2>4. p < p + 1
    BY <2>1 DEF Places
  <2> QED BY <1>0, <2>3, <2>4, ForwardFacts
<1>2. ASSUME NEW p, NEW q, NEW l, CodeAt(c, p, Goto(l)), CodeAt(c, q, Place(l)) PROVE Hop(r, p, q)
  <2>1. p \in 1 .. Len(c) /\ c[p] = TAC("GOTO", NULL, Label(l), NULL) /\ p \in Places
    BY <1>0, <1>2, CodeAtOne DEF Goto, CodeAt
  <2>2. q \in 1 .. Len(c) /\ c[q] = TAC("LABEL", Label(l), NULL, NULL) /\ q \in Places
    BY <1>0, <1>2, CodeAtOne DEF Place, CodeAt
  <2>3. c[p].op = "GOTO" /\ c[p].arg1 = Label(l) /\ c[q].op = "LABEL" /\ c[q].result = Label(l)
    BY <2>1, <2>2 DEF TAC
  <2>4. Landing(c, Label(l), p + 1) = q
    BY <2>2, <2>3 DEF Placed
  <2> QED BY <1>0, <2>1, <2>2, <2>3, <2>4, OneStep DEF Hop
<1> QED BY <1>1, <1>2
-----------------------------------------------------------------------------
(* An expression's code leaves its value in its operand, and changes only the  *)
(* temporaries it has taken.                                                   *)
Between(m, n) == {Temp(j) : j \in m .. n - 1}

LEMMA BetweenFacts ==
  /\ \A m, n \in Nat : Between(m, n) \subseteq Temps
  /\ \A l, m, n \in Nat : l <= m /\ m <= n => Between(l, m) \cup Between(m, n) \cup {Temp(n)} \subseteq Between(l, n + 1)
  /\ \A l, m, n \in Nat : l <= m /\ m <= n => Between(l, m) \cap Between(m, n) = {} /\ Temp(n) \in Between(l, n + 1)
<1>1. \A i, j : Temp(i) = Temp(j) => i = j
  BY DEF Temp
<1>2. \A m, n \in Nat : Between(m, n) \subseteq Temps
  BY OperandFacts DEF Between
<1>3. ASSUME NEW l \in Nat, NEW m \in Nat, NEW n \in Nat, l <= m, m <= n
      PROVE  /\ Between(l, m) \cup Between(m, n) \cup {Temp(n)} \subseteq Between(l, n + 1)
             /\ Between(l, m) \cap Between(m, n) = {} /\ Temp(n) \in Between(l, n + 1)
  <2>1. l .. m - 1 \subseteq l .. (n + 1) - 1 /\ m .. n - 1 \subseteq l .. (n + 1) - 1 /\ n \in l .. (n + 1) - 1
    BY <1>3
  <2>2. \A i \in l .. m - 1, j \in m .. n - 1 : i # j
    BY <1>3
  <2> QED BY <1>1, <2>1, <2>2 DEF Between
<1> QED BY <1>2, <1>3

LEMMA ArgFacts ==
  ASSUME NEW e \in Expr, Pure(e), NEW t \in Nat
  PROVE  LET x == GenExpr[e][t]
         IN  x.arg \in Operand /\ (x.arg \in Temps => x.arg \in Between(t, x.temps))
<1> PICK x : x = GenExpr[e][t]
  OBVIOUS
<1>1. CASE e.kind # "op"
  <2>1. x = [code |-> <<>>, arg |-> e.operand, temps |-> t]
    BY <1>1, GenExprFacts, Zenon DEF ExprOf
  <2>2. x.arg = e.operand
    BY ONLY <2>1
  <2> QED BY <1>1, <2>2, PureFacts
<1>2. CASE e.kind = "op"
  <2> PICK right : right = GenExpr[e.right][GenExpr[e.left][t].temps]
    OBVIOUS
  <2>1. x.arg = Temp(right.temps) /\ x.temps = right.temps + 1
    <3>1. x = ExprOf(GenExpr, e, t)
      BY GenExprFacts
    <3> PICK d, p, n : d = GenExpr[e.left][t].code \o right.code \o <<TAC(e.op, Temp(right.temps), GenExpr[e.left][t].arg, right.arg)>>
                       /\ p = Temp(right.temps) /\ n = right.temps + 1
      BY Zenon
    <3>2. x = [code |-> d, arg |-> p, temps |-> n]
      BY <1>2, <3>1, Zenon DEF ExprOf
    <3>3. x.arg = p /\ x.temps = n
      BY ONLY <3>2
    <3> QED BY <3>3, Zenon
  <2>2. GenExpr[e.left][t].temps \in Nat /\ t <= GenExpr[e.left][t].temps
    BY <1>2, ExprFacts, GenExprFacts, MarkedExpr DEF ExprCode
  <2>3. right.temps \in Nat /\ GenExpr[e.left][t].temps <= right.temps
    BY <1>2, <2>2, ExprFacts, GenExprFacts, MarkedExpr DEF ExprCode
  <2> PICK m, n : m = GenExpr[e.left][t].temps /\ n = right.temps
    OBVIOUS
  <2>4. t <= n /\ n \in Nat /\ t <= t
    BY ONLY <2>2, <2>3, t \in Nat, m = GenExpr[e.left][t].temps, n = right.temps
  <2>5. Temp(n) \in Between(t, n + 1)
    BY <2>4, BetweenFacts
  <2>6. Temp(n) \in Operand
    BY <2>4, OperandFacts
  <2> QED BY <2>1, <2>5, <2>6
<1> QED BY <1>1, <1>2

LEMMA StateValued == \A s \in State : Valued(s)
BY StateFacts DEF Valued

LEMMA ExprRuns ==
  ASSUME NEW c \in Seq(Instr), NEW r, Goes(r, c)
  PROVE  \A e \in Expr : Pure(e) =>
           \A t \in Nat : \A p, k : k \in Nat /\ CodeAt(c, p, GenExpr[e][t].code) /\ Live(r, k, p) =>
             LET x == GenExpr[e][t]
                 n == Len(x.code)
             IN  /\ Live(r, k + n, p + n)
                 /\ Like(r[k], r[k + n], Between(t, x.temps))
                 /\ Content(r[k + n], x.arg) = Held(e, r[k])
<1> DEFINE rank == [e \in Expr |-> Size[e]]
           Good(e, t, p, k) == LET x == GenExpr[e][t]
                                   n == Len(x.code)
                               IN  /\ Live(r, k + n, p + n)
                                   /\ Like(r[k], r[k + n], Between(t, x.temps))
                                   /\ Content(r[k + n], x.arg) = Held(e, r[k])
           T == {e \in Expr : Pure(e) => \A t \in Nat : \A p, k :
                   k \in Nat /\ CodeAt(c, p, GenExpr[e][t].code) /\ Live(r, k, p) => Good(e, t, p, k)}
<1>1. rank \in [Expr -> Nat]
  BY SizeFacts
<1>0. \A k \in Nat : r[k] \in State /\ Valued(r[k])
  BY StateValued DEF Goes
<1>2. ASSUME NEW e \in Expr, \A x \in Expr : rank[x] < rank[e] => x \in T PROVE e \in T
  <2> SUFFICES ASSUME Pure(e), NEW t \in Nat, NEW p, NEW k \in Nat, CodeAt(c, p, GenExpr[e][t].code), Live(r, k, p)
               PROVE  Good(e, t, p, k)
    OBVIOUS
  <2> PICK x : x = GenExpr[e][t]
    OBVIOUS
  <2>1. CASE e.kind # "op"
    <3>1. x = [code |-> <<>>, arg |-> e.operand, temps |-> t]
      BY <2>1, GenExprFacts, Zenon DEF ExprOf
    <3>2. x.code = <<>> /\ x.arg = e.operand /\ Len(x.code) = 0 /\ p \in Nat
      <4>1. x.code = <<>> /\ x.arg = e.operand
        BY ONLY <3>1
      <4> QED BY <4>1, EmptySeq DEF CodeAt, Places
    <3>3. k + 0 = k /\ p + 0 = p
      BY <3>2
    <3>4. Content(r[k], x.arg) = Held(e, r[k])
      BY <1>0, <2>1, <3>2, HeldFacts
    <3>5. Like(r[k], r[k], Between(t, x.temps))
      BY DEF Like
    <3> QED BY <3>2, <3>3, <3>4, <3>5
  <2>2. CASE e.kind = "op"
    <3> HIDE DEF Good
    <3> PICK left : left = GenExpr[e.left][t]
      OBVIOUS
    <3>1. /\ e.op \in Arithmetic /\ e.left \in T /\ e.right \in T /\ Pure(e.left) /\ Pure(e.right)
          /\ e.left \in Expr /\ e.right \in Expr
      BY <1>2, <2>2, ExprFacts, PureFacts
    <3>2. left \in ExprCode /\ left.code \in Seq(Instr) /\ left.temps \in Nat /\ left.arg \in Arg /\ t <= left.temps
      BY <3>1, GenExprFacts, MarkedExpr DEF ExprCode
    <3> PICK m \in Nat : m = left.temps
      BY <3>2
    <3> PICK right : right = GenExpr[e.right][m]
      OBVIOUS
    <3>3. right \in ExprCode /\ right.code \in Seq(Instr) /\ right.temps \in Nat /\ right.arg \in Arg /\ m <= right.temps
      BY <3>1, GenExprFacts, MarkedExpr DEF ExprCode
    <3> PICK n \in Nat : n = right.temps
      BY <3>3
    <3> PICK in, d, lc, rc : in = TAC(e.op, Temp(n), left.arg, right.arg) /\ d = <<in>> /\ lc = left.code /\ rc = right.code
      BY Zenon
    <3>4. in \in Instr /\ d \in Seq(Instr) /\ lc \in Seq(Instr) /\ rc \in Seq(Instr) /\ lc \o rc \in Seq(Instr)
      <4>1. in \in Instr
        BY <3>1, <3>2, <3>3, OperandFacts, MadeInstr, Zenon
      <4>2. d \in Seq(Instr)
        BY ONLY <4>1, d = <<in>>
      <4>3. lc \in Seq(Instr) /\ rc \in Seq(Instr)
        BY ONLY <3>2, <3>3, lc = left.code, rc = right.code
      <4>4. lc \o rc \in Seq(Instr)
        BY ONLY <4>3, ConcatProperties
      <4> QED BY ONLY <4>1, <4>2, <4>3, <4>4
    <3>5. x.code = (lc \o rc) \o d /\ x.arg = Temp(n) /\ x.temps = n + 1
      <4> PICK y, a, j : y = (lc \o rc) \o d /\ a = Temp(n) /\ j = n + 1
        BY Zenon
      <4>1. x = [code |-> y, arg |-> a, temps |-> j]
        BY <2>2, GenExprFacts, Zenon DEF ExprOf
      <4>2. x.code = y /\ x.arg = a /\ x.temps = j
        BY ONLY <4>1
      <4> QED BY <4>2, Zenon
    <3> PICK n1, n2 : n1 = Len(lc) /\ n2 = Len(rc)
      BY Zenon
    <3>6. /\ CodeAt(c, p, lc) /\ CodeAt(c, p + n1, rc) /\ CodeAt(c, p + (n1 + n2), d)
          /\ n1 \in Nat /\ n2 \in Nat /\ Len(x.code) = (n1 + n2) + 1
      <4>1. CodeAt(c, p, (lc \o rc) \o d)
        BY <3>5, Zenon
      <4> PICK b : b = lc \o rc
        BY Zenon
      <4>2. /\ CodeAt(c, p, b) /\ CodeAt(c, p + Len(b), d) /\ Len(b \o d) = Len(b) + Len(d)
        <5>1. CodeAt(c, p, b \o d) /\ b \in Seq(Instr) /\ d \in Seq(Instr)
          BY ONLY b = lc \o rc, <3>4, <4>1
        <5> QED BY ONLY c \in Seq(Instr), <5>1, CodeAtBoth
      <4>3. CodeAt(c, p, lc) /\ CodeAt(c, p + n1, rc) /\ Len(b) = n1 + n2 /\ n1 \in Nat /\ n2 \in Nat
        BY ONLY c \in Seq(Instr), b = lc \o rc, n1 = Len(lc), n2 = Len(rc), <3>4, <4>2, CodeAtBoth
      <4>4. Len(d) = 1
        BY Zenon
      <4> QED BY <3>5, <4>2, <4>3, <4>4, Zenon
    <3> PICK k1, k2, p1, p2 : k1 = k + n1 /\ k2 = k1 + n2 /\ p1 = p + n1 /\ p2 = p1 + n2
      BY Zenon
    <3>7. /\ p \in Nat /\ p # 0 /\ k1 \in Nat /\ k2 \in Nat /\ p1 \in Nat /\ p2 \in Nat
          /\ k2 + 1 = k + ((n1 + n2) + 1) /\ p2 + 1 = p + ((n1 + n2) + 1) /\ p2 = p + (n1 + n2)
      <4>1. p \in Nat /\ p # 0
        BY Zenon DEF CodeAt, Places
      <4> QED BY ONLY <4>1, <3>6, k \in Nat, k1 = k + n1, k2 = k1 + n2, p1 = p + n1, p2 = p1 + n2
    <3>8. Live(r, k1, p1) /\ Like(r[k], r[k1], Between(t, m)) /\ Content(r[k1], left.arg) = Held(e.left, r[k])
      <4>1. Good(e.left, t, p, k)
        BY <3>1, <3>6, Zenon
      <4> QED BY <4>1, Zenon DEF Good
    <3>9. Live(r, k2, p2) /\ Like(r[k1], r[k2], Between(m, n)) /\ Content(r[k2], right.arg) = Held(e.right, r[k1])
      <4>1. Good(e.right, m, p1, k1)
        BY <3>1, <3>6, <3>7, <3>8, Zenon
      <4> QED BY <4>1, Zenon DEF Good
    <3>10. Held(e.right, r[k1]) = Held(e.right, r[k])
      <4>1. \A a \in Operand \ Temps : Content(r[k1], a) = Content(r[k], a)
        BY <3>8, <3>2, BetweenFacts, Zenon DEF Like
      <4> QED BY <1>0, <3>1, <3>7, <4>1, HeldAlike, Zenon
    <3>11. Content(r[k2], left.arg) = Held(e.left, r[k])
      <4>1. left.arg \in Operand /\ (left.arg \in Temps => left.arg \in Between(t, m))
        BY <3>1, ArgFacts, Zenon
      <4>2. left.arg \notin Between(m, n)
        BY <4>1, <3>2, <3>3, BetweenFacts, Zenon
      <4> QED BY <3>8, <3>9, <4>1, <4>2, Zenon DEF Like
    <3> PICK s, v : s = r[k2] /\ v = Held(e, r[k])
      BY Zenon
    <3>12. v = Compute(e.op, Held(e.left, r[k]), Held(e.right, r[k])) /\ v \in Int
      BY <1>0, <2>2, HeldFacts, Zenon
    <3>13. in.op = e.op /\ in.result = Temp(n) /\ in.arg1 = left.arg /\ in.arg2 = right.arg
      BY Zenon DEF TAC
    <3>14. p2 \in 1 .. Len(c) /\ c[p2] = in /\ p2 + 1 \in Places /\ s \in State
      BY <1>0, <3>6, <3>7, CodeAtOne, Zenon
    <3>15. r[k2 + 1] = Act(Does(in, s), At(s, p2 + 1))
      <4>1. in.op \notin {"GOTO", "IF"}
        BY <3>1, <3>13, OpsDiffer, Zenon
      <4> QED BY ONLY c \in Seq(Instr), Goes(r, c), s = r[k2], <3>7, <3>9, <3>14, <4>1, OneStep
    <3>16. Does(in, s).kind = "set" /\ Does(in, s).var = Temp(n) /\ Does(in, s).n = v
      <4>1. Does(in, s).kind = "set" /\ Does(in, s).var = in.result
            /\ Does(in, s).n = Compute(in.op, Content(s, in.arg1), Content(s, in.arg2))
        BY ONLY <3>1, <3>4, <3>13, <3>14, DoesFacts
      <4> QED BY ONLY s = r[k2], <4>1, <3>9, <3>10, <3>11, <3>12, <3>13
    <3> PICK u : u = At(s, p2 + 1)
      BY Zenon
    <3>17. r[k2 + 1] = Set(u, Temp(n), v)
      BY <3>15, <3>16, Zenon DEF Act
    <3>18. /\ u \in State /\ u.next = p2 + 1 /\ u.out = s.out /\ u.input = s.input /\ u.exit = s.exit
           /\ \A a : Content(u, a) = Content(s, a)
      BY ONLY u = At(s, p2 + 1), <3>14, AtFacts
    <3>19. Temp(n) \in Operand /\ ~IsConstant(Temp(n))
      BY OperandFacts, Zenon DEF IsConstant, Temp
    <3> PICK w : w = r[k2 + 1]
      BY Zenon
    <3>20. /\ w.out = s.out /\ w.input = s.input /\ w.exit = s.exit /\ w.next = p2 + 1
           /\ \A a : Content(w, a) = IF a = Temp(n) /\ ~IsConstant(a) THEN v ELSE Content(s, a)
      BY ONLY w = r[k2 + 1], <3>12, <3>17, <3>18, <3>19, SetFacts
    <3>21. Content(w, Temp(n)) = v /\ Live(r, k2 + 1, p2 + 1)
      BY <3>9, <3>19, <3>20, Zenon DEF Live, Ended
    <3>22. Like(r[k], w, Between(t, n + 1))
      <4>1. Between(t, m) \cup Between(m, n) \cup {Temp(n)} \subseteq Between(t, n + 1)
        BY <3>2, <3>3, BetweenFacts, Zenon
      <4>2. \A a \in Operand \ Between(t, n + 1) : Content(r[k], a) = Content(w, a)
        BY ONLY s = r[k2], <3>8, <3>9, <3>20, <4>1 DEF Like
      <4> QED BY <3>8, <3>9, <3>20, <4>2, Zenon DEF Like
    <3> QED BY <3>5, <3>6, <3>7, <3>21, <3>22, Zenon DEF Good
  <2> QED BY <2>1, <2>2
<1>3. Expr \subseteq T
  <2> HIDE DEF rank, T
  <2> QED BY ONLY <1>1, <1>2, RankInduction
<1> QED BY <1>3

LEMMA ExprEnds ==
  ASSUME NEW c \in Seq(Instr), NEW r, Goes(r, c), NEW e \in Expr, Pure(e), NEW t \in Nat, NEW p, NEW k \in Nat,
         CodeAt(c, p, GenExpr[e][t].code), Live(r, k, p)
  PROVE  LET x == GenExpr[e][t]
             n == Len(x.code)
         IN  /\ Live(r, k + n, p + n)
             /\ Like(r[k], r[k + n], Between(t, x.temps))
             /\ Content(r[k + n], x.arg) = Held(e, r[k])
<1> DEFINE Good(f, u, q, j) == LET x == GenExpr[f][u]
                                   n == Len(x.code)
                               IN  /\ Live(r, j + n, q + n)
                                   /\ Like(r[j], r[j + n], Between(u, x.temps))
                                   /\ Content(r[j + n], x.arg) = Held(f, r[j])
<1>1. \A f \in Expr : Pure(f) =>
        \A u \in Nat : \A q, j : j \in Nat /\ CodeAt(c, q, GenExpr[f][u].code) /\ Live(r, j, q) => Good(f, u, q, j)
  BY ExprRuns
<1>2. Good(e, t, p, k)
  <2> HIDE DEF Good
  <2> QED BY <1>1
<1> QED BY <1>2
-----------------------------------------------------------------------------
(* Statements in their place, from p up to q.                                  *)
StmtAt(c, p, q, st) ==
  /\ st \in Stmt
  /\ \E t, l \in Nat : LET d == GenStmt(GenStmts, st, t, l).code IN CodeAt(c, p, d) /\ q = p + Len(d)
BlockAt(c, p, q, ss) ==
  /\ ss \in Seq(Stmt)
  /\ \E t, l \in Nat : LET d == GenStmts[ss][t][l].code IN CodeAt(c, p, d) /\ q = p + Len(d)

LEMMA GenStmtIsCode ==
  ASSUME NEW st \in Stmt, NEW t \in Nat, NEW l \in Nat
  PROVE  LET x == GenStmt(GenStmts, st, t, l)
         IN  x \in StmtCode /\ x.code \in Seq(Instr) /\ x.temps \in Nat /\ x.labels \in Nat
<1>1. TypedFor(GenStmts, st)
  BY PartFacts, GenStmtsFacts DEF TypedFor
<1>2. GenStmt(GenStmts, st, t, l) \in StmtCode
  BY <1>1, GenStmtTyped
<1> QED BY <1>2 DEF StmtCode

LEMMA GenStmtsIsCode ==
  ASSUME NEW ss \in Seq(Stmt), NEW t \in Nat, NEW l \in Nat
  PROVE  LET x == GenStmts[ss][t][l]
         IN  x \in StmtCode /\ x.code \in Seq(Instr) /\ x.temps \in Nat /\ x.labels \in Nat
<1>1. GenStmts[ss][t][l] \in StmtCode
  BY GenStmtsFacts
<1> QED BY <1>1 DEF StmtCode

LEMMA BlockAtFacts ==
  ASSUME NEW c \in Seq(Instr), NEW p, NEW q, NEW ss, BlockAt(c, p, q, ss)
  PROVE  /\ p \in Places /\ q \in Places /\ p <= q /\ q <= Len(c) + 1 /\ ss \in Seq(Stmt)
         /\ ss = <<>> => p = q
         /\ ss # <<>> => \E m \in Places : StmtAt(c, p, m, Head(ss)) /\ BlockAt(c, m, q, Tail(ss))
<1>1. PICK t, l \in Nat : LET d == GenStmts[ss][t][l].code IN CodeAt(c, p, d) /\ q = p + Len(d)
  BY DEF BlockAt
<1>2. ss \in Seq(Stmt)
  BY DEF BlockAt
<1> PICK x : x = GenStmts[ss][t][l]
  OBVIOUS
<1>3. x.code \in Seq(Instr) /\ CodeAt(c, p, x.code) /\ q = p + Len(x.code)
  BY <1>1, <1>2, GenStmtsIsCode
<1>4. p \in Places /\ q \in Places /\ p <= q /\ q <= Len(c) + 1
  BY <1>3, CodeAtEnds
<1>5. x = StmtsOf(GenStmts, ss, t, l)
  BY <1>2, GenStmtsFacts
<1>6. ASSUME ss = <<>> PROVE p = q
  <2>1. x = [code |-> <<>>, temps |-> t, labels |-> l]
    BY <1>5, <1>6 DEF StmtsOf
  <2>2. x.code = <<>>
    BY ONLY <2>1
  <2>3. p \in Nat /\ Len(x.code) = 0
    BY <1>4, <2>2, EmptySeq DEF Places
  <2> QED BY <1>3, <2>3
<1>7. ASSUME ss # <<>> PROVE \E m \in Places : StmtAt(c, p, m, Head(ss)) /\ BlockAt(c, m, q, Tail(ss))
  <2>1. Head(ss) \in Stmt /\ Tail(ss) \in Seq(Stmt)
    BY <1>2, <1>7, HeadAndTail
  <2> PICK first : first = GenStmt(GenStmts, Head(ss), t, l)
    OBVIOUS
  <2>2. first.code \in Seq(Instr) /\ first.temps \in Nat /\ first.labels \in Nat
    BY <2>1, GenStmtIsCode
  <2> PICK rest : rest = GenStmts[Tail(ss)][first.temps][first.labels]
    OBVIOUS
  <2>3. rest \in StmtCode /\ rest.code \in Seq(Instr)
    BY <2>1, <2>2, GenStmtsIsCode, Zenon
  <2> PICK a, b : a = first.code /\ b = rest.code
    OBVIOUS
  <2>4. x.code = a \o b
    <3>1. x = [rest EXCEPT !.code = a \o b]
      BY <1>5, <1>7, Zenon DEF StmtsOf
    <3> QED BY <2>3, <3>1, Zenon DEF StmtCode
  <2>5. CodeAt(c, p, a) /\ CodeAt(c, p + Len(a), b) /\ Len(x.code) = Len(a) + Len(b) /\ Len(a) \in Nat /\ Len(b) \in Nat
    <3>1. CodeAt(c, p, a \o b) /\ a \in Seq(Instr) /\ b \in Seq(Instr)
      BY <1>3, <2>2, <2>3, <2>4, Zenon
    <3> QED BY ONLY c \in Seq(Instr), <2>4, <3>1, CodeAtBoth
  <2> PICK m : m = p + Len(a)
    OBVIOUS
  <2>6. m \in Places /\ q = m + Len(b)
    <3>1. p \in Nat /\ p # 0
      BY <1>4 DEF Places
    <3> PICK i, j : i = Len(a) /\ j = Len(b)
      OBVIOUS
    <3>2. m \in Nat /\ m # 0 /\ p + (i + j) = m + j
      BY ONLY <2>5, <3>1, m = p + Len(a), i = Len(a), j = Len(b)
    <3> QED BY <1>3, <2>5, <3>2, Zenon DEF Places
  <2>7. StmtAt(c, p, m, Head(ss))
    BY <2>1, <2>5 DEF StmtAt
  <2>8. BlockAt(c, m, q, Tail(ss))
    BY <2>1, <2>2, <2>5, <2>6, Zenon DEF BlockAt
  <2> QED BY <2>6, <2>7, <2>8, Zenon
<1> QED BY <1>2, <1>4, <1>6, <1>7

LEMMA StmtAtEnds ==
  ASSUME NEW c \in Seq(Instr), NEW p, NEW q, NEW st, StmtAt(c, p, q, st)
  PROVE  p \in Places /\ q \in Places /\ p <= q /\ q <= Len(c) + 1
<1>1. PICK t, l \in Nat : LET d == GenStmt(GenStmts, st, t, l).code IN CodeAt(c, p, d) /\ q = p + Len(d)
  BY DEF StmtAt
<1>2. GenStmt(GenStmts, st, t, l).code \in Seq(Instr)
  BY GenStmtIsCode DEF StmtAt
<1> QED BY <1>1, <1>2, CodeAtEnds

(* What a place in the code has before it: the statements ss, one after the    *)
(* other, with nothing between them that does anything; it may be a jump back. *)
Quiet(r, c, p, a) ==
  /\ a \in Places /\ a <= Len(c) + 1
  /\ Forward(r, p, a) \/ \E g \in 1 .. Len(c) : Forward(r, p, g) /\ Hop(r, g, a)
Closed(r, c, G) ==
  \A x \in G : \/ x[2] = <<>> /\ Quiet(r, c, x[1], Len(c) + 1)
               \/ /\ x[2] # <<>>
                  /\ \E a, q \in Places : /\ Quiet(r, c, x[1], a) /\ StmtAt(c, a, q, Head(x[2]))
                                          /\ <<q, Tail(x[2])>> \in G
Follows(r, c, p, ss) ==
  \E G \in SUBSET (Places \X Seq(Stmt)) : <<p, ss>> \in G /\ Closed(r, c, G)

LEMMA QuietFacts ==
  ASSUME NEW c \in Seq(Instr), NEW r, Goes(r, c), NEW p, NEW a, Quiet(r, c, p, a)
  PROVE  /\ p \in Places
         /\ \A b : Forward(r, b, p) => Quiet(r, c, b, a)
         /\ \A k \in Nat : Live(r, k, p) => \E n \in 0 .. Len(c) : r[k + n] = At(r[k], a)
<1>1. Len(c) \in Nat /\ a \in Places /\ a \in Nat /\ a <= Len(c) + 1 /\ \A s \in Places : s \in Nat /\ s # 0
  BY CodeFacts DEF Quiet, Places
<1>2. p \in Places
  BY DEF Quiet, Forward
<1>3. ASSUME NEW b, Forward(r, b, p) PROVE Quiet(r, c, b, a)
  <2>1. \A q : Forward(r, p, q) => Forward(r, b, q)
    BY <1>3, ForwardFacts
  <2> QED BY <2>1 DEF Quiet
<1>4. ASSUME NEW k \in Nat, Live(r, k, p) PROVE \E n \in 0 .. Len(c) : r[k + n] = At(r[k], a)
  <2>1. CASE Forward(r, p, a)
    <3>1. PICK n \in 0 .. a - p : r[k + n] = At(r[k], a)
      BY <1>4, <2>1 DEF Forward
    <3>2. n \in 0 .. Len(c)
      BY <1>1, <1>2
    <3> QED BY <3>1, <3>2
  <2>2. ASSUME NEW g \in 1 .. Len(c), Forward(r, p, g), Hop(r, g, a)
        PROVE  \E n \in 0 .. Len(c) : r[k + n] = At(r[k], a)
    <3>1. PICK n \in 0 .. g - p : r[k + n] = At(r[k], g)
      BY <1>4, <2>2 DEF Forward
    <3>2. n \in Nat /\ n + 1 \in 0 .. Len(c) /\ k + n \in Nat /\ (k + n) + 1 = k + (n + 1)
      BY <1>1, <1>2
    <3>3. r[k] \in State /\ g \in Places
      BY <2>2 DEF Goes, Hop
    <3>4. Live(r, k + n, g)
      BY <1>4, <3>1, <3>3, AtFacts, AtTwice DEF Live
    <3>5. r[(k + n) + 1] = At(r[k + n], a)
      BY <2>2, <3>2, <3>4 DEF Hop
    <3>6. At(r[k + n], a) = At(r[k], a)
      BY <1>1, <3>1, <3>3, AtTwice
    <3> QED BY <3>2, <3>5, <3>6
  <2> QED BY <2>1, <2>2 DEF Quiet
<1> QED BY <1>2, <1>3, <1>4

LEMMA FollowsFacts ==
  ASSUME NEW c \in Seq(Instr), NEW r, Goes(r, c), NEW p, NEW ss, Follows(r, c, p, ss)
  PROVE  /\ p \in Places /\ ss \in Seq(Stmt)
         /\ ss = <<>> => Quiet(r, c, p, Len(c) + 1)
         /\ ss # <<>> => \E a, q \in Places : /\ Quiet(r, c, p, a) /\ StmtAt(c, a, q, Head(ss))
                                              /\ Follows(r, c, q, Tail(ss))
<1> PICK G \in SUBSET (Places \X Seq(Stmt)) : <<p, ss>> \in G /\ Closed(r, c, G)
  BY DEF Follows
<1> PICK x : x = <<p, ss>>
  OBVIOUS
<1>1. x \in G /\ x[1] = p /\ x[2] = ss /\ p \in Places /\ ss \in Seq(Stmt)
  OBVIOUS
<1>2. CASE ss = <<>>
  BY <1>1, <1>2 DEF Closed
<1>3. CASE ss # <<>>
  <2>1. PICK a, q \in Places : /\ Quiet(r, c, p, a) /\ StmtAt(c, a, q, Head(ss))
                               /\ <<q, Tail(ss)>> \in G
    BY <1>1, <1>3 DEF Closed
  <2>2. Follows(r, c, q, Tail(ss))
    BY <2>1 DEF Follows
  <2> QED BY <1>1, <1>3, <2>1, <2>2
<1> QED BY <1>1, <1>2, <1>3

LEMMA FollowsEnd ==
  ASSUME NEW c \in Seq(Instr), NEW r, NEW p \in Places, Quiet(r, c, p, Len(c) + 1)
  PROVE  Follows(r, c, p, <<>>)
<1> DEFINE x == <<p, <<>>>>
<1>1. <<>> \in Seq(Stmt)
  BY EmptySeq
<1>2. x \in Places \X Seq(Stmt) /\ x[1] = p /\ x[2] = <<>>
  BY <1>1
<1> PICK G : G = {x}
  OBVIOUS
<1>3. Closed(r, c, G)
  BY <1>2 DEF Closed
<1> QED BY <1>2, <1>3 DEF Follows

LEMMA FollowsOn ==
  ASSUME NEW c \in Seq(Instr), NEW r, NEW p \in Places, NEW ss \in Seq(Stmt), ss # <<>>,
         NEW a \in Places, NEW q \in Places,
         Quiet(r, c, p, a), StmtAt(c, a, q, Head(ss)), Follows(r, c, q, Tail(ss))
  PROVE  Follows(r, c, p, ss)
<1> PICK G \in SUBSET (Places \X Seq(Stmt)) : <<q, Tail(ss)>> \in G /\ Closed(r, c, G)
  BY DEF Follows
<1> PICK x : x = <<p, ss>>
  OBVIOUS
<1>1. x \in Places \X Seq(Stmt) /\ x[1] = p /\ x[2] = ss
  OBVIOUS
<1> PICK H : H = G \cup {x}
  OBVIOUS
<1>2. ASSUME NEW y \in H
      PROVE  \/ y[2] = <<>> /\ Quiet(r, c, y[1], Len(c) + 1)
             \/ /\ y[2] # <<>>
                /\ \E b, z \in Places : /\ Quiet(r, c, y[1], b) /\ StmtAt(c, b, z, Head(y[2]))
                                        /\ <<z, Tail(y[2])>> \in H
  <2>1. CASE y \in G
    BY <2>1 DEF Closed
  <2>2. CASE y = x
    <3>1. Quiet(r, c, y[1], a) /\ StmtAt(c, a, q, Head(y[2])) /\ <<q, Tail(y[2])>> \in H /\ y[2] # <<>>
      BY <1>1, <2>2
    <3> QED BY <3>1
  <2> QED BY <2>1, <2>2
<1>3. Closed(r, c, H)
  BY <1>2 DEF Closed
<1>4. H \in SUBSET (Places \X Seq(Stmt)) /\ <<p, ss>> \in H
  BY <1>1
<1> QED BY <1>3, <1>4 DEF Follows

LEMMA FollowsFrom ==
  ASSUME NEW c \in Seq(Instr), NEW r, Goes(r, c), NEW p, NEW b, Forward(r, b, p), NEW ss, Follows(r, c, p, ss)
  PROVE  Follows(r, c, b, ss)
<1>1. b \in Places /\ p \in Places /\ ss \in Seq(Stmt)
  BY FollowsFacts DEF Forward
<1>2. CASE ss = <<>>
  <2>1. Quiet(r, c, b, Len(c) + 1)
    BY <1>2, FollowsFacts, QuietFacts
  <2> QED BY <1>1, <1>2, <2>1, FollowsEnd
<1>3. CASE ss # <<>>
  <2>1. PICK a, q \in Places : /\ Quiet(r, c, p, a) /\ StmtAt(c, a, q, Head(ss))
                               /\ Follows(r, c, q, Tail(ss))
    BY <1>3, FollowsFacts
  <2>2. Quiet(r, c, b, a)
    BY <2>1, QuietFacts
  <2> QED BY <1>1, <1>3, <2>1, <2>2, FollowsOn
<1> QED BY <1>2, <1>3

LEMMA FollowsBlock ==
  ASSUME NEW c \in Seq(Instr), NEW r, Goes(r, c), NEW ss \in Seq(Stmt)
  PROVE  \A bs \in Seq(Stmt) : \A p, q : BlockAt(c, p, q, bs) /\ Follows(r, c, q, ss) => Follows(r, c, p, bs \o ss)
<1> DEFINE D == Seq(Stmt)
           rank == [bs \in D |-> Len(bs)]
           T == {bs \in D : \A p, q : BlockAt(c, p, q, bs) /\ Follows(r, c, q, ss) => Follows(r, c, p, bs \o ss)}
<1>1. rank \in [D -> Nat]
  BY LenProperties
<1>2. ASSUME NEW bs \in D, \A x \in D : rank[x] < rank[bs] => x \in T PROVE bs \in T
  <2> SUFFICES ASSUME NEW p, NEW q, BlockAt(c, p, q, bs), Follows(r, c, q, ss) PROVE Follows(r, c, p, bs \o ss)
    OBVIOUS
  <2>1. CASE bs = <<>>
    <3>1. p = q
      BY <2>1, BlockAtFacts
    <3>2. bs \o ss = ss
      BY <2>1, ConcatEmptySeq
    <3> QED BY <3>1, <3>2
  <2>2. CASE bs # <<>>
    <3>1. PICK m \in Places : StmtAt(c, p, m, Head(bs)) /\ BlockAt(c, m, q, Tail(bs))
      BY <2>2, BlockAtFacts
    <3>2. Tail(bs) \in D /\ rank[Tail(bs)] < rank[bs]
      BY <2>2, HeadAndTail
    <3>3. Follows(r, c, m, Tail(bs) \o ss)
      BY <1>2, <3>1, <3>2
    <3> PICK all : all = bs \o ss
      OBVIOUS
    <3>4. all \in Seq(Stmt) /\ all # <<>> /\ Head(all) = Head(bs) /\ Tail(all) = Tail(bs) \o ss
      BY <2>2, ConcatHeadTail
    <3>5. p \in Places /\ p <= Len(c) + 1
      <4>1. p \in Places /\ q \in Places /\ p <= q /\ q <= Len(c) + 1 /\ Len(c) \in Nat
        BY BlockAtFacts, CodeFacts
      <4> QED BY <4>1 DEF Places
    <3>6. Quiet(r, c, p, p)
      BY <3>5, ForwardFacts DEF Quiet
    <3>7. Follows(r, c, p, all)
      <4>1. StmtAt(c, p, m, Head(all)) /\ Follows(r, c, m, Tail(all))
        BY <3>1, <3>3, <3>4
      <4> QED BY ONLY c \in Seq(Instr), m \in Places, <3>4, <3>5, <3>6, <4>1, FollowsOn
    <3> QED BY <3>7
  <2> QED BY <2>1, <2>2
<1>3. D \subseteq T
  <2> HIDE DEF rank, D, T
  <2> QED BY ONLY <1>1, <1>2, RankInduction
<1> QED BY <1>3
-----------------------------------------------------------------------------
(* The source's states and steps.                                              *)
Source == [out : Seq(Int), input : Seq(Int), env : Envs, exit : Seq(Int), next : Seq(Stmt)]
Left(s, ss) == [s EXCEPT !.next = ss]

LEMMA SourceFacts ==
  ASSUME NEW s \in Source
  PROVE  /\ At(s, 1) \in State /\ At(s, 1).next = 1 /\ At(s, 1).out = s.out /\ At(s, 1).input = s.input
         /\ At(s, 1).exit = s.exit /\ At(s, 1).env = s.env
         /\ \A a : Content(At(s, 1), a) = Content(s, a)
         /\ Valued(s) /\ s.next \in Seq(Stmt)
<1> PICK u : u = At(s, 1)
  OBVIOUS
<1>1. 1 \in Places
  BY DEF Places
<1>2. /\ u \in State /\ u.next = 1 /\ u.out = s.out /\ u.input = s.input /\ u.exit = s.exit /\ u.env = s.env
      /\ s.next \in Seq(Stmt)
  BY <1>1 DEF Source, State, At
<1>3. \A a : Content(u, a) = Content(s, a)
  BY <1>2 DEF Content
<1>4. Valued(s)
  BY <1>2, <1>3, StateFacts DEF Valued
<1> QED BY <1>2, <1>3, <1>4

LEMMA LeftFacts ==
  /\ \A s \in State, ss \in Seq(Stmt) : /\ Left(s, ss) \in Source /\ Left(s, ss).next = ss
                                        /\ At(Left(s, ss), s.next) = s
  /\ \A s \in Source, ss \in Seq(Stmt) : /\ Left(s, ss) = Left(At(s, 1), ss)
                                         /\ Left(s, ss) \in Source /\ Left(s, ss).next = ss
<1>1. \A s \in State, ss \in Seq(Stmt) : /\ Left(s, ss) \in Source /\ Left(s, ss).next = ss
                                         /\ At(Left(s, ss), s.next) = s
  BY DEF Source, State, Left, At
<1>2. \A s \in Source, ss \in Seq(Stmt) : Left(s, ss) = Left(At(s, 1), ss)
  BY DEF Source, Left, At
<1>3. \A s \in Source, ss \in Seq(Stmt) : Left(s, ss) \in Source /\ Left(s, ss).next = ss
  BY <1>1, <1>2, SourceFacts
<1> QED BY <1>1, <1>2, <1>3

\* An effect is the same whatever comes next.
LEMMA ActLeft ==
  ASSUME NEW e \in Effect, NEW s \in State, NEW ss \in Seq(Stmt)
  PROVE  Act(e, Left(s, ss)) = Left(Act(e, s), ss)
<1> PICK g : g = Left(s, ss)
  OBVIOUS
<1>1. /\ g = [out |-> s.out, input |-> s.input, env |-> s.env, exit |-> s.exit, next |-> ss]
      /\ s = [out |-> s.out, input |-> s.input, env |-> s.env, exit |-> s.exit, next |-> s.next]
  BY DEF State, Left
<1> PICK o, x, v, y, p : o = s.out /\ x = s.input /\ v = s.env /\ y = s.exit /\ p = s.next
  OBVIOUS
<1>2. /\ g = [out |-> o, input |-> x, env |-> v, exit |-> y, next |-> ss]
      /\ s = [out |-> o, input |-> x, env |-> v, exit |-> y, next |-> p]
  BY <1>1
<1>3. ASSUME NEW var, NEW n PROVE Set(g, var, n) = Left(Set(s, var, n), ss)
  <2> PICK w : w = [a \in DOMAIN v \cup {var} |-> IF a = var THEN n ELSE v[a]]
    OBVIOUS
  <2>1. Set(g, var, n) = [g EXCEPT !.env = w] /\ Set(s, var, n) = [s EXCEPT !.env = w]
    <3>1. g.env = v /\ s.env = v
      BY ONLY <1>2
    <3> QED BY <3>1 DEF Set
  <2>2. [g EXCEPT !.env = w] = Left([s EXCEPT !.env = w], ss)
    <3> PICK h : h = [s EXCEPT !.env = w]
      OBVIOUS
    <3>1. h = [out |-> o, input |-> x, env |-> w, exit |-> y, next |-> p]
      BY ONLY <1>2, h = [s EXCEPT !.env = w]
    <3>2. Left(h, ss) = [out |-> o, input |-> x, env |-> w, exit |-> y, next |-> ss]
      BY ONLY <3>1 DEF Left
    <3>3. [g EXCEPT !.env = w] = [out |-> o, input |-> x, env |-> w, exit |-> y, next |-> ss]
      BY ONLY <1>2
    <3> QED BY <3>2, <3>3
  <2> QED BY <2>1, <2>2
<1>4. CASE e.kind = "set"
  BY <1>3, <1>4 DEF Act
<1>5. CASE e.kind = "go"
  BY <1>5 DEF Act
<1>6. CASE e.kind = "print"
  <2> PICK n : n = e.n
    OBVIOUS
  <2> PICK w : w = Append(o, n)
    OBVIOUS
  <2>1. Printed(g, n) = [g EXCEPT !.out = w] /\ Printed(s, n) = [s EXCEPT !.out = w]
    <3>1. g.out = o /\ s.out = o
      BY ONLY <1>2
    <3> QED BY <3>1 DEF Printed
  <2>2. [g EXCEPT !.out = w] = Left([s EXCEPT !.out = w], ss)
    <3> PICK h : h = [s EXCEPT !.out = w]
      OBVIOUS
    <3>1. h = [out |-> w, input |-> x, env |-> v, exit |-> y, next |-> p]
      BY ONLY <1>2, h = [s EXCEPT !.out = w]
    <3>2. Left(h, ss) = [out |-> w, input |-> x, env |-> v, exit |-> y, next |-> ss]
      BY ONLY <3>1 DEF Left
    <3>3. [g EXCEPT !.out = w] = [out |-> w, input |-> x, env |-> v, exit |-> y, next |-> ss]
      BY ONLY <1>2
    <3> QED BY <3>2, <3>3
  <2> QED BY <1>6, <2>1, <2>2 DEF Act
<1>7. CASE e.kind = "exit"
  <2> PICK n : n = e.n
    OBVIOUS
  <2> PICK w : w = <<n>>
    OBVIOUS
  <2>1. Exited(g, n) = [g EXCEPT !.exit = w] /\ Exited(s, n) = [s EXCEPT !.exit = w]
    BY DEF Exited
  <2>2. [g EXCEPT !.exit = w] = Left([s EXCEPT !.exit = w], ss)
    <3> PICK h : h = [s EXCEPT !.exit = w]
      OBVIOUS
    <3>1. h = [out |-> o, input |-> x, env |-> v, exit |-> w, next |-> p]
      BY ONLY <1>2, h = [s EXCEPT !.exit = w]
    <3>2. Left(h, ss) = [out |-> o, input |-> x, env |-> v, exit |-> w, next |-> ss]
      BY ONLY <3>1 DEF Left
    <3>3. [g EXCEPT !.exit = w] = [out |-> o, input |-> x, env |-> v, exit |-> w, next |-> ss]
      BY ONLY <1>2
    <3> QED BY <3>2, <3>3
  <2> QED BY <1>7, <2>1, <2>2 DEF Act
<1>8. CASE e.kind = "scan"
  <2>0. e.var \in Operand
    BY DEF Effect
  <2>1. g.input = x /\ s.input = x
    BY ONLY <1>2
  <2>2. CASE x = <<>>
    BY <1>3, <1>8, <2>1, <2>2 DEF Act, Scanned
  <2>3. CASE x # <<>>
    <3> PICK n, rest : n = Head(x) /\ rest = Tail(x)
      OBVIOUS
    <3>1. n \in Int
      BY <2>3, StateFacts, HeadAndTail
    <3> PICK u : u = Set(s, e.var, n)
      OBVIOUS
    <3>2. u \in State /\ Set(g, e.var, n) = Left(u, ss)
      BY <2>0, <3>1, <1>3, SetFacts
    <3>3. u.input = x /\ Left(u, ss).input = x
      <4>1. u.input = x
        BY <2>0, <3>1, SetFacts
      <4> QED BY <3>2, <4>1 DEF Left, State
    <3>4. Scanned(s, e.var) = [u EXCEPT !.input = rest] /\ Scanned(g, e.var) = [Left(u, ss) EXCEPT !.input = rest]
      BY <2>1, <2>3, <3>2, <3>3 DEF Scanned
    <3>5. [Left(u, ss) EXCEPT !.input = rest] = Left([u EXCEPT !.input = rest], ss)
      BY ONLY <3>2 DEF State, Left
    <3> QED BY <1>8, <3>4, <3>5 DEF Act
  <2> QED BY <2>2, <2>3
<1> QED BY <1>4, <1>5, <1>6, <1>7, <1>8 DEF Effect

(* A statement's effect, and what it leaves to be executed in its place.       *)
Means(st, s) ==
  CASE st.kind = "assign" -> [kind |-> "set", var |-> st.name, n |-> Held(st.expr, s)]
    [] st.kind = "print" -> [kind |-> "print", var |-> NULL, n |-> Held(st.expr, s)]
    [] st.kind = "exit" -> [kind |-> "exit", var |-> NULL, n |-> Held(st.expr, s)]
    [] st.kind = "scan" -> [kind |-> "scan", var |-> st.name, n |-> 0]
    [] OTHER -> [kind |-> "go", var |-> NULL, n |-> 0]
Leaves(st, s) ==
  IF st.kind = "block" THEN st.body
  ELSE IF st.kind = "if" THEN IF Held(st.expr, s) # 0 THEN st.body ELSE st.els
  ELSE IF st.kind # "for" THEN <<>>
  ELSE IF st.init # <<>> THEN Append(st.init, [st EXCEPT !.init = <<>>])
  ELSE IF Held(st.expr, s) # 0 THEN Append(st.body \o st.update, st) ELSE <<>>

LEMMA MeansFacts ==
  ASSUME NEW st \in Stmt, NEW s, Valued(s)
  PROVE  Means(st, s) \in Effect /\ Leaves(st, s) \in Seq(Stmt)
<1>1. NULL \in Operand /\ Name \subseteq Operand
  BY OperandFacts
<1>2. st.kind \in {"assign", "print", "exit"} => Held(st.expr, s) \in Int
  BY StmtFacts, HeldFacts
<1>3. Means(st, s) \in Effect
  <2> HIDE DEF NULL
  <2> PICK n : n = Held(st.expr, s)
    OBVIOUS
  <2>1. CASE st.kind = "assign"
    BY <1>1, <1>2, <2>1, StmtFacts DEF Means, Effect
  <2>2. CASE st.kind = "print"
    BY <1>1, <1>2, <2>2 DEF Means, Effect
  <2>3. CASE st.kind = "exit"
    BY <1>1, <1>2, <2>3 DEF Means, Effect
  <2>4. CASE st.kind = "scan"
    <3>1. st.name \in Operand
      BY <1>1, <2>4, StmtFacts
    <3>0. 0 \in Int
      OBVIOUS
    <3>2. Means(st, s) = [kind |-> "scan", var |-> st.name, n |-> 0]
      BY <2>4 DEF Means
    <3> QED BY ONLY <3>0, <3>1, <3>2 DEF Effect
  <2>5. CASE st.kind \notin {"assign", "print", "exit", "scan"}
    BY <1>1, <2>5 DEF Means, Effect
  <2> QED BY <2>1, <2>2, <2>3, <2>4, <2>5
<1>4. Leaves(st, s) \in Seq(Stmt)
  <2>1. CASE st.kind = "block"
    BY <2>1, StmtFacts DEF Leaves
  <2>2. CASE st.kind = "if"
    BY <2>2, StmtFacts DEF Leaves
  <2>3. CASE st.kind = "for"
    <3>1. /\ st.init \in Seq(Stmt) /\ st.body \in Seq(Stmt) /\ st.update \in Seq(Stmt)
          /\ [st EXCEPT !.init = <<>>] \in Stmt
      BY <2>3, StmtFacts
    <3> PICK st0, b : st0 = [st EXCEPT !.init = <<>>] /\ b = st.body \o st.update
      OBVIOUS
    <3>2. Append(st.init, st0) \in Seq(Stmt) /\ b \in Seq(Stmt)
      BY <3>1, AppendProperties, ConcatProperties
    <3>3. Append(b, st) \in Seq(Stmt) /\ <<>> \in Seq(Stmt)
      BY <3>2, AppendProperties, EmptySeq
    <3> QED BY <2>3, <3>2, <3>3 DEF Leaves
  <2>4. CASE st.kind \notin {"block", "if", "for"}
    BY <2>4, EmptySeq DEF Leaves
  <2> QED BY <2>1, <2>2, <2>3, <2>4
<1> QED BY <1>3, <1>4

\* The source's step, where its expression is worth v.
StepWith(v, s) ==
  IF s.next = <<>> THEN Exited(s, 0)
  ELSE
    LET st == Head(s.next)
        gone == [s EXCEPT !.next = Tail(@)]
        Instead(ss) == [gone EXCEPT !.next = ss \o @]
    IN  CASE st.kind = "declare" -> gone
          [] st.kind = "assign" -> Set(gone, st.name, v)
          [] st.kind = "print" -> Printed(gone, v)
          [] st.kind = "exit" -> Exited(gone, v)
          [] st.kind = "scan" -> Scanned(gone, st.name)
          [] st.kind = "block" -> Instead(st.body)
          [] st.kind = "if" -> Instead(IF v # 0 THEN st.body ELSE st.els)
          [] st.kind = "for" ->
               IF st.init # <<>> THEN Instead(Append(st.init, [st EXCEPT !.init = <<>>]))
               ELSE IF v # 0 THEN Instead(Append(st.body \o st.update, st))
               ELSE gone
HeldStep(s) == StepWith(Held(Head(s.next).expr, s), s)

LEMMA HeldStepIs ==
  ASSUME NEW s \in Source, s.next # <<>>
  PROVE  LET st == Head(s.next)
             u == HeldStep(s)
         IN  /\ st \in Stmt /\ Tail(s.next) \in Seq(Stmt)
             /\ Means(st, s) \in Effect /\ Leaves(st, s) \in Seq(Stmt)
             /\ u \in Source
             /\ u.next = Leaves(st, s) \o Tail(s.next)
             /\ At(u, 1) = Act(Means(st, s), At(s, 1))
<1> PICK st, tl, u : st = Head(s.next) /\ tl = Tail(s.next) /\ u = HeldStep(s)
  OBVIOUS
<1>1. st \in Stmt /\ tl \in Seq(Stmt) /\ Valued(s)
  BY SourceFacts, HeadAndTail
<1> PICK e, ls : e = Means(st, s) /\ ls = Leaves(st, s)
  OBVIOUS
<1>2. e \in Effect /\ ls \in Seq(Stmt)
  BY <1>1, MeansFacts
<1> PICK ss : ss = ls \o tl
  OBVIOUS
<1>3. ss \in Seq(Stmt) /\ <<>> \o tl = tl
  BY <1>1, <1>2, ConcatProperties, ConcatEmptySeq
<1>4. u = Act(e, Left(s, ss))
  <2> PICK gone : gone = [s EXCEPT !.next = tl]
    OBVIOUS
  <2> PICK v : v = Held(st.expr, s)
    OBVIOUS
  <2>1. \A x : [gone EXCEPT !.next = x \o gone.next] = Left(s, x \o tl)
    BY DEF Left, Source
  <2>2. gone = Left(s, tl)
    BY DEF Left
  <2>3. u = CASE st.kind = "declare" -> gone
              [] st.kind = "assign" -> Set(gone, st.name, v)
              [] st.kind = "print" -> Printed(gone, v)
              [] st.kind = "exit" -> Exited(gone, v)
              [] st.kind = "scan" -> Scanned(gone, st.name)
              [] st.kind = "block" -> [gone EXCEPT !.next = st.body \o @]
              [] st.kind = "if" -> [gone EXCEPT !.next = (IF v # 0 THEN st.body ELSE st.els) \o @]
              [] st.kind = "for" ->
                   IF st.init # <<>> THEN [gone EXCEPT !.next = Append(st.init, [st EXCEPT !.init = <<>>]) \o @]
                   ELSE IF v # 0 THEN [gone EXCEPT !.next = Append(st.body \o st.update, st) \o @]
                   ELSE gone
    BY Zenon DEF HeldStep, StepWith
  <2>4. CASE st.kind \in {"declare", "assign", "print", "exit", "scan"}
    <3>1. ls = <<>>
      BY <2>4, Zenon DEF Leaves
    <3>2. Left(s, ss) = gone
      BY <1>3, <2>2, <3>1
    <3>3. u = Act(e, gone)
      <4>1. CASE st.kind = "declare"
        <5>1. u = gone
          BY <2>3, <4>1
        <5>2. e.kind = "go"
          BY <4>1 DEF Means
        <5> QED BY <5>1, <5>2 DEF Act
      <4>2. CASE st.kind = "assign"
        <5>1. u = Set(gone, st.name, v)
          BY <2>3, <4>2
        <5>2. e.kind = "set" /\ e.var = st.name /\ e.n = v
          BY <4>2 DEF Means
        <5> QED BY <5>1, <5>2 DEF Act
      <4>3. CASE st.kind = "print"
        <5>1. u = Printed(gone, v)
          BY <2>3, <4>3
        <5>2. e.kind = "print" /\ e.n = v
          BY <4>3 DEF Means
        <5> QED BY <5>1, <5>2 DEF Act
      <4>4. CASE st.kind = "exit"
        <5>1. u = Exited(gone, v)
          BY <2>3, <4>4
        <5>2. e.kind = "exit" /\ e.n = v
          BY <4>4 DEF Means
        <5> QED BY <5>1, <5>2 DEF Act
      <4>5. CASE st.kind = "scan"
        <5>1. u = Scanned(gone, st.name)
          BY <2>3, <4>5
        <5>2. e.kind = "scan" /\ e.var = st.name
          BY <4>5 DEF Means
        <5> QED BY <5>1, <5>2 DEF Act
      <4> QED BY <2>4, <4>1, <4>2, <4>3, <4>4, <4>5
    <3> QED BY <3>2, <3>3
  <2>5. CASE st.kind \in {"block", "if", "for"}
    <3>1. Act(e, Left(s, ss)) = Left(s, ss)
      <4>1. e.kind = "go"
        BY <2>5 DEF Means
      <4> QED BY <4>1 DEF Act
    <3>2. u = Left(s, ss)
      <4>1. CASE st.kind = "block"
        BY <2>1, <2>3, <4>1, Zenon DEF Leaves
      <4>2. CASE st.kind = "if"
        BY <2>1, <2>3, <4>2, Zenon DEF Leaves
      <4>3. CASE st.kind = "for"
        <5>1. CASE st.init # <<>>
          <6> PICK x : x = Append(st.init, [st EXCEPT !.init = <<>>])
            BY Zenon
          <6>1. u = [gone EXCEPT !.next = x \o gone.next] /\ ls = x
            BY <2>3, <4>3, <5>1, Zenon DEF Leaves
          <6> QED BY <2>1, <6>1, Zenon
        <5>2. CASE st.init = <<>> /\ v # 0
          <6> PICK x : x = Append(st.body \o st.update, st)
            BY Zenon
          <6>1. u = [gone EXCEPT !.next = x \o gone.next] /\ ls = x
            BY <2>3, <4>3, <5>2, Zenon DEF Leaves
          <6> QED BY <2>1, <6>1, Zenon
        <5>3. CASE st.init = <<>> /\ v = 0
          <6>1. u = gone /\ ls = <<>>
            BY <2>3, <4>3, <5>3, Zenon DEF Leaves
          <6> QED BY <1>3, <2>2, <6>1, Zenon
        <5> QED BY <5>1, <5>2, <5>3
      <4> QED BY <2>5, <4>1, <4>2, <4>3
    <3> QED BY <3>1, <3>2
  <2> QED BY <1>1, <2>4, <2>5, StmtFacts
<1> PICK t, w : t = At(s, 1) /\ w = Act(e, t)
  OBVIOUS
<1>5. t \in State /\ t.next = 1 /\ w \in State /\ w.next = 1
  BY <1>2, SourceFacts, ActFacts
<1>6. u = Left(w, ss)
  <2>1. Left(s, ss) = Left(t, ss)
    BY <1>3, LeftFacts
  <2>2. Act(e, Left(t, ss)) = Left(w, ss)
    BY <1>2, <1>3, <1>5, ActLeft
  <2> QED BY <1>4, <2>1, <2>2
<1>7. u \in Source /\ u.next = ss /\ At(u, 1) = w
  <2>1. Left(w, ss) \in Source /\ Left(w, ss).next = ss /\ At(Left(w, ss), w.next) = w
    BY ONLY <1>3, <1>5, LeftFacts
  <2> QED BY ONLY <1>5, <1>6, <2>1
<1> QED BY <1>1, <1>2, <1>7
-----------------------------------------------------------------------------
(* Code from p up to q.                                                        *)
Piece(c, p, q, d) == d \in Seq(Instr) /\ CodeAt(c, p, d) /\ q = p + Len(d)

LEMMA PieceEnds ==
  ASSUME NEW c \in Seq(Instr), NEW p, NEW q, NEW d, Piece(c, p, q, d)
  PROVE  p \in Places /\ q \in Places /\ p <= q /\ q <= Len(c) + 1
BY CodeAtEnds DEF Piece

LEMMA PieceSplit ==
  ASSUME NEW c \in Seq(Instr), NEW p, NEW q, NEW d, NEW a \in Seq(Instr), NEW b \in Seq(Instr),
         d = a \o b, Piece(c, p, q, d)
  PROVE  \E m : Piece(c, p, m, a) /\ Piece(c, m, q, b)
<1>1. CodeAt(c, p, a \o b) /\ q = p + Len(a \o b)
  BY DEF Piece
<1>2. /\ CodeAt(c, p, a) /\ CodeAt(c, p + Len(a), b)
      /\ Len(a) \in Nat /\ Len(b) \in Nat /\ Len(a \o b) = Len(a) + Len(b)
  BY <1>1, CodeAtBoth
<1> PICK i, j, m : i = Len(a) /\ j = Len(b) /\ m = p + i
  OBVIOUS
<1>3. p \in Nat
  BY <1>1 DEF CodeAt, Places
<1>4. q = m + j
  <2>1. p + (i + j) = (p + i) + j
    BY ONLY <1>2, <1>3, i = Len(a), j = Len(b)
  <2> QED BY <1>1, <1>2, <2>1
<1> QED BY <1>2, <1>4 DEF Piece

LEMMA PieceOne ==
  ASSUME NEW c \in Seq(Instr), NEW p, NEW q, NEW d, NEW in, d = <<in>>, Piece(c, p, q, d)
  PROVE  p \in 1 .. Len(c) /\ c[p] = in /\ q = p + 1
<1>1. Len(<<in>>) = 1
  OBVIOUS
<1> QED BY <1>1, CodeAtOne DEF Piece

LEMMA PieceNone ==
  ASSUME NEW c \in Seq(Instr), NEW p, NEW q, Piece(c, p, q, <<>>)
  PROVE  p = q
<1>1. Len(<<>>) = 0 /\ p \in Nat
  BY PieceEnds, EmptySeq DEF Places
<1> QED BY <1>1 DEF Piece

LEMMA PieceOfStmt ==
  ASSUME NEW c, NEW p, NEW q, NEW st, StmtAt(c, p, q, st)
  PROVE  st \in Stmt /\ \E t, l \in Nat : Piece(c, p, q, GenStmt(GenStmts, st, t, l).code)
<1>1. PICK t, l \in Nat : LET d == GenStmt(GenStmts, st, t, l).code IN CodeAt(c, p, d) /\ q = p + Len(d)
  BY DEF StmtAt
<1>2. st \in Stmt
  BY DEF StmtAt
<1>3. GenStmt(GenStmts, st, t, l).code \in Seq(Instr)
  BY <1>2, GenStmtIsCode
<1> QED BY <1>1, <1>2, <1>3 DEF Piece

LEMMA PieceOfBlock ==
  ASSUME NEW c, NEW p, NEW q, NEW ss \in Seq(Stmt), NEW t \in Nat, NEW l \in Nat,
         Piece(c, p, q, GenStmts[ss][t][l].code)
  PROVE  BlockAt(c, p, q, ss)
BY DEF Piece, BlockAt

\* A condition's code ends before the code it holds for, or before label `no'.
LEMMA BranchRuns ==
  ASSUME NEW c, Placed(c), NEW r, Goes(r, c), NEW e \in Expr, Pure(e), NEW t \in Nat, NEW yes \in Nat, NEW no \in Nat,
         NEW p, NEW q, Piece(c, p, q, Branch(GenExpr[e][t], yes, no)),
         NEW z, CodeAt(c, z, Place(no)), q <= z, NEW k \in Nat, Live(r, k, p)
  PROVE  \E n \in 0 .. Len(c), g \in Places : /\ Live(r, k + n, g) /\ Like(r[k], r[k + n], Temps)
                                              /\ Forward(r, g, IF Held(e, r[k]) # 0 THEN q ELSE z)
<1>0. c \in Seq(Instr) /\ Len(c) \in Nat /\ \A s \in Places : s \in Nat /\ s # 0
  BY CodeFacts DEF Placed, Places
<1> PICK x : x = GenExpr[e][t]
  OBVIOUS
<1>1. x \in ExprCode /\ x.code \in Seq(Instr) /\ x.arg \in Arg /\ x.temps \in Nat
  BY GenExprFacts DEF ExprCode
<1> PICK in : in = TAC("IF", NULL, x.arg, Label(yes))
  OBVIOUS
<1>2. in \in Instr /\ in.op = "IF" /\ in.arg1 = x.arg /\ in.arg2 = Label(yes)
  <2>1. Label(yes) \in Marks
    BY OperandFacts
  <2> QED BY <1>1, <2>1, MadeInstr DEF TAC
<1>3. PICK i, j : /\ Piece(c, p, i, x.code) /\ i \in 1 .. Len(c) /\ c[i] = in
                     /\ Piece(c, i + 1, j, Goto(no)) /\ Piece(c, j, q, Place(yes))
  <2> PICK d1, d2, d3, d4 : d1 = x.code /\ d2 = <<in>> /\ d3 = Goto(no) /\ d4 = Place(yes)
    OBVIOUS
  <2>1. d1 \in Seq(Instr) /\ d2 \in Seq(Instr) /\ d3 \in Seq(Instr) /\ d4 \in Seq(Instr)
    <3>1. d3 \in Seq(Instr) /\ d4 \in Seq(Instr)
      BY PiecesTyped, <1>1
    <3> QED BY <1>1, <1>2, <3>1
  <2> PICK d12, d123 : d12 = d1 \o d2 /\ d123 = d12 \o d3
    OBVIOUS
  <2>2. d12 \in Seq(Instr) /\ d123 \in Seq(Instr)
    BY <2>1, ConcatProperties
  <2>3. Piece(c, p, q, d123 \o d4)
    BY DEF Branch
  <2>4. PICK m3 : Piece(c, p, m3, d123) /\ Piece(c, m3, q, d4)
    BY ONLY <1>0, <2>1, <2>2, <2>3, PieceSplit
  <2>5. PICK m2 : Piece(c, p, m2, d12) /\ Piece(c, m2, m3, d3)
    BY ONLY <1>0, <2>1, <2>2, <2>4, d123 = d12 \o d3, PieceSplit
  <2>6. PICK m1 : Piece(c, p, m1, d1) /\ Piece(c, m1, m2, d2)
    BY ONLY <1>0, <2>1, <2>5, d12 = d1 \o d2, PieceSplit
  <2>7. m1 \in 1 .. Len(c) /\ c[m1] = in /\ m2 = m1 + 1
    BY ONLY <1>0, <2>6, d2 = <<in>>, PieceOne
  <2> QED BY <2>4, <2>5, <2>6, <2>7
<1>4. /\ i + 1 \in 1 .. Len(c) /\ j = i + 2 /\ j \in 1 .. Len(c) /\ c[j] = TAC("LABEL", Label(yes), NULL, NULL) /\ q = j + 1
      /\ p \in Places /\ p <= i /\ q \in Places /\ CodeAt(c, i + 1, Goto(no)) /\ CodeAt(c, j, Place(yes))
  <2> PICK a, b : a = TAC("GOTO", NULL, Label(no), NULL) /\ b = TAC("LABEL", Label(yes), NULL, NULL)
    OBVIOUS
  <2>1. Goto(no) = <<a>> /\ Place(yes) = <<b>>
    BY DEF Goto, Place
  <2>2. i + 1 \in 1 .. Len(c) /\ j = (i + 1) + 1
    BY ONLY <1>0, <1>3, <2>1, PieceOne
  <2>3. j \in 1 .. Len(c) /\ c[j] = b /\ q = j + 1
    BY ONLY <1>0, <1>3, <2>1, PieceOne
  <2>4. p \in Places /\ p <= i /\ q \in Places
    BY ONLY <1>0, <1>3, PieceEnds
  <2>5. (i + 1) + 1 = i + 2
    BY ONLY <1>0, <1>3
  <2>6. CodeAt(c, i + 1, Goto(no)) /\ CodeAt(c, j, Place(yes))
    BY <1>3 DEF Piece
  <2> QED BY <2>2, <2>3, <2>4, <2>5, <2>6
<1> PICK m, s, v : m = Len(x.code) /\ s = r[k + m] /\ v = Held(e, r[k])
  OBVIOUS
<1>5. Live(r, k + m, i) /\ Like(r[k], s, Temps) /\ Content(s, x.arg) = v /\ m \in Nat /\ i = p + m
  <2>1. CodeAt(c, p, x.code) /\ i = p + m /\ m \in Nat
    BY <1>0, <1>1, <1>3, LenProperties DEF Piece
  <2>2. Live(r, k + m, p + m) /\ Like(r[k], s, Between(t, x.temps)) /\ Content(s, x.arg) = v
    <3>1. c \in Seq(Instr) /\ CodeAt(c, p, GenExpr[e][t].code)
      BY <1>0, <2>1
    <3>2. /\ Live(r, k + Len(GenExpr[e][t].code), p + Len(GenExpr[e][t].code))
          /\ Like(r[k], r[k + Len(GenExpr[e][t].code)], Between(t, GenExpr[e][t].temps))
          /\ Content(r[k + Len(GenExpr[e][t].code)], GenExpr[e][t].arg) = Held(e, r[k])
      BY ONLY <3>1, Goes(r, c), e \in Expr, Pure(e), t \in Nat, k \in Nat, Live(r, k, p), ExprEnds
    <3> QED BY ONLY x = GenExpr[e][t], m = Len(x.code), s = r[k + m], v = Held(e, r[k]), <3>2
  <2>3. Between(t, x.temps) \cap Operand \subseteq Temps
    BY <1>1, BetweenFacts
  <2> QED BY <2>1, <2>2, <2>3, LikeMore
<1> PICK h : h = IF v # 0 THEN j ELSE i + 1
  OBVIOUS
<1>6. r[(k + m) + 1] = At(s, h)
  <2>1. Landing(c, Label(yes), i + 1) = j
    <3>1. c[j].op = "LABEL" /\ c[j].result = Label(yes)
      BY <1>4 DEF TAC
    <3> QED BY <1>4, <3>1 DEF Placed
  <2>2. k + m \in Nat
    BY <1>5
  <2>3. r[(k + m) + 1] = At(s, IF Content(s, in.arg1) # 0 THEN Landing(c, in.arg2, i + 1) ELSE i + 1)
    <3> PICK w \in Nat : w = k + m
      BY <2>2
    <3>1. Live(r, w, i) /\ s = r[w]
      BY <1>5
    <3>2. c[i].op = "IF" /\ c[i].arg1 = in.arg1 /\ c[i].arg2 = in.arg2 /\ i \in 1 .. Len(c)
      BY ONLY <1>2, <1>3
    <3>3. r[w + 1] = At(r[w], IF Content(r[w], c[i].arg1) # 0 THEN Landing(c, c[i].arg2, i + 1) ELSE i + 1)
      <4>1. c[i].op = "IF" /\ i \in 1 .. Len(c)
        BY ONLY <3>2
      <4>2. Live(r, w, i)
        BY ONLY <3>1
      <4> QED BY ONLY <1>0, Goes(r, c), w \in Nat, <4>1, <4>2, OneStep
    <3> QED BY ONLY w = k + m, <3>1, <3>2, <3>3
  <2> QED BY ONLY h = (IF v # 0 THEN j ELSE i + 1), <1>2, <1>5, <2>1, <2>3
<1>7. h \in Places /\ Forward(r, h, IF v # 0 THEN q ELSE z)
  <2>1. CASE v # 0
    BY <1>4, <2>1, JumpsTo DEF Forward
  <2>2. CASE v = 0
    <3>1. Hop(r, i + 1, z)
      BY <1>4, JumpsTo
    <3>2. i + 1 < z /\ i + 1 \in Places
      <4>1. z \in Nat
        BY DEF CodeAt, Places
      <4> QED BY <1>0, <1>3, <1>4, <4>1 DEF Places
    <3> QED BY <1>0, <2>2, <3>1, <3>2, ForwardFacts
  <2> QED BY <2>1, <2>2
<1>8. s \in State /\ k + m \in Nat /\ (k + m) + 1 = k + (m + 1) /\ m + 1 \in 0 .. Len(c)
  <2>1. p \in Nat /\ p # 0 /\ i <= Len(c)
    BY <1>0, <1>3, <1>4
  <2>2. k + m \in Nat /\ (k + m) + 1 = k + (m + 1) /\ m + 1 \in 0 .. Len(c)
    BY ONLY k \in Nat, <1>0, <1>5, <2>1
  <2> QED BY <2>2 DEF Goes
<1>9. Live(r, k + (m + 1), h) /\ Like(r[k], r[k + (m + 1)], Temps)
  <2>1. r[k + (m + 1)] = At(s, h)
    BY <1>6, <1>8
  <2>2. ~Ended(s)
    BY <1>5 DEF Live
  <2> PICK u : u = At(s, h)
    OBVIOUS
  <2>3. u.next = h /\ u.out = s.out /\ u.input = s.input /\ u.exit = s.exit /\ \A a : Content(u, a) = Content(s, a)
    BY <1>7, <1>8, AtFacts
  <2>4. ~Ended(u) /\ Like(r[k], u, Temps)
    BY <1>5, <2>2, <2>3 DEF Like, Ended
  <2> QED BY <2>1, <2>3, <2>4 DEF Live
<1> QED BY <1>7, <1>8, <1>9
-----------------------------------------------------------------------------
(* The statements.                                                             *)
LEMMA RestFacts ==
  ASSUME NEW st \in Stmt, st.kind = "for"
  PROVE  LET st0 == [st EXCEPT !.init = <<>>]
         IN  /\ st0 \in Stmt /\ st0.kind = "for" /\ st0.init = <<>>
             /\ st0.expr = st.expr /\ st0.body = st.body /\ st0.update = st.update
<1>1. {"kind", "init", "expr", "body", "update"} \subseteq DOMAIN st
  BY TreesAssumption
<1>2. [st EXCEPT !.init = <<>>] \in Stmt
  BY StmtFacts
<1> QED BY <1>1, <1>2

LEMMA BetweenTwo ==
  ASSUME NEW S, NEW a \in Seq(S), NEW x \in S, NEW b \in Seq(S)
  PROVE  /\ Append(a, x) \o b = a \o (<<x>> \o b)
         /\ <<x>> \o b \in Seq(S) /\ <<x>> \o b # <<>> /\ Head(<<x>> \o b) = x /\ Tail(<<x>> \o b) = b
<1> PICK one : one = <<x>>
  OBVIOUS
<1>1. one \in Seq(S) /\ one # <<>> /\ Head(one) = x /\ Tail(one) = <<>> /\ Len(one) = 1 /\ one[1] = x
  OBVIOUS
<1>2. /\ one \o b \in Seq(S) /\ one \o b # <<>> /\ Head(one \o b) = x /\ Tail(one \o b) = b
  BY <1>1, ConcatHeadTail, ConcatEmptySeq
<1>3. Append(a, x) = a \o one
  BY AppendIsConcat
<1>4. (a \o one) \o b = a \o (one \o b)
  BY <1>1, ConcatAssociative
<1> QED BY <1>2, <1>3, <1>4

\* Those that are one effect.
LEMMA SimpleRuns ==
  ASSUME NEW c, Placed(c), NEW r, Goes(r, c), NEW st \in Stmt, st.kind \in {"assign", "print", "exit", "scan"},
         st.kind # "scan" => Pure(st.expr),
         NEW a, NEW q, StmtAt(c, a, q, st), NEW k \in Nat, Live(r, k, a)
  PROVE  \E n \in 0 .. Len(c), w \in State : w.next = q /\ Like(r[k], w, Temps) /\ r[k + n] = Act(Means(st, r[k]), w)
<1>0. c \in Seq(Instr) /\ Len(c) \in Nat /\ \A s \in Places : s \in Nat /\ s # 0
  BY CodeFacts DEF Placed, Places
<1>1. PICK t, l \in Nat : Piece(c, a, q, GenStmt(GenStmts, st, t, l).code)
  BY PieceOfStmt
<1> PICK d : d = GenStmt(GenStmts, st, t, l).code
  OBVIOUS
<1>2. Piece(c, a, q, d) /\ a \in Places /\ r[k] \in State
  BY <1>0, <1>1, PieceEnds DEF Goes
\* The last instruction, from a state in which its operand holds what it should.
<1>3. ASSUME NEW in \in Instr, NEW i \in 1 .. Len(c), c[i] = in, q = i + 1, NEW m \in Nat, m < Len(c), Live(r, k + m, i),
             Like(r[k], r[k + m], Temps), in.op \notin {"GOTO", "IF"}, Does(in, r[k + m]) = Means(st, r[k])
      PROVE  \E n \in 0 .. Len(c), w \in State : w.next = q /\ Like(r[k], w, Temps) /\ r[k + n] = Act(Means(st, r[k]), w)
  <2> PICK j \in Nat : j = k + m
    OBVIOUS
  <2>1. r[j] \in State /\ Live(r, j, i) /\ j + 1 = k + (m + 1) /\ m + 1 \in 0 .. Len(c)
    BY <1>0, <1>3 DEF Goes
  <2>2. r[j + 1] = Act(Does(c[i], r[j]), At(r[j], i + 1))
    <3>1. c[i].op \notin {"GOTO", "IF"} /\ Live(r, j, i) /\ c \in Seq(Instr)
      BY <1>0, <1>3, <2>1
    <3> QED BY ONLY Goes(r, c), j \in Nat, i \in 1 .. Len(c), <3>1, OneStep
  <2> PICK w : w = At(r[j], i + 1)
    OBVIOUS
  <2>3. i + 1 \in Places
    BY <1>0 DEF Places
  <2>4. /\ w \in State /\ w.next = q /\ w.out = r[j].out /\ w.input = r[j].input /\ w.exit = r[j].exit
        /\ \A x : Content(w, x) = Content(r[j], x)
    BY <1>3, <2>1, <2>3, AtFacts
  <2>5. Like(r[k], w, Temps)
    BY <1>3, <2>4 DEF Like
  <2>6. r[k + (m + 1)] = Act(Means(st, r[k]), w)
    BY <1>3, <2>1, <2>2
  <2> QED BY <2>1, <2>4, <2>5, <2>6
<1>4. CASE st.kind = "scan"
  <2> PICK in : in = TAC("SCAN", NULL, st.name, NULL)
    OBVIOUS
  <2>1. st.name \in Arg /\ in \in Instr /\ in.op = "SCAN" /\ in.arg1 = st.name
    <3>1. st.name \in Arg
      BY <1>4, StmtFacts, OperandFacts
    <3> QED BY <3>1, MadeInstr DEF TAC
  <2>2. d = <<in>>
    BY <1>4 DEF GenStmt
  <2>3. a \in 1 .. Len(c) /\ c[a] = in /\ q = a + 1
    BY ONLY <1>0, <1>2, <2>2, PieceOne
  <2>4. Does(in, r[k]) = Means(st, r[k])
    <3>1. in.op \notin Arithmetic
      BY <2>1, OpsDiffer
    <3> QED BY <1>4, <2>1, <3>1 DEF Does, Means
  <2>5. k + 0 = k /\ 0 \in Nat /\ 0 < Len(c) /\ Like(r[k], r[k], Temps)
    BY <1>0, <2>3 DEF Like
  <2> QED BY <1>3, <2>1, <2>3, <2>4, <2>5
<1>5. CASE st.kind \in {"assign", "print", "exit"}
  <2> PICK e \in Expr : e = st.expr
    BY <1>5, StmtFacts
  <2> PICK x : x = GenExpr[e][t]
    OBVIOUS
  <2>0. Pure(e)
    BY <1>5
  <2>1. x.code \in Seq(Instr) /\ x.arg \in Arg /\ x.temps \in Nat
    BY GenExprFacts DEF ExprCode
  <2>2. \E in \in Instr : /\ d = x.code \o <<in>> /\ in.op \notin {"GOTO", "IF"} /\ in.arg1 = x.arg
                          /\ \A s : Content(s, x.arg) = Held(e, r[k]) => Does(in, s) = Means(st, r[k])
    <3>1. CASE st.kind = "assign"
      <4> PICK in : in = TAC("ASSIGN", st.name, x.arg, NULL)
        OBVIOUS
      <4>1. in \in Instr
        BY <2>1, <3>1, StmtFacts, MadeInstr, Zenon
      <4>2. in.op = "ASSIGN" /\ in.result = st.name /\ in.arg1 = x.arg
        BY DEF TAC
      <4>3. in.op \notin Arithmetic
        BY <4>2, OpsDiffer
      <4>4. d = x.code \o <<in>>
        BY <3>1, Zenon DEF GenStmt
      <4>5. \A s : Content(s, x.arg) = Held(e, r[k]) => Does(in, s) = Means(st, r[k])
        BY <3>1, <4>2, <4>3 DEF Does, Means
      <4> QED BY <4>1, <4>2, <4>4, <4>5, Zenon
    <3>2. CASE st.kind = "print"
      <4> PICK in : in = TAC("PRINT", NULL, x.arg, NULL)
        OBVIOUS
      <4>1. in \in Instr
        BY <2>1, MadeInstr
      <4>2. in.op = "PRINT" /\ in.arg1 = x.arg
        BY DEF TAC
      <4>3. in.op \notin Arithmetic
        BY <4>2, OpsDiffer
      <4>4. d = x.code \o <<in>>
        BY <3>2, Zenon DEF GenStmt
      <4>5. \A s : Content(s, x.arg) = Held(e, r[k]) => Does(in, s) = Means(st, r[k])
        BY <3>2, <4>2, <4>3 DEF Does, Means
      <4> QED BY <4>1, <4>2, <4>4, <4>5, Zenon
    <3>3. CASE st.kind = "exit"
      <4> PICK in : in = TAC("EXIT", NULL, x.arg, NULL)
        OBVIOUS
      <4>1. in \in Instr
        BY <2>1, MadeInstr
      <4>2. in.op = "EXIT" /\ in.arg1 = x.arg
        BY DEF TAC
      <4>3. in.op \notin Arithmetic
        BY <4>2, OpsDiffer
      <4>4. d = x.code \o <<in>>
        BY <3>3, Zenon DEF GenStmt
      <4>5. \A s : Content(s, x.arg) = Held(e, r[k]) => Does(in, s) = Means(st, r[k])
        BY <3>3, <4>2, <4>3 DEF Does, Means
      <4> QED BY <4>1, <4>2, <4>4, <4>5, Zenon
    <3> QED BY <1>5, <3>1, <3>2, <3>3, Zenon
  <2> PICK in \in Instr : /\ d = x.code \o <<in>> /\ in.op \notin {"GOTO", "IF"} /\ in.arg1 = x.arg
                          /\ \A s : Content(s, x.arg) = Held(e, r[k]) => Does(in, s) = Means(st, r[k])
    BY <2>2
  <2> PICK y, one : y = x.code /\ one = <<in>>
    OBVIOUS
  <2>3. PICK i : Piece(c, a, i, y) /\ Piece(c, i, q, one)
    <3>1. y \in Seq(Instr) /\ one \in Seq(Instr) /\ d = y \o one
      BY <2>1
    <3> QED BY ONLY <1>0, <1>2, <3>1, PieceSplit
  <2>4. i \in 1 .. Len(c) /\ c[i] = in /\ q = i + 1
    BY ONLY <1>0, <2>3, one = <<in>>, PieceOne
  <2> PICK m : m = Len(y)
    OBVIOUS
  <2>5. CodeAt(c, a, y) /\ i = a + m /\ m \in Nat /\ m < Len(c)
    <3>1. CodeAt(c, a, y) /\ i = a + m /\ m \in Nat
      BY <2>1, <2>3, LenProperties DEF Piece
    <3>2. a \in Nat /\ a # 0
      BY <1>0, <1>2
    <3> QED BY <1>0, <2>4, <3>1, <3>2
  <2>6. Live(r, k + m, i) /\ Like(r[k], r[k + m], Temps) /\ Content(r[k + m], x.arg) = Held(e, r[k])
    <3>1. c \in Seq(Instr) /\ CodeAt(c, a, GenExpr[e][t].code)
      BY <1>0, <2>5
    <3>2. /\ Live(r, k + Len(GenExpr[e][t].code), a + Len(GenExpr[e][t].code))
          /\ Like(r[k], r[k + Len(GenExpr[e][t].code)], Between(t, GenExpr[e][t].temps))
          /\ Content(r[k + Len(GenExpr[e][t].code)], GenExpr[e][t].arg) = Held(e, r[k])
      BY ONLY <3>1, Goes(r, c), e \in Expr, <2>0, t \in Nat, k \in Nat, Live(r, k, a), ExprEnds
    <3>3. Like(r[k], r[k + m], Between(t, x.temps))
      BY <3>2
    <3>4. Between(t, x.temps) \cap Operand \subseteq Temps
      BY <2>1, BetweenFacts
    <3>5. Like(r[k], r[k + m], Temps)
      BY ONLY <3>3, <3>4, LikeMore
    <3> QED BY <2>5, <3>2, <3>5
  <2>7. Does(in, r[k + m]) = Means(st, r[k])
    BY <2>6
  <2> QED BY <1>3, <2>4, <2>5, <2>6, <2>7, Zenon
<1> QED BY <1>4, <1>5
\* A branch goes on with the part its condition chooses, and then with what follows.
LEMMA IfRuns ==
  ASSUME NEW c, Placed(c), NEW r, Goes(r, c), NEW st \in Stmt, st.kind = "if", Pure(st.expr),
         NEW a, NEW q, StmtAt(c, a, q, st), NEW ss \in Seq(Stmt), Follows(r, c, q, ss), NEW k \in Nat, Live(r, k, a)
  PROVE  \E n \in 0 .. Len(c), g \in Places :
           /\ Live(r, k + n, g) /\ Like(r[k], r[k + n], Temps)
           /\ Follows(r, c, g, (IF Held(st.expr, r[k]) # 0 THEN st.body ELSE st.els) \o ss)
<1>0. c \in Seq(Instr) /\ Len(c) \in Nat /\ \A s \in Places : s \in Nat /\ s # 0
  BY CodeFacts DEF Placed, Places
<1>00. c \in Seq(Instr)
  BY <1>0
<1>1. PICK t, l \in Nat : Piece(c, a, q, GenStmt(GenStmts, st, t, l).code)
  BY PieceOfStmt
<1> PICK d : d = GenStmt(GenStmts, st, t, l).code
  OBVIOUS
<1> PICK e \in Expr, body \in Seq(Stmt), els \in Seq(Stmt) : e = st.expr /\ body = st.body /\ els = st.els
  BY StmtFacts
<1> PICK x : x = GenExpr[e][t]
  OBVIOUS
<1>2. x \in ExprCode /\ x.temps \in Nat /\ l + 1 \in Nat /\ l + 2 \in Nat
  BY GenExprFacts DEF ExprCode
<1> PICK b : b = GenStmts[body][x.temps][l + 2]
  OBVIOUS
<1>3. b \in StmtCode /\ b.code \in Seq(Instr) /\ b.temps \in Nat /\ b.labels \in Nat
  BY <1>2, GenStmtsIsCode, Zenon
<1> PICK f : f = GenStmts[els][b.temps][b.labels + 1]
  BY Zenon
<1>4. f \in StmtCode /\ f.code \in Seq(Instr) /\ b.labels + 1 \in Nat
  <2>1. b.labels + 1 \in Nat
    <3>1. b.labels \in Nat
      BY <1>3, Zenon
    <3> QED BY ONLY <3>1
  <2> QED BY <1>3, <2>1, GenStmtsIsCode, Zenon
<1> PICK br, then, else, out : br = Branch(x, l, l + 1) /\ then = b.code /\ else = f.code /\ out = Place(l + 1)
  BY Zenon
<1>5. br \in Seq(Instr) /\ then \in Seq(Instr) /\ else \in Seq(Instr) /\ out \in Seq(Instr)
  BY <1>2, <1>3, <1>4, PiecesTyped, Zenon
<1>6. d = IF els = <<>> THEN If(x, l, then) ELSE IfElse(x, l, then, b.labels, else)
  <2> PICK d1, d2 : d1 = If(x, l, then) /\ d2 = IfElse(x, l, then, b.labels, else)
    BY Zenon
  <2>1. GenStmt(GenStmts, st, t, l) = IF els = <<>> THEN [b EXCEPT !.code = d1] ELSE [f EXCEPT !.code = d2]
    BY Zenon DEF GenStmt
  <2>2. [b EXCEPT !.code = d1].code = d1 /\ [f EXCEPT !.code = d2].code = d2
    BY <1>3, <1>4, Zenon DEF StmtCode
  <2> QED BY <2>1, <2>2, Zenon
<1>7. Piece(c, a, q, d) /\ Pure(e)
  BY <1>1, Zenon
\* Once the condition has been seen.
<1>8. ASSUME NEW m1, NEW z, Piece(c, a, m1, br), CodeAt(c, z, out), m1 <= z,
             Follows(r, c, m1, body \o ss), Follows(r, c, z, els \o ss)
      PROVE  \E n \in 0 .. Len(c), g \in Places :
               /\ Live(r, k + n, g) /\ Like(r[k], r[k + n], Temps)
               /\ Follows(r, c, g, (IF Held(e, r[k]) # 0 THEN body ELSE els) \o ss)
  <2> PICK yes, no \in Nat : yes = l /\ no = l + 1
    BY <1>2, Zenon
  <2>1. Piece(c, a, m1, Branch(GenExpr[e][t], yes, no)) /\ CodeAt(c, z, Place(no))
    BY <1>8, Zenon
  <2>2. PICK n \in 0 .. Len(c), g \in Places : /\ Live(r, k + n, g) /\ Like(r[k], r[k + n], Temps)
                                               /\ Forward(r, g, IF Held(e, r[k]) # 0 THEN m1 ELSE z)
    BY ONLY Placed(c), Goes(r, c), e \in Expr, t \in Nat, yes \in Nat, no \in Nat, k \in Nat, Live(r, k, a),
            <1>7, <1>8, <2>1, BranchRuns
  <2>3. Follows(r, c, g, (IF Held(e, r[k]) # 0 THEN body ELSE els) \o ss)
    <3>1. CASE Held(e, r[k]) # 0
      BY <1>00, <1>8, <2>2, <3>1, FollowsFrom, Zenon
    <3>2. CASE Held(e, r[k]) = 0
      BY <1>00, <1>8, <2>2, <3>2, FollowsFrom, Zenon
    <3> QED BY <3>1, <3>2, Zenon
  <2> QED BY <2>2, <2>3, Zenon
<1>9. CASE els = <<>>
  <2> PICK d1 : d1 = br \o then
    BY Zenon
  <2>1. d1 \in Seq(Instr) /\ d = d1 \o out
    BY <1>5, <1>6, <1>9, ConcatProperties, Zenon DEF If
  <2>2. PICK m2 : Piece(c, a, m2, d1) /\ Piece(c, m2, q, out)
    BY ONLY <1>00, <1>5, <1>7, <2>1, PieceSplit
  <2>3. PICK m1 : Piece(c, a, m1, br) /\ Piece(c, m1, m2, then)
    BY ONLY <1>00, <1>5, <2>2, d1 = br \o then, PieceSplit, Zenon
  <2>4. CodeAt(c, m2, out) /\ m1 <= m2
    BY <1>00, <2>2, <2>3, PieceEnds, Zenon DEF Piece
  <2>5. Follows(r, c, m2, ss)
    <3>1. q = m2 + 1
      BY <1>00, <2>2, PieceOne, Zenon DEF Place
    <3>2. Forward(r, m2, q)
      BY <2>4, <3>1, JumpsTo, Zenon
    <3> QED BY <1>00, <3>2, FollowsFrom, Zenon
  <2>6. els \o ss = ss
    BY <1>9, ConcatEmptySeq, Zenon
  <2>7. Follows(r, c, m1, body \o ss)
    <3>1. BlockAt(c, m1, m2, body)
      BY <1>2, <2>3, PieceOfBlock, Zenon
    <3> QED BY <1>00, <2>5, <3>1, FollowsBlock, Zenon
  <2> QED BY <1>8, <2>3, <2>4, <2>5, <2>6, <2>7, Zenon
<1>10. CASE els # <<>>
  <2> PICK over, end : over = Goto(b.labels) /\ end = Place(b.labels)
    BY Zenon
  <2> PICK d1, d2, d3, d4 : d1 = br \o then /\ d2 = d1 \o over /\ d3 = d2 \o out /\ d4 = d3 \o else
    BY Zenon
  <2>0. over \in Seq(Instr) /\ end \in Seq(Instr)
    BY <1>2, <1>3, PiecesTyped, Zenon
  <2>1. d1 \in Seq(Instr) /\ d2 \in Seq(Instr) /\ d3 \in Seq(Instr) /\ d4 \in Seq(Instr) /\ d = d4 \o end
    <3>1. d1 \in Seq(Instr)
      BY <1>5, ConcatProperties, Zenon
    <3>2. d2 \in Seq(Instr)
      BY <2>0, <3>1, ConcatProperties, Zenon
    <3>3. d3 \in Seq(Instr)
      BY <1>5, <3>2, ConcatProperties, Zenon
    <3>4. d4 \in Seq(Instr)
      BY <1>5, <3>3, ConcatProperties, Zenon
    <3>5. d = d4 \o end
      BY <1>6, <1>10, Zenon DEF IfElse
    <3> QED BY <3>1, <3>2, <3>3, <3>4, <3>5, Zenon
  <2>2. PICK m5 : Piece(c, a, m5, d4) /\ Piece(c, m5, q, end)
    BY ONLY <1>00, <1>7, <2>0, <2>1, PieceSplit
  <2>3. PICK m4 : Piece(c, a, m4, d3) /\ Piece(c, m4, m5, else)
    BY ONLY <1>00, <1>5, <2>1, <2>2, d4 = d3 \o else, PieceSplit, Zenon
  <2>4. PICK m3 : Piece(c, a, m3, d2) /\ Piece(c, m3, m4, out)
    BY ONLY <1>00, <1>5, <2>1, <2>3, d3 = d2 \o out, PieceSplit, Zenon
  <2>5. PICK m2 : Piece(c, a, m2, d1) /\ Piece(c, m2, m3, over)
    BY ONLY <1>00, <2>0, <2>1, <2>4, d2 = d1 \o over, PieceSplit, Zenon
  <2>6. PICK m1 : Piece(c, a, m1, br) /\ Piece(c, m1, m2, then)
    BY ONLY <1>00, <1>5, <2>5, d1 = br \o then, PieceSplit, Zenon
  <2>7. CodeAt(c, m2, over) /\ CodeAt(c, m3, out) /\ CodeAt(c, m5, end)
    BY <2>2, <2>4, <2>5, Zenon DEF Piece
  <2>8. m3 = m2 + 1 /\ m4 = m3 + 1 /\ q = m5 + 1
    BY <1>00, <2>2, <2>4, <2>5, PieceOne, Zenon DEF Place, Goto
  <2>9. m1 <= m3 /\ m2 < m5
    <3>1. m1 <= m2 /\ m4 <= m5 /\ m1 \in Nat /\ m2 \in Nat /\ m4 \in Nat /\ m5 \in Nat
      BY <1>0, <2>3, <2>6, PieceEnds, Zenon
    <3> QED BY ONLY <2>8, <3>1
  <2>10. Follows(r, c, m5, ss)
    <3>1. Forward(r, m5, q)
      BY <2>7, <2>8, JumpsTo, Zenon
    <3> QED BY <1>00, <3>1, FollowsFrom, Zenon
  <2>11. Follows(r, c, m1, body \o ss)
    <3>1. Hop(r, m2, m5)
      BY <2>7, JumpsTo, Zenon
    <3>2. Forward(r, m2, m5)
      BY <1>00, <2>9, <3>1, ForwardFacts, Zenon
    <3>3. Follows(r, c, m2, ss)
      BY <1>00, <2>10, <3>2, FollowsFrom, Zenon
    <3>4. BlockAt(c, m1, m2, body)
      BY <1>2, <2>6, PieceOfBlock, Zenon
    <3> QED BY <1>00, <3>3, <3>4, FollowsBlock, Zenon
  <2>12. Follows(r, c, m3, els \o ss)
    <3>1. BlockAt(c, m4, m5, els)
      BY <1>3, <1>4, <2>3, PieceOfBlock, Zenon
    <3>2. Follows(r, c, m4, els \o ss)
      BY <1>00, <2>10, <3>1, FollowsBlock, Zenon
    <3>3. Forward(r, m3, m4)
      BY <2>7, <2>8, JumpsTo, Zenon
    <3> QED BY <1>00, <3>2, <3>3, FollowsFrom, Zenon
  <2> QED BY <1>8, <2>6, <2>7, <2>9, <2>11, <2>12, Zenon
<1> QED BY <1>9, <1>10, Zenon

\* A loop goes on with its body, its update and itself, or with what follows.
LEMMA LoopRuns ==
  ASSUME NEW c, Placed(c), NEW r, Goes(r, c), NEW st \in Stmt, st.kind = "for", st.init = <<>>, Pure(st.expr),
         NEW a, NEW q, StmtAt(c, a, q, st), NEW ss \in Seq(Stmt), Follows(r, c, q, ss), NEW k \in Nat, Live(r, k, a)
  PROVE  \E n \in 0 .. Len(c) + 1, g \in Places :
           /\ Live(r, k + n, g) /\ Like(r[k], r[k + n], Temps)
           /\ Follows(r, c, g, (IF Held(st.expr, r[k]) # 0 THEN Append(st.body \o st.update, st) ELSE <<>>) \o ss)
<1>0. c \in Seq(Instr) /\ Len(c) \in Nat /\ \A s \in Places : s \in Nat /\ s # 0
  BY CodeFacts DEF Placed, Places
<1>00. c \in Seq(Instr)
  BY <1>0
<1>1. PICK t, l \in Nat : Piece(c, a, q, GenStmt(GenStmts, st, t, l).code)
  BY PieceOfStmt
<1> PICK d : d = GenStmt(GenStmts, st, t, l).code
  OBVIOUS
<1> PICK e \in Expr, body \in Seq(Stmt) : e = st.expr /\ body = st.body \o st.update
  BY StmtFacts, ConcatProperties
<1>2. GenStmts[<<>>][t][l] = [code |-> <<>>, temps |-> t, labels |-> l]
  BY EmptySeq, GenStmtsFacts DEF StmtsOf
<1> PICK x : x = GenExpr[e][t]
  OBVIOUS
<1>3. x \in ExprCode /\ x.temps \in Nat /\ l + 1 \in Nat /\ l + 2 \in Nat /\ l + 3 \in Nat
  BY GenExprFacts DEF ExprCode
<1> PICK b : b = GenStmts[body][x.temps][l + 3]
  OBVIOUS
<1>4. b \in StmtCode /\ b.code \in Seq(Instr)
  BY <1>3, GenStmtsIsCode
<1> PICK in, br, again, back, out : /\ in = Place(l) /\ br = Branch(x, l + 2, l + 1) /\ again = b.code
                                    /\ back = Goto(l) /\ out = Place(l + 1)
  OBVIOUS
<1>5. /\ in \in Seq(Instr) /\ br \in Seq(Instr) /\ again \in Seq(Instr) /\ back \in Seq(Instr) /\ out \in Seq(Instr)
      /\ Loop(l, x, again) \in Seq(Instr)
  BY <1>3, <1>4, PiecesTyped, Zenon
<1>6. d = Loop(l, x, again)
  <2> PICK i : i = [code |-> <<>>, temps |-> t, labels |-> l]
    OBVIOUS
  <2>1. i.code = <<>> /\ i.temps = t /\ i.labels = l
    BY ONLY i = [code |-> <<>>, temps |-> t, labels |-> l]
  <2> PICK lo : lo = Loop(l, x, again)
    OBVIOUS
  <2> PICK d0 : d0 = i.code \o lo
    BY Zenon
  <2>2. GenStmt(GenStmts, st, t, l) = [b EXCEPT !.code = d0]
    BY <1>2, <2>1, Zenon DEF GenStmt
  <2>3. [b EXCEPT !.code = d0].code = d0
    BY <1>4, Zenon DEF StmtCode
  <2>4. d0 = lo
    BY <1>5, <2>1, ConcatEmptySeq, Zenon
  <2> QED BY <2>2, <2>3, <2>4, Zenon
<1>7. Piece(c, a, q, d) /\ Pure(e)
  BY <1>1
<1> PICK d1, d2, d3 : d1 = in \o br /\ d2 = d1 \o again /\ d3 = d2 \o back
  BY Zenon
<1>8. d1 \in Seq(Instr) /\ d2 \in Seq(Instr) /\ d3 \in Seq(Instr) /\ d = d3 \o out
  <2>1. d1 \in Seq(Instr)
    BY <1>5, ConcatProperties, Zenon
  <2>2. d2 \in Seq(Instr)
    BY <1>5, <2>1, ConcatProperties, Zenon
  <2>3. d3 \in Seq(Instr)
    BY <1>5, <2>2, ConcatProperties, Zenon
  <2> QED BY <1>6, <2>1, <2>2, <2>3, Zenon DEF Loop
<1>9. PICK m4 : Piece(c, a, m4, d3) /\ Piece(c, m4, q, out)
  BY ONLY <1>00, <1>5, <1>7, <1>8, PieceSplit
<1>10. PICK m3 : Piece(c, a, m3, d2) /\ Piece(c, m3, m4, back)
  BY ONLY <1>00, <1>5, <1>8, <1>9, d3 = d2 \o back, PieceSplit, Zenon
<1>11. PICK m2 : Piece(c, a, m2, d1) /\ Piece(c, m2, m3, again)
  BY ONLY <1>00, <1>5, <1>8, <1>10, d2 = d1 \o again, PieceSplit, Zenon
<1>12. PICK m1 : Piece(c, a, m1, in) /\ Piece(c, m1, m2, br)
  BY ONLY <1>00, <1>5, <1>11, d1 = in \o br, PieceSplit, Zenon
<1>13. CodeAt(c, a, in) /\ CodeAt(c, m3, back) /\ CodeAt(c, m4, out)
  BY <1>9, <1>10, <1>12, Zenon DEF Piece
<1>14. m1 = a + 1 /\ m4 = m3 + 1 /\ q = m4 + 1 /\ m3 \in 1 .. Len(c)
  BY <1>00, <1>9, <1>10, <1>12, PieceOne, Zenon DEF Place, Goto
<1>15. /\ a \in Places /\ q \in Places /\ a \in Nat /\ m3 \in Places /\ m2 <= m4 /\ a <= Len(c) + 1
  <2>1. /\ a \in Places /\ q \in Places /\ a <= m1 /\ m2 \in Places /\ m2 <= m3 /\ m3 \in Places /\ m4 \in Places
        /\ a <= m4 /\ m4 <= Len(c) + 1
    BY <1>00, <1>9, <1>10, <1>11, <1>12, PieceEnds, Zenon
  <2>2. a \in Nat /\ m2 \in Nat /\ m3 \in Nat /\ m4 \in Nat
    BY <1>0, <2>1, Zenon
  <2>3. m2 <= m4 /\ a <= Len(c) + 1
    BY ONLY <1>0, <1>14, <2>1, <2>2
  <2> QED BY <2>1, <2>2, <2>3, Zenon
<1>16. Follows(r, c, m4, ss)
  <2>1. Forward(r, m4, q)
    BY <1>13, <1>14, JumpsTo, Zenon
  <2> QED BY <1>00, <2>1, FollowsFrom, Zenon
<1> PICK more : more = <<st>> \o ss
  BY Zenon
<1>17. /\ more \in Seq(Stmt) /\ more # <<>> /\ Head(more) = st /\ Tail(more) = ss
       /\ Append(body, st) \o ss = body \o more /\ <<>> \o ss = ss
  <2>1. /\ <<st>> \o ss \in Seq(Stmt) /\ <<st>> \o ss # <<>> /\ Head(<<st>> \o ss) = st /\ Tail(<<st>> \o ss) = ss
        /\ Append(body, st) \o ss = body \o (<<st>> \o ss)
    BY ONLY st \in Stmt, body \in Seq(Stmt), ss \in Seq(Stmt), BetweenTwo
  <2>2. <<>> \o ss = ss
    BY ConcatEmptySeq, Zenon
  <2> QED BY ONLY more = <<st>> \o ss, <2>1, <2>2
<1>18. Follows(r, c, m3, more)
  <2>1. Hop(r, m3, a)
    BY <1>13, JumpsTo, Zenon
  <2>2. Quiet(r, c, m3, a)
    <3>1. Forward(r, m3, m3)
      BY <1>00, <1>15, ForwardFacts, Zenon
    <3> QED BY <1>14, <1>15, <2>1, <3>1, Zenon DEF Quiet
  <2>3. StmtAt(c, a, q, Head(more)) /\ Follows(r, c, q, Tail(more))
    BY <1>17, Zenon
  <2> QED BY ONLY <1>00, <1>15, <1>17, <2>2, <2>3, FollowsOn
<1>19. Follows(r, c, m2, body \o more)
  <2>1. BlockAt(c, m2, m3, body)
    BY <1>3, <1>11, PieceOfBlock, Zenon
  <2> QED BY <1>00, <1>17, <1>18, <2>1, FollowsBlock, Zenon
<1>20. PICK n0 \in 0 .. 1 : r[k + n0] = At(r[k], m1)
  <2>1. Forward(r, a, m1)
    BY <1>13, <1>14, JumpsTo, Zenon
  <2>2. m1 - a = 1
    BY ONLY <1>14, <1>15
  <2> QED BY <2>1, <2>2, Zenon DEF Forward
<1> PICK j \in Nat : j = k + n0
  <2>1. k + n0 \in Nat
    BY ONLY k \in Nat, n0 \in 0 .. 1
  <2> QED BY <2>1, Zenon
<1>21. Live(r, j, m1) /\ Like(r[k], r[j], Temps) /\ Held(e, r[j]) = Held(e, r[k])
  <2>1. r[k] \in State /\ r[j] \in State /\ m1 \in Places
    <3>1. m1 \in Places
      BY <1>00, <1>12, PieceEnds, Zenon
    <3> QED BY <3>1, Zenon DEF Goes
  <2>2. /\ r[j].next = m1 /\ r[j].out = r[k].out /\ r[j].input = r[k].input /\ r[j].exit = r[k].exit
        /\ \A v : Content(r[j], v) = Content(r[k], v)
    <3>1. r[j] = At(r[k], m1)
      BY <1>20, Zenon
    <3> PICK u, w : u = r[k] /\ w = r[j]
      BY Zenon
    <3>2. /\ w.next = m1 /\ w.out = u.out /\ w.input = u.input /\ w.exit = u.exit
          /\ \A v : Content(w, v) = Content(u, v)
      BY ONLY u = r[k], w = r[j], <2>1, <3>1, AtFacts
    <3> QED BY ONLY u = r[k], w = r[j], <3>2
  <2>3. Held(e, r[j]) = Held(e, r[k])
    BY <1>7, <2>1, <2>2, StateValued, HeldAlike, Zenon
  <2> QED BY <2>2, <2>3, Zenon DEF Live, Like, Ended
<1>22. PICK n \in 0 .. Len(c), g \in Places : /\ Live(r, j + n, g) /\ Like(r[j], r[j + n], Temps)
                                              /\ Forward(r, g, IF Held(e, r[j]) # 0 THEN m2 ELSE m4)
  <2> PICK yes, no \in Nat : yes = l + 2 /\ no = l + 1
    BY <1>3, Zenon
  <2>1. Piece(c, m1, m2, Branch(GenExpr[e][t], yes, no)) /\ CodeAt(c, m4, Place(no))
    BY <1>12, <1>13, Zenon
  <2> QED BY ONLY Placed(c), Goes(r, c), e \in Expr, t \in Nat, yes \in Nat, no \in Nat, j \in Nat,
                  <1>7, <1>15, <1>21, <2>1, BranchRuns
<1>23. Follows(r, c, g, (IF Held(e, r[k]) # 0 THEN Append(body, st) ELSE <<>>) \o ss)
  <2>1. CASE Held(e, r[k]) # 0
    <3>1. Forward(r, g, m2)
      BY <1>21, <1>22, <2>1, Zenon
    <3>2. Follows(r, c, g, body \o more)
      BY <1>00, <1>19, <3>1, FollowsFrom, Zenon
    <3> QED BY <1>17, <2>1, <3>2, Zenon
  <2>2. CASE Held(e, r[k]) = 0
    <3>1. Forward(r, g, m4)
      BY <1>21, <1>22, <2>2, Zenon
    <3>2. Follows(r, c, g, ss)
      BY <1>00, <1>16, <3>1, FollowsFrom, Zenon
    <3> QED BY <1>17, <2>2, <3>2, Zenon
  <2> QED BY <2>1, <2>2, Zenon
<1> PICK m : m = n0 + n
  BY Zenon
<1>24. m \in 0 .. Len(c) + 1 /\ j + n = k + m
  BY ONLY <1>0, j = k + n0, m = n0 + n, k \in Nat, n0 \in 0 .. 1, n \in 0 .. Len(c)
<1>25. Live(r, k + m, g) /\ Like(r[k], r[k + m], Temps)
  <2>1. Like(r[k], r[j + n], Temps \cup Temps)
    BY <1>21, <1>22, LikeBoth, Zenon
  <2>2. Temps \cup Temps = Temps
    BY Zenon
  <2> QED BY <1>22, <1>24, <2>1, <2>2, Zenon
<1> QED BY <1>23, <1>24, <1>25, Zenon

\* A loop with a first part is that part and what is left of it behind.
LEMMA LoopBegins ==
  ASSUME NEW c, Placed(c), NEW r, Goes(r, c), NEW st \in Stmt, st.kind = "for",
         NEW a, NEW q, StmtAt(c, a, q, st), NEW ss \in Seq(Stmt), Follows(r, c, q, ss)
  PROVE  Follows(r, c, a, Append(st.init, [st EXCEPT !.init = <<>>]) \o ss)
<1>0. c \in Seq(Instr)
  BY DEF Placed
<1>1. PICK t, l \in Nat : Piece(c, a, q, GenStmt(GenStmts, st, t, l).code)
  BY PieceOfStmt
<1> PICK d : d = GenStmt(GenStmts, st, t, l).code
  OBVIOUS
<1> PICK st0 : st0 = [st EXCEPT !.init = <<>>]
  OBVIOUS
<1>2. /\ st0 \in Stmt /\ st0.kind = "for" /\ st0.init = <<>>
      /\ st0.expr = st.expr /\ st0.body = st.body /\ st0.update = st.update
  BY RestFacts
<1> PICK e \in Expr, body \in Seq(Stmt), init \in Seq(Stmt) : e = st.expr /\ body = st.body \o st.update /\ init = st.init
  BY StmtFacts, ConcatProperties
<1> PICK i : i = GenStmts[init][t][l]
  OBVIOUS
<1>3. i \in StmtCode /\ i.code \in Seq(Instr) /\ i.temps \in Nat /\ i.labels \in Nat
  BY GenStmtsIsCode
<1> PICK m, n \in Nat : m = i.temps /\ n = i.labels
  BY <1>3
<1> PICK x : x = GenExpr[e][m]
  OBVIOUS
<1>4. x \in ExprCode /\ x.temps \in Nat /\ n + 3 \in Nat
  <2>1. x \in ExprCode /\ x.temps \in Nat
    BY GenExprFacts DEF ExprCode
  <2>2. n + 3 \in Nat
    BY ONLY n \in Nat
  <2> QED BY <2>1, <2>2
<1> PICK b : b = GenStmts[body][x.temps][n + 3]
  BY Zenon
<1>5. b \in StmtCode /\ b.code \in Seq(Instr)
  BY <1>4, GenStmtsIsCode, Zenon
<1> PICK lo, first : lo = Loop(n, x, b.code) /\ first = i.code
  BY Zenon
<1>6. lo \in Seq(Instr) /\ first \in Seq(Instr)
  BY <1>3, <1>4, <1>5, PiecesTyped, Zenon
<1>7. d = first \o lo
  <2> PICK d0 : d0 = first \o lo
    BY Zenon
  <2>1. GenStmt(GenStmts, st, t, l) = [b EXCEPT !.code = d0]
    BY Zenon DEF GenStmt
  <2>2. [b EXCEPT !.code = d0].code = d0
    BY <1>5, Zenon DEF StmtCode
  <2> QED BY <2>1, <2>2, Zenon
<1>8. GenStmt(GenStmts, st0, m, n).code = lo
  <2> PICK i0 : i0 = [code |-> <<>>, temps |-> m, labels |-> n]
    BY Zenon
  <2>1. i0.code = <<>> /\ i0.temps = m /\ i0.labels = n
    BY ONLY i0 = [code |-> <<>>, temps |-> m, labels |-> n]
  <2>2. GenStmts[<<>>][m][n] = i0
    <3>1. <<>> \in Seq(Stmt)
      BY EmptySeq, Zenon
    <3>2. GenStmts[<<>>][m][n] = StmtsOf(GenStmts, <<>>, m, n)
      BY <3>1, GenStmtsFacts, Zenon
    <3> QED BY <3>2, Zenon DEF StmtsOf
  <2> PICK d0 : d0 = i0.code \o lo
    BY Zenon
  <2>3. GenStmt(GenStmts, st0, m, n) = [b EXCEPT !.code = d0]
    BY <1>2, <2>1, <2>2, Zenon DEF GenStmt
  <2>4. [b EXCEPT !.code = d0].code = d0
    BY <1>5, Zenon DEF StmtCode
  <2>5. d0 = lo
    BY <1>6, <2>1, ConcatEmptySeq, Zenon
  <2> QED BY <2>3, <2>4, <2>5, Zenon
<1>9. PICK z : Piece(c, a, z, first) /\ Piece(c, z, q, lo)
  <2>1. Piece(c, a, q, d)
    BY <1>1, Zenon
  <2> QED BY ONLY <1>0, <1>6, <1>7, <2>1, PieceSplit, Zenon
<1>10. BlockAt(c, a, z, init)
  BY <1>9, PieceOfBlock, Zenon
<1>11. StmtAt(c, z, q, st0)
  BY <1>2, <1>8, <1>9, Zenon DEF StmtAt, Piece
<1> PICK more : more = <<st0>> \o ss
  BY Zenon
<1>12. /\ more \in Seq(Stmt) /\ more # <<>> /\ Head(more) = st0 /\ Tail(more) = ss
       /\ Append(init, st0) \o ss = init \o more
  <2>1. st0 \in Stmt
    BY <1>2, Zenon
  <2>2. /\ <<st0>> \o ss \in Seq(Stmt) /\ <<st0>> \o ss # <<>> /\ Head(<<st0>> \o ss) = st0
        /\ Tail(<<st0>> \o ss) = ss /\ Append(init, st0) \o ss = init \o (<<st0>> \o ss)
    BY ONLY <2>1, init \in Seq(Stmt), ss \in Seq(Stmt), BetweenTwo
  <2> QED BY ONLY more = <<st0>> \o ss, <2>2
<1>13. Follows(r, c, z, more)
  <2>1. z \in Places /\ q \in Places /\ z <= Len(c) + 1
    <3>1. z \in Places /\ z <= Len(c) + 1
      BY ONLY <1>0, <1>9, PieceEnds
    <3>2. q \in Places
      BY ONLY <1>0, <1>9, PieceEnds
    <3> QED BY <3>1, <3>2, Zenon
  <2>2. Quiet(r, c, z, z)
    BY <1>0, <2>1, ForwardFacts, Zenon DEF Quiet
  <2>3. StmtAt(c, z, q, Head(more)) /\ Follows(r, c, q, Tail(more))
    BY <1>11, <1>12, Zenon
  <2> QED BY ONLY <1>0, <1>12, <2>1, <2>2, <2>3, FollowsOn
<1>14. Follows(r, c, a, init \o more)
  BY <1>0, <1>10, <1>12, <1>13, FollowsBlock, Zenon
<1> QED BY <1>12, <1>14, Zenon

(* One step of the source, and the code's.                                     *)
LEMMA AlikeInSource ==
  ASSUME NEW s \in Source, NEW t \in State, Like(At(s, 1), t, Temps), NEW st \in Stmt,
         st.kind \in {"assign", "print", "exit", "if", "for"} => Pure(st.expr)
  PROVE  /\ Means(st, s) = Means(st, t)
         /\ st.kind \in {"if", "for"} => Held(st.expr, s) = Held(st.expr, t)
<1>1. \A a \in Operand \ Temps : Content(s, a) = Content(t, a)
  <2>1. \A a : Content(At(s, 1), a) = Content(s, a)
    BY SourceFacts
  <2> QED BY <2>1 DEF Like
<1>2. Valued(s) /\ Valued(t)
  BY SourceFacts, StateValued
<1>3. st.kind \in {"assign", "print", "exit", "if", "for"} => Held(st.expr, s) = Held(st.expr, t)
  BY <1>1, <1>2, StmtFacts, HeldAlike
<1> QED BY <1>3 DEF Means

LEMMA AvoidsLeaves ==
  ASSUME NEW X, NEW ss \in Seq(Stmt), ss # <<>>, Avoids(X, ss), NEW s
  PROVE  Avoids(X, Leaves(Head(ss), s)) /\ Avoids(X, Tail(ss))
<1> PICK st \in Stmt : st = Head(ss)
  BY HeadAndTail
<1>1. /\ Avoids(X, Tail(ss)) /\ Avoids(X, <<st>>)
      /\ st.kind \in {"assign", "print", "exit", "if", "for"} => Without(X, st.expr)
      /\ st.kind = "block" => Avoids(X, st.body)
      /\ st.kind = "if" => Avoids(X, st.body) /\ Avoids(X, st.els)
      /\ st.kind = "for" => Avoids(X, st.init) /\ Avoids(X, st.body \o st.update)
  BY AvoidsFacts
<1>2. <<>> \in Seq(Stmt) /\ Avoids(X, <<>>)
  BY EmptySeq, InStmtsFacts DEF Avoids
<1>3. CASE st.kind \in {"block", "if"}
  BY <1>1, <1>3 DEF Leaves
<1>4. CASE st.kind = "for"
  <2>0. st.init \in Seq(Stmt) /\ st.body \in Seq(Stmt) /\ st.update \in Seq(Stmt)
    BY <1>4, StmtFacts
  <2> PICK st0, init, body : st0 = [st EXCEPT !.init = <<>>] /\ init = st.init /\ body = st.body \o st.update
    OBVIOUS
  <2>1. /\ st0 \in Stmt /\ st0.kind = "for" /\ st0.init = <<>>
        /\ st0.expr = st.expr /\ st0.body = st.body /\ st0.update = st.update
    BY <1>4, RestFacts
  <2>2. init \in Seq(Stmt) /\ body \in Seq(Stmt) /\ Avoids(X, init) /\ Avoids(X, body) /\ Without(X, st.expr)
    BY <1>1, <1>4, <2>0, ConcatProperties
  <2>3. Avoids(X, <<st0>>)
    <3>1. InStmt(InStmts, st0) = InExpr[st.expr] \cup InStmts[st0.init \o st0.body \o st0.update]
      BY <2>1 DEF InStmt
    <3>2. st0.init \o st0.body \o st0.update = body
      BY <2>0, <2>1, ConcatEmptySeq
    <3>3. InStmt(InStmts, st0) \cap X = {}
      BY <2>2, <3>1, <3>2 DEF Avoids, Without
    <3> QED BY <2>1, <3>3, AvoidsOne
  <2>4. ASSUME NEW b \in Seq(Stmt), NEW x \in Stmt, Avoids(X, b), Avoids(X, <<x>>) PROVE Avoids(X, Append(b, x))
    <3> PICK one : one = <<x>>
      OBVIOUS
    <3>1. one \in Seq(Stmt) /\ Append(b, x) = b \o one
      BY AppendIsConcat
    <3>2. Avoids(X, b) /\ Avoids(X, one)
      BY <2>4
    <3>3. Avoids(X, b \o one)
      BY ONLY b \in Seq(Stmt), <3>1, <3>2, AvoidsBoth
    <3> QED BY <3>1, <3>3
  <2>5. Avoids(X, Append(init, st0)) /\ Avoids(X, Append(body, st))
    BY <1>1, <2>1, <2>2, <2>3, <2>4
  <2> QED BY <1>1, <1>2, <1>4, <2>5 DEF Leaves
<1>5. CASE st.kind \notin {"block", "if", "for"}
  BY <1>1, <1>2, <1>5 DEF Leaves
<1> QED BY <1>3, <1>4, <1>5

LEMMA CleanLeaves ==
  ASSUME NEW ss \in Seq(Stmt), ss # <<>>, Clean(ss), NEW s
  PROVE  Clean(Leaves(Head(ss), s)) /\ Clean(Tail(ss))
BY AvoidsLeaves DEF Clean

LEMMA StepRuns ==
  ASSUME NEW c, Placed(c), NEW r, Goes(r, c), NEW s \in Source, s.next # <<>>, Clean(s.next),
         NEW k \in Nat, Like(At(s, 1), r[k], Temps), NEW a, NEW q, Live(r, k, a),
         StmtAt(c, a, q, Head(s.next)), Follows(r, c, q, Tail(s.next))
  PROVE  LET u == HeldStep(s)
         IN  /\ u \in Source /\ Clean(u.next)
             /\ \E n \in 0 .. Len(c) + 1 : Like(At(u, 1), r[k + n], Temps) /\ Follows(r, c, r[k + n].next, u.next)
<1>0. c \in Seq(Instr) /\ Len(c) \in Nat /\ r[k] \in State /\ \A i \in Nat : r[i] \in State
  BY CodeFacts DEF Placed, Goes
<1> PICK st, ss, u, e, ls : /\ st = Head(s.next) /\ ss = Tail(s.next) /\ u = HeldStep(s)
                            /\ e = Means(st, s) /\ ls = Leaves(st, s)
  OBVIOUS
<1>1. /\ st \in Stmt /\ ss \in Seq(Stmt) /\ e \in Effect /\ ls \in Seq(Stmt) /\ u \in Source
      /\ u.next = ls \o ss /\ At(u, 1) = Act(e, At(s, 1))
  BY HeldStepIs
<1>2. s.next \in Seq(Stmt) /\ At(s, 1) \in State
  BY SourceFacts
<1>3. st.kind \in {"assign", "print", "exit", "if", "for"} => Pure(st.expr)
  BY <1>2, CleanFacts
<1>4. /\ e = Means(st, r[k])
      /\ st.kind \in {"if", "for"} => Held(st.expr, s) = Held(st.expr, r[k])
  BY <1>0, <1>1, <1>3, AlikeInSource
<1>5. Clean(u.next)
  <2>1. Clean(ls) /\ Clean(ss)
    BY <1>2, CleanLeaves
  <2>2. Clean(ls \o ss)
    BY ONLY <1>1, <2>1, CleanBoth
  <2> QED BY <1>1, <2>2
<1>6. StmtAt(c, a, q, st) /\ Follows(r, c, q, ss)
  OBVIOUS
<1> PICK t : t = At(s, 1)
  OBVIOUS
\* Where the statement changes nothing.
<1>7. ASSUME st.kind \notin {"assign", "print", "exit", "scan"},
             NEW n \in 0 .. Len(c) + 1, Like(r[k], r[k + n], Temps), Follows(r, c, r[k + n].next, ls \o ss)
      PROVE  \E m \in 0 .. Len(c) + 1 : Like(At(u, 1), r[k + m], Temps) /\ Follows(r, c, r[k + m].next, u.next)
  <2>1. e.kind = "go"
    BY <1>7 DEF Means
  <2>2. At(u, 1) = t
    BY <1>1, <2>1 DEF Act
  <2>3. Like(t, r[k + n], Temps \cup Temps)
    BY <1>7, LikeBoth
  <2>4. Temps \cup Temps = Temps
    OBVIOUS
  <2> QED BY <1>1, <1>7, <2>2, <2>3, <2>4
<1>8. k + 0 = k /\ 0 \in 0 .. Len(c) + 1 /\ Like(r[k], r[k], Temps) /\ 0 .. Len(c) \subseteq 0 .. Len(c) + 1
      /\ r[k].next = a
  BY <1>0 DEF Like, Live
<1>9. CASE st.kind \in {"assign", "print", "exit", "scan"}
  <2>1. st.kind # "scan" => Pure(st.expr)
    BY <1>3, <1>9
  <2>2. PICK n \in 0 .. Len(c), w \in State : w.next = q /\ Like(r[k], w, Temps) /\ r[k + n] = Act(Means(st, r[k]), w)
    BY ONLY Placed(c), Goes(r, c), <1>1, <1>6, <1>9, <2>1, k \in Nat, Live(r, k, a), SimpleRuns
  <2>3. r[k + n] = Act(e, w) /\ n \in 0 .. Len(c) + 1
    BY <1>4, <1>8, <2>2
  <2>4. Act(e, w).next = q
    BY <1>1, <2>2, ActFacts
  <2>5. Like(Act(e, t), Act(e, w), Temps)
    <3>1. Like(t, w, Temps \cup Temps)
      BY <2>2, LikeBoth
    <3>2. Like(t, w, Temps)
      <4>1. Temps \cup Temps = Temps
        OBVIOUS
      <4> QED BY <3>1, <4>1
    <3>3. Like(Act(e, t), Act(e, w), Temps \ Written(e))
      BY <1>1, <1>2, <3>2, ActLike
    <3>4. (Temps \ Written(e)) \cap Operand \subseteq Temps
      OBVIOUS
    <3> QED BY ONLY <3>3, <3>4, LikeMore
  <2>6. u.next = ss
    <3>1. ls = <<>>
      BY <1>9 DEF Leaves
    <3> QED BY <1>1, <3>1, ConcatEmptySeq
  <2> QED BY <1>1, <1>5, <1>6, <2>3, <2>4, <2>5, <2>6
<1>10. CASE st.kind = "declare"
  <2>1. PICK i, l \in Nat : Piece(c, a, q, GenStmt(GenStmts, st, i, l).code)
    BY PieceOfStmt
  <2> PICK x : x = [code |-> <<>>, temps |-> i, labels |-> l]
    BY Zenon
  <2>2. GenStmt(GenStmts, st, i, l) = x /\ x.code = <<>>
    BY <1>10, Zenon DEF GenStmt
  <2>3. a = q
    BY <1>0, <2>1, <2>2, PieceNone
  <2>4. ls \o ss = ss
    <3>1. ls = <<>>
      BY <1>10 DEF Leaves
    <3> QED BY <1>1, <3>1, ConcatEmptySeq
  <2>5. Follows(r, c, r[k + 0].next, ls \o ss)
    BY <1>6, <1>8, <2>3, <2>4
  <2> QED BY <1>1, <1>5, <1>7, <1>8, <1>10, <2>5
<1>11. CASE st.kind = "block"
  <2>1. PICK i, l \in Nat : Piece(c, a, q, GenStmt(GenStmts, st, i, l).code)
    BY PieceOfStmt
  <2>2. GenStmt(GenStmts, st, i, l) = GenStmts[st.body][i][l] /\ st.body \in Seq(Stmt) /\ ls = st.body
    BY <1>1, <1>11, StmtFacts, Zenon DEF GenStmt, Leaves
  <2>3. BlockAt(c, a, q, ls)
    BY <1>1, <2>1, <2>2, PieceOfBlock
  <2>4. Follows(r, c, r[k + 0].next, ls \o ss)
    BY <1>0, <1>1, <1>6, <1>8, <2>3, FollowsBlock
  <2> QED BY <1>1, <1>5, <1>7, <1>8, <1>11, <2>4
<1>12. CASE st.kind = "if"
  <2>1. PICK n \in 0 .. Len(c), g \in Places :
          /\ Live(r, k + n, g) /\ Like(r[k], r[k + n], Temps)
          /\ Follows(r, c, g, (IF Held(st.expr, r[k]) # 0 THEN st.body ELSE st.els) \o ss)
    BY ONLY Placed(c), Goes(r, c), <1>1, <1>3, <1>6, <1>12, k \in Nat, Live(r, k, a), IfRuns
  <2>2. ls = IF Held(st.expr, r[k]) # 0 THEN st.body ELSE st.els
    BY <1>4, <1>12 DEF Leaves
  <2>3. Follows(r, c, r[k + n].next, ls \o ss) /\ n \in 0 .. Len(c) + 1
    BY <1>8, <2>1, <2>2 DEF Live
  <2> QED BY <1>1, <1>5, <1>7, <1>12, <2>1, <2>3
<1>13. CASE st.kind = "for" /\ st.init = <<>>
  <2>1. PICK n \in 0 .. Len(c) + 1, g \in Places :
          /\ Live(r, k + n, g) /\ Like(r[k], r[k + n], Temps)
          /\ Follows(r, c, g, (IF Held(st.expr, r[k]) # 0 THEN Append(st.body \o st.update, st) ELSE <<>>) \o ss)
    BY ONLY Placed(c), Goes(r, c), <1>1, <1>3, <1>6, <1>13, k \in Nat, Live(r, k, a), LoopRuns
  <2>2. ls = IF Held(st.expr, r[k]) # 0 THEN Append(st.body \o st.update, st) ELSE <<>>
    BY <1>4, <1>13 DEF Leaves
  <2>3. Follows(r, c, r[k + n].next, ls \o ss)
    BY <2>1, <2>2 DEF Live
  <2> QED BY <1>1, <1>5, <1>7, <1>13, <2>1, <2>3
<1>14. CASE st.kind = "for" /\ st.init # <<>>
  <2>1. ls = Append(st.init, [st EXCEPT !.init = <<>>])
    BY <1>14 DEF Leaves
  <2>2. Follows(r, c, a, ls \o ss)
    BY <1>1, <1>6, <1>14, <2>1, LoopBegins
  <2>3. Follows(r, c, r[k + 0].next, ls \o ss)
    BY <1>8, <2>2
  <2> QED BY <1>1, <1>5, <1>7, <1>8, <1>14, <2>3
<1> QED BY <1>1, <1>9, <1>10, <1>11, <1>12, <1>13, <1>14, StmtFacts
-----------------------------------------------------------------------------
(* Runs of the source, in which nothing changes what the literals hold.        *)
Sound(X, s) == Avoids(X, s.next) /\ Kept(X, s)

LEMMA SameStep ==
  ASSUME NEW X, NEW s \in Source, Sound(X, s)
  PROVE  SourceStep(s) = HeldStep(s)
<1>1. CASE s.next = <<>>
  BY <1>1 DEF SourceStep, HeldStep, StepWith
<1>2. CASE s.next # <<>>
  <2> PICK st, v, w : st = Head(s.next) /\ v = Value(st.expr, s) /\ w = Held(st.expr, s)
    OBVIOUS
  <2>1. SourceStep(s) = StepWith(v, s) /\ HeldStep(s) = StepWith(w, s)
    <3>1. SourceStep(s) = StepWith(Value(Head(s.next).expr, s), s)
      BY <1>2, SMT DEF SourceStep, StepWith
    <3> QED BY <3>1 DEF HeldStep
  <2>2. st \in Stmt /\ Valued(s)
    BY <1>2, SourceFacts, HeadAndTail
  <2>3. CASE st.kind \in {"assign", "print", "exit", "if", "for"}
    <3>1. st.expr \in Expr /\ Without(X, st.expr)
      BY <1>2, <2>2, <2>3, SourceFacts, StmtFacts, AvoidsFacts DEF Sound
    <3>2. v = w
      BY <2>2, <3>1, ValueIsHeld DEF Sound
    <3> QED BY <2>1, <3>2
  <2>4. CASE st.kind \in {"declare", "scan", "block"}
    <3>1. CASE st.kind = "declare"
      BY <1>2, <2>1, <3>1 DEF StepWith
    <3>2. CASE st.kind = "scan"
      BY <1>2, <2>1, <3>2 DEF StepWith
    <3>3. CASE st.kind = "block"
      BY <1>2, <2>1, <3>3 DEF StepWith
    <3> QED BY <2>4, <3>1, <3>2, <3>3
  <2> QED BY <2>2, <2>3, <2>4, StmtFacts
<1> QED BY <1>1, <1>2

LEMMA StaysSound ==
  ASSUME NEW X, \A a \in DOMAIN Text : Literal(a) \notin X => a \in X, NEW s \in Source, Sound(X, s)
  PROVE  Sound(X, HeldStep(s))
<1> PICK u : u = HeldStep(s)
  OBVIOUS
<1>1. CASE s.next = <<>>
  <2>1. u = Exited(s, 0)
    BY <1>1 DEF HeldStep, StepWith
  <2>2. u.next = s.next /\ u.env = s.env
    BY <2>1 DEF Exited, Source
  <2> QED BY <2>2 DEF Sound, Kept, Content
<1>2. CASE s.next # <<>>
  <2> PICK st, ss, e, ls, t : /\ st = Head(s.next) /\ ss = Tail(s.next) /\ e = Means(st, s)
                              /\ ls = Leaves(st, s) /\ t = At(s, 1)
    OBVIOUS
  <2>1. /\ st \in Stmt /\ ss \in Seq(Stmt) /\ e \in Effect /\ ls \in Seq(Stmt) /\ u \in Source
        /\ u.next = ls \o ss /\ At(u, 1) = Act(e, t)
    BY <1>2, HeldStepIs
  <2>2. s.next \in Seq(Stmt) /\ t \in State /\ \A a : Content(t, a) = Content(s, a)
    BY SourceFacts
  <2>3. Avoids(X, u.next)
    <3>1. Avoids(X, ls) /\ Avoids(X, ss)
      BY <1>2, <2>2, AvoidsLeaves DEF Sound
    <3>2. Avoids(X, ls \o ss)
      BY <2>1, <3>1, AvoidsBoth, Zenon
    <3> QED BY <2>1, <3>2
  <2>4. ASSUME NEW a \in X PROVE Content(u, a) = Content(s, a)
    <3>1. a \notin Written(e)
      <4>1. st.kind \in {"assign", "scan"} => st.name \notin X
        BY <1>2, <2>2, AvoidsFacts DEF Sound
      <4>2. CASE st.kind \in {"assign", "scan"}
        <5>1. e.var = st.name
          BY <4>2 DEF Means
        <5> QED BY <4>1, <4>2, <5>1 DEF Written
      <4>3. CASE st.kind \notin {"assign", "scan"}
        <5>1. e.kind \notin {"set", "scan"}
          BY <4>3 DEF Means
        <5> QED BY <5>1 DEF Written
      <4> QED BY <4>2, <4>3
    <3>2. Content(Act(e, t), a) = Content(t, a)
      BY <2>1, <2>2, <3>1, ActFacts
    <3>3. Content(At(u, 1), a) = Content(u, a)
      BY <2>1, SourceFacts
    <3> QED BY <2>1, <2>2, <3>2, <3>3
  <2> QED BY <2>3, <2>4 DEF Sound, Kept
<1> QED BY <1>1, <1>2

Moved(s) == IF Ended(s) THEN s ELSE HeldStep(s)
IsSourceRun(S, t, input) == /\ S \in [Nat -> Source] /\ S[0] = Started(input, t)
                            /\ \A i \in Nat : S[i + 1] = Moved(S[i])

LEMMA SourceStarts ==
  ASSUME NEW input \in Inputs, NEW t \in Seq(Stmt)
  PROVE  LET s == Started(input, t)
         IN  s \in Source /\ s.next = t /\ At(s, 1) = Started(input, 1)
<1> PICK s, u : s = Started(input, t) /\ u = Started(input, 1)
  OBVIOUS
<1> PICK none : none = <<>>
  OBVIOUS
<1>1. /\ s = [out |-> none, input |-> input, env |-> Text, exit |-> none, next |-> t]
      /\ u = [out |-> none, input |-> input, env |-> Text, exit |-> none, next |-> 1]
  BY DEF Started, Running
<1>2. u \in State
  BY StartFacts
<1>3. Left(u, t) \in Source /\ Left(u, t).next = t
  BY <1>2, LeftFacts
<1>4. Left(u, t) = s
  BY ONLY <1>1 DEF Left
<1>5. At(s, 1) = u
  BY ONLY <1>1 DEF At
<1> QED BY <1>3, <1>4, <1>5

LEMMA SourceEnds ==
  ASSUME NEW s \in Source
  PROVE  /\ Exited(s, 0) \in Source /\ Ended(Exited(s, 0))
         /\ At(Exited(s, 0), 1) = Exited(At(s, 1), 0)
<1> PICK o, x, v, y, p : o = s.out /\ x = s.input /\ v = s.env /\ y = s.exit /\ p = s.next
  OBVIOUS
<1>1. /\ s = [out |-> o, input |-> x, env |-> v, exit |-> y, next |-> p]
      /\ o \in Seq(Int) /\ x \in Seq(Int) /\ v \in Envs /\ y \in Seq(Int) /\ p \in Seq(Stmt)
  BY DEF Source
<1> PICK w, z : w = <<0>> /\ z = Exited(s, 0)
  OBVIOUS
<1>2. w \in Seq(Int) /\ w # <<>>
  OBVIOUS
<1>3. z = [out |-> o, input |-> x, env |-> v, exit |-> w, next |-> p]
  BY ONLY <1>1, w = <<0>>, z = Exited(s, 0) DEF Exited
<1>4. z \in Source /\ z.exit = w
  <2>1. z \in Source
    BY ONLY <1>1, <1>2, <1>3 DEF Source
  <2>2. z.exit = w
    BY ONLY <1>3
  <2> QED BY <2>1, <2>2
<1>5. At(z, 1) = [out |-> o, input |-> x, env |-> v, exit |-> w, next |-> 1]
  BY ONLY <1>3 DEF At
<1> PICK t : t = At(s, 1)
  OBVIOUS
<1>6. t = [out |-> o, input |-> x, env |-> v, exit |-> y, next |-> 1]
  BY ONLY <1>1, t = At(s, 1) DEF At
<1>7. Exited(t, 0) = [out |-> o, input |-> x, env |-> v, exit |-> w, next |-> 1]
  BY ONLY <1>6, w = <<0>> DEF Exited
<1> QED BY <1>2, <1>4, <1>5, <1>7 DEF Ended, Running

LEMMA MovedFacts == \A s \in Source : Moved(s) \in Source
<1>1. ASSUME NEW s \in Source, ~Ended(s) PROVE HeldStep(s) \in Source
  <2>1. CASE s.next = <<>>
    BY <2>1, SourceEnds DEF HeldStep, StepWith
  <2>2. CASE s.next # <<>>
    BY <2>2, HeldStepIs
  <2> QED BY <2>1, <2>2
<1> QED BY <1>1 DEF Moved

LEMMA StartsSound ==
  ASSUME NEW input \in Inputs, NEW t \in Seq(Stmt), ToldApart(InStmts[t])
  PROVE  LET X == (Operand \cup Texts) \ InStmts[t]
         IN  /\ \A a \in DOMAIN Text : Literal(a) \notin X => a \in X
             /\ Sound(X, Started(input, t))
<1> PICK all, X : all = InStmts[t] /\ X = (Operand \cup Texts) \ all
  OBVIOUS
<1>1. ASSUME NEW a \in DOMAIN Text, Literal(a) \notin X PROVE a \in X /\ ~IsConstant(a)
  <2>1. Literal(a) \in all
    BY <1>1 DEF Texts
  <2>2. Literal(a)[1] = "text" /\ Literal(a)[2] = a
    BY DEF Literal
  <2>3. a \notin all /\ a[1] # "#"
    BY <2>1, <2>2 DEF ToldApart
  <2> QED BY <2>3, TextAssumption DEF IsConstant
<1> PICK s : s = Started(input, t)
  OBVIOUS
<1>2. s \in Source /\ s.next = t /\ At(s, 1) = Started(input, 1)
  BY SourceStarts
<1>3. \A a : Content(At(s, 1), a) = Content(s, a)
  BY <1>2, SourceFacts
<1>4. Kept(X, s)
  BY <1>1, <1>2, <1>3, StartFacts DEF Kept
<1>5. Avoids(X, s.next)
  BY <1>2 DEF Avoids
<1> QED BY <1>1, <1>4, <1>5 DEF Sound

LEMMA SourceRun ==
  ASSUME NEW input \in Inputs, NEW t \in Seq(Stmt), ToldApart(InStmts[t])
  PROVE  \E S : IsSourceRun(S, t, input) /\ RunSource(t, input) = S[Fuel]
<1> DEFINE V == Source
           v == Started(input, t)
           step == [i \in Nat |-> [s \in V |-> Moved(s)]]
<1>1. v \in V
  BY SourceStarts
<1>2. StepOn(step, V)
  BY MovedFacts DEF StepOn
<1>3. PICK S \in [Nat -> V] : S[0] = v /\ \A i \in Nat : i # 0 => S[i] = step[i][S[i - 1]]
  <2> HIDE DEF V, v, step
  <2>1. \E S : IteratesFrom(S, V, v, step)
    BY ONLY <1>1, <1>2, IterationExists
  <2> QED BY <2>1 DEF IteratesFrom
<1>4. ASSUME NEW i \in Nat PROVE S[i + 1] = Moved(S[i])
  <2>1. i + 1 \in Nat /\ i + 1 # 0 /\ (i + 1) - 1 = i /\ S[i] \in V
    OBVIOUS
  <2>2. S[i + 1] = step[i + 1][S[(i + 1) - 1]]
    BY <1>3, <2>1
  <2> HIDE DEF V
  <2> QED BY <2>1, <2>2
<1>5. IsSourceRun(S, t, input)
  BY <1>3, <1>4 DEF IsSourceRun
<1> PICK X : X = (Operand \cup Texts) \ InStmts[t]
  OBVIOUS
<1> DEFINE Still == {i \in Nat : Sound(X, S[i])}
<1>11. 0 \in Still
  BY <1>3, StartsSound
<1>12. ASSUME NEW i \in Nat, i \in Still PROVE i + 1 \in Still
  <2>1. S[i] \in Source /\ i + 1 \in Nat
    OBVIOUS
  <2>2. CASE Ended(S[i])
    BY <1>4, <1>12, <2>1, <2>2 DEF Moved
  <2>3. CASE ~Ended(S[i])
    <3>1. S[i + 1] = HeldStep(S[i])
      BY <1>4, <2>3 DEF Moved
    <3>2. Sound(X, HeldStep(S[i]))
      BY <1>12, <2>1, StartsSound, StaysSound
    <3> QED BY <2>1, <3>1, <3>2
  <2> QED BY <2>2, <2>3
<1>13. Nat \subseteq Still
  <2> HIDE DEF Still
  <2> QED BY ONLY <1>11, <1>12, NaturalInduction
<1>14. ASSUME NEW i \in Nat PROVE S[i + 1] = IF Ended(S[i]) THEN S[i] ELSE SourceStep(S[i])
  <2>1. Sound(X, S[i]) /\ S[i] \in Source
    BY <1>13
  <2>2. SourceStep(S[i]) = HeldStep(S[i])
    BY <2>1, SameStep
  <2> QED BY <1>4, <2>2 DEF Moved
<1> HIDE DEF Still
<1> DEFINE IsWalk(f) == f = [n \in Nat |-> IF n = 0 THEN Started(input, t)
                                            ELSE LET s == f[n - 1] IN IF Ended(s) THEN s ELSE SourceStep(s)]
           run == CHOOSE g : IsWalk(g)
<1>6. IsWalk(S)
  <2>1. ASSUME NEW n \in Nat, n # 0
        PROVE  S[n] = LET s == S[n - 1] IN IF Ended(s) THEN s ELSE SourceStep(s)
    <3> PICK m \in Nat : n = m + 1 /\ n - 1 = m
      <4>1. n - 1 \in Nat /\ n = (n - 1) + 1
        BY <2>1
      <4> QED BY <4>1
    <3> QED BY <1>14
  <2> QED BY <1>3, <2>1
<1>7. IsWalk(run)
  <2> HIDE DEF IsWalk
  <2> QED BY <1>6
<1>8. RunSource(t, input) = run[Fuel]
  BY DEF RunSource
<1> HIDE DEF run, V, step
<1> DEFINE T == {i \in Nat : run[i] = S[i]}
<1>9. 0 \in T
  BY <1>3, <1>7
<1>10. ASSUME NEW i \in Nat, i \in T PROVE i + 1 \in T
  <2>1. i + 1 \in Nat /\ i + 1 # 0 /\ (i + 1) - 1 = i
    OBVIOUS
  <2>2. run[i + 1] = IF Ended(run[i]) THEN run[i] ELSE SourceStep(run[i])
    BY <1>7, <2>1
  <2> QED BY <1>10, <1>14, <2>1, <2>2
<1>15. Nat \subseteq T
  <2> HIDE DEF T
  <2> QED BY ONLY <1>9, <1>10, NaturalInduction
<1> QED BY <1>5, <1>8, <1>15, InputsAssumption

(* The source in s is where the code's run is after k steps.                   *)
Related(r, c, s, k) == /\ Like(At(s, 1), r[k], Temps)
                       /\ ~Ended(s) => Clean(s.next) /\ Follows(r, c, r[k].next, s.next)

LEMMA RelatedNext ==
  ASSUME NEW c, Placed(c), NEW r, Goes(r, c), NEW s \in Source, NEW k \in Nat, Related(r, c, s, k)
  PROVE  \E n \in 0 .. 2 * Len(c) + 1 : Related(r, c, Moved(s), k + n)
<1>0. c \in Seq(Instr) /\ Len(c) \in Nat /\ \A i \in Nat : r[i] \in State
  BY CodeFacts DEF Placed, Goes
<1> PICK p, t, L : p = r[k].next /\ t = At(s, 1) /\ L = Len(c)
  OBVIOUS
<1>1. L \in Nat /\ t \in State /\ t.exit = s.exit /\ Like(t, r[k], Temps) /\ r[k] \in State /\ p \in Places
  BY <1>0, SourceFacts, StateFacts DEF Related
<1>2. CASE Ended(s)
  <2>1. Moved(s) = s /\ k + 0 = k /\ 0 \in 0 .. 2 * L + 1
    BY <1>1, <1>2 DEF Moved
  <2> QED BY <2>1
<1>3. CASE ~Ended(s)
  <2>1. Live(r, k, p) /\ Clean(s.next) /\ Follows(r, c, p, s.next) /\ c \in Seq(Instr)
    BY <1>0, <1>1, <1>3 DEF Live, Related, Like, Ended
\* After the quiet part.
  <2>2. ASSUME NEW a \in Places, Quiet(r, c, p, a)
        PROVE  \E n \in 0 .. L : k + n \in Nat /\ Live(r, k + n, a) /\ Like(t, r[k + n], Temps)
    <3>1. PICK n \in 0 .. L : r[k + n] = At(r[k], a)
      BY <1>0, <2>1, <2>2, QuietFacts
    <3>2. k + n \in Nat
      BY ONLY k \in Nat, n \in 0 .. L, <1>1
    <3> PICK u, w : u = r[k] /\ w = r[k + n]
      OBVIOUS
    <3>3. w.next = a /\ w.out = u.out /\ w.input = u.input /\ w.exit = u.exit /\ \A v : Content(w, v) = Content(u, v)
      BY <1>1, <3>1, AtFacts
    <3> QED BY <1>1, <2>1, <3>2, <3>3 DEF Live, Ended, Like
  <2>3. CASE s.next = <<>>
    <3>1. L + 1 \in Places /\ Quiet(r, c, p, L + 1)
      <4>1. Quiet(r, c, p, Len(c) + 1)
        BY <2>1, <2>3, FollowsFacts
      <4> QED BY <4>1 DEF Quiet
    <3>2. PICK n \in 0 .. L : k + n \in Nat /\ Live(r, k + n, L + 1) /\ Like(t, r[k + n], Temps)
      BY <2>2, <3>1
    <3> PICK w : w = r[k + n]
      OBVIOUS
    <3>3. r[(k + n) + 1] = Exited(w, 0)
      <4>1. r[(k + n) + 1] = Stepped(c, w)
        BY <3>2 DEF Goes
      <4>2. ~Ended(w) /\ w.next > Len(c)
        BY <1>1, <3>2 DEF Live
      <4> QED BY <4>1, <4>2 DEF Stepped, CodeStep
    <3>4. Moved(s) = Exited(s, 0)
      BY <1>3, <2>3 DEF Moved, HeldStep, StepWith
    <3>5. At(Exited(s, 0), 1) = Exited(t, 0) /\ Ended(Exited(s, 0))
      BY SourceEnds
    <3>6. Like(Exited(t, 0), Exited(w, 0), Temps)
      <4>1. w \in State /\ 0 \in Int
        BY <1>0, <3>2
      <4> PICK e, f : e = Exited(t, 0) /\ f = Exited(w, 0)
        OBVIOUS
      <4>2. e.exit = <<0>> /\ e.out = t.out /\ e.input = t.input /\ \A a : Content(e, a) = Content(t, a)
        BY ONLY e = Exited(t, 0), <1>1, <4>1, ExitedFacts
      <4>3. f.exit = <<0>> /\ f.out = w.out /\ f.input = w.input /\ \A a : Content(f, a) = Content(w, a)
        BY ONLY f = Exited(w, 0), <4>1, ExitedFacts
      <4> QED BY <3>2, <4>2, <4>3 DEF Like
    <3>7. n + 1 \in 0 .. 2 * L + 1 /\ k + (n + 1) = (k + n) + 1
      BY ONLY k \in Nat, n \in 0 .. L, <1>1
    <3>8. Related(r, c, Moved(s), k + (n + 1))
      BY <3>3, <3>4, <3>5, <3>6, <3>7 DEF Related
    <3> QED BY <3>7, <3>8
  <2>4. CASE s.next # <<>>
    <3>1. PICK a, q \in Places : /\ Quiet(r, c, p, a) /\ StmtAt(c, a, q, Head(s.next))
                                 /\ Follows(r, c, q, Tail(s.next))
      BY <2>1, <2>4, FollowsFacts
    <3>2. PICK n \in 0 .. L : k + n \in Nat /\ Live(r, k + n, a) /\ Like(t, r[k + n], Temps)
      BY <2>2, <3>1
    <3> PICK j \in Nat : j = k + n
      BY <3>2
    <3> PICK u : u = HeldStep(s)
      OBVIOUS
    <3>3. Clean(u.next) /\ \E m \in 0 .. Len(c) + 1 : Like(At(u, 1), r[j + m], Temps) /\ Follows(r, c, r[j + m].next, u.next)
      <4>1. Like(At(s, 1), r[j], Temps) /\ Live(r, j, a)
        BY <3>2
      <4> QED BY ONLY Placed(c), Goes(r, c), s \in Source, j \in Nat, u = HeldStep(s), <2>1, <2>4, <3>1, <4>1, StepRuns
    <3> PICK m \in 0 .. L + 1 : Like(At(u, 1), r[j + m], Temps) /\ Follows(r, c, r[j + m].next, u.next)
      BY <3>3
    <3>4. n + m \in 0 .. 2 * L + 1 /\ k + (n + m) = j + m
      BY ONLY k \in Nat, n \in 0 .. L, m \in 0 .. L + 1, j = k + n, <1>1
    <3>5. Related(r, c, Moved(s), k + (n + m))
      BY <1>3, <3>3, <3>4 DEF Related, Moved
    <3> QED BY <3>4, <3>5
  <2> QED BY <2>3, <2>4
<1> QED BY <1>2, <1>3

LEMMA RelatedAlways ==
  ASSUME NEW c, Placed(c), NEW r, Goes(r, c), NEW S \in [Nat -> Source], \A i \in Nat : S[i + 1] = Moved(S[i]),
         Related(r, c, S[0], 0)
  PROVE  \A i \in Nat : \E k \in 0 .. i * (2 * Len(c) + 1) : Related(r, c, S[i], k)
<1>1. 2 * Len(c) + 1 \in Nat
  BY CodeFacts DEF Placed
<1> PICK N \in Nat : N = 2 * Len(c) + 1
  BY <1>1
<1> DEFINE T == {i \in Nat : \E k \in 0 .. i * N : Related(r, c, S[i], k)}
<1>2. 0 \in T
  OBVIOUS
<1>3. ASSUME NEW i \in Nat, i \in T PROVE i + 1 \in T
  <2> PICK m \in Nat : m = i * N
    OBVIOUS
  <2>1. PICK k \in 0 .. m : Related(r, c, S[i], k)
    BY <1>3
  <2>2. k \in Nat /\ S[i] \in Source
    OBVIOUS
  <2>3. PICK n \in 0 .. N : Related(r, c, Moved(S[i]), k + n)
    BY <2>1, <2>2, RelatedNext
  <2>4. (i + 1) * N = m + N /\ i + 1 \in Nat
    OBVIOUS
  <2>5. k + n \in 0 .. m + N
    BY ONLY k \in 0 .. m, n \in 0 .. N, m \in Nat, N \in Nat
  <2> QED BY <2>3, <2>4, <2>5
<1>4. Nat \subseteq T
  <2> HIDE DEF T
  <2> QED BY ONLY <1>2, <1>3, NaturalInduction
<1> QED BY <1>4

LEMMA GeneratedMeans ==
  ASSUME NEW tr \in Trees, Clean(tr), ToldApart(InStmts[tr])
  PROVE  SameAsSource(tr, Generated(tr))
<1> PICK c : c = Generated(tr)
  OBVIOUS
<1>1. Placed(c) /\ c \in Seq(Instr) /\ tr \in Seq(Stmt) /\ Len(c) \in Nat
  BY GeneratedPlaced, GeneratedTyped, TreesAssumption, CodeFacts
<1> SUFFICES ASSUME NEW input \in Inputs, Ended(RunSource(tr, input))
             PROVE  Behaviour(RunCode(c, input, Len(c) + 1)) = Behaviour(RunSource(tr, input))
  BY DEF SameAsSource
<1>2. PICK r : IsRun(r, c, input)
  BY <1>1, RunExists
<1>3. Goes(r, c)
  BY <1>2 DEF IsRun, Goes
<1>4. PICK S : IsSourceRun(S, tr, input) /\ RunSource(tr, input) = S[Fuel]
  BY <1>1, SourceRun
<1> PICK s0 : s0 = Started(input, tr)
  OBVIOUS
<1>5. s0.next = tr /\ At(s0, 1) = r[0] /\ S[0] = s0 /\ r[0].next = 1
  <2>1. s0.next = tr /\ At(s0, 1) = Started(input, 1)
    BY <1>1, SourceStarts
  <2> QED BY <1>2, <1>4, <2>1, StartFacts DEF IsRun, IsSourceRun
<1> PICK end \in Nat : end = Len(c) + 1
  BY <1>1
<1>6. BlockAt(c, 1, end, tr)
  <2>1. CodeAt(c, 1, c)
    <3>1. \A i \in 1 .. Len(c) : c[1 + i - 1] = c[i]
      <4>1. \A i \in 1 .. Len(c) : 1 + i - 1 = i
        BY <1>1
      <4> QED BY <4>1
    <3>2. 1 \in Places /\ 1 + Len(c) <= Len(c) + 1 /\ 1 + Len(c) = Len(c) + 1
      BY <1>1 DEF Places
    <3> QED BY <3>1, <3>2 DEF CodeAt
  <2>2. end = 1 + Len(c) /\ c = GenStmts[tr][0][0].code
    BY <1>1 DEF Generated
  <2>3. Piece(c, 1, end, GenStmts[tr][0][0].code)
    BY <1>1, <2>1, <2>2 DEF Piece
  <2> QED BY <1>1, <2>3, PieceOfBlock
<1>7. Follows(r, c, 1, tr)
  <2>1. end \in Places
    BY <1>1 DEF Places
  <2>2. Quiet(r, c, end, end)
    BY <1>1, <1>3, <2>1, ForwardFacts DEF Quiet
  <2>3. Follows(r, c, end, <<>>)
    BY <1>1, <2>1, <2>2, FollowsEnd
  <2>4. <<>> \in Seq(Stmt) /\ tr \o <<>> = tr
    BY <1>1, EmptySeq, ConcatEmptySeq
  <2>5. Follows(r, c, 1, tr \o <<>>)
    BY <1>1, <1>3, <1>6, <2>3, <2>4, FollowsBlock
  <2> QED BY <2>4, <2>5
<1>8. Related(r, c, S[0], 0)
  BY <1>5, <1>7 DEF Related, Like
<1>9. Fuel \in Nat
  BY InputsAssumption
<1> PICK N \in Nat : N = 2 * Len(c) + 1
  <2>1. 2 * Len(c) + 1 \in Nat
    BY <1>1
  <2> QED BY <2>1
<1>10. PICK k \in 0 .. Fuel * N : Related(r, c, S[Fuel], k)
  BY <1>1, <1>3, <1>4, <1>8, <1>9, RelatedAlways DEF IsSourceRun
<1> PICK s : s = S[Fuel]
  OBVIOUS
<1>11. s.out = r[k].out /\ s.exit = r[k].exit /\ Ended(r[k])
  <2>1. s \in Source
    BY <1>4, <1>9 DEF IsSourceRun
  <2>2. At(s, 1).out = s.out /\ At(s, 1).exit = s.exit
    BY <2>1, SourceFacts
  <2> QED BY <1>4, <1>10, <2>2 DEF Related, Like, Ended
<1> PICK m \in Nat : RunCode(c, input, Len(c) + 1) = r[m] /\ m >= k
  <2> PICK n \in Nat : n = Len(c) + 1 /\ 2 * n = N + 1
    BY <1>1
  <2>1. Fuel * (2 * n) \in Nat /\ RunCode(c, input, n) = r[Fuel * (2 * n)]
    <3>1. Fuel * (2 * n) \in Nat
      BY ONLY <1>2, n \in Nat, RunFacts, Zenon
    <3>2. RunCode(c, input, n) = r[Fuel * (2 * n)]
      BY ONLY <1>2, n \in Nat, RunFacts, Zenon
    <3> QED BY ONLY <3>1, <3>2
  <2>2. Fuel * (2 * n) = Fuel * N + Fuel
    <3>1. Fuel * (2 * n) = Fuel * (N + 1)
      OBVIOUS
    <3>2. Fuel * (N + 1) = Fuel * N + Fuel
      BY ONLY <1>9, N \in Nat
    <3> QED BY ONLY <3>1, <3>2
  <2>3. Fuel * (2 * n) >= k
    <3> PICK f \in Nat : f = Fuel * N
      BY <1>9
    <3> QED BY <1>9, <2>2
  <2> QED BY <2>1, <2>3
<1>12. r[m] = r[k]
  <2>1. k \in Nat
    <3> PICK f \in Nat : f = Fuel * N
      BY <1>9
    <3> QED OBVIOUS
  <2>2. m - k \in Nat /\ k + (m - k) = m
    BY ONLY <2>1, m \in Nat, m >= k
  <2> QED BY <1>2, <1>11, <2>1, <2>2, StaysEnded
<1> QED BY <1>4, <1>11, <1>12 DEF Behaviour

(* The code is the one that was generated, until the optimizer has changed it. *)
JustGenerated == stage = "fold" => code = Generated(tree)

(***************************************************************************)
(* CodeMeansItsSource: generateCode's code prints what the program prints, *)
(* reads the same input and ends with the same exit code, for every parse  *)
(* tree no variable of which is called like a temporary and no literal of  *)
(* which has the text of a number, a temporary or one of its variables,    *)
(* and however many steps it takes.                                        *)
(***************************************************************************)
THEOREM GeneratedCodeMeansItsSource == Spec => []CodeMeansItsSource
<1>1. Init => JustGenerated
  BY DEF Init, JustGenerated
<1>2. JustGenerated /\ [Next]_vars => JustGenerated'
  <2> SUFFICES ASSUME JustGenerated, [Next]_vars PROVE JustGenerated'
    OBVIOUS
  <2>1. CASE Generate
    BY <2>1 DEF Generate, Do, JustGenerated
  <2>2. CASE Fold \/ PropagateConstants \/ PropagateCopies \/ Simplify \/ EliminateDead \/ Reduce \/ Peep \/ Share
    BY <2>2 DEF Fold, PropagateConstants, PropagateCopies, Simplify, EliminateDead, Reduce, Peep, Share, Do, JustGenerated
  <2>3. CASE UNCHANGED vars
    BY <2>3 DEF vars, JustGenerated
  <2> QED BY <2>1, <2>2, <2>3 DEF Next
<1>3. WellFormed /\ JustGenerated => CodeMeansItsSource
  <2> SUFFICES ASSUME WellFormed, JustGenerated, stage = "fold", NoClash PROVE SameAsSource(tree, code)
    BY DEF CodeMeansItsSource
  <2>1. tree \in Trees /\ code = Generated(tree)
    BY DEF WellFormed, JustGenerated
  <2>2. Clean(tree)
    <3>1. \A a \in Temps : a[1] = "t" /\ Literal(a)[1] = "text" /\ Literal(a)[2] = a
      BY DEF Temps, Temp, Literal
    <3>2. ASSUME NEW a \in InStmts[tree] PROVE a \notin Temporary
      <4>1. a[1] # "t" /\ (a[1] = "text" => a[2][1] # "t")
        BY DEF NoClash, ToldApart
      <4>2. a \notin Temps /\ \A b \in Temps : a # Literal(b)
        BY <3>1, <4>1
      <4> QED BY <4>2 DEF Temporary
    <3> QED BY <3>2 DEF Clean, Avoids
  <2> QED BY <2>1, <2>2, GeneratedMeans DEF NoClash
<1> QED BY <1>1, <1>2, <1>3, AlwaysWellFormed, PTL DEF Spec
=============================================================================
