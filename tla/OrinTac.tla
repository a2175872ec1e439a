------------------------------- MODULE OrinTac -------------------------------
(***************************************************************************)
(* The middle of the Orin compiler: the three-address code generated from  *)
(* a parse tree (O/src/O_inter_codegen.c) and the passes of the optimizer  *)
(* over it (O/src/O_inter_code_optimizer.c), one after the other.          *)
(*                                                                         *)
(* The parse tree is the input.  A leaf of it is a name, a number or a     *)
(* literal of another type, and reaches the code as its bare text: nothing *)
(* there tells the string "x" from the variable x, nor "5" from the number *)
(* (O_lexer.c:115-141, O_inter_codegen.c:202).  A numeral is the number it *)
(* is written for.  Zeros in front of one are left out, and so is the text *)
(* "-", which isConstant takes for a number as well.                       *)
(***************************************************************************)
EXTENDS Integers, SequencesExt

CONSTANTS
  Trees, \* the programs: sequences of statements
  Expr,  \* the expressions in them
  Stmt,  \* the statements in them
  Name,  \* the variables in them, and the literals that are no numerals
  Size,  \* how much there is in each expression and statement
  IntMax, LongMax \* the largest int and the largest long

ASSUME WidthsAssumption == IntMax \in Nat /\ LongMax \in Nat /\ IntMax <= LongMax

(***************************************************************************)
(* The code's operands are strings.  Here they are pairs of a letter and a *)
(* number, so that a variable the user calls t0, or a string "t0", is the  *)
(* temporary t0.                                                           *)
(***************************************************************************)
Const(n) == <<"#", n>>
Temp(n) == <<"t", n>>
Label(n) == <<"L", n>>
NULL == <<"NULL", 0>>
Freed == <<"freed", 0>> \* a pointer whose string has been freed
IsConstant(a) == a[1] = "#"
Operand == Name \cup {"#"} \X Int \cup {"t", "L"} \X Nat \cup {NULL, Freed}

Arithmetic == {"ADD", "SUB", "MUL", "DIV", "MOD", "EQ", "NE", "LT", "LE", "GT", "GE"}
TacOp == Arithmetic \cup {"ASSIGN", "LABEL", "GOTO", "IF", "PRINT", "SCAN", "EXIT"}
TACInstruction == [op : TacOp, result : Operand, arg1 : Operand, arg2 : Operand]
TAC(op, result, arg1, arg2) == [op |-> op, result |-> result, arg1 |-> arg1, arg2 |-> arg2]
-----------------------------------------------------------------------------
(* The parser's trees: each has finitely many parts, and the names in them are *)
(* no numbers.  What is left of a for behind its first part is a statement.    *)
Weight[ss \in Seq(Stmt)] == IF ss = <<>> THEN 0 ELSE 1 + Size[Head(ss)] + Weight[Tail(ss)]

ASSUME TreesAssumption ==
  /\ Trees \subseteq Seq(Stmt)
  /\ Size \in [Expr \cup Stmt -> Nat]
  /\ \A e \in Expr :
       \/ e.kind \in {"leaf", "literal"} /\ e.operand \in Name \cup {"#"} \X Int
       \/ /\ e.kind = "op" /\ e.op \in Arithmetic /\ e.left \in Expr /\ e.right \in Expr
          /\ Size[e.left] < Size[e] /\ Size[e.right] < Size[e]
  /\ \A st \in Stmt :
       \/ st.kind \in {"declare", "scan"} /\ st.name \in Name
       \/ st.kind = "assign" /\ st.name \in Name /\ st.expr \in Expr
       \/ st.kind \in {"print", "exit"} /\ st.expr \in Expr
       \/ st.kind = "block" /\ st.body \in Seq(Stmt) /\ Weight[st.body] < Size[st]
       \/ /\ st.kind = "if" /\ st.expr \in Expr /\ st.body \in Seq(Stmt) /\ st.els \in Seq(Stmt)
          /\ Weight[st.body] + Weight[st.els] < Size[st]
       \/ /\ st.kind = "for" /\ st.expr \in Expr /\ st.init \in Seq(Stmt) /\ st.body \in Seq(Stmt)
          /\ st.update \in Seq(Stmt) /\ [st EXCEPT !.init = <<>>] \in Stmt
          /\ {"kind", "init", "expr", "body", "update"} \subseteq DOMAIN st
          /\ Weight[st.init] + Weight[st.body] + Weight[st.update] < Size[st]
  /\ \A a \in Name : a[1] \notin {"#", "NULL", "freed", "text"}
-----------------------------------------------------------------------------
(* Generation.  Code, the operand with the value, and the counters after it.   *)

\* generateExpression: a leaf is its own operand, an operator gets a temporary.
GenExpr[e \in Expr] == [temps \in Nat |->
  IF e.kind # "op" THEN [code |-> <<>>, arg |-> e.operand, temps |-> temps]
  ELSE LET left == GenExpr[e.left][temps]
           right == GenExpr[e.right][left.temps]
       IN  [code |-> left.code \o right.code \o <<TAC(e.op, Temp(right.temps), left.arg, right.arg)>>,
            arg |-> Temp(right.temps), temps |-> right.temps + 1]]

\* The code around the parts of an if and of a loop.
Place(l) == <<TAC("LABEL", Label(l), NULL, NULL)>>
Goto(l) == <<TAC("GOTO", NULL, Label(l), NULL)>>
Branch(cond, yes, no) == cond.code \o <<TAC("IF", NULL, cond.arg, Label(yes))>> \o Goto(no) \o Place(yes)
If(cond, l, then) == Branch(cond, l, l + 1) \o then \o Place(l + 1)
\* Mutant of IfElse: the true branch runs on into the false one.
IfElseFallsThrough(cond, l, then, end, els) ==
  Branch(cond, l, l + 1) \o then \o Place(l + 1) \o els \o Place(end)
IfElse(cond, l, then, end, els) ==
  Branch(cond, l, l + 1) \o then \o Goto(end) \o Place(l + 1) \o els \o Place(end)
Loop(l, cond, body) == Place(l) \o Branch(cond, l + 2, l + 1) \o body \o Goto(l) \o Place(l + 1)

\* generateCode for one statement, where gen is what it generates for sequences of
\* them.  An if without else has an empty `els', a for without its first or last
\* part an empty `init' or `update', a while neither; an update that is no
\* assignment generates nothing, and neither does a declaration without a value.
GenStmt(gen, st, temps, labels) ==
  LET value == GenExpr[st.expr][temps]
      Simple(op, result) == [code |-> value.code \o <<TAC(op, result, value.arg, NULL)>>,
                             temps |-> value.temps, labels |-> labels]
  IN  CASE st.kind = "declare" -> [code |-> <<>>, temps |-> temps, labels |-> labels]
        [] st.kind = "assign" -> Simple("ASSIGN", st.name)
        [] st.kind = "print" -> Simple("PRINT", NULL)
        [] st.kind = "exit" -> Simple("EXIT", NULL)
        [] st.kind = "scan" ->
             [code |-> <<TAC("SCAN", NULL, st.name, NULL)>>, temps |-> temps, labels |-> labels]
        [] st.kind = "block" -> gen[st.body][temps][labels]
        [] st.kind = "if" ->
             LET b == gen[st.body][value.temps][labels + 2]
                 e == gen[st.els][b.temps][b.labels + 1]
             IN  IF st.els = <<>> THEN [b EXCEPT !.code = If(value, labels, @)]
                 ELSE [e EXCEPT !.code = IfElse(value, labels, b.code, b.labels, @)]
        [] st.kind = "for" ->
             LET i == gen[st.init][temps][labels]
                 c == GenExpr[st.expr][i.temps]
                 b == gen[st.body \o st.update][c.temps][i.labels + 3]
             IN  [b EXCEPT !.code = i.code \o Loop(i.labels, c, @)]

GenStmts[ss \in Seq(Stmt)] == [temps \in Nat |-> [labels \in Nat |->
  IF ss = <<>> THEN [code |-> <<>>, temps |-> temps, labels |-> labels]
  ELSE LET first == GenStmt(GenStmts, Head(ss), temps, labels)
           rest == GenStmts[Tail(ss)][first.temps][first.labels]
       IN  [rest EXCEPT !.code = first.code \o @]]]
Generated(tree) == GenStmts[tree][0][0].code
-----------------------------------------------------------------------------
(* The passes. *)

\* What computeOperation stands for; C's division rounds towards zero.
Abs(n) == IF n < 0 THEN -n ELSE n
Quotient(n, d) == IF (n < 0) = (d < 0) THEN Abs(n) \div Abs(d) ELSE -(Abs(n) \div Abs(d))
Truth(b) == IF b THEN 1 ELSE 0
Compute(op, x, y) ==
  CASE op = "ADD" -> x + y
    [] op = "SUB" -> x - y
    [] op = "MUL" -> x * y
    [] op = "DIV" -> IF y = 0 THEN 0 ELSE Quotient(x, y)
    [] op = "MOD" -> IF y = 0 THEN 0 ELSE x - y * Quotient(x, y)
    [] op = "EQ" -> Truth(x = y)
    [] op = "NE" -> Truth(x # y)
    [] op = "LT" -> Truth(x < y)
    [] op = "LE" -> Truth(x <= y)
    [] op = "GT" -> Truth(x > y)
    [] op = "GE" -> Truth(x >= y)

\* What it computes, from and into an int.  atoi converts to a long first.
Wrapped(n) == ((n + IntMax + 1) % (2 * (IntMax + 1))) - IntMax - 1
atoi(n) == Wrapped(IF n > LongMax THEN LongMax ELSE IF n < -LongMax - 1 THEN -LongMax - 1 ELSE n)
computeOperation(op, x, y) == Wrapped(Compute(op, x, y))

\* The same sequence, which TLC has evaluated.
Tuple(c) == <<>> \o c
Map(c, Change(_)) == Tuple([i \in DOMAIN c |-> Change(c[i])])
\* The instructions are gone through in order, each changing the code but for its length.
InOrder(c, Change(_, _)) ==
  LET after[i \in 0 .. Len(c)] == IF i = 0 THEN c ELSE Change(after[i - 1], i)
  IN  after[Len(c)]

Folds(in) == in.op \in Arithmetic /\ IsConstant(in.arg1) /\ IsConstant(in.arg2)
Folded(in) == Const(computeOperation(in.op, atoi(in.arg1[2]), atoi(in.arg2[2])))
ConstantFolding(code) ==
  Map(code, LAMBDA in : IF Folds(in) THEN TAC("ASSIGN", in.result, Folded(in), NULL) ELSE in)

\* The least int divided by -1 is undefined: the processor stops the compiler, or
\* the result wraps.
Traps(code) == \E i \in DOMAIN code : /\ Folds(code[i]) /\ code[i].op \in {"DIV", "MOD"}
                                     /\ atoi(code[i].arg1[2]) = -IntMax - 1 /\ atoi(code[i].arg2[2]) = -1

\* replaceInInstruction, behind i, until the variable is assigned again.
Assigns(in, var) == in.op = "ASSIGN" /\ in.result = var
Reach(code, i) == {j \in i + 1 .. Len(code) : \A k \in i + 1 .. j : ~Assigns(code[k], code[i].result)}
Replaced(arg, var, by) == IF arg = var THEN by ELSE arg
Propagated(code, i) ==
  LET var == code[i].result
      by == code[i].arg1
      reach == Reach(code, i)
  IN  Tuple([j \in DOMAIN code |->
               IF j \in reach
               THEN [code[j] EXCEPT !.arg1 = Replaced(@, var, by), !.arg2 = Replaced(@, var, by)]
               ELSE code[j]])
ConstantPropagation(code) ==
  InOrder(code, LAMBDA c, i : IF c[i].op = "ASSIGN" /\ IsConstant(c[i].arg1) THEN Propagated(c, i) ELSE c)
CopyPropagation(code) ==
  InOrder(code, LAMBDA c, i : IF c[i].op = "ASSIGN" /\ ~IsConstant(c[i].arg1) THEN Propagated(c, i) ELSE c)

\* The operand that is neutral is freed, and stays in its place.
Neutral(op) == CASE op \in {"ADD", "SUB"} -> Const(0) [] op \in {"MUL", "DIV"} -> Const(1) [] OTHER -> NULL
NeutralFirst(in) == in.op \in {"ADD", "MUL"} /\ in.arg1 = Neutral(in.op)
NeutralSecond(in) == in.op \in {"ADD", "MUL", "SUB", "DIV"} /\ in.arg2 = Neutral(in.op)
AlgebraicSimplification(code) ==
  Map(code, LAMBDA in : IF NeutralFirst(in) THEN [in EXCEPT !.op = "ASSIGN", !.arg1 = Freed]
                        ELSE IF NeutralSecond(in) THEN [in EXCEPT !.op = "ASSIGN", !.arg2 = Freed]
                        ELSE in)

\* deadCodeElimination looks for uses behind an assignment, and where there is
\* none takes it out.
Uses(in, var) == var \in {in.arg1, in.arg2}
\* Mutant of UsedLater: the next instruction is not looked at.
UsedFarther(code, i) == \E j \in i + 2 .. Len(code) : Uses(code[j], code[i].result)
UsedLater(code, i) == \E j \in i + 1 .. Len(code) : Uses(code[j], code[i].result)
Dead(code, i) == code[i].op = "ASSIGN" /\ ~UsedLater(code, i)
DeadCodeElimination(code) ==
  LET alive[i \in 0 .. Len(code)] == IF i = 0 THEN <<>>
                                    ELSE IF Dead(code, i) THEN alive[i - 1]
                                    ELSE Append(alive[i - 1], code[i])
  IN  alive[Len(code)]

\* It compares a freed operand, unless it has found a use before that or in the
\* first operand of the same instruction, or frees it again.
TouchesFreed(code) ==
  \E j \in DOMAIN code :
    /\ Uses(code[j], Freed)
    /\ \/ Dead(code, j)
       \/ \E i \in 1 .. j - 1 : /\ code[i].result # NULL
                                /\ \A k \in i + 1 .. j - 1 : ~Uses(code[k], code[i].result)
                                /\ code[j].arg1 # code[i].result

\* Mutant of StrengthReduction: the operand is moved, not copied.
StrengthReductionMoves(code) ==
  Map(code, LAMBDA in : IF in.op = "MUL" /\ in.arg1 = Const(2)
                        THEN [in EXCEPT !.op = "ADD", !.arg1 = in.arg2, !.arg2 = NULL]
                        ELSE in)
StrengthReduction(code) ==
  Map(code, LAMBDA in : IF in.op # "MUL" THEN in
                        ELSE IF in.arg1 = Const(2) THEN [in EXCEPT !.op = "ADD", !.arg1 = in.arg2]
                        ELSE IF in.arg2 = Const(2) THEN [in EXCEPT !.op = "ADD", !.arg2 = in.arg1]
                        ELSE in)

\* Of two assignments in a row the first becomes a jump to nowhere, and is left
\* behind where the code begins with it.  The last instruction is not looked at.
Overwritten(code, i) == /\ i + 1 < Len(code)
                        /\ code[i].op = "ASSIGN"
                        /\ Assigns(code[i + 1], code[i].result)
Peephole(code) ==
  LET marked == [i \in DOMAIN code |->
                   IF Overwritten(code, i) THEN [code[i] EXCEPT !.op = "GOTO", !.arg1 = code[i].result]
                   ELSE code[i]]
      kept == {i \in DOMAIN code : \E j \in 1 .. i : ~Overwritten(code, j)}
  IN  SubSeq(marked, Len(code) - Cardinality(kept) + 1, Len(code))

CommonSubexpressions(code) ==
  InOrder(code, LAMBDA c, i :
    LET same == {j \in 1 .. i - 1 : /\ <<c[j].op, c[j].arg1, c[j].arg2>> = <<c[i].op, c[i].arg1, c[i].arg2>>
                                    /\ NULL \notin {c[i].arg1, c[i].arg2}}
        first == CHOOSE j \in same : \A k \in same : j <= k
    IN  IF c[i].op \in Arithmetic /\ same # {}
        THEN [c EXCEPT ![i] = TAC("ASSIGN", c[i].result, c[first].result, NULL)]
        ELSE c)
-----------------------------------------------------------------------------
VARIABLES
  tree,  \* the program
  code,  \* tacHead's list
  stage  \* what is done next, one of Stages

vars == <<tree, code, stage>>

\* optimizeCode's order.  "wild": a freed string was used; "trapped": a division
\* that the processor refuses.
Stages == {"generate", "fold", "constants", "copies", "simplify", "dead", "reduce", "peephole",
           "common", "done", "wild", "trapped"}

Do(now, new, then) == /\ stage = now
                      /\ code' = new
                      /\ stage' = then
                      /\ UNCHANGED tree

Generate == Do("generate", Generated(tree), "fold")
Fold == \/ Do("fold", ConstantFolding(code), "constants")
        \/ Traps(code) /\ Do("fold", code, "trapped")
PropagateConstants == Do("constants", ConstantPropagation(code), "copies")
PropagateCopies == Do("copies", CopyPropagation(code), "simplify")
Simplify == Do("simplify", AlgebraicSimplification(code), "dead")
EliminateDead == \/ ~TouchesFreed(code) /\ Do("dead", DeadCodeElimination(code), "reduce")
                 \/ TouchesFreed(code) /\ Do("dead", code, "wild")
Reduce == Do("reduce", StrengthReduction(code), "peephole")
Peep == Do("peephole", Peephole(code), "common")
Share == Do("common", CommonSubexpressions(code), "done")

Init == tree \in Trees /\ code = <<>> /\ stage = "generate"

Next == \/ Generate \/ Fold \/ PropagateConstants \/ PropagateCopies \/ Simplify
        \/ EliminateDead \/ Reduce \/ Peep \/ Share

Spec == Init /\ [][Next]_vars
=============================================================================
