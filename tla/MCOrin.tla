-------------------------------- MODULE MCOrin --------------------------------
(***************************************************************************)
(* The instance of the Orin compiler that TLC checks: four statements in a *)
(* row, where every pass finds its pattern and what spoils it, branches    *)
(* and loops inside each other, literals whose text is a number's, a       *)
(* variable's, a temporary's or nothing else's, and numbers beyond int and *)
(* long, which have 4 and 5 bits.                                          *)
(***************************************************************************)
EXTENDS OrinMeaning

X == <<"x", 0>>
Y == <<"y", 0>>
T0 == <<"t", 0>>
Hello == <<"hello", 0>>

Leaf(a) == [kind |-> "leaf", operand |-> a]
Literal_(a) == [kind |-> "literal", operand |-> a]
Op(op, a, b) == [kind |-> "op", op |-> op, left |-> Leaf(a), right |-> Leaf(b)]
Nest(op, e, f) == [kind |-> "op", op |-> op, left |-> e, right |-> f]

Declare(v) == [kind |-> "declare", name |-> v]
Assign(v, e) == [kind |-> "assign", name |-> v, expr |-> e]
Show(e) == [kind |-> "print", expr |-> e]
Exit(e) == [kind |-> "exit", expr |-> e]
Scan(v) == [kind |-> "scan", name |-> v]
Block(ss) == [kind |-> "block", body |-> ss]
IfThen(e, ss, els) == [kind |-> "if", expr |-> e, body |-> ss, els |-> els]
For(init, e, update, ss) == [kind |-> "for", init |-> init, expr |-> e, update |-> update, body |-> ss]
While(e, ss) == For(<<>>, e, <<>>, ss)

\* Statements in a row, and what is printed in the end.
Leaves == {Leaf(a) : a \in {X, Y, T0} \cup {Const(n) : n \in 0 .. 5}}
Sums == {Op("ADD", Y, Const(1)), Op("ADD", X, Y), Op("ADD", Y, Const(0)), Op("ADD", Const(0), Y), Op("ADD", Const(2), Const(3)), Op("ADD", T0, X)}
Products == {Op("MUL", Const(2), Y), Op("MUL", Y, Const(1)), Op("MUL", X, X), Op("DIV", Const(5), Const(0)), Op("SUB", Const(1), Const(3))}
Row == {Scan(Y), Declare(X), Assign(X, Leaf(Y)), Assign(Y, Leaf(Const(3))), Assign(Y, Leaf(X)), Assign(T0, Leaf(Const(5))), Assign(X, Leaf(T0)), Assign(T0, Op("ADD", T0, X))}
       \cup {Assign(X, e) : e \in Sums \cup Products}
Ends == {Show(Op("ADD", X, Y)), Show(Op("ADD", Y, Const(1)))}
Rows == {<<a, b, e>> : a, b \in Row, e \in Ends} \cup {<<Scan(X), a, b, c, e>> : a, b, c \in Row, e \in Ends}

\* Literals: printed, assigned and compared.
Lits == {Literal_(a) : a \in {Hello, X, T0, Const(5)}}
Compared == {Nest(op, l, e) : op \in {"EQ", "ADD"}, l \in Lits, e \in {Leaf(Y), Leaf(T0), Literal_(Hello)}}
Written == {<<Scan(X), Assign(Y, l), Assign(X, Op("ADD", X, Y)), Show(e), Show(l)>> : l \in Lits, e \in Compared}

\* Operations on numbers that are no ints, or whose results are none.
Extremes == {Op(op, Const(m), Const(n)) : op \in {"ADD", "MUL", "DIV", "MOD", "LT"}, m, n \in {1, 3, 7, 8, 15, 99}}
Overflows == {<<Assign(X, e), Show(Leaf(X))>> : e \in Extremes}

\* Branches and loops; a loop counts y up to a bound.
Less == {Op("LT", Y, Const(3)), Nest("GT", Op("ADD", X, Const(2)), Op("MUL", Y, Const(2)))}
Conditions == Less \cup {Leaf(X), Op("EQ", X, Y), Nest("GE", Op("MOD", Const(5), Const(3)), Leaf(X))}
CountUp == Assign(Y, Op("ADD", Y, Const(1)))
Inner == {<<Assign(X, Leaf(Const(3)))>>, <<Show(Leaf(X)), Exit(Leaf(Y))>>, <<Block(<<Scan(X), Show(Op("ADD", X, Y))>>)>>, <<>>}
Branches == {IfThen(e, a, b) : e \in Conditions, a, b \in Inner}
Bodies == Inner \cup {<<s, Show(Leaf(Y))>> : s \in {IfThen(e, a, b) : e \in {Leaf(X)}, a, b \in Inner}}
Around(bodies) == {While(e, Append(ss, CountUp)) : e \in Less, ss \in bodies}
                  \cup {For(<<Assign(Y, Leaf(Const(0)))>>, Op("LT", Y, Const(2)), <<CountUp>>, ss) : ss \in bodies}
Loops == Around(Bodies)
Deep == {IfThen(e, <<s>>, a) : e \in {Leaf(X)}, s \in Around(Inner), a \in Inner} \cup {While(e, <<s, CountUp>>) : e \in Less, s \in Around(Inner)}
Shaped == {<<Scan(X), Assign(Y, Leaf(Const(n))), s, Show(Op("ADD", X, Y))>> : n \in {0, 1}, s \in Branches \cup Loops \cup Deep}

AllTrees == Overflows \cup Written \cup Shaped \cup Rows
MCExpr == Leaves \cup Lits \cup Compared \cup Extremes \cup {Leaf(Const(n)) : n \in {7, 8, 15, 99}} \cup Sums \cup Products \cup Conditions \cup UNION {{e.left, e.right} : e \in Conditions \ {Leaf(X)}} \cup {s.expr : s \in Ends} \cup {Op("LT", Y, Const(2))}
MCStmt == UNION {ToSet(t) : t \in Written \cup Overflows} \cup Row \cup Ends \cup Branches \cup Loops \cup Deep
          \cup UNION {ToSet(ss) : ss \in Bodies}
          \cup {CountUp, Scan(X), Show(Op("ADD", X, Y)), Assign(Y, Leaf(Const(0))), Assign(Y, Leaf(Const(1)))}
          \cup {[s EXCEPT !.init = <<>>] : s \in Loops}
MCTrees == AllTrees
MCName == {X, Y, T0, Hello}
MCText == [a \in {Hello, X, T0, Const(5)} |-> 3]
MCSize[p \in MCExpr \cup MCStmt] ==
  LET Sum[ss \in Seq(MCStmt)] == IF ss = <<>> THEN 0 ELSE 1 + MCSize[Head(ss)] + Sum[Tail(ss)]
  IN  CASE p.kind = "op" -> 1 + MCSize[p.left] + MCSize[p.right]
        [] p.kind = "block" -> 1 + Sum[p.body]
        [] p.kind = "if" -> 1 + Sum[p.body \o p.els]
        [] p.kind = "for" -> 1 + Sum[p.init \o p.body \o p.update]
        [] OTHER -> 1
MCInputs == {<<0, 2>>, <<1, 1>>, <<2, 0>>}
=============================================================================
