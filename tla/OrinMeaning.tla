----------------------------- MODULE OrinMeaning -----------------------------
(***************************************************************************)
(* What an Orin program and its three-address code do when they are run on *)
(* an input, and the properties of OrinTac that say they do the same.      *)
(* Nothing in the repository runs the three-address code yet; its meaning  *)
(* here is the one the comments of the generator and optimizer give it.    *)
(***************************************************************************)
EXTENDS OrinTac

CONSTANTS
  Inputs, \* what the user may type: sequences of numbers
  Fuel,   \* the steps a program of Trees is followed for
  Text    \* the value of each literal that is no number, by its text
ASSUME InputsAssumption == Inputs \subseteq Seq(Int) /\ Fuel \in Nat
ASSUME TextAssumption ==
  /\ Text \in [DOMAIN Text -> Int] /\ DOMAIN Text \subseteq Operand
  /\ \A e \in Expr : e.kind = "literal" => e.operand \in DOMAIN Text

(* What has been printed, what is left of the input, the variables, the exit  *)
(* code, and what is executed next.  Spent input is 0, and so is a variable    *)
(* without a value; but a name that is also a literal's text is that text as   *)
(* long as nothing has been assigned to it, for the code has no other way to   *)
(* say it.                                                                     *)
Running == <<>>
Started(input, first) == [out |-> <<>>, input |-> input, env |-> Text, exit |-> Running, next |-> first]
Content(s, a) == IF IsConstant(a) THEN a[2] ELSE IF a \in DOMAIN s.env THEN s.env[a] ELSE 0
Set(s, var, n) == [s EXCEPT !.env = [a \in DOMAIN @ \cup {var} |-> IF a = var THEN n ELSE @[a]]]
Printed(s, n) == [s EXCEPT !.out = Append(@, n)]
Exited(s, n) == [s EXCEPT !.exit = <<n>>]
Scanned(s, var) == IF s.input = <<>> THEN Set(s, var, 0)
                   ELSE [Set(s, var, Head(s.input)) EXCEPT !.input = Tail(@)]
Ended(s) == s.exit # Running
Behaviour(s) == [out |-> s.out, exit |-> s.exit]

(***************************************************************************)
(* The source: `next' are the statements still to be executed.  A literal  *)
(* is its text, whatever variables are called.                             *)
(***************************************************************************)
Value(e, s) ==
  LET v[f \in Expr] == CASE f.kind = "op" -> Compute(f.op, v[f.left], v[f.right])
                          [] f.kind = "literal" -> Text[f.operand]
                          [] OTHER -> Content(s, f.operand)
  IN  v[e]

SourceStep(s) ==
  IF s.next = <<>> THEN Exited(s, 0)
  ELSE
    LET st == Head(s.next)
        gone == [s EXCEPT !.next = Tail(@)]
        Instead(ss) == [gone EXCEPT !.next = ss \o @]
    IN  CASE st.kind = "declare" -> gone
          [] st.kind = "assign" -> Set(gone, st.name, Value(st.expr, s))
          [] st.kind = "print" -> Printed(gone, Value(st.expr, s))
          [] st.kind = "exit" -> Exited(gone, Value(st.expr, s))
          [] st.kind = "scan" -> Scanned(gone, st.name)
          [] st.kind = "block" -> Instead(st.body)
          [] st.kind = "if" -> Instead(IF Value(st.expr, s) # 0 THEN st.body ELSE st.els)
          [] st.kind = "for" ->
               IF st.init # <<>> THEN Instead(Append(st.init, [st EXCEPT !.init = <<>>]))
               ELSE IF Value(st.expr, s) # 0 THEN Instead(Append(st.body \o st.update, st))
               ELSE gone

RunSource(t, input) ==
  LET run[n \in Nat] == IF n = 0 THEN Started(input, t)
                        ELSE LET s == run[n - 1] IN IF Ended(s) THEN s ELSE SourceStep(s)
  IN  run[Fuel]

(***************************************************************************)
(* The code: `next' is the number of an instruction.  A jump to what is no *)
(* label is the optimizer's no-op.                                         *)
(***************************************************************************)
Landing(c, target, otherwise) ==
  LET at == {i \in DOMAIN c : c[i].op = "LABEL" /\ c[i].result = target}
  IN  IF at = {} THEN otherwise ELSE CHOOSE i \in at : \A j \in at : i <= j

CodeStep(c, s) ==
  IF s.next > Len(c) THEN Exited(s, 0)
  ELSE
    LET in == c[s.next]
        gone == [s EXCEPT !.next = @ + 1]
        x == Content(s, in.arg1)
    IN  CASE in.op \in Arithmetic -> Set(gone, in.result, Compute(in.op, x, Content(s, in.arg2)))
          [] in.op = "ASSIGN" -> Set(gone, in.result, x)
          [] in.op = "LABEL" -> gone
          [] in.op = "GOTO" -> [s EXCEPT !.next = Landing(c, in.arg1, @ + 1)]
          [] in.op = "IF" -> IF x # 0 THEN [s EXCEPT !.next = Landing(c, in.arg2, @ + 1)] ELSE gone
          [] in.op = "PRINT" -> Printed(gone, x)
          [] in.op = "SCAN" -> Scanned(gone, in.arg1)
          [] in.op = "EXIT" -> Exited(gone, x)

\* So many steps from s; and Fuel times twice so many from the start.
Steps(c, s, n) ==
  LET run[i \in Nat] == IF i = 0 THEN s
                        ELSE LET t == run[i - 1] IN IF Ended(t) THEN t ELSE CodeStep(c, t)
  IN  IF Ended(s) THEN s ELSE run[n]
RunCode(c, input, n) ==
  LET round[i \in Nat] == IF i = 0 THEN Started(input, 1) ELSE LET s == round[i - 1] IN Steps(c, Steps(c, s, n), n)
  IN  round[Fuel]

\* Where the program ends, the code ends with the same output and exit code.  For
\* a step of the program it jumps to where that is, executes it, and may have
\* passed each instruction twice.
SameAsSource(t, c) ==
  \A input \in Inputs :
    LET source == RunSource(t, input)
    IN  Ended(source) => Behaviour(RunCode(c, input, Len(c) + 1)) = Behaviour(source)
SameAsCode(c, d) ==
  \A input \in Inputs :
    LET before == RunCode(c, input, 2)
    IN  Ended(before) => Behaviour(RunCode(d, input, 2)) = Behaviour(before)
-----------------------------------------------------------------------------
(***************************************************************************)
(* What the passes take for granted.                                       *)
(***************************************************************************)
\* What the names and numbers in a program are, and its literals' texts.
Literal(a) == <<"text", a>>
InExpr[e \in Expr] == CASE e.kind = "op" -> InExpr[e.left] \cup InExpr[e.right]
                         [] e.kind = "literal" -> {Literal(e.operand)}
                         [] OTHER -> {e.operand}
InStmts[ss \in Seq(Stmt)] ==
  IF ss = <<>> THEN {}
  ELSE LET st == Head(ss)
       IN  InStmts[Tail(ss)] \cup
           CASE st.kind \in {"declare", "scan"} -> {st.name}
             [] st.kind = "assign" -> {st.name} \cup InExpr[st.expr]
             [] st.kind = "block" -> InStmts[st.body]
             [] st.kind = "if" -> InExpr[st.expr] \cup InStmts[st.body \o st.els]
             [] st.kind = "for" -> InExpr[st.expr] \cup InStmts[st.init \o st.body \o st.update]
             [] OTHER -> InExpr[st.expr]
\* No variable of the program's has the name of a temporary, and no literal's text
\* is a number or the name of a variable or temporary.
ToldApart(all) ==
  \A a \in all : /\ a[1] # "t"
                 /\ a[1] = "text" => a[2] \notin all /\ a[2][1] \notin {"t", "#"}
NoClash == ToldApart(InStmts[tree])

Sets(in) == IF in.op = "SCAN" THEN {in.arg1} ELSE {in.result}
StraightLine(c) == \A i \in DOMAIN c : c[i].op # "LABEL"
\* No jump goes back.
NoLoop(c) == \A i, j \in DOMAIN c : c[j].op = "LABEL" /\ c[j].result \in {c[i].arg1, c[i].arg2} => i < j

\* What an assignment copies stays what it was as far as the copy is put in its
\* place, and nothing is read from the input there that the copy stands in for.
CopiesHold(c) ==
  \A i \in DOMAIN c : c[i].op = "ASSIGN" =>
    \A j \in Reach(c, i) : Sets(c[j]) \cap {c[i].result, c[i].arg1} = {}

\* The operands of a repeated expression and its first result stay what they were.
ExpressionsHold(c) ==
  \A i \in DOMAIN c, j \in DOMAIN c :
    /\ i < j /\ c[i].op \in Arithmetic
    /\ <<c[i].op, c[i].arg1, c[i].arg2>> = <<c[j].op, c[j].arg1, c[j].arg2>>
    => /\ c[i].result \notin {c[i].arg1, c[i].arg2}
       /\ \A k \in i + 1 .. j - 1 : Sets(c[k]) \cap {c[i].result, c[i].arg1, c[i].arg2} = {}

\* The operands of what is folded and its result are ints.
FoldsWithinInt(c) ==
  \A i \in DOMAIN c : Folds(c[i]) =>
    {c[i].arg1[2], c[i].arg2[2], Compute(c[i].op, c[i].arg1[2], c[i].arg2[2])} \subseteq -IntMax - 1 .. IntMax

\* A variable may have the name of a label.
Labels(c, a) == \E i \in DOMAIN c : c[i].op = "LABEL" /\ c[i].result = a

Assumes(now, c) ==
  CASE now \in {"generate", "reduce"} -> TRUE
    [] now = "fold" -> FoldsWithinInt(c)
    [] now \in {"constants", "copies"} -> StraightLine(c) /\ CopiesHold(c)
    [] now = "simplify" -> \A i \in DOMAIN c : ~NeutralFirst(c[i])
    [] now = "dead" -> NoLoop(c)
    [] now = "peephole" -> \A i \in DOMAIN c : Overwritten(c, i) => /\ c[i].result # c[i + 1].arg1
                                                                    /\ ~Labels(c, c[i].result)
    [] now = "common" -> StraightLine(c) /\ ExpressionsHold(c)
-----------------------------------------------------------------------------
(***************************************************************************)
(* Every instruction has the operands its operation needs and no others:   *)
(* a pass that turns one operation into another leaves none behind but     *)
(* algebraicSimplification's, whose second operand stays, and peephole's   *)
(* dummy jumps, which keep their result (O_inter_codegen.h:41).            *)
(***************************************************************************)
Given(in) == {f \in {"result", "arg1", "arg2"} : in[f] # NULL}
Shape(in) ==
  CASE in.op \in Arithmetic -> Given(in) = {"result", "arg1", "arg2"}
    [] in.op = "ASSIGN" -> /\ {"result", "arg1"} \subseteq Given(in)
                           /\ in.arg2 # NULL => Freed \in {in.arg1, in.arg2}
    [] in.op = "LABEL" -> Given(in) = {"result"}
    [] in.op = "IF" -> Given(in) = {"arg1", "arg2"}
    [] in.op = "GOTO" -> in.arg1 # NULL /\ (in.result = NULL => in.arg2 = NULL)
    [] OTHER -> Given(in) = {"arg1"}
OrinTypeOK == /\ stage \in Stages
              /\ tree \in Trees
              /\ code \in Seq(TACInstruction) /\ \A i \in DOMAIN code : Shape(code[i])

(***************************************************************************)
(* generateCode's code prints what the program prints, in the same order,  *)
(* reads the same input and ends with the same exit code: temporaries are  *)
(* not reused while they are needed, and every branch and loop jumps where *)
(* it should, however they are nested.  Excepted are a variable with the   *)
(* name of a temporary (O_inter_codegen.c:20), and a literal whose text is *)
(* a number, or the name of a variable or temporary, which the code takes  *)
(* for that (O_inter_codegen.c:202).                                       *)
(***************************************************************************)
CodeMeansItsSource == stage = "fold" /\ NoClash => SameAsSource(tree, code)

(***************************************************************************)
(* Each pass of optimizeCode keeps what the code does, wherever what it    *)
(* takes for granted holds.  Folding takes for granted that what it folds  *)
(* and the results fit an int (O_inter_code_optimizer.c:81); a larger      *)
(* number is cut to one, and a result wraps or stops the compiler.         *)
(* Strength reduction takes nothing for granted.                           *)
(***************************************************************************)
PassesKeepMeaning ==
  [][stage # "generate" /\ stage' \notin {"wild", "trapped"} /\ Assumes(stage, code) => SameAsCode(code, code')]_vars

(***************************************************************************)
(* O_inter_code_optimizer.c:178 says of deadCodeElimination: "Remove       *)
(* assignments whose result is never used."  So what it removes changes    *)
(* nothing.                                                                *)
(***************************************************************************)
DeadCodeIsDead == [][stage = "dead" /\ stage' = "reduce" => SameAsCode(code, code')]_vars
=============================================================================
