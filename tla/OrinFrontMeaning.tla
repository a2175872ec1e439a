--------------------------- MODULE OrinFrontMeaning ---------------------------
(***************************************************************************)
(* What a text of the Orin language is, and the properties of OrinFront    *)
(* that say the compiler reads it so.                                      *)
(***************************************************************************)
EXTENDS OrinFront

CONSTANTS
  Sources, \* the texts, each with what it was written from: the tokens, the
           \* program, and whether its tokens were tampered with
  MaxName  \* the longest name that fits

Source == CHOOSE s \in Sources : s.text = text

(***************************************************************************)
(* How the code generator reads the tree: what a node is, by its value,    *)
(* and its parts, by their places.  The result has OrinTac's form.         *)
(***************************************************************************)
Part(node, i) == node.children[i + 1]
Parts(node) == Len(node.children)
IsA(node, construct) == node.value = Ch(construct)

Operation == [PLUS |-> "ADD", MINUS |-> "SUB", STAR |-> "MUL", SLASH |-> "DIV", MOD |-> "MOD",
              EQ |-> "EQ", NEQ |-> "NE", LT |-> "LT", LE |-> "LE", GT |-> "GT", GE |-> "GE"]
Leaf_(a) == [kind |-> "leaf", operand |-> a]
Literal_(a) == [kind |-> "literal", operand |-> a]
Op(op, left, right) == [kind |-> "op", op |-> op, left |-> left, right |-> right]
Declare(name) == [kind |-> "declare", name |-> name]
Assign(name, expr) == [kind |-> "assign", name |-> name, expr |-> expr]
Show(expr) == [kind |-> "print", expr |-> expr]
Exit(expr) == [kind |-> "exit", expr |-> expr]
Scan(name) == [kind |-> "scan", name |-> name]
Block(body) == [kind |-> "block", body |-> body]
If(expr, body, els) == [kind |-> "if", expr |-> expr, body |-> body, els |-> els]
For(init, expr, update, body) == [kind |-> "for", init |-> init, expr |-> expr, update |-> update, body |-> body]

RECURSIVE ExprOf(_), StmtsOf(_)
\* Of a leaf the generator reads only the text; its kind is kept to compare it.
ExprOf(n) == IF Parts(n) = 0 THEN IF n.type \in {"IDENTIFIER", "INT_L"} THEN Leaf_(n.value) ELSE Literal_(n.value)
             ELSE Op(Operation[n.type], ExprOf(Part(n, 0)), ExprOf(Part(n, 1)))

\* A for has its keyword, perhaps a first part, the condition, perhaps an update,
\* and its body.
ForOf(n) ==
  LET init == IF IsA(Part(n, 1), "DECLARATION") \/ IsA(Part(n, 1), "ASSIGNMENT") THEN StmtsOf(Part(n, 1)) ELSE <<>>
      cond == IF init = <<>> THEN 1 ELSE 2
      update == IF cond + 1 < Parts(n) - 1 THEN StmtsOf(Part(n, cond + 1)) ELSE <<>>
  IN  For(init, ExprOf(Part(n, cond)), update, StmtsOf(Last(n.children)))

StmtsOf(n) ==
  LET all == FlattenSeq([i \in DOMAIN n.children |-> StmtsOf(n.children[i])])
  IN  CASE IsA(n, "PROGRAM") -> all
        [] IsA(n, "DECLARATION") ->
             <<IF Parts(n) >= 4 THEN Assign(Part(n, 1).value, ExprOf(Part(n, 3))) ELSE Declare(Part(n, 1).value)>>
        [] IsA(n, "ASSIGNMENT") -> <<Assign(Part(n, 0).value, ExprOf(Part(n, 2)))>>
        [] IsA(n, "PRINT_STATEMENT") -> <<Show(ExprOf(Part(n, 1)))>>
        [] IsA(n, "SCAN_STATEMENT") -> <<Scan(Part(n, 1).value)>>
        [] IsA(n, "EXIT_STATEMENT") -> <<Exit(ExprOf(Part(n, 2)))>>
        [] IsA(n, "IF_STATEMENT") ->
             <<If(ExprOf(Part(n, 1)), StmtsOf(Part(n, 2)), IF Parts(n) >= 5 THEN StmtsOf(Part(n, 4)) ELSE <<>>)>>
        [] IsA(n, "WHILE_STATEMENT") -> <<For(<<>>, ExprOf(Part(n, 1)), <<>>, StmtsOf(Part(n, 2)))>>
        [] IsA(n, "FOR_STATEMENT") -> <<ForOf(n)>>
        [] IsA(n, "BLOCK") -> <<Block(all)>>
        [] OTHER -> <<>> \* an expression: nothing is done with its value
-----------------------------------------------------------------------------
(***************************************************************************)
(* How a program is written.  Its statements are OrinTac's, and besides    *)
(* "let", a declaration with a value, "while", and "value", an expression  *)
(* that a for updates nothing with.  An expression's leaves are OrinTac's, *)
(* and a literal has its token's type besides.                             *)
(***************************************************************************)
Quoted(type, a) == [kind |-> "literal", operand |-> a, type |-> type]
Let(name, expr) == [kind |-> "let", name |-> name, expr |-> expr]
While(expr, body) == [kind |-> "while", expr |-> expr, body |-> body]
Unused(expr) == [kind |-> "value", expr |-> expr]

T(type) == <<Tok(type, IF \E w \in DOMAIN KeywordTokens : KeywordTokens[w] = type
                       THEN Ch(CHOOSE w \in DOMAIN KeywordTokens : KeywordTokens[w] = type) ELSE NUL)>>
Id(name) == <<Tok("IDENTIFIER", name)>>
InParens(ts) == T("LPAREN") \o ts \o T("RPAREN")
LeafType(e) == IF e.kind = "literal" THEN e.type ELSE IF e.operand[1] = "#" THEN "INT_L" ELSE "IDENTIFIER"
Sign(op) == CHOOSE t \in DOMAIN Operation : Operation[t] = op
Binding(e) == IF e.kind # "op" THEN 4
              ELSE IF Sign(e.op) \in Products THEN 3 ELSE IF Sign(e.op) \in Sums THEN 2 ELSE 1

\* Parentheses stand where, without them, the operators would bind otherwise.
RECURSIVE Expr(_), Stmts(_, _)
Expr(e) ==
  LET Operand(f, loose) == IF Binding(f) < Binding(e) + loose THEN InParens(Expr(f)) ELSE Expr(f)
  IN  IF e.kind # "op" THEN <<Tok(LeafType(e), e.operand)>>
      ELSE Operand(e.left, 0) \o T(Sign(e.op)) \o Operand(e.right, 1)

\* The statements' tokens, each ended with `semicolon', none inside a for.
Stmts(ss, semicolon) ==
  IF ss = <<>> THEN <<>>
  ELSE
    LET s == Head(ss)
        One == CASE s.kind = "declare" -> T("INT") \o Id(s.name) \o semicolon
                 [] s.kind = "let" -> T("INT") \o Id(s.name) \o T("EQUAL") \o Expr(s.expr) \o semicolon
                 [] s.kind = "assign" -> Id(s.name) \o T("EQUAL") \o Expr(s.expr) \o semicolon
                 [] s.kind = "value" -> Expr(s.expr)
                 [] s.kind = "print" -> T("PRINT") \o InParens(Expr(s.expr)) \o semicolon
                 [] s.kind = "exit" -> T("EXIT") \o InParens(Expr(s.expr)) \o semicolon
                 [] s.kind = "scan" -> T("SCAN") \o InParens(Id(s.name)) \o semicolon
                 [] s.kind = "block" -> T("LBRACE") \o Stmts(s.body, semicolon) \o T("RBRACE")
                 [] s.kind = "if" -> T("IF") \o InParens(Expr(s.expr)) \o Stmts(s.body, semicolon)
                                     \o (IF s.els = <<>> THEN <<>> ELSE T("ELSE") \o Stmts(s.els, semicolon))
                 [] s.kind = "while" -> T("WHILE") \o InParens(Expr(s.expr)) \o Stmts(s.body, semicolon)
                 [] s.kind = "for" -> T("FOR") \o InParens(Stmts(s.init, <<>>) \o semicolon \o Expr(s.expr) \o semicolon
                                                           \o Stmts(s.update, <<>>)) \o Stmts(s.body, semicolon)
    IN  One \o Stmts(Tail(ss), semicolon)
Written(program) == Stmts(program, T("SEMICOLON"))

\* What OrinTac knows of a program.
RECURSIVE MeantExpr(_), Meant(_)
MeantExpr(e) == CASE e.kind = "leaf" -> e [] e.kind = "literal" -> Literal_(e.operand)
                  [] OTHER -> Op(e.op, MeantExpr(e.left), MeantExpr(e.right))
Meant(ss) ==
  FlattenSeq([i \in DOMAIN ss |->
    LET s == ss[i]
    IN  CASE s.kind \in {"let", "assign"} -> <<Assign(s.name, MeantExpr(s.expr))>>
          [] s.kind \in {"print", "exit"} -> <<[s EXCEPT !.expr = MeantExpr(@)]>>
          [] s.kind = "value" -> <<>>
          [] s.kind = "block" -> <<Block(Meant(s.body))>>
          [] s.kind = "if" -> <<If(MeantExpr(s.expr), Meant(s.body), Meant(s.els))>>
          [] s.kind = "while" -> <<For(<<>>, MeantExpr(s.expr), <<>>, Meant(s.body))>>
          [] s.kind = "for" -> <<For(Meant(s.init), MeantExpr(s.expr), Meant(s.update), Meant(s.body))>>
          [] OTHER -> <<s>>])

\* Every name is declared before it is used, in the same construct or one around
\* it, and no two declarations of it are seen from one place.
RECURSIVE Uses(_), WellScoped(_, _)
Uses(e) == IF e.kind = "op" THEN Uses(e.left) \cup Uses(e.right) ELSE IF LeafType(e) = "IDENTIFIER" THEN {e.operand} ELSE {}
Declares(ss) == {s.name : s \in {t \in ToSet(ss) : t.kind \in {"declare", "let"}}}
WellScoped(ss, around) ==
  \A i \in DOMAIN ss :
    LET s == ss[i]
        seen == around \cup Declares(SubSeq(ss, 1, i - 1))
        Sees(e) == Uses(e) \subseteq seen
    IN  CASE s.kind = "declare" -> s.name \notin seen
          [] s.kind = "let" -> Sees(s.expr) /\ s.name \notin seen
          [] s.kind = "assign" -> Sees(s.expr) /\ s.name \in seen
          [] s.kind = "scan" -> s.name \in seen
          [] s.kind = "block" -> WellScoped(s.body, seen)
          [] s.kind = "if" -> Sees(s.expr) /\ WellScoped(s.body, seen) /\ WellScoped(s.els, seen)
          [] s.kind = "while" -> Sees(s.expr) /\ WellScoped(s.body, seen)
          [] s.kind = "for" -> WellScoped(s.init \o <<Show(s.expr)>> \o s.update \o s.body, seen)
          [] OTHER -> Sees(s.expr)
-----------------------------------------------------------------------------
(***************************************************************************)
(* The grammar of the repository (orin_grammar.txt): for each symbol the   *)
(* sequences it may stand for.  What it repeats has a symbol of its own.   *)
(***************************************************************************)
Grammar ==
  LET OneOf(types) == {<<t>> : t \in types}
  IN  [Program |-> {<<"StatementList", "END_OF_TOKENS">>},
       StatementList |-> {<<>>, <<"Statement", "StatementList">>},
       Statement |-> OneOf({"Declaration", "Assignment", "ExitStatement", "PrintStatement", "ScanStatement",
                            "IfStatement", "WhileStatement", "ForStatement", "Block"}),
       Declaration |-> {<<"DataType", "IDENTIFIER", "SEMICOLON">>,
                        <<"DataType", "IDENTIFIER", "EQUAL", "Expression", "SEMICOLON">>},
       DataType |-> OneOf({"INT", "FLOAT", "CHAR", "STRING"}),
       Assignment |-> {<<"IDENTIFIER", "EQUAL", "Expression", "SEMICOLON">>},
       ExitStatement |-> {<<"EXIT", "LPAREN", "Expression", "RPAREN", "SEMICOLON">>},
       PrintStatement |-> {<<"PRINT", "LPAREN", "Expression", "RPAREN", "SEMICOLON">>},
       ScanStatement |-> {<<"SCAN", "LPAREN", "IDENTIFIER", "RPAREN", "SEMICOLON">>},
       IfStatement |-> {<<"IF", "LPAREN", "Expression", "RPAREN", "Statement">>,
                        <<"IF", "LPAREN", "Expression", "RPAREN", "Statement", "ELSE", "Statement">>},
       WhileStatement |-> {<<"WHILE", "LPAREN", "Expression", "RPAREN", "Statement">>},
       ForStatement |-> {<<"FOR", "LPAREN", "ForInit", "SEMICOLON", "Expression", "SEMICOLON", "ForUpdate", "RPAREN", "Statement">>},
       ForInit |-> {<<>>, <<"Declaration">>, <<"Assignment">>},
       ForUpdate |-> {<<>>, <<"AssignmentExpr">>, <<"Expression">>},
       AssignmentExpr |-> {<<"IDENTIFIER", "EQUAL", "Expression">>},
       Block |-> {<<"LBRACE", "StatementList", "RBRACE">>},
       Expression |-> {<<"RelationalExpression">>, <<"ArithmeticExpression">>},
       RelationalExpression |-> {<<"AdditiveExpression", "Comparisons">>},
       Comparisons |-> {<<>>, <<"RelationalOperator", "AdditiveExpression", "Comparisons">>},
       RelationalOperator |-> OneOf({"EQ", "NEQ", "LT", "LE", "GT", "GE"}),
       ArithmeticExpression |-> {<<"AdditiveExpression">>},
       AdditiveExpression |-> {<<"MultiplicativeExpression", "Terms">>},
       Terms |-> {<<>>} \cup {<<t, "MultiplicativeExpression", "Terms">> : t \in {"PLUS", "MINUS"}},
       MultiplicativeExpression |-> {<<"PrimaryExpression", "Factors">>},
       Factors |-> {<<>>} \cup {<<t, "PrimaryExpression", "Factors">> : t \in {"STAR", "SLASH", "MOD"}},
       PrimaryExpression |-> {<<"LPAREN", "Expression", "RPAREN">>} \cup OneOf({"IDENTIFIER", "INT_L", "FLOAT_L", "CHAR_L", "STR_L"})]

\* Behind which tokens a phrase that begins with the i-th may end.
RECURSIVE Ends(_, _, _)
Ends(ts, phrase, i) ==
  IF phrase = <<>> THEN {i}
  ELSE LET s == Head(phrase)
           first == IF s \in DOMAIN Grammar THEN UNION {Ends(ts, p, i) : p \in Grammar[s]}
                    ELSE IF i \in DOMAIN ts /\ ts[i].type = s THEN {i + 1} ELSE {}
       IN  UNION {Ends(ts, Tail(phrase), j) : j \in first}
Grammatical(ts) == Len(ts) + 1 \in Ends(ts, <<"Program">>, 1)

\* The grammar's declarations and assignments end with a semicolon, the first part
\* of a for among them, which so has two behind it: it is put there.  The parser
\* wants one (O_parser.c:117, 141, 276), and of declarations there only those of an
\* int (O_parser.c:246).
FirstParts(ts) == {i \in DOMAIN ts : i > 2 /\ ts[i - 2].type = "FOR" /\ ts[i - 1].type = "LPAREN" /\ ts[i].type # "SEMICOLON"}
EndsOne(ts, j) == ts[j].type = "SEMICOLON" /\ \E i \in FirstParts(ts) : i < j /\ \A k \in i .. j - 1 : ts[k].type # "SEMICOLON"
Terminated(ts) == FlattenSeq([j \in DOMAIN ts |-> IF EndsOne(ts, j) THEN <<ts[j], ts[j]>> ELSE <<ts[j]>>])
DeclaresInt(ts) == \A i \in FirstParts(ts) : ts[i].type \notin {"FLOAT", "CHAR", "STRING"}
-----------------------------------------------------------------------------
\* What the lexer takes for granted: short names, no tab, no slash that both begins
\* and ends a comment, and neither a blank nor another comment right behind one.
Plain(t) ==
  /\ \A i \in DOMAIN t : t[i] # Ch("\t") /\ Size(t[i]) <= MaxName
  /\ \A i \in DOMAIN t : i + 2 \in DOMAIN t /\ t[i] = Ch("*") /\ t[i + 1] = Ch("/") => t[i + 2] \notin {Ch(" "), Ch("/")}
  /\ \A i \in DOMAIN t : i + 2 \in DOMAIN t /\ t[i] = Ch("/") /\ t[i + 1] = Ch("*") => t[i + 2] # Ch("/")

(***************************************************************************)
(* The lexer finds the tokens that were written, in their order, whatever  *)
(* blanks, newlines and comments stand between them, or none: whatever it  *)
(* takes together is one token (O_lexer.c:71), what ends one comment       *)
(* begins no other (O_lexer.c:190), and no token is lost as the list grows.*)
(***************************************************************************)
ReadsWhatIsWritten ==
  [][status = "lexing" /\ status' = "parsing" /\ Plain(text) => tokens' = Append(Source.tokens, EndOfTokens)]_vars

(***************************************************************************)
(* The parser takes exactly the grammar's sentences, but for the first     *)
(* part of a for: it accepts no other text, and rejects none that the      *)
(* grammar derives once that part is terminated as the grammar has it,     *)
(* unless a float, char or string is declared there.                       *)
(***************************************************************************)
AcceptsTheGrammar ==
  /\ status = "accepted" => DeclaresInt(tokens) /\ Grammatical(Terminated(tokens))
  /\ status = "syntax" => ~DeclaresInt(tokens) \/ ~Grammatical(Terminated(tokens))

\* What the generator and printParseTree take for granted: no name and no literal is
\* spelled like a construct, and no program is nested more deeply than there is room
\* in front of a node.
Constructs == {Ch(c) : c \in {"PROGRAM", "DECLARATION", "ASSIGNMENT", "BLOCK"}}
RECURSIVE Height(_), HeightOf(_)
Height(e) == IF e.kind = "op" THEN 1 + Max({Height(e.left), Height(e.right)}) ELSE 1
HeightOf(ss) ==
  Max({0} \cup {LET s == ss[i]
                    Parted(name) == IF name \in DOMAIN s THEN HeightOf(s[name]) ELSE 0
                    expr == IF "expr" \in DOMAIN s THEN Height(s.expr) ELSE 0
                IN  IF s.kind = "value" THEN expr
                    ELSE 1 + Max({IF s.kind = "block" THEN 0 ELSE 1, expr} \cup {Parted(n) : n \in {"body", "els", "init", "update"}}) : i \in DOMAIN ss})
Fitting(source) == (\A t \in ToSet(source.tokens) : t.value \notin Constructs) /\ HeightOf(source.program) <= Deepest

(***************************************************************************)
(* The code generator is given the program that was written: operators     *)
(* bind as they should and an else goes with the nearest if, whatever is   *)
(* left out of a for (O_inter_codegen.c:121); it is given only programs    *)
(* whose names are declared as they are used, and every one of them.  A    *)
(* leaf's text is what the source has, whether that is a name, a number or *)
(* a literal's: what the generator makes of it, which is not told which it *)
(* was, is OrinMeaning's.                                                  *)
(***************************************************************************)
CompilesWhatIsWritten ==
  status \in Ended /\ Len(tokens) <= numberOfTokens /\ Plain(text) =>
    LET source == Source
    IN  ~source.broken /\ Fitting(source) =>
          /\ status = IF WellScoped(source.program, {}) THEN "accepted" ELSE "semantic"
          /\ status = "accepted" => StmtsOf(Last(built)) = Meant(source.program)
=============================================================================
