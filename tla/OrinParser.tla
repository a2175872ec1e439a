------------------------------ MODULE OrinParser ------------------------------
(***************************************************************************)
(* The Orin compiler's parser (O/src/O_parser.c), with the scopes of its   *)
(* symbol table (O/src/O_symbol_table.c) and the nodes of its parse tree   *)
(* (O/src/O_parse_tree.c).                                                 *)
(*                                                                         *)
(* The C program's stack is `goals': what the calls that have not returned *)
(* still have to do, the innermost first.  A call is replaced by what its  *)
(* body does up to where that depends on the next token.  The nodes those  *)
(* calls hold are `built', the innermost last.                             *)
(***************************************************************************)
EXTENDS OrinTokens

CONSTANT PrefixRoom \* the room for what is printed in front of a node: 256 in the code

ASSUME PrefixAssumption == PrefixRoom \in Nat \ {0}

VARIABLES
  currentToken, \* the token that is looked at
  goals,        \* what is still to be done
  built,        \* the nodes that are not yet children of another
  scopes        \* the symbol tables, each with its parent; 0 is no table

parserVars == <<currentToken, goals, built, scopes>>

Relations == {"EQ", "NEQ", "LT", "LE", "GT", "GE"}
Sums == {"PLUS", "MINUS"}
Products == {"STAR", "SLASH", "MOD"}
DataTypes == {"INT", "FLOAT", "CHAR", "STRING"}

\* A goal: match a token, or match it and add it as a child (leaf), or a call.
Calls == {"primary", "multiplicative", "factors", "additive", "terms", "expression", "comparisons", "child",
          "statement", "absent", "present", "initializer", "insertSymbol",
          "else", "forInit", "forUpdate", "statements", "program"}
Goal == [do : {"match", "leaf"}, arg : TokenType \ {"END_OF_TOKENS"}, scope : Nat]
        \cup [do : Calls, arg : {""}, scope : Nat]
Match(type) == [do |-> "match", arg |-> type, scope |-> 0]
Leaf(type) == [do |-> "leaf", arg |-> type, scope |-> 0]
Child == [do |-> "child", arg |-> "", scope |-> 0]
Call(f, s) == [do |-> f, arg |-> "", scope |-> s]

\* createParseTreeNode and addChild.
Node(token, children) == [type |-> token.type, value |-> token.value, children |-> children]
Construct(c) == Node(Tok("BEGINNING", Ch(c)), <<>>)
AddChild(node, child) == [node EXCEPT !.children = Append(@, child)]

\* createSymbolTable and lookupSymbol.
NewScopes(parent) == Append(scopes, [parent |-> parent, table |-> {}])
NewScope == Len(scopes) + 1
\* Mutant of Visible: only the innermost scope is searched.
VisibleHere(s) == IF s = 0 THEN {} ELSE scopes[s].table
Visible(s) ==
  LET upwards[k \in 0 .. Len(scopes)] == IF k = 0 THEN {} ELSE scopes[k].table \cup upwards[scopes[k].parent]
  IN  upwards[s]
-----------------------------------------------------------------------------
Now == tokens[currentToken]
Assigns == Now.type = "IDENTIFIER" /\ tokens[currentToken + 1].type = "EQUAL"
Doing(f) == status = "parsing" /\ Head(goals).do = f
Scope == Head(goals).scope
Instead(gs) == goals' = gs \o Tail(goals)
Fail(how) == status' = how /\ UNCHANGED <<tokens, parserVars>>
Innermost == Last(built)
BuiltOn(node) == built' = Append(Front(built), node)

\* match's answer to the wrong token, and the last branch of a choice.
WrongToken == Head(goals).do \in {"match", "leaf"} /\ Now.type # Head(goals).arg
NoOperand == Head(goals).do = "primary" /\ Now.type \notin Literals \cup {"LPAREN", "IDENTIFIER"}
Beginnings == DataTypes \cup {"EXIT", "IF", "WHILE", "FOR", "LBRACE", "PRINT", "SCAN"}
\* Mutant of NoStatement: the end of the tokens is waited at.
NoStatementYet == Head(goals).do = "statement" /\ Now.type \notin Beginnings \cup {"END_OF_TOKENS"} /\ ~Assigns
NoStatement == Head(goals).do = "statement" /\ Now.type \notin Beginnings /\ ~Assigns
Unexpected == /\ status = "parsing"
              /\ WrongToken \/ NoOperand \/ NoStatement
              /\ Fail("syntax")

\* Mutant of match: any token is taken.
matchAny == /\ Doing("match")
            /\ currentToken' = currentToken + 1
            /\ Instead(<<>>)
            /\ UNCHANGED <<tokens, status, built, scopes>>
match == /\ Doing("match") /\ Now.type = Head(goals).arg
         /\ currentToken' = currentToken + 1
         /\ Instead(<<>>)
         /\ UNCHANGED <<tokens, status, built, scopes>>

\* A match whose token becomes the innermost node's child.
matchChild == /\ Doing("leaf") /\ Now.type = Head(goals).arg
              /\ currentToken' = currentToken + 1
              /\ BuiltOn(AddChild(Innermost, Node(Now, <<>>)))
              /\ Instead(<<>>)
              /\ UNCHANGED <<tokens, status, scopes>>

addChild == /\ Doing("child")
            /\ built' = Append(Front(Front(built)), AddChild(Last(Front(built)), Innermost))
            /\ Instead(<<>>)
            /\ UNCHANGED <<tokens, status, currentToken, scopes>>
-----------------------------------------------------------------------------
(* Expressions. *)

Becomes(gs) == Instead(gs) /\ UNCHANGED <<tokens, status, currentToken, built, scopes>>
Undeclared == Fail("semantic")

parsePrimaryExpr ==
  /\ Doing("primary")
  /\ \/ /\ Now.type = "LPAREN"
        /\ Becomes(<<Match("LPAREN"), Call("expression", Scope), Match("RPAREN")>>)
     \/ /\ Now.type = "IDENTIFIER" /\ Now.value \notin Visible(Scope)
        /\ Undeclared
     \/ /\ Now.type \in Literals \/ (Now.type = "IDENTIFIER" /\ Now.value \in Visible(Scope))
        /\ built' = Append(built, Node(Now, <<>>))
        /\ currentToken' = currentToken + 1
        /\ Instead(<<>>)
        /\ UNCHANGED <<tokens, status, scopes>>

\* The loop of a parser for operators of one level: an operator's node takes what
\* has been built as its first child, and the next operand as its second.
\* Mutant of Operators: the operand takes the rest of the level.
OperatorsRight(level, loop, operand, types) ==
  \/ Doing(level) /\ Becomes(<<Call(operand, Scope), Call(loop, Scope)>>)
  \/ /\ Doing(loop)
     /\ \/ /\ Now.type \in types
           /\ BuiltOn(Node(Now, <<Innermost>>))
           /\ currentToken' = currentToken + 1
           /\ Instead(<<Call(level, Scope), Child>>)
           /\ UNCHANGED <<tokens, status, scopes>>
        \/ Now.type \notin types /\ Becomes(<<>>)
Operators(level, loop, operand, types) ==
  \/ Doing(level) /\ Becomes(<<Call(operand, Scope), Call(loop, Scope)>>)
  \/ /\ Doing(loop)
     /\ \/ /\ Now.type \in types
           /\ BuiltOn(Node(Now, <<Innermost>>))
           /\ currentToken' = currentToken + 1
           /\ Instead(<<Call(operand, Scope), Child, Call(loop, Scope)>>)
           /\ UNCHANGED <<tokens, status, scopes>>
        \/ Now.type \notin types /\ Becomes(<<>>)

parseMultiplicativeExpr == Operators("multiplicative", "factors", "primary", Products)
parseAdditiveExpr == Operators("additive", "terms", "multiplicative", Sums)
parseExpression == Operators("expression", "comparisons", "additive", Relations)
-----------------------------------------------------------------------------
(* Statements. *)

\* A call that begins by creating a node.
Creates(c, gs) == /\ built' = Append(built, Construct(c))
                  /\ Instead(gs)
                  /\ UNCHANGED <<tokens, status, currentToken>>
Expression(s) == <<Call("expression", s), Child>>
Statement(s) == <<Call("statement", s), Child>>
\* A declaration or assignment in the head of a for has no semicolon, and is added
\* to the for.
InFor == Head(goals).do # "statement"
Semicolon == IF InFor THEN <<>> ELSE <<Leaf("SEMICOLON")>>
AddedToFor == IF InFor THEN <<Child>> ELSE <<>>

parseDeclaration ==
  /\ \/ Doing("statement") /\ Now.type \in DataTypes
     \/ Doing("forInit") /\ Now.type = "INT"
  /\ Creates("DECLARATION", <<Leaf(Now.type), Leaf("IDENTIFIER"), Call("absent", Scope), Call("initializer", Scope)>>
                            \o Semicolon \o <<Call("insertSymbol", Scope)>> \o AddedToFor)
  /\ UNCHANGED scopes

\* The name just added has no declaration that is seen from here, or has one.
Named == Last(Innermost.children).value
CheckAbsent == /\ Doing("absent")
               /\ IF Named \in Visible(Scope) THEN Fail("semantic") ELSE Becomes(<<>>)
CheckPresent == /\ Doing("present")
                /\ IF Named \in Visible(Scope) THEN Becomes(<<>>) ELSE Undeclared

parseInitializer == /\ Doing("initializer")
                    /\ Becomes(IF Now.type = "EQUAL" THEN <<Leaf("EQUAL")>> \o Expression(Scope) ELSE <<>>)

Symbol == Innermost.children[2].value
Declared(s) == /\ scopes' = [scopes EXCEPT ![s].table = @ \cup {Symbol}]
               /\ Instead(<<>>)
               /\ UNCHANGED <<tokens, status, currentToken, built>>
\* insertSymbol looks for the symbol again, in its own table.
insertSymbol ==
  /\ Doing("insertSymbol")
  /\ IF Symbol \in scopes[Scope].table THEN Fail("semantic") ELSE Declared(Scope)

parseAssignment ==
  /\ Doing("statement") \/ Doing("forInit") \/ Doing("forUpdate")
  /\ Assigns
  /\ Creates("ASSIGNMENT", <<Leaf("IDENTIFIER"), Call("present", Scope), Leaf("EQUAL")>> \o Expression(Scope)
                           \o Semicolon \o AddedToFor)
  /\ UNCHANGED scopes

parseExitStatement ==
  /\ Doing("statement") /\ Now.type = "EXIT"
  /\ Creates("EXIT_STATEMENT", <<Leaf("EXIT"), Leaf("LPAREN")>> \o Expression(Scope) \o <<Leaf("RPAREN"), Leaf("SEMICOLON")>>)
  /\ UNCHANGED scopes

parsePrintStatement ==
  /\ Doing("statement") /\ Now.type = "PRINT"
  /\ Creates("PRINT_STATEMENT", <<Leaf("PRINT"), Match("LPAREN")>> \o Expression(Scope) \o <<Match("RPAREN"), Leaf("SEMICOLON")>>)
  /\ UNCHANGED scopes

parseScanStatement ==
  /\ Doing("statement") /\ Now.type = "SCAN"
  /\ Creates("SCAN_STATEMENT", <<Leaf("SCAN"), Match("LPAREN"), Leaf("IDENTIFIER"), Call("present", Scope), Match("RPAREN"), Leaf("SEMICOLON")>>)
  /\ UNCHANGED scopes

\* The condition belongs to the scope around the statement.
parseIfStatement ==
  /\ Doing("statement") /\ Now.type = "IF"
  /\ scopes' = NewScopes(Scope)
  /\ Creates("IF_STATEMENT", <<Leaf("IF"), Match("LPAREN")>> \o Expression(Scope) \o <<Match("RPAREN")>>
                             \o Statement(NewScope) \o <<Call("else", Scope)>>)

parseElse ==
  /\ Doing("else")
  /\ IF Now.type = "ELSE" THEN scopes' = NewScopes(Scope) /\ Instead(<<Leaf("ELSE")>> \o Statement(NewScope))
     ELSE Instead(<<>>) /\ UNCHANGED scopes
  /\ UNCHANGED <<tokens, status, currentToken, built>>

parseWhileStatement ==
  /\ Doing("statement") /\ Now.type = "WHILE"
  /\ scopes' = NewScopes(Scope)
  /\ Creates("WHILE_STATEMENT", <<Leaf("WHILE"), Match("LPAREN")>> \o Expression(Scope) \o <<Match("RPAREN")>> \o Statement(NewScope))

\* Every part belongs to the loop's own scope.
parseForStatement ==
  /\ Doing("statement") /\ Now.type = "FOR"
  /\ scopes' = NewScopes(Scope)
  /\ Creates("FOR_STATEMENT", <<Leaf("FOR"), Match("LPAREN"), Call("forInit", NewScope), Match("SEMICOLON")>>
                              \o Expression(NewScope) \o <<Match("SEMICOLON"), Call("forUpdate", NewScope), Match("RPAREN")>>
                              \o Statement(NewScope))

\* The parts that are neither a declaration nor an assignment.
parseForInit == Doing("forInit") /\ Now.type # "INT" /\ ~Assigns /\ Becomes(<<>>)
\* Mutant of parseForUpdate: there is always an update.
parseForUpdateAlways == Doing("forUpdate") /\ ~Assigns /\ Becomes(Expression(Scope))
parseForUpdate ==
  /\ Doing("forUpdate") /\ ~Assigns
  /\ Becomes(IF Now.type = "RPAREN" THEN <<>> ELSE Expression(Scope))

parseBlock ==
  /\ Doing("statement") /\ Now.type = "LBRACE"
  /\ scopes' = NewScopes(Scope)
  /\ Creates("BLOCK", <<Match("LBRACE"), Call("statements", NewScope)>>)
parseStatements ==
  /\ Doing("statements")
  /\ Becomes(IF Now.type = "RBRACE" THEN <<Match("RBRACE")>> ELSE Statement(Scope) \o <<Head(goals)>>)

\* printParseTree puts four characters more in front of each level, and a zero
\* behind them, without asking for room; the root has nothing in front.
Deepest == (PrefixRoom - 1) \div 4
Level[d \in 0 .. Deepest + 1] == IF d = 0 THEN {Innermost} ELSE UNION {Range(n.children) : n \in Level[d - 1]}

parser ==
  /\ Doing("program")
  /\ IF Now.type = "END_OF_TOKENS"
     THEN AnyOutcome(Level[Deepest + 1] = {}, "accepted") /\ UNCHANGED <<tokens, parserVars>>
     ELSE Becomes(Statement(Scope) \o <<Head(goals)>>)

ParserInit == /\ currentToken = 1
              /\ goals = <<Call("program", 1)>>
              /\ built = <<Construct("PROGRAM")>>
              /\ scopes = <<[parent |-> 0, table |-> {}]>>

ParserNext ==
  \/ Unexpected \/ match \/ matchChild \/ addChild
  \/ parsePrimaryExpr \/ parseMultiplicativeExpr \/ parseAdditiveExpr \/ parseExpression
  \/ parseDeclaration \/ CheckAbsent \/ CheckPresent \/ parseInitializer \/ insertSymbol \/ parseAssignment
  \/ parseExitStatement \/ parsePrintStatement \/ parseScanStatement
  \/ parseIfStatement \/ parseElse \/ parseWhileStatement
  \/ parseForStatement \/ parseForInit \/ parseForUpdate
  \/ parseBlock \/ parseStatements \/ parser
=============================================================================
