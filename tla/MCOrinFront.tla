----------------------------- MODULE MCOrinFront -----------------------------
(***************************************************************************)
(* The instance of the Orin compiler's front that TLC checks: expressions  *)
(* of every level inside each other, constructs inside constructs with and *)
(* without their optional parts, declarations in every order, each program *)
(* in several layouts, and texts with a token too few or a wrong one.      *)
(***************************************************************************)
EXTENDS OrinFrontMeaning

X == Ch("x")
Y == Ch("y")
LX == Leaf_(X)
LY == Leaf_(Y)
Num(n) == Leaf_(<<"#", n>>)
MCNames == {"x", "y", "counters", "essay", "DECLARATION"}
MCNumbers == {1, 2}
MCMarks == {"NUL", " ", "\n", "\t", "\"", "'", "."} \cup UNION {ToSet(OpAndSepTokens[t]) : t \in DOMAIN OpAndSepTokens}
MCSize(g) == CASE g = Ch("counters") -> 8 [] g = Ch("essay") -> 70 [] g[1] \in DOMAIN KeywordTokens -> 3 [] OTHER -> 1

\* Expressions.
Ops == {"MUL", "SUB", "LT"}
Flat == {Op(o, LX, Num(1)) : o \in DOMAIN [op \in Range(Operation) |-> op]}
Small == {LX} \cup {Op(o, LX, Num(2)) : o \in Ops}
Nested == {Op(o, a, b) : o \in Ops, a, b \in Small}
\* Literals, two of which are spelled like the name x.
Spaces == <<"...", <<X, Ch(" "), Y>>>>
Lits == {Quoted("FLOAT_L", <<"...", <<<<"#", 1>>, Ch("."), <<"#", 2>>>>>>), Quoted("STR_L", X), Quoted("CHAR_L", X),
         Quoted("STR_L", Spaces), Quoted("STR_L", <<"...", <<>>>>)}
Expressions == Flat \cup Nested \cup {Op("ADD", l, LX) : l \in Lits}
Calculations == {<<Let(X, Num(1)), Show(e)>> : e \in Expressions}

\* Constructs.
Prints == {Show(LX), Scan(X), Exit(LX)}
Inner == {If(LX, <<Show(LX)>>, <<>>), If(LX, <<Show(LX)>>, <<Scan(X)>>), While(LX, <<Assign(X, Num(1))>>), Block(<<>>), Show(LX)}
Fors == {For(i, LX, u, <<s>>) : i \in {<<>>, <<Let(Y, LX)>>, <<Assign(X, Num(1))>>, <<Declare(Y)>>},
                                u \in {<<>>, <<Assign(X, Num(2))>>, <<Unused(Op("ADD", LX, Num(1)))>>},
                                s \in {Show(LX), Block(<<Scan(X), Exit(LX)>>)}}
\* An if without else stands before an else only in a block.
Nests == Fors \cup {If(LX, <<i>>, <<>>) : i \in Inner} \cup {While(LX, <<i>>) : i \in Inner}
         \cup {If(LX, <<Block(<<i>>)>>, <<j>>) : i, j \in Inner}
         \cup {If(LX, <<If(LX, <<i>>, <<j>>)>>, <<Show(LX)>>) : i, j \in {Show(LX), Block(<<>>)}}
Structures == {<<Declare(X), n>> : n \in Nests}

\* Declarations.
Steps == {Declare(X), Let(X, LX), Let(Y, LX), Assign(X, LY), Block(<<Declare(X)>>), Block(<<Let(Y, LX), Show(LY)>>),
          If(Num(1), <<Declare(X)>>, <<Let(X, Num(2))>>), For(<<Let(Y, LX)>>, LY, <<Assign(X, LY)>>, <<Declare(X)>>),
          While(Num(1), <<Block(<<Declare(Y), Scan(Y)>>)>>)}
Declarations == {<<a, b, c>> : a, b, c \in Steps}

Programs == Calculations \cup Structures \cup Declarations

\* Texts.
Letters(value) == IF value[1] = "..." THEN value[2] ELSE <<value>>
Glyphs(t) ==
  CASE t.type \in DOMAIN OpAndSepTokens -> [i \in DOMAIN OpAndSepTokens[t.type] |-> Ch(OpAndSepTokens[t.type][i])]
    [] t.type = "STR_L" -> <<Ch("\"")>> \o Letters(t.value) \o <<Ch("\"")>>
    [] t.type = "CHAR_L" -> <<Ch("'")>> \o Letters(t.value) \o <<Ch("'")>>
    [] OTHER -> Letters(t.value)
Laid(ts, Gap(_, _)) ==
  <<>> \o FlattenSeq([i \in DOMAIN ts |-> Glyphs(ts[i]) \o (IF i < Len(ts) THEN Gap(ts[i], ts[i + 1]) ELSE <<>>)])
Solid(t) == t.type \notin DOMAIN OpAndSepTokens
Tight(t, u) == IF Solid(t) /\ Solid(u) THEN <<Ch(" ")>> ELSE <<>>
Spaced(t, u) == <<Ch(" ")>>
Comment(cs) == <<Ch("/"), Ch("*")>> \o cs \o <<Ch("*"), Ch("/")>>
Lines(t, u) == IF t.type \in {"SEMICOLON", "LBRACE", "RBRACE"} THEN <<Ch("\n")>> ELSE Tight(t, u)
Commented(t, u) == IF t.type = "SEMICOLON" THEN <<Ch("/"), Ch("/"), Ch("*"), Ch("\n")>>
                   ELSE IF t.type = "RPAREN" THEN <<Ch(" ")>> \o Comment(<<X>>)
                   ELSE IF t.type = "LPAREN" THEN Comment(<<>>) \o <<Ch("\n")>> ELSE Tight(t, u)
\* Layouts that the lexer does not read as they are meant.
Misread(t, u) == Tight(t, u) \o IF t.type = "EQUAL" THEN Comment(<<X>>) \o <<Ch(" ")>> ELSE <<>>
Doubled(t, u) == Tight(t, u) \o IF t.type = "SEMICOLON" THEN Comment(<<X>>) \o Comment(<<X>>) ELSE <<>>
Turned(t, u) == Tight(t, u) \o IF t.type = "SEMICOLON" THEN Comment(<<Ch("/"), X>>) ELSE <<>>
Tabbed(t, u) == IF t.type = "INT" THEN <<Ch("\t")>> ELSE Tight(t, u)

From(ps, Gap(_, _), end) == {[tokens |-> Written(p), broken |-> FALSE, program |-> p, text |-> Laid(Written(p), Gap) \o end] : p \in ps}
Few == {<<Declare(X), Show(LX)>>} \cup {<<Let(X, Num(1)), Show(Op("LE", l, LX))>> : l \in Lits} \cup {<<Let(X, Num(2)), s>> : s \in Inner}
Long == {<<Let(Ch("counters"), Num(1)), Show(LY)>>, <<Let(Ch("essay"), Num(1)), Show(LX)>>}
\* A literal spelled like a construct, and a program nested deeply.
Odd == {<<For(<<>>, Quoted("STR_L", Ch("DECLARATION")), <<>>, <<Block(<<>>)>>)>>,
        <<If(Num(1), <<Block(<<If(Num(2), <<Block(<<Show(Num(1))>>)>>, <<>>)>>)>>, <<>>)>>}
Endings == {<<Ch("\n")>>, <<Ch("/"), Ch("/"), X>>, Comment(<<X>>), <<Ch("/"), Ch("*"), X>>, <<Ch(" ")>>, <<Ch("/"), Ch("/"), Ch("\n")>>}
Whole == From(Programs, Tight, <<>>) \cup UNION {From(Few, Lines, e) : e \in Endings}
         \cup From(Few, Commented, <<>>) \cup From(Few, Spaced, <<>>) \cup From(Few \cup Structures, Lines, <<>>)
         \cup From(Few, Misread, <<>>) \cup From(Few, Doubled, <<>>) \cup From(Few, Turned, <<>>) \cup From(Few, Tabbed, <<>>) \cup From(Long \cup Odd, Tight, <<>>)

\* The tokens end too early, one is left out, or another stands in its place.
Wrong == {Tok("IDENTIFIER", X), Tok("INT_L", <<"#", 1>>)}
         \cup ToSet(T("LPAREN") \o T("RBRACE") \o T("SEMICOLON") \o T("ELSE") \o T("COMMA") \o T("EQUAL") \o T("FLOAT"))
Tampered(ts) == UNION {{SubSeq(ts, 1, i), RemoveAt(ts, i)} \cup {[ts EXCEPT ![i] = w] : w \in Wrong} : i \in DOMAIN ts}
Sentences == {<<Let(X, Num(1)), For(<<Let(Y, LX)>>, Op("LT", LY, Num(2)), <<Assign(Y, LX)>>, <<Block(<<Scan(X)>>)>>)>>,
              <<Declare(X), If(LX, <<Exit(LX)>>, <<Show(Op("MUL", Op("ADD", LX, LX), LX))>>), While(LX, <<Declare(Y)>>)>>}
Broken == {[tokens |-> ts, broken |-> TRUE, program |-> <<>>, text |-> Laid(ts, Spaced)] : ts \in UNION {Tampered(Written(p)) \cup {Terminated(Written(p))} : p \in Sentences}}
\* Literals without an end.
Unclosed == {<<Ch("\""), X>>, <<Ch("'"), X>>, <<X, Ch("'")>>, <<Ch("'"), Ch("essay"), Ch("'")>>}
Cut == {[tokens |-> <<>>, broken |-> TRUE, program |-> <<>>, text |-> t] : t \in Unclosed}

MCSources == Whole \cup Broken \cup Cut
MCTexts == {s.text : s \in MCSources}
=============================================================================
