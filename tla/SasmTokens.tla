------------------------------ MODULE SasmTokens ------------------------------
(***************************************************************************)
(* The SASM assembler's strings, tokens and expressions                    *)
(* (libs/src/univ_strings.c, SASM/src/sasm_tokenizer.c, sasm_parser.c,     *)
(* sasm_expressions.c): pure functions of a text.                          *)
(*                                                                         *)
(* A text is a sequence of glyphs: characters, and whole words where only  *)
(* their length matters.  The tokenizer hands out one token at a time and  *)
(* remembers the one it was last asked for, so that its state is the place *)
(* of the next token.  Whatever exits with an error is "failed".           *)
(***************************************************************************)
EXTENDS Integers, SequencesExt

CONSTANTS
  Letters,  \* the letters, and the words
  Digits,   \* the digits
  Size(_),  \* the number of characters of a glyph
  Code(_),  \* the number of a character
  WordSize  \* 2^64 in the code

Blanks == {" ", "\t", "\n"}

Length(s) == FoldLeft(LAMBDA n, c : n + Size(c), 0, s)
From(s, i) == SubSeq(s, i, Len(s))
FirstFrom(s, i, Test(_)) == CHOOSE j \in i .. Len(s) + 1 : /\ j \in DOMAIN s => Test(s[j])
                                                           /\ \A k \in i .. j - 1 : ~Test(s[k])

ltrim(s) == From(s, FirstFrom(s, 1, LAMBDA c : c \notin Blanks))
trim(s) == Reverse(ltrim(Reverse(ltrim(s))))

\* Mutant of splitStrByChar: the comparison is stricter by one.
splitStrByCharStrictly(s, c) ==
  LET i == FirstFrom(s, 1, LAMBDA d : d = c)
      first == SubSeq(s, 1, i - 1)
      rest == From(s, i)
  IN  [first |-> first, rest |-> IF Length(first) + 1 < Length(rest) THEN Tail(rest) ELSE rest]
\* What stands before the first c, and the rest.  The c itself is left in a rest
\* that is not longer than what stands before: the code compares with the length
\* of what is left by then.
splitStrByChar(s, c) ==
  LET i == FirstFrom(s, 1, LAMBDA d : d = c)
      first == SubSeq(s, 1, i - 1)
      rest == From(s, i)
  IN  [first |-> first, rest |-> IF Length(first) < Length(rest) THEN Tail(rest) ELSE rest]
-----------------------------------------------------------------------------
isName(c) == c \in Letters \cup Digits \cup {"_"}
isNumber(c) == c \in Letters \cup Digits \cup {".", "-"}

Token(type, text, at, next) == [type |-> type, text |-> text, at |-> at, next |-> next]
NoToken == Token("none", <<>>, 0, 0)
Failed == Token("failed", <<>>, 0, 0)

\* fetchCachedSasmTokenFromSasmTokenizer: the token at or behind i.  A register is
\* known by its closing bracket, three characters on.
TokenFrom(s, i) ==
  LET j == FirstFrom(s, i, LAMBDA c : c \notin Blanks)
      c == s[j]
      Delimited(type, close) == LET k == FirstFrom(s, j + 1, LAMBDA d : d = close)
                                IN  IF k > Len(s) THEN Failed ELSE Token(type, SubSeq(s, j + 1, k - 1), j, k + 1)
      LongestRun(type, Class(_)) == LET k == FirstFrom(s, j, LAMBDA d : ~Class(d))
                                    IN  Token(type, SubSeq(s, j, k - 1), j, k)
  IN  CASE j > Len(s) -> NoToken
        [] c \in {"(", ")", ","} -> Token(c, <<c>>, j, j + 1)
        [] c = "\"" -> Delimited("str", "\"")
        [] c = "'" -> Delimited("char", "'")
        [] c \in Letters -> LongestRun("name", isName)
        [] c \in Digits \cup {"-"} -> LongestRun("number", isNumber)
        [] c = "[" /\ j + 3 \in DOMAIN s /\ s[j + 3] = "]" /\ Size(s[j + 1]) = 1 /\ Size(s[j + 2]) = 1
             -> Delimited("register", "]")
        [] OTHER -> Failed
-----------------------------------------------------------------------------
(* Literals. *)

IsDigit(c, base) == c \in Digits \/ (base = 16 /\ c \in Letters /\ Size(c) = 1 /\ Code(c) - 55 \in 10 .. 15)
AllDigits(s, base) == s # <<>> /\ \A i \in DOMAIN s : IsDigit(s[i], base)
\* strtoull: too large a number becomes the largest, and a sign is taken modulo 2^64.
strtoull(s, base) ==
  LET negative == s[1] = "-"
      n == FoldLeft(LAMBDA v, c : base * v + (IF c \in Digits THEN Code(c) - 48 ELSE Code(c) - 55),
                    0, IF negative THEN Tail(s) ELSE s)
  IN  IF n >= WordSize THEN WordSize - 1 ELSE IF negative THEN (WordSize - n) % WordSize ELSE n
Unsigned(s) == IF s # <<>> /\ s[1] = "-" THEN Tail(s) ELSE s
\* The floats written with a point; exponents are left out.
IsFloat(s) == \E i \in DOMAIN s : /\ s[i] = "."
                                  /\ AllDigits(SubSeq(s, 1, i - 1) \o From(s, i + 1), 10)

IntLiteral(v) == [type |-> "int", value |-> v]
Binding(name) == [type |-> "binding", name |-> name]
NoExpr == [type |-> "none"]
\* What is no number is only reported.  The zero type of its result is that of a
\* binding, and the zero or the float found at its place is that binding's name.
NumberName == <<"NUMBER">>

\* parseNumFromSasmTokens.
NumberExpr(text) ==
  CASE IsPrefix(<<"0", "x">>, text) -> IF AllDigits(From(text, 3), 16) THEN IntLiteral(strtoull(From(text, 3), 16)) ELSE NoExpr
    [] AllDigits(Unsigned(text), 10) -> IntLiteral(strtoull(text, 10))
    [] IsFloat(Unsigned(text)) -> [type |-> "float"]
    [] OTHER -> Binding(NumberName)

\* Where the families of registers begin in RegID, and the lone ones stand.  A second
\* character is compared with the last of its family only.
\* Mutant of Registers: as if the families followed each other.
RegistersInARow == [H |-> 0, I |-> 2, L |-> 4, P |-> 8]
Registers == [H |-> 0, I |-> 2, L |-> 6, P |-> 12]
LastOf == [H |-> "1", I |-> "1", L |-> "3", P |-> "3"]
NamedRegisters == [J |-> 4, K |-> 5, O |-> 11, Q |-> 16, R |-> 17]
RegisterExpr(first, second) ==
  CASE first \in DOMAIN Registers -> IF Code(second) > Code(LastOf[first]) THEN NoExpr
                                     ELSE [type |-> "reg", value |-> Registers[first] + Code(second) - Code("0")]
    [] first \in DOMAIN NamedRegisters -> [type |-> "reg", value |-> NamedRegisters[first]]
    [] OTHER -> NoExpr
-----------------------------------------------------------------------------
(* Expressions: what is read, and where the next token is. *)

Read(expr, next) == [read |-> TRUE, expr |-> expr, next |-> next]
Unread == [read |-> FALSE, expr |-> NoExpr, next |-> 0]
ReadIf(expr, next) == IF expr = NoExpr THEN Unread ELSE Read(expr, next)

\* parsePrimaryOfSasmTokens at i; parseFuncallArgs behind its opening parenthesis;
\* and its loop, which reads an argument and what separates it from the next.
\* T holds the tokens by their places.
ParseTokens(s, T) ==
  LET P[what \in {"primary", "call", "arguments"}, i \in DOMAIN T] ==
        LET t == T[i]
            next == T[t.next]
            call == P["call", next.next]
            inner == P["primary", t.next]
            close == T[inner.next]
            first == P["primary", i]
            separator == T[first.next]
            others == P["arguments", separator.next]
        IN  CASE what = "primary" ->
                   CASE t.type = "str" -> Read([type |-> "str", text |-> t.text], t.next)
                     [] t.type = "char" /\ Length(t.text) = 1 -> Read([type |-> "char", value |-> t.text[1]], t.next)
                     [] t.type = "number" -> ReadIf(NumberExpr(t.text), t.next)
                     [] t.type = "register" -> ReadIf(RegisterExpr(s[t.at + 1], s[t.at + 2]), t.next)
                     [] t.type = "name" /\ next.type \notin {"(", "failed"} -> Read(Binding(t.text), t.next)
                     [] t.type = "name" /\ next.type = "(" /\ call.read ->
                          Read([type |-> "funcall", name |-> t.text, args |-> call.expr], call.next)
                     [] t.type = "(" /\ inner.read /\ close.type = ")" -> Read(inner.expr, close.next)
                     [] OTHER -> Unread
              [] what = "call" ->
                   IF t.type = ")" THEN Read(<<>>, t.next) ELSE P["arguments", i]
              [] what = "arguments" ->
                   CASE first.read /\ separator.type = ")" -> Read(<<first.expr>>, separator.next)
                     [] first.read /\ separator.type = "," /\ others.read -> Read(<<first.expr>> \o others.expr, others.next)
                     [] OTHER -> Unread
  IN  P
Parse(s) == ParseTokens(s, <<>> \o [i \in 1 .. Len(s) + 1 |-> TokenFrom(s, i)])
\* parseExprFromStr: what stands behind the expression is not looked at.
ExprIn(s) == Parse(s)["primary", 1]
=============================================================================
