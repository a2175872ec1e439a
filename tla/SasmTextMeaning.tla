--------------------------- MODULE SasmTextMeaning ---------------------------
(***************************************************************************)
(* What a SASM file says, read off its text by cutting it everywhere a     *)
(* reading could be cut, and that the parser's tree says the same.         *)
(***************************************************************************)
EXTENDS SasmParser, FiniteSetsExt

CONSTANT Numerals \* how numbers are written: a function from values to texts

Stripped(s) == LET marks == {i \in DOMAIN s : s[i] \notin Blanks}
               IN  IF marks = {} THEN <<>> ELSE SubSeq(s, Min(marks), Max(marks))
Inside(s) == SubSeq(s, 2, Len(s) - 1)
Between(s, open, close) == Len(s) >= 2 /\ s[1] = open /\ Last(s) = close
Behind(s, i) == SubSeq(s, i + 1, Len(s))
Before(s, i) == SubSeq(s, 1, i - 1)
Where(s, c) == {i \in DOMAIN s : s[i] = c}

IsWord(s) == s # <<>> /\ s[1] \in Letters /\ ToSet(s) \subseteq Letters \cup Digits \cup {"_"}

\* The registers by RegID.  NX and SP are the machine's own.
RegID == <<<<"H", "0">>, <<"H", "1">>, <<"I", "0">>, <<"I", "1">>, <<"J", "S">>, <<"K", "C">>,
           <<"L", "0">>, <<"L", "1">>, <<"L", "2">>, <<"L", "3">>, <<"N", "X">>, <<"O", "P">>,
           <<"P", "0">>, <<"P", "1">>, <<"P", "2">>, <<"P", "3">>, <<"Q", "T">>, <<"R", "F">>, <<"S", "P">>>>
Named(r) == <<"[">> \o RegID[r + 1] \o <<"]">>
Nameable == {r \in 0 .. 18 : RegID[r + 1] \notin {<<"N", "X">>, <<"S", "P">>}}

\* The expressions that a text may be read as, and the lists of arguments.
RECURSIVE Readings(_), Lists(_)
Readings(t) ==
  LET s == Stripped(t)
  IN  {Binding(w) : w \in {w \in {s} : IsWord(w)}}
      \cup {IntLiteral(v) : v \in {v \in DOMAIN Numerals : s \in Numerals[v]}}
      \cup {[type |-> "str", text |-> Inside(w)] : w \in {w \in {s} : Between(w, "\"", "\"") /\ Where(Inside(w), "\"") = {}}}
      \cup {[type |-> "char", value |-> w[2]] : w \in {w \in {s} : Between(w, "'", "'") /\ Length(w) = 3}}
      \cup {[type |-> "reg", value |-> r] : r \in {r \in Nameable : s = Named(r)}}
      \cup (IF Between(s, "(", ")") THEN Readings(Inside(s)) ELSE {})
      \cup UNION {{[type |-> "funcall", name |-> Stripped(Before(s, i)), args |-> es] : es \in Lists(Front(Behind(s, i)))} :
                    i \in {i \in Where(s, "(") : IsWord(Stripped(Before(s, i))) /\ Last(s) = ")"}}
Lists(t) ==
  IF Stripped(t) = <<>> THEN {<<>>}
  ELSE {<<e>> : e \in Readings(t)}
       \cup UNION {{<<e>> \o es : e \in Readings(Before(t, i)), es \in Lists(Behind(t, i)) \ {<<>>}} : i \in Where(t, ",")}

\* A word and what is behind it; two expressions with a blank between them.
Gap(s) == {i \in DOMAIN s : s[i] \in Blanks}
WordOf(s) == IF Gap(s) = {} THEN s ELSE Before(s, Min(Gap(s)))
RestOf(s) == IF Gap(s) = {} THEN <<>> ELSE Stripped(Behind(s, Min(Gap(s))))
Pairs(s) == UNION {{<<a, b>> : a \in Readings(Before(s, i)), b \in Readings(Behind(s, i))} : i \in Gap(s)}

\* The statements that a line's content may say; an inlined entry point is two.
Operands(n, s) == CASE n = 0 -> {ops \in {<<>>} : s = <<>>}
                    [] n = 1 -> {<<e>> : e \in Readings(s)}
                    [] n = 2 -> Pairs(s)
Sayings(s) ==
  LET body == RestOf(s)
      names == {e \in Readings(body) : e.type = "binding"}
      inlined == IF body # <<>> /\ Last(body) = ":" THEN {e \in Readings(Front(body)) : e.type = "binding"} ELSE {}
  IN  CASE s[1] = "%" ->
             CASE WordOf(s) = <<"%", "include">> -> {<<[kind |-> "include", path |-> e.text]>> : e \in {e \in Readings(body) : e.type = "str"}}
               [] WordOf(s) = <<"%", "bind">> -> {<<[kind |-> "const", name |-> p[1].name, value |-> p[2]]>> : p \in {p \in Pairs(body) : p[1].type = "binding"}}
               [] WordOf(s) = <<"%", "entry">> ->
                    {<<[kind |-> "entry", value |-> e]>> : e \in names}
                    \cup {<<[kind |-> "entry", value |-> e], [kind |-> "label", name |-> e.name]>> : e \in inlined}
               [] s = <<"%", "scope">> -> {<<[kind |-> "scope"]>>}
               [] s = <<"%", "end">> -> {<<[kind |-> "end"]>>}
               [] OTHER -> {}
        [] s[1] # "%" /\ Last(s) = ":" -> {<<[kind |-> "label", name |-> e.name]>> : e \in {e \in Readings(Front(s)) : e.type = "binding"}}
        [] OTHER -> IF WordOf(s) \notin DOMAIN OperandCount THEN {}
                    ELSE {<<[kind |-> "inst", op |-> WordOf(s), operands |-> ops]>> : ops \in Operands(OperandCount[WordOf(s)], body)}
-----------------------------------------------------------------------------
(* Lines. *)

RECURSIVE Cut(_, _)
Cut(s, c) == IF Where(s, c) = {} THEN <<s>>
             ELSE <<Before(s, Min(Where(s, c)))>> \o Cut(Behind(s, Min(Where(s, c))), c)

\* A comment begins at the first semicolon outside strings.
Uncommented(s) == LET comments == {i \in Where(s, ";") : Cardinality({j \in 1 .. i - 1 : s[j] = "\""}) % 2 = 0}
                  IN  IF comments = {} THEN s ELSE Before(s, Min(comments))

\* The lines that say something, without blanks and comments around it.
Rows == LET lines == Cut(text, "\n")
            row(k) == [number |-> k, before |-> FoldLeft(LAMBDA n, s : n + Length(s) + 1, 0, SubSeq(lines, 1, k - 1)),
                       content |-> Stripped(Uncommented(lines[k]))]
        IN  SelectSeq([k \in DOMAIN lines |-> row(k)], LAMBDA r : r.content # <<>>)

\* What the lines have become, in their order, a scope being what opens it, what is
\* in it and what closes it.
RECURSIVE Told(_)
Told(statements) ==
  FlattenSeq([i \in DOMAIN statements |->
    IF statements[i].kind # "scope" THEN <<statements[i]>>
    ELSE <<[kind |-> "scope", location |-> statements[i].location]>> \o Told(statements[i].body) \o <<[kind |-> "end"]>>])
Seen == FlattenSeq([i \in DOMAIN blocks |->
           (IF i = 1 THEN <<>> ELSE <<[kind |-> "scope", location |-> blocks[i].location]>>) \o Told(blocks[i].statements)])
Without(f, key) == [k \in DOMAIN f \ {key} |-> f[k]]

\* The first statement that closes a scope where none is open, and whether one
\* stays open.
Depth(kinds, n) == Cardinality({i \in 1 .. n : kinds[i] = "scope"}) - Cardinality({i \in 1 .. n : kinds[i] = "end"})
Strays(kinds) == {n \in DOMAIN kinds : Depth(kinds, n) < 0}
-----------------------------------------------------------------------------
\* What the parser takes for granted: that no string contains a semicolon, that the
\* blanks which separate are no tabs, that the first operand has none inside, and that
\* no constant's value begins with a parenthesis: name and value would be a call.
Plain(r) ==
  /\ Where(r.content, "\t") = {}
  /\ Where(r.content, ";") = {}
  /\ WordOf(r.content) \in DOMAIN OperandCount =>
       LET operands == RestOf(r.content)
       IN  CASE OperandCount[WordOf(r.content)] = 0 -> TRUE
             [] OperandCount[WordOf(r.content)] = 1 -> Gap(operands) = {}
             [] OperandCount[WordOf(r.content)] = 2 -> Readings(WordOf(operands)) # {} /\ Readings(RestOf(operands)) # {}
  /\ WordOf(r.content) = <<"%", "bind">> => LET body == RestOf(r.content) IN RestOf(body) # <<>> => RestOf(body)[1] # "("

(***************************************************************************)
(* A file whose every line says something becomes just that, statement by  *)
(* statement and scope in scope, and is rejected only for a scope that is  *)
(* left open; but a %end too many is the end of what is read, without a    *)
(* word (sasm_parser.c:395).                                               *)
(***************************************************************************)
ParsesWhatIsWritten ==
  status \in Ended =>
    LET rows == Rows
        sayings == [i \in DOMAIN rows |-> Sayings(rows[i].content)]
    IN  (\A i \in DOMAIN rows : Plain(rows[i]) /\ sayings[i] # {}) =>
          LET said == FlattenSeq([i \in DOMAIN rows |-> CHOOSE st \in sayings[i] : TRUE])
              kinds == [i \in DOMAIN said |-> said[i].kind]
              strays == Strays(kinds)
              told == Seen
          IN  /\ \A i \in DOMAIN rows : Cardinality(sayings[i]) = 1
              /\ [i \in DOMAIN told |-> Without(told[i], "location")]
                   = IF strays = {} THEN said ELSE SubSeq(said, 1, Min(strays) - 1)
              /\ status = IF strays = {} /\ Depth(kinds, Len(kinds)) > 0 THEN "failed" ELSE "parsed"

\* What kinds of statements a line is made into.
Kinds(s) ==
  LET name == WordOf(Tail(s))
  IN  CASE s[1] = "%" /\ name = <<"bind">> -> <<"const">>
        [] s[1] = "%" /\ name = <<"entry">> -> IF Last(s) = ":" THEN <<"entry", "label">> ELSE <<"entry">>
        [] s[1] = "%" /\ name \notin {<<"bind">>, <<"entry">>} -> name
        [] s[1] # "%" /\ Last(s) = ":" -> <<"label">>
        [] OTHER -> <<"inst">>

(***************************************************************************)
(* Whatever the lines contain, none is skipped, read twice or out of its   *)
(* scope as the calls nest (sasm_parser.c:176), and a file that is parsed  *)
(* was read to its end or to the %end that closes nothing.  A statement    *)
(* knows its line: exactly in the file's first half; further on the number *)
(* may be too large, because the end of a line may be taken for another    *)
(* line (univ_strings.c:55), but never too small.                          *)
(***************************************************************************)
EveryLineIsAccountedFor ==
  LET rows == Rows
      expected == FlattenSeq([i \in DOMAIN rows |-> LET ks == Kinds(rows[i].content) IN [k \in DOMAIN ks |-> [kind |-> ks[k], row |-> rows[i]]]])
      kinds == [i \in DOMAIN expected |-> expected[i].kind]
      told == Seen
  IN  /\ IsPrefix([i \in DOMAIN told |-> told[i].kind], kinds)
      /\ status = "parsed" => Len(told) = IF Strays(kinds) = {} THEN Len(kinds) ELSE Min(Strays(kinds)) - 1
      /\ \A i \in DOMAIN told :
           told[i].kind # "end" =>
             LET row == expected[i].row
             IN  /\ told[i].location >= row.number
                 /\ 2 * row.before <= Length(text) => told[i].location = row.number
=============================================================================
