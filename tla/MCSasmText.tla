------------------------------ MODULE MCSasmText ------------------------------
(***************************************************************************)
(* The instance of the SASM parser that TLC checks: every expression, well *)
(* written or not, in every place of every kind of line, and every short   *)
(* file of scopes, labels, instructions, blank lines and comments.         *)
(***************************************************************************)
EXTENDS SasmTextMeaning

MCDigits == {"0", "1", "2", "3", "4", "5"}
Upper == {"A", "F", "H", "I", "J", "K", "L", "N", "O", "P", "Q", "R", "S", "T", "X"}
Words == {"RET", "PUSH", "SETR", "include", "bind", "entry", "scope", "end"}
MCLetters == Upper \cup {"x", "y"} \cup Words
MCSize(c) == CASE c \in {"RET", "end"} -> 3 [] c \in {"PUSH", "SETR", "bind"} -> 4 [] c \in {"entry", "scope"} -> 5
               [] c = "include" -> 7 [] OTHER -> 1
Letters65 == <<"A", "B", "C", "D", "E", "F", "G", "H", "I", "J", "K", "L", "M", "N", "O", "P", "Q", "R", "S", "T", "U", "V", "W", "X">>
MCCode(c) == CASE c = "-" -> 45 [] c = "0" -> 48 [] c = "1" -> 49 [] c = "2" -> 50 [] c = "3" -> 51 [] c = "4" -> 52 [] c = "5" -> 53
               [] c \in Upper -> 64 + CHOOSE i \in DOMAIN Letters65 : Letters65[i] = c
               [] c = "]" -> 93 [] OTHER -> 120
MCOperandCount == (<<"RET">> :> 0) @@ (<<"PUSH">> :> 1) @@ (<<"SETR">> :> 2)
MCNumerals == (0 :> {<<"0">>}) @@ (5 :> {<<"5">>, <<"0", "5">>}) @@ (12 :> {<<"1", "2">>}) @@ (31 :> {<<"-", "1">>, <<"4", "0">>, <<"0", "x", "1", "F">>})
              @@ (26 :> {<<"0", "x", "1", "A">>})

\* Expressions, the first few of them well written.
Q == "\""
Good == {<<"x">>, <<"x", "_", "1">>, <<"1", "2">>, <<"0", "x", "1", "A">>, <<"-", "1">>, <<"4", "0">>,
         <<Q, "x", " ", "y", Q>>, <<Q, Q>>, <<"'", "x", "'">>, <<"'", " ", "'">>, <<"[", "L", "2", "]">>, <<"[", "Q", "T", "]">>, <<"[", "P", "1", "]">>,
         <<"(", "x", ")">>, <<"(", "(", "5", ")", ")">>,
         <<"x", "(", ")">>, <<"x", "(", "y", ")">>, <<"x", "(", "y", "(", "5", ")", ",", Q, ",", Q, ")">>,
         <<"x", " ", "(", " ", "y", " ", ",", " ", "(", "5", ")", " ", ")">>, <<"(", " ", "x", ")">>}
Bad == {<<>>, <<"5", "x">>, <<"5", ".", "1">>, <<"-">>, <<"0", "x">>, <<Q, "x">>, <<"'", "x", "y", "'">>, <<"'">>, <<Q, ";", Q>>,
        <<"[", "H", "2", "]">>, <<"[", "N", "X", "]">>, <<"[", "L", "]", "]">>, <<"[", "K", "]", "]">>, <<"[", "L", "-", "]">>, <<"[", "L", "1">>, <<"[", "PUSH", "]">>,
        <<"(", ")">>, <<"(", "x">>, <<"x", "(">>, <<"x", "(", "y", ",", ")">>, <<"x", "(", "y", " ", "y", ")">>,
        <<"x", " ", "y">>, <<"x", ",", "y">>, <<",", "x">>, <<"_", "x">>, <<"x", "\t", "y">>, <<"x", Q>>, <<"x", "[">>}
Few == {<<"x">>, <<"5">>, <<"x", "(", "[", "P", "1", "]", ")">>, <<Q, "x", Q>>, <<"x", " ">>, <<>>}
Exprs == Good \cup Bad

Lines == {<<"PUSH", " ">> \o e : e \in Exprs} \cup {<<"\t", "PUSH", " ", " ">> \o e \o <<" ", ";", "x">> : e \in Exprs}
         \cup {<<"RET", " ">> \o e : e \in Few} \cup {<<"PUSH", "\t">> \o e : e \in Few}
         \cup {<<"SETR", " ">> \o e \o <<" ", " ">> \o f : e \in Exprs, f \in Few} \cup {<<"SETR", " ">> \o f \o <<" ">> \o e : e \in Exprs, f \in Few}
         \cup {<<"%", "bind", " ", " ", "y", " ">> \o e : e \in Exprs} \cup {<<"%", "bind", " ">> \o e \o <<" ", "5">> : e \in Exprs}
         \cup {<<"%", "entry", " ">> \o e : e \in Exprs} \cup {<<"%", "entry", " ">> \o e \o <<":">> : e \in Exprs}
         \cup {<<"%", "include", " ">> \o e : e \in Exprs} \cup {<<"%", "scope", " ">> \o e : e \in Few}
         \cup {e \o <<":">> : e \in Exprs} \cup {e \o <<" ", ":", ";">> : e \in Exprs} \cup {e : e \in Exprs} \cup {<<"%">> \o e : e \in Few}

\* A line alone, unterminated, and among others in a scope.
NL == <<"\n">>
OneLine == Lines \cup {<<"%", "scope">> \o NL \o l \o NL \o <<"RET">> \o NL \o <<"%", "end">> : l \in Lines}

\* The structure of files.
Pieces == {<<"RET">>, <<"x", ":">>, <<"%", "scope">>, <<"%", "end">>, <<"%", "entry", " ", "x", ":">>, <<" ", ";", "x">>, <<"RET", "RET">>}
Few5 == {<<"PUSH", " ", "x">>, <<"%", "scope">>, <<"%", "end">>, <<>>}
Joined(pieces) == UNION {{ps[1] \o NL \o ps[2] \o NL \o ps[3] \o NL \o ps[4] \o end : end \in {<<>>, NL}} : ps \in [1 .. 4 -> pieces]}
MCTexts == OneLine \cup Joined(Pieces \cup {<<>>}) \cup {p \o NL \o f : p \in Few5, f \in Joined(Few5)}
=============================================================================
