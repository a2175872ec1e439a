----------------------------- MODULE OrinTokens -----------------------------
(***************************************************************************)
(* What the Orin compiler's lexer and parser share: the kinds of tokens    *)
(* (O/headers/O_token_types.h), the list of tokens the first leaves to the *)
(* second, and how far the compiler has come (O/occ.c).                    *)
(*                                                                         *)
(* A text is a sequence of glyphs.  A glyph is a pair: a character between *)
(* words with 0, a word (a longest run of letters and digits that begins   *)
(* with a letter) with a number that tells its names apart, or "#" with    *)
(* the number that a longest run of digits stands for.                     *)
(***************************************************************************)
EXTENDS Integers, SequencesExt

CONSTANTS
  Names,   \* the words that are no keywords, as strings
  Numbers, \* the numbers
  Marks,   \* the characters between words, as strings
  Size(_)  \* the number of characters of a glyph

\* Among them the zero behind the text.
ASSUME MarksAssumption == "NUL" \in Marks

Ch(c) == <<c, 0>>
NUL == Ch("NUL") \* the end of the text, and what a token without a value holds

OpAndSepTokens ==
  [LPAREN |-> <<"(">>, RPAREN |-> <<")">>, LBRACE |-> <<"{">>, RBRACE |-> <<"}">>,
   SEMICOLON |-> <<";">>, COMMA |-> <<",">>, PLUS |-> <<"+">>, MINUS |-> <<"-">>, STAR |-> <<"*">>,
   SLASH |-> <<"/">>, MOD |-> <<"%">>, EQUAL |-> <<"=">>, LT |-> <<"<">>, GT |-> <<">">>,
   LE |-> <<"<", "=">>, GE |-> <<">", "=">>, EQ |-> <<"=", "=">>, NEQ |-> <<"!", "=">>]

KeywordTokens ==
  [int |-> "INT", float |-> "FLOAT", void |-> "VOID", string |-> "STRING", char |-> "CHAR",
   const |-> "CONSTANT", if |-> "IF", else |-> "ELSE", while |-> "WHILE", for |-> "FOR",
   return |-> "RETURN", exit |-> "EXIT", print |-> "PRINT", scan |-> "SCAN"]

Literals == {"INT_L", "FLOAT_L", "STR_L", "CHAR_L"}
TokenType == DOMAIN OpAndSepTokens \cup Range(KeywordTokens) \cup Literals
             \cup {"BEGINNING", "IDENTIFIER", "UNKNOWN", "END_OF_TOKENS"}

Words == {Ch(w) : w \in DOMAIN KeywordTokens \cup Names}
Digits == {<<"#", n>> : n \in Numbers}
Glyph == Words \cup Digits \cup {Ch(c) : c \in Marks}

\* A token's value is the bare text: that of "x" and 'x' is the name x.
Joined(gs) == IF Len(gs) = 1 THEN gs[1] ELSE <<"...", gs>>
Value == Glyph \cup {"..."} \X Seq(Glyph)
Token == [type : TokenType, value : Value]
Tok(type, value) == [type |-> type, value |-> value]
EndOfTokens == Tok("END_OF_TOKENS", NUL)

VARIABLES
  tokens, \* the list of tokens
  status  \* how far the compiler has come

\* What exit(1) and the end of main leave behind; "wild": memory that is not the
\* compiler's own was written, or a pointer nobody set was followed.
Ended == {"accepted", "literal", "syntax", "semantic", "wild"}
Statuses == {"lexing", "parsing"} \cup Ended

\* Undefined behaviour: what has been done stays undetected, or it does not.
AnyOutcome(defined, next) == status' \in (IF defined THEN {next} ELSE {next, "wild"})
=============================================================================
