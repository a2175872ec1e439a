------------------------------ MODULE OrinLexer ------------------------------
(***************************************************************************)
(* The Orin compiler's lexer (O/src/O_lexer.c): one action for each branch *)
(* of the loop that goes through the text.                                 *)
(***************************************************************************)
EXTENDS OrinTokens

CONSTANTS
  Texts,          \* the texts: sequences of glyphs
  InitialTokens   \* the room for tokens at first: 15 in the code

ASSUME TextsAssumption == Texts \subseteq Seq(Glyph)
ASSUME RoomAssumption == InitialTokens \in Nat /\ InitialTokens >= 2

VARIABLES
  text,           \* the file's contents
  currentIndex,   \* where the lexer is in it
  tokens_size,    \* the tokens counted, newlines among them
  numberOfTokens  \* the room in the list

lexerVars == <<text, currentIndex, tokens_size, numberOfTokens>>

At(i) == IF i \in DOMAIN text THEN text[i] ELSE NUL
Is(i, c) == At(i) = Ch(c)
FirstFrom(i, Test(_)) == CHOOSE j \in i .. Len(text) + 1 : Test(j) /\ \A k \in i .. j - 1 : ~Test(k)
\* The characters from i to j.
Spelled(i, j) == MapThenSumSet(LAMBDA k : Size(text[k]), i .. j)
Taken(i, j) == Joined(SubSeq(text, i, j))

\* A comment ends at a newline or behind a star and a slash, or stops the lexer
\* at the end of the text.
InLineComment == Is(currentIndex, "/") /\ Is(currentIndex + 1, "/")
LineEnd == FirstFrom(currentIndex, LAMBDA j : Is(j, "\n") \/ At(j + 1) = NUL)
InBlockComment == Is(currentIndex, "/") /\ Is(currentIndex + 1, "*")
BlockEnd == FirstFrom(currentIndex, LAMBDA j : (Is(j, "*") /\ Is(j + 1, "/")) \/ At(j + 2) = NUL)
\* Mutant of Stopped: a comment of this kind may end with the text.
StoppedInLine == \/ At(currentIndex) = NUL
                 \/ InLineComment /\ At(LineEnd + 1) = NUL
Stopped == \/ At(currentIndex) = NUL
           \/ InLineComment /\ At(LineEnd + 1) = NUL
           \/ InBlockComment /\ At(BlockEnd + 2) = NUL

\* Mutant of Start: the slash that ends a comment is not skipped.
StartOneEarly == IF InLineComment THEN LineEnd ELSE IF InBlockComment THEN BlockEnd + 1 ELSE currentIndex
\* Where the token begins.  No blank is skipped behind a comment, nor is a second
\* comment seen.
Start == IF InLineComment THEN LineEnd ELSE IF InBlockComment THEN BlockEnd + 2 ELSE currentIndex
Begins(Class(_)) == status = "lexing" /\ ~Stopped /\ ~Is(currentIndex, " ") /\ Class(At(Start))

\* Mutant of Count: the room is compared with the tokens counted before.
CountLate == /\ tokens_size' = tokens_size + 1
             /\ numberOfTokens' = IF tokens_size > numberOfTokens THEN (3 * numberOfTokens) \div 2 ELSE numberOfTokens
Count == /\ tokens_size' = tokens_size + 1
         /\ numberOfTokens' = IF tokens_size' > numberOfTokens THEN (3 * numberOfTokens) \div 2 ELSE numberOfTokens

\* The token is stored, and the lexer goes on behind it.
Emit(type, value, next) == /\ Count
                           /\ tokens' = Append(tokens, Tok(type, value))
                           /\ currentIndex' = next
                           /\ UNCHANGED text
\* It is spelled into a buffer of its own, with a byte for the end.
Fits(i, j, room) == AnyOutcome(Spelled(i, j) < room, "lexing")
Reject == status' = "literal" /\ UNCHANGED <<tokens, lexerVars>>
-----------------------------------------------------------------------------
Blank == /\ status = "lexing" /\ Is(currentIndex, " ")
         /\ currentIndex' = currentIndex + 1
         /\ UNCHANGED <<tokens, status, text, tokens_size, numberOfTokens>>

Newline == /\ Begins(LAMBDA c : c = Ch("\n"))
           /\ Count
           /\ currentIndex' = Start + 1
           /\ UNCHANGED <<tokens, status, text>>

generateStringLToken ==
  /\ Begins(LAMBDA c : c = Ch("\""))
  /\ LET end == FirstFrom(Start + 1, LAMBDA j : At(j) \in {Ch("\""), NUL})
     IN  \/ At(end) = NUL /\ Reject
         \/ At(end) # NUL /\ Emit("STR_L", Taken(Start + 1, end - 1), end + 1) /\ Fits(Start + 1, end - 1, 64)

generateIntLorFloatLToken ==
  /\ Begins(LAMBDA c : c \in Digits)
  /\ LET end == IF ~Is(Start + 1, ".") THEN Start ELSE IF At(Start + 2) \in Digits THEN Start + 2 ELSE Start + 1
     IN  /\ Emit(IF end = Start THEN "INT_L" ELSE "FLOAT_L", Taken(Start, end), end + 1)
         /\ Fits(Start, end, 16)

\* The character two places on may be one behind the end of the text.
generateCharLToken ==
  /\ Begins(LAMBDA c : c = Ch("'"))
  /\ IF Is(Start + 2, "'") /\ Size(At(Start + 1)) = 1
     THEN Emit("CHAR_L", At(Start + 1), Start + 3) /\ UNCHANGED status
     ELSE /\ AnyOutcome(At(Start + 1) # NUL, "literal")
          /\ UNCHANGED <<tokens, lexerVars>>

generateKeywordOrIdentifier ==
  /\ Begins(LAMBDA c : c \in Words)
  /\ LET keyword == At(Start)[1]
     IN  Emit(IF keyword \in DOMAIN KeywordTokens THEN KeywordTokens[keyword] ELSE "IDENTIFIER", At(Start), Start + 1)
  /\ Fits(Start, Start, 8)

\* Whatever stands before an equals sign is taken together with it; what is in no
\* table stays UNKNOWN, with a value nobody has set.
Spelling(c) == IF Is(Start + 1, "=") THEN <<c[1], "=">> ELSE <<c[1]>>
generateOpAndSepToken ==
  /\ Begins(LAMBDA c : c \notin Words \cup Digits \cup {Ch("\n"), Ch("\""), Ch("'")})
  /\ LET value == Spelling(At(Start))
         types == {t \in DOMAIN OpAndSepTokens : OpAndSepTokens[t] = value}
     IN  Emit(IF types = {} THEN "UNKNOWN" ELSE CHOOSE t \in types : TRUE, NUL, Start + Len(value))
  /\ UNCHANGED status

\* The last entry is written without asking for room, and the values are printed.
EndLexing ==
  /\ status = "lexing" /\ Stopped
  /\ tokens' = Append(tokens, EndOfTokens)
  /\ AnyOutcome(Len(tokens) < numberOfTokens /\ \A k \in DOMAIN tokens : tokens[k].type # "UNKNOWN", "parsing")
  /\ UNCHANGED lexerVars

LexerInit == /\ text \in Texts
             /\ currentIndex = 1
             /\ tokens = <<>> /\ tokens_size = 0
             /\ numberOfTokens = InitialTokens
             /\ status = "lexing"

LexerNext == \/ Blank \/ Newline
             \/ generateStringLToken \/ generateIntLorFloatLToken \/ generateCharLToken
             \/ generateKeywordOrIdentifier \/ generateOpAndSepToken
             \/ EndLexing
=============================================================================
