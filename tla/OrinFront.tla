------------------------------ MODULE OrinFront ------------------------------
(***************************************************************************)
(* The front of the Orin compiler (O/occ.c): the lexer turns the text into *)
(* tokens, and the parser the tokens into a tree.                          *)
(***************************************************************************)
EXTENDS OrinLexer, OrinParser

vars == <<tokens, status, lexerVars, parserVars>>

Init == LexerInit /\ ParserInit

Lexing == LexerNext /\ UNCHANGED parserVars
Parsing == ParserNext /\ UNCHANGED lexerVars
Next == Lexing \/ Parsing

Spec == Init /\ [][Next]_vars

\* main goes on by itself, without waiting for anything.
FairSpec == Spec /\ WF_vars(Next)
-----------------------------------------------------------------------------
(***************************************************************************)
(* The lexer stays within the text and the zero behind it, though comments *)
(* and literals make it look up to two characters farther (O_lexer.c:131,  *)
(* 191), and what the parser has still to do is what its functions say.    *)
(***************************************************************************)
TypeOK ==
  /\ text \in Texts /\ status \in Statuses
  /\ tokens \in Seq(Token)
  /\ currentIndex \in 1 .. Len(text) + 1
  /\ tokens_size \in Nat /\ numberOfTokens \in Nat
  /\ currentToken \in Nat
  /\ goals \in Seq(Goal)
  /\ scopes \in Seq([parent : Nat, table : SUBSET Value])

(***************************************************************************)
(* The lexer never stores a token behind the end of its list, whose room   *)
(* it doubles by half as it counts (O_lexer.c:203).  The entry that ends   *)
(* the list is not counted (O_lexer.c:234), and has room wherever a        *)
(* newline was.                                                            *)
(***************************************************************************)
TokensFit ==
  /\ status = "lexing" => Len(tokens) <= numberOfTokens
  /\ status = "parsing" /\ Len(tokens) <= tokens_size => Len(tokens) <= numberOfTokens

(***************************************************************************)
(* The parser never looks behind the last token: it takes none without     *)
(* having looked at it, never the one that ends the list, and looks one    *)
(* farther only from a name (O_parser.c:248, 258, 317).                    *)
(***************************************************************************)
ReadsOnlyTokens ==
  status = "parsing" => /\ currentToken \in DOMAIN tokens
                        /\ Now.type = "IDENTIFIER" => currentToken + 1 \in DOMAIN tokens

(***************************************************************************)
(* Of the scopes that statements still to come will be parsed in, none     *)
(* declares a name that another around it declares: the look-up before an  *)
(* initializer still holds after it, however blocks and loops are nested,  *)
(* so every use has one declaration (O_parser.c:103, 121).                 *)
(***************************************************************************)
Around(s) == LET up[k \in 0 .. Len(scopes)] == IF k = 0 THEN {} ELSE {k} \cup up[scopes[k].parent] IN up[s]
DeclaredOnce ==
  \A g \in {goals[i].scope : i \in DOMAIN goals} : \A s, o \in Around(g) :
    s # o => scopes[s].table \cap scopes[o].table = {}

(***************************************************************************)
(* Every text is compiled or rejected: the loops over comments, literals   *)
(* and statements all end, whatever is missing.                            *)
(***************************************************************************)
EveryTextIsRead == <>(status \in Ended)
=============================================================================
