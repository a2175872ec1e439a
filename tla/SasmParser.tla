------------------------------ MODULE SasmParser ------------------------------
(***************************************************************************)
(* The SASM assembler's lines and statements (SASM/src/sasm_lexer.c,       *)
(* sasm_parser.c): a file's text becomes the tree of statements that       *)
(* SasmAssembler translates.                                               *)
(*                                                                         *)
(* getCodeBlockFromLines and parseSasmDirectiveFromLine call each other    *)
(* for every %scope; `blocks' are the former's calls.  One action per kind *)
(* of line, each with the fetching, reading, pushing and moving on that    *)
(* the code does for it.                                                   *)
(***************************************************************************)
EXTENDS SasmTokens

CONSTANTS
  Texts,        \* the files' texts
  OperandCount  \* of each mnemonic the number of its operands, 0, 1 or 2

\* A text is a sequence of glyphs, and a glyph one character or more.
ASSUME TextsAssumption == \A t \in Texts : /\ t \in Seq(ToSet(t))
                                           /\ \A c \in ToSet(t) : Size(c) \in Nat \ {0}

VARIABLES
  text,       \* the file
  source,     \* the part of it that is still to be split into lines
  lineNumber, \* location.lineNumber: how many lines were split off
  line,       \* the cached line, with its kind: "none" is none
  blocks,     \* the blocks being read, the innermost last
  status

vars == <<text, source, lineNumber, line, blocks, status>>

Ended == {"parsed", "failed"}

Line(kind, name, body) == [kind |-> kind, name |-> name, body |-> body]
NoLine == Line("none", <<>>, <<>>)
EndOfFile == Line("end of file", <<>>, <<>>)

\* A directive, a label or an instruction.
LineOf(s) ==
  LET words == splitStrByChar(s, " ")
      directive == splitStrByChar(Tail(s), " ")
  IN  CASE s[1] = "%" -> Line("directive", trim(directive.first), trim(directive.rest))
        [] s[1] # "%" /\ Last(s) = ":" -> Line("label", trim(splitStrByChar(s, ":").first), <<>>)
        [] OTHER -> Line("instruction", trim(words.first), trim(words.rest))

\* What of a line counts: a comment begins at a semicolon, wherever that stands.
Content(s) == trim(splitStrByChar(trim(s), ";").first)

\* A round of fetchCachedLineFromSasmLexer.
FetchLine ==
  /\ status = "parsing" /\ line = NoLine
  /\ LET split == splitStrByChar(source, "\n")
         s == Content(split.first)
     IN  /\ source' = split.rest
         /\ line' = IF s # <<>> THEN LineOf(s) ELSE IF split.rest = <<>> THEN EndOfFile ELSE NoLine
  /\ lineNumber' = lineNumber + 1
  /\ UNCHANGED <<text, blocks, status>>
-----------------------------------------------------------------------------
At(kind) == status = "parsing" /\ line.kind = kind
Directive(word) == At("directive") /\ line.name = <<word>>

\* exit(1), behind a message.
Exit == status' = "failed" /\ UNCHANGED <<text, source, lineNumber, line, blocks>>

\* pushStatementIntoBlock.
Pushed(bs, statements) == [bs EXCEPT ![Len(bs)].statements = @ \o statements]
\* The line becomes these statements, and is left behind.
Becomes(statements) == /\ blocks' = Pushed(blocks, [i \in DOMAIN statements |-> statements[i] @@ [location |-> lineNumber]])
                       /\ line' = NoLine
                       /\ UNCHANGED <<text, source, lineNumber, status>>

\* The first operand ends at a blank.  A mnemonic that is not known is fatal.
Instruction ==
  /\ At("instruction")
  /\ LET words == splitStrByChar(line.body, " ")
         operands == <<ExprIn(trim(words.first)), ExprIn(trim(words.rest))>>
         n == OperandCount[line.name]
     IN  IF line.name \notin DOMAIN OperandCount \/ \E i \in 1 .. n : ~operands[i].read THEN Exit
         ELSE Becomes(<<[kind |-> "inst", op |-> line.name, operands |-> [i \in 1 .. n |-> operands[i].expr]]>>)

Label ==
  /\ At("label")
  /\ LET label == ExprIn(line.name)
     IN  IF label.expr.type # "binding" THEN Exit ELSE Becomes(<<[kind |-> "label", name |-> label.expr.name]>>)

Include ==
  /\ Directive("include")
  /\ LET path == ExprIn(line.body)
     IN  IF path.expr.type # "str" THEN Exit ELSE Becomes(<<[kind |-> "include", path |-> path.expr.text]>>)

\* Only here must nothing stand behind the last expression.
Bind ==
  /\ Directive("bind")
  /\ LET name == ExprIn(line.body)
         value == Parse(line.body)["primary", name.next]
     IN  IF name.expr.type # "binding" THEN Exit
         ELSE IF ~value.read \/ TokenFrom(line.body, value.next) # NoToken THEN Exit
         ELSE Becomes(<<[kind |-> "const", name |-> name.expr.name, value |-> value.expr]>>)

\* With a colon behind it, the entry point is made a label here.
Entry ==
  /\ Directive("entry")
  /\ LET inline == line.body # <<>> /\ Last(line.body) = ":"
         value == ExprIn(IF inline THEN Front(line.body) ELSE line.body)
         entry == [kind |-> "entry", value |-> value.expr]
     IN  IF ~value.read \/ (inline /\ value.expr.type # "binding") THEN Exit
         ELSE Becomes(IF inline THEN <<entry, [kind |-> "label", name |-> value.expr.name]>> ELSE <<entry>>)

Scope ==
  /\ Directive("scope")
  /\ blocks' = Append(blocks, [statements |-> <<>>, location |-> lineNumber])
  /\ line' = NoLine
  /\ UNCHANGED <<text, source, lineNumber, status>>

\* Mutant of End: the line is left to be fetched again.
EndStays ==
  /\ Directive("end")
  /\ IF Len(blocks) = 1 THEN status' = "parsed" /\ UNCHANGED <<line, blocks>>
     ELSE /\ blocks' = Pushed(Front(blocks), <<[kind |-> "scope", body |-> Last(blocks).statements, location |-> Last(blocks).location]>>)
          /\ UNCHANGED <<line, status>>
  /\ UNCHANGED <<text, source, lineNumber>>
\* The end of a block.  In no scope it is the end of the file's block, and what
\* comes after it is never read.
End ==
  /\ Directive("end")
  /\ IF Len(blocks) = 1 THEN status' = "parsed" /\ UNCHANGED <<line, blocks>>
     ELSE /\ blocks' = Pushed(Front(blocks), <<[kind |-> "scope", body |-> Last(blocks).statements, location |-> Last(blocks).location]>>)
          /\ line' = NoLine
          /\ UNCHANGED status
  /\ UNCHANGED <<text, source, lineNumber>>

UnknownDirective ==
  /\ At("directive") /\ line.name \notin {<<w>> : w \in {"include", "bind", "entry", "scope", "end"}}
  /\ Exit

\* A scope must be closed before the file ends.
Finish ==
  /\ At("end of file")
  /\ IF Len(blocks) > 1 THEN Exit
     ELSE status' = "parsed" /\ UNCHANGED <<text, source, lineNumber, line, blocks>>
-----------------------------------------------------------------------------
Init == /\ text \in Texts
        /\ source = text
        /\ lineNumber = 0
        /\ line = NoLine
        /\ blocks = <<[statements |-> <<>>, location |-> 0]>>
        /\ status = "parsing"

Next == \/ FetchLine
        \/ Instruction \/ Label
        \/ Include \/ Bind \/ Entry \/ Scope \/ End \/ UnknownDirective
        \/ Finish

Spec == Init /\ [][Next]_vars
-----------------------------------------------------------------------------
(***************************************************************************)
(* Every step ends the work, leaves a line behind or takes a shorter file  *)
(* on: nothing is read for ever, although the end of a line may be left to *)
(* be read again (univ_strings.c:55).                                      *)
(***************************************************************************)
EveryStepGetsAhead ==
  [][\/ status' \in Ended
     \/ line # NoLine /\ line' = NoLine /\ source' = source
     \/ line' = EndOfFile /\ line = NoLine
     \/ Len(source') < Len(source) /\ line = NoLine]_vars
=============================================================================
