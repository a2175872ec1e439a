---------------------------- MODULE SasmAssembler ----------------------------
(***************************************************************************)
(* The SASM assembler from syntax tree to executable image                 *)
(* (SASM/src/sasm_assembler.c, sasm_binding.c, sasm_expressions.c).        *)
(*                                                                         *)
(* translateSasmRootFile first walks the tree: each chain of statements    *)
(* twice, once for its names and includes and once for its instructions    *)
(* and nested scopes.  Operands are only noted.  Then it evaluates them in *)
(* the order noted, each in the scope it stands in, and constants when an  *)
(* operand first wants them.  Last it looks up the entry point.            *)
(*                                                                         *)
(* The parser's result is the input: a source gives each file, and each    *)
(* body of a %scope, its sequence of statements.  Integer literals stand   *)
(* for float and character literals too, which are stored the same way.    *)
(***************************************************************************)
EXTENDS Integers, Sequences, FiniteSets

CONSTANTS
  Name,         \* the names of labels and constants
  Block,        \* the names of files and of the bodies of scopes
  Root,         \* the file given to the assembler
  Sources,      \* the inputs: functions from the blocks that exist to statements
  Expr,         \* the expressions the sources contain
  Opcode,       \* the instructions' opcodes
  OperandCount, \* how many operands each opcode has: 0, 1 or 2
  Char,         \* the characters of strings, and 0
  WordSize, REG_COUNT, \* as in the machine, 2^64 and 19 in the code
  PROGRAM_CAPACITY, LABELS_CAPACITY, BINDINGS_CAPACITY, MEMORY_CAPACITY,
  STRING_LENGTHS_CAPACITY, \* the sizes of the arrays in Sasm and Scope
  FrameCapacity \* calls of translateSasmFile the C stack has room for

Word == 0 .. WordSize - 1
Wrap(n) == n % WordSize
MemoryAddr == 0 .. MEMORY_CAPACITY - 1

\* Expressions: EXPR_LIT_INT and its like, EXPR_LIT_STR, EXPR_REG, EXPR_BINDING
\* and EXPR_FUNCALL.
ExprShape(e) == \/ e.type = "int" /\ e.value \in Word
                \/ e.type = "str" /\ e.text \in Seq(Char)
                \/ e.type = "reg" /\ e.value \in 0 .. REG_COUNT - 1
                \/ e.type = "binding" /\ e.name \in Name
                \/ e.type = "funcall" /\ e.name \in STRING /\ e.args \in Seq(Expr)
StmtShape(st) == \/ st.kind = "label" /\ st.name \in Name
                 \/ st.kind = "const" /\ st.name \in Name /\ st.value \in Expr
                 \/ st.kind = "include" /\ st.path \in Block
                 \/ st.kind = "entry" /\ st.value \in Expr
                 \/ st.kind = "scope" /\ st.body \in Block
                 \/ /\ st.kind = "inst"
                    /\ st.op \in Opcode
                    /\ st.operands \in Seq(Expr)
                    /\ Len(st.operands) = OperandCount[st.op]

ASSUME SizesAssumption == /\ REG_COUNT \in Nat \ {0} /\ WordSize \in Nat /\ 2 * REG_COUNT < WordSize
                          /\ PROGRAM_CAPACITY \in Nat /\ PROGRAM_CAPACITY < WordSize
                          /\ MEMORY_CAPACITY \in Nat /\ MEMORY_CAPACITY < WordSize
                          /\ {LABELS_CAPACITY, BINDINGS_CAPACITY, STRING_LENGTHS_CAPACITY} \subseteq Nat
                          /\ FrameCapacity \in Nat \ {0}
                          /\ 0 \in Char /\ Name # {}
                          /\ OperandCount \in [Opcode -> 0 .. 2]
ASSUME ExprAssumption == \A e \in Expr : ExprShape(e)
ASSUME SourceAssumption ==
  \A src \in Sources :
    /\ DOMAIN src \subseteq Block /\ Root \in DOMAIN src /\ IsFiniteSet(DOMAIN src)
    /\ \A b \in DOMAIN src : src[b] \in Seq({src[b][i] : i \in DOMAIN src[b]})
    /\ \A b \in DOMAIN src : \A i \in DOMAIN src[b] :
         StmtShape(src[b][i]) /\ (src[b][i].kind = "scope" => src[b][i].body \in DOMAIN src)

VARIABLES
  source,   \* the syntax trees
  phase,    \* see Phases
  calls,    \* translateSasmStatementChain's calls, the innermost last
  scopes,   \* the scopes made so far; their numbers are the Scope pointers
  scope,    \* sasm->scope, 0 for NULL
  symbols,  \* the operands noted
  insts,    \* the instructions
  deferredEntry, \* the %entry, if there was one
  entry,    \* the entry point
  memory, memorySize, memoryCapacity, stringLens, \* the data
  next,     \* the operand to evaluate next: i of resolveAllUnresolvedOperands
  second,   \* it is the second operand of its instruction
  eval,     \* the calls of evaluateExpression, evaluateBinding and resolveFuncall
  answer    \* the EvalResult being returned

tree == <<source, calls>>
names == <<scopes, symbols, insts, deferredEntry>>
data == <<memory, memorySize, memoryCapacity, stringLens>>
vars == <<source, phase, calls, scopes, scope, symbols, insts, deferredEntry, entry,
          memory, memorySize, memoryCapacity, stringLens, next, second, eval, answer>>

(***************************************************************************)
(* "translate", "operands" and "entry" are the assembler's work;           *)
(* "assembled" its success; "failed" an exit with an error message,        *)
(* "aborted" an assertion that an array has room, "broken" one about what  *)
(* the assembler itself has made, "overrun" a C stack without room for     *)
(* another file, "wild" a store behind an array: from there C says nothing.*)
(***************************************************************************)
Phases == {"translate", "operands", "entry", "assembled", "failed", "aborted", "broken", "overrun", "wild"}
Ended == {"assembled", "failed", "aborted", "broken", "overrun", "wild"}

BindStatus == {"UNEVALUATED", "EVALUATING", "EVALUATED", "DEFERRED"}
BindType == {"FLOAT", "UINT", "MEM_ADDR", "INST_ADDR"}

\* A result of evaluateExpression.  A deferred one carries the zero word.
OK(v, t) == [status |-> "OK", value |-> v, type |-> t]
Deferred == [status |-> "DEFERRED", value |-> 0, type |-> "FLOAT"]
NoAnswer == [status |-> "none", value |-> 0, type |-> "FLOAT"]
Answer == [status : {"OK", "DEFERRED", "none"}, value : Word, type : BindType]

NoEntry == [set |-> FALSE, name |-> CHOOSE n \in Name : TRUE, scope |-> 0]
-----------------------------------------------------------------------------
(* Scopes and names. *)

\* A scope knows the scopes it lies in, itself included: the chain of `previous'
\* links.  An outer scope is made before an inner one, so its number is smaller.
NewScope(s, outer) == [chain |-> {s} \cup (IF outer = 0 THEN {} ELSE scopes[outer].chain),
                       bindings |-> <<>>]
Innermost(S) == CHOOSE s \in S : \A t \in S : t <= s
Outer(s) == LET around == scopes[s].chain \ {s}
            IN  IF around = {} THEN 0 ELSE Innermost(around)

\* resolveBinding: the scope, from s outwards, that binds the name, or 0.
Resolve(s, name) == LET binding == {t \in IF s = 0 THEN {} ELSE scopes[s].chain :
                                      name \in DOMAIN scopes[t].bindings}
                    IN  IF binding = {} THEN 0 ELSE Innermost(binding)

\* The binding of name in scope s, a function of names, set to b.
Rebind(s, name, b) ==
  scopes' = [scopes EXCEPT ![s].bindings = [n \in DOMAIN @ \cup {name} |-> IF n = name THEN b ELSE @[n]]]

Label(where) == [status |-> "DEFERRED", type |-> "INST_ADDR", value |-> 0,
                 kind |-> "label", expr |-> [type |-> "int", value |-> 0], location |-> where]
Const(e, where) == [status |-> "UNEVALUATED", type |-> "FLOAT", value |-> 0,
                    kind |-> "const", expr |-> e, location |-> where]
-----------------------------------------------------------------------------
(* The walk over the statements. *)

Frame(b, how) == [block |-> b, pass |-> 1, at |-> 1, as |-> how]
Current == calls[Len(calls)]
AtEnd == Current.at > Len(source[Current.block])
Stmt == source[Current.block][Current.at]
Where == <<Current.block, Current.at>>
Moved == [calls EXCEPT ![Len(calls)].at = @ + 1]
Files == Cardinality({i \in DOMAIN calls : calls[i].as # "scope"})

\* The walk stands, in the given pass, before a statement of one of the kinds.
At(pass, kinds) == /\ phase = "translate"
                   /\ Current.pass = pass
                   /\ ~AtEnd
                   /\ Stmt.kind \in kinds

Stop(how) == /\ phase' = how
             /\ UNCHANGED <<source, calls, scopes, scope, symbols, insts, deferredEntry, entry,
                            data, next, second, eval, answer>>

\* What no action of the walk changes.
Unevaluated == UNCHANGED <<source, entry, data, next, second, eval, answer>>

\* bindUnresolvedLocalScope and bindExprLocalScope.
Bind == /\ At(1, {"label", "const"})
        /\ LET bound == DOMAIN scopes[scope].bindings
           IN  \/ Cardinality(bound) >= BINDINGS_CAPACITY /\ Stop("aborted")
               \/ Cardinality(bound) < BINDINGS_CAPACITY /\ Stmt.name \in bound /\ Stop("failed")
               \/ /\ Cardinality(bound) < BINDINGS_CAPACITY
                  /\ Stmt.name \notin bound
                  /\ Rebind(scope, Stmt.name, IF Stmt.kind = "label" THEN Label(Where)
                                              ELSE Const(Stmt.value, Where))
                  /\ calls' = Moved
                  /\ UNCHANGED <<phase, scope, symbols, insts, deferredEntry>> /\ Unevaluated

\* An included file is translated, all of it, before the instructions around it.
\* Nothing bounds how deep files include files, except the C stack.
Include == /\ At(1, {"include"})
           /\ \/ Stmt.path \notin DOMAIN source /\ Stop("failed")
              \/ Stmt.path \in DOMAIN source /\ Files >= FrameCapacity /\ Stop("overrun")
              \/ /\ Stmt.path \in DOMAIN source
                 /\ Files < FrameCapacity
                 /\ calls' = Append(Moved, Frame(Stmt.path, "include"))
                 /\ UNCHANGED <<phase, scope, names>> /\ Unevaluated

Entry == /\ At(1, {"entry"})
         /\ \/ (deferredEntry.set \/ Stmt.value.type # "binding") /\ Stop("failed")
            \/ /\ ~deferredEntry.set
               /\ Stmt.value.type = "binding"
               /\ deferredEntry' = [set |-> TRUE, name |-> Stmt.value.name, scope |-> scope]
               /\ calls' = Moved
               /\ UNCHANGED <<phase, scope, scopes, symbols, insts>> /\ Unevaluated

\* Statements that are another pass's business.
PassBy == /\ At(1, {"scope", "inst"}) \/ At(2, {"const", "include", "entry"})
          /\ calls' = Moved
          /\ UNCHANGED <<phase, scope, names>> /\ Unevaluated

\* Mutant of SecondPass: it begins at the second statement.
SecondPassSkipsOne == /\ phase = "translate" /\ AtEnd /\ Current.pass = 1
                      /\ calls' = [calls EXCEPT ![Len(calls)].pass = 2, ![Len(calls)].at = 2]
                      /\ UNCHANGED <<phase, scope, names>> /\ Unevaluated
SecondPass == /\ phase = "translate" /\ AtEnd /\ Current.pass = 1
              /\ calls' = [calls EXCEPT ![Len(calls)].pass = 2, ![Len(calls)].at = 1]
              /\ UNCHANGED <<phase, scope, names>> /\ Unevaluated

\* Mutant of RoomFor: one instruction too many.
RoomForOneMore(n) == Len(insts) <= PROGRAM_CAPACITY /\ Len(symbols) + n <= LABELS_CAPACITY
RoomFor(n) == Len(insts) < PROGRAM_CAPACITY /\ Len(symbols) + n <= LABELS_CAPACITY

\* translateSasmInstruction, with pushUnresolvedOperand for each operand.
Emit == /\ At(2, {"inst"})
        /\ LET room == RoomFor(Len(Stmt.operands))
           IN  \/ ~room /\ Stop("aborted")
               \/ /\ room
                  /\ insts' = Append(insts, [op |-> Stmt.op, operand |-> 0, operand2 |-> 0,
                                             opr1IsReg |-> FALSE, opr2IsReg |-> FALSE])
                  /\ symbols' = symbols \o [k \in 1 .. Len(Stmt.operands) |->
                                  [addr |-> Len(insts) + 1, expr |-> Stmt.operands[k], scope |-> scope]]
                  /\ calls' = Moved
                  /\ UNCHANGED <<phase, scope, scopes, deferredEntry>> /\ Unevaluated

\* Mutant of PlaceLabel: the label names the instruction before it.
PlaceLabelEarly == /\ At(2, {"label"})
                   /\ LET s == Resolve(scope, Stmt.name)
                      IN  Rebind(s, Stmt.name, [scopes[s].bindings[Stmt.name] EXCEPT
                                                  !.status = "EVALUATED",
                                                  !.value = IF insts = <<>> THEN 0 ELSE Len(insts) - 1])
                   /\ calls' = Moved
                   /\ UNCHANGED <<phase, scope, symbols, insts, deferredEntry>> /\ Unevaluated
PlaceLabel == /\ At(2, {"label"})
              /\ LET s == Resolve(scope, Stmt.name)
                     placeable == s # 0 /\ scopes[s].bindings[Stmt.name].status = "DEFERRED"
                 IN  \/ ~placeable /\ Stop("broken")
                     \/ /\ placeable
                        /\ Rebind(s, Stmt.name, [scopes[s].bindings[Stmt.name] EXCEPT
                                                   !.status = "EVALUATED", !.value = Len(insts)])
                        /\ calls' = Moved
                        /\ UNCHANGED <<phase, scope, symbols, insts, deferredEntry>> /\ Unevaluated

OpenScope == /\ At(2, {"scope"})
             /\ scopes' = Append(scopes, NewScope(Len(scopes) + 1, scope))
             /\ scope' = Len(scopes) + 1
             /\ calls' = Append(Moved, Frame(Stmt.body, "scope"))
             /\ UNCHANGED <<phase, symbols, insts, deferredEntry>> /\ Unevaluated

\* The end of a chain: of a scope's body, which popScope closes, of an included
\* file, or of the root file, after which the operands are evaluated.  A file's
\* tree is drawn before it is left, and a drawing that fails is fatal.
Return == /\ phase = "translate" /\ AtEnd /\ Current.pass = 2
          /\ \/ Current.as # "scope" /\ Stop("failed")
             \/ /\ calls' = SubSeq(calls, 1, Len(calls) - 1)
                /\ scope' = IF Current.as = "include" THEN scope ELSE Outer(scope)
                /\ phase' = IF Current.as = "root" THEN "operands" ELSE phase
                /\ UNCHANGED names /\ Unevaluated
-----------------------------------------------------------------------------
(* Expressions. *)

Evaluating == phase = "operands" /\ eval # <<>>
Top == eval[Len(eval)]
Popped == SubSeq(eval, 1, Len(eval) - 1)
Todo(e) == [do |-> "expr", expr |-> e]
Wants(type) == Evaluating /\ answer = NoAnswer /\ Top.do = "expr" /\ Top.expr.type = type
Gets(do) == Evaluating /\ answer # NoAnswer /\ Top.do = do

\* What no step of an evaluation changes.
Walked == UNCHANGED <<source, phase, calls, scope, symbols, insts, deferredEntry, entry, next, second>>
Answers(a) == answer' = a /\ eval' = Popped

\* Mutant of BeginOperand: the scope stays where the walk has left it.
BeginOperandAnywhere ==
  /\ phase = "operands" /\ eval = <<>> /\ answer = NoAnswer /\ next <= Len(symbols)
  /\ eval' = <<Todo(symbols[next].expr)>>
  /\ scope' = 1
  /\ UNCHANGED <<source, phase, calls, names, entry, data, next, second, answer>>
\* resolveAllUnresolvedOperands, for its next operand.
BeginOperand ==
  /\ phase = "operands" /\ eval = <<>> /\ answer = NoAnswer /\ next <= Len(symbols)
  /\ eval' = <<Todo(symbols[next].expr)>>
  /\ scope' = IF second THEN scope ELSE symbols[next].scope
  /\ UNCHANGED <<source, phase, calls, names, entry, data, next, second, answer>>

Literal == /\ Wants("int") \/ Wants("reg")
           /\ Answers(OK(Top.expr.value, "UINT"))
           /\ Walked /\ UNCHANGED <<scopes, data>>

\* pushStringToMemory.
Reserved(n) == /\ memorySize' = n
               /\ memoryCapacity' = IF n > memoryCapacity THEN n ELSE memoryCapacity
Written(text) == [a \in MemoryAddr |-> IF a \in memorySize .. memorySize + Len(text) - 1
                                       THEN text[a - memorySize + 1] ELSE memory[a]]
String == /\ Wants("str")
          /\ LET text == Top.expr.text
             IN  \/ memorySize + Len(text) > MEMORY_CAPACITY /\ Stop("aborted")
                 \* The array of lengths is not checked.
                 \/ /\ memorySize + Len(text) <= MEMORY_CAPACITY
                    /\ Len(stringLens) >= STRING_LENGTHS_CAPACITY
                    /\ Stop("wild")
                 \/ /\ memorySize + Len(text) <= MEMORY_CAPACITY
                    /\ Len(stringLens) < STRING_LENGTHS_CAPACITY
                    /\ memory' = Written(text)
                    /\ Reserved(memorySize + Len(text))
                    /\ stringLens' = Append(stringLens, [addr |-> memorySize, length |-> Len(text)])
                    /\ Answers(OK(memorySize, "MEM_ADDR"))
                    /\ Walked /\ UNCHANGED scopes

\* Mutant of ToEvaluate: a constant is evaluated at every use.
ToEvaluateAgain(b) == b.kind = "const" /\ b.status # "EVALUATING"
ToEvaluate(b) == b.status = "UNEVALUATED"

\* evaluateBinding, in the scope of the operand being evaluated.
Named == /\ Wants("binding")
         /\ LET s == Resolve(scope, Top.expr.name)
                b == scopes[s].bindings[Top.expr.name]
            IN  \/ s = 0 /\ Stop("failed")
                \/ s # 0 /\ b.status = "EVALUATING" /\ Stop("failed")
                \/ /\ s # 0 /\ ToEvaluate(b)
                   /\ Rebind(s, Top.expr.name, [b EXCEPT !.status = "EVALUATING"])
                   /\ eval' = Popped \o <<[do |-> "bind", scope |-> s, name |-> Top.expr.name], Todo(b.expr)>>
                   /\ Walked /\ UNCHANGED <<data, answer>>
                \/ /\ s # 0 /\ b.status \in {"EVALUATED", "DEFERRED"}
                   /\ Answers(IF b.status = "EVALUATED" THEN OK(b.value, b.type) ELSE Deferred)
                   /\ Walked /\ UNCHANGED <<scopes, data>>

\* The rest of evaluateBinding: a deferred result leaves type and value alone,
\* but the status moves on.
Bound == /\ Gets("bind")
         /\ LET b == scopes[Top.scope].bindings[Top.name]
                done == [b EXCEPT !.status = "EVALUATED"]
            IN  Rebind(Top.scope, Top.name,
                       IF answer.status = "OK" THEN [done EXCEPT !.type = answer.type, !.value = answer.value]
                       ELSE done)
         /\ eval' = Popped
         /\ Walked /\ UNCHANGED <<data, answer>>

\* resolveFuncall up to its argument's evaluation, and the rest of it.  That the
\* argument of ref and val is a register is remarked on, not required.
Functions == {"len", "res", "ref", "val"}
Funcall == /\ Wants("funcall")
           /\ LET good == Top.expr.name \in Functions /\ Len(Top.expr.args) = 1
              IN  \/ ~good /\ Stop("failed")
                  \/ /\ good
                     /\ eval' = Popped \o <<[do |-> "call", name |-> Top.expr.name], Todo(Top.expr.args[1])>>
                     /\ Walked /\ UNCHANGED <<scopes, data, answer>>

\* The first string noted at an address is the one whose length counts.
LengthAt(a) == LET i == CHOOSE i \in DOMAIN stringLens :
                          /\ stringLens[i].addr = a
                          /\ \A j \in 1 .. i - 1 : stringLens[j].addr # a
               IN  stringLens[i].length
StringAt(a) == \E i \in DOMAIN stringLens : stringLens[i].addr = a

LengthOf == /\ Gets("call") /\ Top.name = "len"
        /\ \/ answer.status = "OK" /\ ~StringAt(answer.value) /\ Stop("failed")
           \/ /\ answer.status = "OK" => StringAt(answer.value)
              /\ Answers(IF answer.status = "OK" THEN OK(LengthAt(answer.value), "UINT") ELSE answer)
              /\ Walked /\ UNCHANGED <<scopes, data>>
\* Mutant of Res: the memory ends where the reservation's size says.
ResOverwrites == /\ Gets("call") /\ Top.name = "res"
                 /\ answer.value <= MEMORY_CAPACITY
                 /\ Reserved(answer.value)
                 /\ Answers(OK(memorySize, "UINT"))
                 /\ Walked /\ UNCHANGED <<scopes, memory, stringLens>>
Res == /\ Gets("call") /\ Top.name = "res"
       /\ LET size == Wrap(memorySize + answer.value)
          IN  \/ size > MEMORY_CAPACITY /\ Stop("aborted")
              \/ /\ size <= MEMORY_CAPACITY
                 /\ Reserved(size)
                 /\ Answers(OK(memorySize, "UINT"))
                 /\ Walked /\ UNCHANGED <<scopes, memory, stringLens>>
Ref == /\ Gets("call") /\ Top.name = "ref"
       /\ Answers(answer)
       /\ Walked /\ UNCHANGED <<scopes, data>>
Val == /\ Gets("call") /\ Top.name = "val"
       /\ Answers(IF answer.status = "OK" THEN OK(Wrap(answer.value + REG_COUNT), "UINT") ELSE answer)
       /\ Walked /\ UNCHANGED <<scopes, data>>

\* The instruction takes the value; its flags look at the first operand, both.
OfRegister(e) == e.type = "funcall" /\ e.args[1].type = "reg"
First == IF second THEN symbols[next - 1] ELSE symbols[next]
\* Mutant of StoreOperand: an instruction's second operand is begun at the next one.
StoreOperandAgain ==
  /\ phase = "operands" /\ eval = <<>> /\ answer # NoAnswer
  /\ next' = IF OperandCount[insts[First.addr].op] = 2 /\ ~second THEN next ELSE next + 1
  /\ UNCHANGED <<second, insts, source, phase, calls, scope, scopes, symbols, deferredEntry, entry, data, eval>>
  /\ answer' = NoAnswer
StoreOperand ==
  /\ phase = "operands" /\ eval = <<>> /\ answer # NoAnswer
  /\ \/ ~second /\ answer.status # "OK" /\ Stop("broken")
     \/ /\ second \/ answer.status = "OK"
        /\ insts' = IF second
                    THEN [insts EXCEPT ![First.addr].operand2 = answer.value,
                                       ![First.addr].opr2IsReg = OfRegister(First.expr)]
                    ELSE [insts EXCEPT ![First.addr].operand = answer.value,
                                       ![First.addr].opr1IsReg = OfRegister(First.expr)]
        /\ second' = (OperandCount[insts[First.addr].op] = 2 /\ ~second)
        /\ next' = next + 1
        /\ answer' = NoAnswer
        /\ UNCHANGED <<source, phase, calls, scope, scopes, symbols, deferredEntry, entry, data, eval>>

OperandsDone == /\ phase = "operands" /\ eval = <<>> /\ answer = NoAnswer /\ next > Len(symbols)
                /\ phase' = "entry"
                /\ scope' = 0
                /\ UNCHANGED <<source, calls, names, entry, data, next, second, eval, answer>>

\* resolveProgramEntryPoint.  Only a label, or a constant some operand has had
\* evaluated to a label, has the type it asks for, so there is nothing left to
\* evaluate.
ResolveEntry ==
  /\ phase = "entry"
  /\ LET s == Resolve(deferredEntry.scope, deferredEntry.name)
         b == scopes[s].bindings[deferredEntry.name]
     IN  IF ~deferredEntry.set THEN phase' = "assembled" /\ entry' = 0
         ELSE IF s = 0 \/ b.type # "INST_ADDR" THEN phase' = "failed" /\ UNCHANGED entry
         ELSE IF b.status # "EVALUATED" THEN phase' = "broken" /\ UNCHANGED entry
         ELSE phase' = "assembled" /\ entry' = b.value
  /\ UNCHANGED <<source, calls, scope, names, data, next, second, eval, answer>>
-----------------------------------------------------------------------------
Init == /\ source \in Sources
        /\ phase = "translate"
        /\ calls = <<Frame(Root, "root")>>
        /\ scopes = <<[chain |-> {1}, bindings |-> <<>>]>>
        /\ scope = 1
        /\ symbols = <<>>
        /\ insts = <<>>
        /\ deferredEntry = NoEntry
        /\ entry = 0
        /\ memory = [a \in MemoryAddr |-> 0]
        /\ memorySize = 0
        /\ memoryCapacity = 0
        /\ stringLens = <<>>
        /\ next = 1
        /\ second = FALSE
        /\ eval = <<>>
        /\ answer = NoAnswer

Next == \/ Bind \/ Include \/ Entry \/ PassBy \/ SecondPass \/ Emit \/ PlaceLabel \/ OpenScope \/ Return
        \/ BeginOperand \/ Literal \/ String \/ Named \/ Bound \/ Funcall \/ LengthOf \/ Res \/ Ref \/ Val
        \/ StoreOperand \/ OperandsDone \/ ResolveEntry

\* The assembler runs by itself, with nothing to wait for.
Spec == Init /\ [][Next]_vars /\ WF_vars(Next)
=============================================================================
