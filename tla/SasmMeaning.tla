----------------------------- MODULE SasmMeaning -----------------------------
(***************************************************************************)
(* What an assembled image should be, read off the source without running  *)
(* the assembler, and the properties of SasmAssembler that say it is.      *)
(***************************************************************************)
EXTENDS SasmAssembler, SequencesExt

Statement(where) == source[where[1]][where[2]]
Is(where, kind) == Statement(where).kind = kind

\* A block's instructions and labels in the order they come to lie in: those of
\* the files it includes, then its own, with each scope's body in its place; laid
\* is what the blocks it names come to.  Layout follows n blocks that lie in each
\* other.  A walk that ends has met no block inside itself, so that it needs no
\* more than there are.
OfFiles(b, laid) == [i \in 1 .. Len(source[b]) |->
  IF source[b][i].kind = "include" THEN laid[source[b][i].path] ELSE <<>>]
OfItsOwn(b, laid) == [i \in 1 .. Len(source[b]) |->
  CASE source[b][i].kind \in {"inst", "label"} -> << <<b, i>> >>
    [] source[b][i].kind = "scope" -> laid[source[b][i].body]
    [] OTHER -> <<>>]
LaysDown(b, laid) == FlattenSeq(OfFiles(b, laid)) \o FlattenSeq(OfItsOwn(b, laid))
Layout[n \in Nat] ==
  [b \in Block |-> IF n = 0 \/ b \notin DOMAIN source THEN <<>> ELSE LaysDown(b, Layout[n - 1])]
WholeLayout == Layout[Cardinality(DOMAIN source)][Root]

InstsOf(laid) == FlattenSeq([k \in 1 .. Len(laid) |-> IF Is(laid[k], "inst") THEN <<laid[k]>> ELSE <<>>])
OperandsOf(insns) == FlattenSeq([k \in 1 .. Len(insns) |->
  [j \in 1 .. Len(Statement(insns[k]).operands) |-> <<k, Statement(insns[k]).operands[j]>>]])

\* The instruction numbers a label statement may stand for: one for each time its
\* file is included.
Places(where, laid) == {Len(InstsOf(SubSeq(laid, 1, k - 1))) : k \in {j \in 1 .. Len(laid) : laid[j] = where}}

(***************************************************************************)
(* The meaning of an expression: v may be what e stands for in scope s.  A *)
(* string stands for any address where it is stored, a reservation for any *)
(* place with the room.  A constant stands for its expression in the scope *)
(* of an operand inside its own: the operand that wants it first.  Where   *)
(* no inner scope binds its expression's names again, that is its meaning  *)
(* in its own scope.  At most n constants are looked through, and there    *)
(* are only so many.                                                       *)
(***************************************************************************)
Inside(t) == {s \in DOMAIN scopes : t \in scopes[s].chain}
Constants == Cardinality(UNION {{<<t, n>> : n \in DOMAIN scopes[t].bindings} : t \in DOMAIN scopes})
Stored(a, text) == \A i \in 1 .. Len(text) : a + i - 1 < memorySize /\ memory[a + i - 1] = text[i]

\* What e may come to when its names are followed.
Bare[n \in Nat, e \in Expr, s \in Nat] ==
  LET t == Resolve(s, e.name)
      b == scopes[t].bindings[e.name]
  IN  IF e.type = "binding" /\ t # 0 /\ b.kind = "const"
      THEN IF n = 0 THEN {} ELSE UNION {Bare[n - 1, b.expr, u] : u \in Inside(t)}
      ELSE {e}

\* The length of a text.  An empty string shares its address with the next one,
\* whose length is then taken for 0.
IsLengthOf(v, text) ==
  \/ v = Len(text)
  \/ v = 0 /\ \E i \in DOMAIN stringLens : stringLens[i].length = 0 /\ Stored(stringLens[i].addr, text)

Means[n \in Nat, v \in Word, e \in Expr, s \in Nat] ==
  CASE e.type \in {"int", "reg"} -> v = e.value
    [] e.type = "str" -> Stored(v, e.text)
    [] e.type = "binding" ->
         LET t == Resolve(s, e.name)
             b == scopes[t].bindings[e.name]
         IN  /\ t # 0 /\ v = b.value
             /\ b.kind = "const" => n > 0 /\ \E u \in Inside(t) : Means[n - 1, v, b.expr, u]
    [] e.type = "funcall" ->
         CASE e.name = "ref" -> Means[n, v, e.args[1], s]
           [] e.name = "val" -> v >= REG_COUNT /\ Means[n, v - REG_COUNT, e.args[1], s]
           [] e.name = "len" -> \E b \in Bare[n, e.args[1], s] : b.type = "str" => IsLengthOf(v, b.text)
           [] e.name = "res" -> \E m \in Word : Means[n, m, e.args[1], s] /\ v + m <= memorySize

\* The operands noted: the second of an instruction, and the first it follows.
IsSecond(i) == i > 1 /\ symbols[i - 1].addr = symbols[i].addr
FirstOf(i) == symbols[IF IsSecond(i) THEN i - 1 ELSE i].expr
ValueOf(i) == LET inst == insts[symbols[i].addr] IN IF IsSecond(i) THEN inst.operand2 ELSE inst.operand
Flagged(i) == LET inst == insts[symbols[i].addr] IN IF IsSecond(i) THEN inst.opr2IsReg ELSE inst.opr1IsReg

\* Numbers that are no address: a reservation close to 2^64, such as res(-1), takes
\* memory back.
Ints[e \in Expr] == CASE e.type = "int" -> {e.value}
                      [] e.type = "funcall" -> UNION {Ints[e.args[i]] : i \in DOMAIN e.args}
                      [] OTHER -> {}
StmtInts(st) == CASE st.kind \in {"const", "entry"} -> Ints[st.value]
                  [] st.kind = "inst" -> UNION {Ints[st.operands[i]] : i \in DOMAIN st.operands}
                  [] OTHER -> {}
SmallNumbers == \A b \in DOMAIN source : \A i \in DOMAIN source[b] :
                  \A n \in StmtInts(source[b][i]) : n <= MEMORY_CAPACITY
-----------------------------------------------------------------------------
(* Properties. *)

(* Every variable has its type: pointers to scopes, operands and names lead    *)
(* somewhere, and everything stays within the arrays of Sasm.                  *)
Binding == [status : BindStatus, type : BindType, value : Word, kind : {"label", "const"},
            expr : Expr \cup {[type |-> "int", value |-> 0]}, location : Block \X (Nat \ {0})]
TypeOK ==
  /\ source \in Sources
  /\ phase \in Phases
  /\ \A i \in DOMAIN calls : /\ calls[i].block \in DOMAIN source
                             /\ calls[i].at \in 1 .. Len(source[calls[i].block]) + 1
                             /\ calls[i].pass \in {1, 2}
                             /\ calls[i].as = "root" <=> i = 1
  /\ Files <= FrameCapacity
  /\ \A s \in DOMAIN scopes : /\ s \in scopes[s].chain /\ scopes[s].chain \subseteq 1 .. s
                              /\ DOMAIN scopes[s].bindings \subseteq Name
                              /\ Cardinality(DOMAIN scopes[s].bindings) <= BINDINGS_CAPACITY
                              /\ \A n \in DOMAIN scopes[s].bindings : scopes[s].bindings[n] \in Binding
  /\ scope \in 0 .. Len(scopes)
  /\ Len(insts) <= PROGRAM_CAPACITY
  /\ \A k \in DOMAIN insts : insts[k] \in [op : Opcode, operand : Word, operand2 : Word,
                                           opr1IsReg : BOOLEAN, opr2IsReg : BOOLEAN]
  /\ Len(symbols) <= LABELS_CAPACITY
  /\ \A i \in DOMAIN symbols : symbols[i] \in [addr : DOMAIN insts, expr : Expr, scope : DOMAIN scopes]
  /\ deferredEntry \in [set : BOOLEAN, name : Name, scope : 0 .. Len(scopes)]
  /\ entry \in 0 .. Len(insts)
  /\ memory \in [MemoryAddr -> Char]
  /\ memorySize \in 0 .. MEMORY_CAPACITY /\ memoryCapacity \in memorySize .. MEMORY_CAPACITY
  /\ Len(stringLens) <= STRING_LENGTHS_CAPACITY
  /\ next \in 1 .. Len(symbols) + 1 /\ second \in BOOLEAN /\ (second => next > 1)
  /\ answer \in Answer

\* The instructions and the operands noted are those of the layout.
LaidOut(laid) ==
  /\ [k \in DOMAIN insts |-> insts[k].op] = [k \in 1 .. Len(InstsOf(laid)) |-> Statement(InstsOf(laid)[k]).op]
  /\ [i \in DOMAIN symbols |-> <<symbols[i].addr, symbols[i].expr>>] = OperandsOf(InstsOf(laid))

(* Once the walk is over, however files and scopes are nested and whatever     *)
(* comes first, the instructions lie in the source's order, the operands noted *)
(* are theirs, and every label is evaluated to the number of the instruction   *)
(* behind it.                                                                  *)
ProgramIsLaidOut ==
  phase \in {"operands", "entry", "assembled"} =>
    /\ LaidOut(WholeLayout)
    /\ \A s \in DOMAIN scopes : \A n \in DOMAIN scopes[s].bindings :
         LET b == scopes[s].bindings[n]
         IN  b.kind = "label" => b.status = "EVALUATED" /\ b.value \in Places(b.location, WholeLayout)

(* What the assembler takes for granted of its own passes holds whatever the   *)
(* files, scopes and names: a label met again is still to be placed, and no    *)
(* operand or entry point is deferred when it is asked for.                    *)
AssertionsHold == phase # "broken"

(* The operands and the entry point of an assembled image mean what their      *)
(* expressions mean, although constants are evaluated late, once, in an order  *)
(* of the operands' making and in their scopes, and move memory as they are.   *)
(* The machine fetches an operand from a register if it is flagged and above   *)
(* REG_COUNT.  Both of an instruction's flags follow its first operand: where  *)
(* that is a function of a register, a val is flagged in either place, and a   *)
(* second operand that is none is fetched as well if it is above REG_COUNT.    *)
(* Where it is not, a val in the second place is not fetched, and neither is   *)
(* one behind a constant's name: the machine takes its number as it stands.    *)
ImageMeansItsSource ==
  phase = "assembled" /\ SmallNumbers =>
    /\ \A i \in DOMAIN symbols :
         LET e == symbols[i].expr
         IN  /\ Means[Constants, ValueOf(i), e, symbols[i].scope]
             /\ Flagged(i) <=> OfRegister(FirstOf(i))
    /\ IF deferredEntry.set
       THEN LET s == Resolve(deferredEntry.scope, deferredEntry.name)
            IN  s # 0 /\ entry = scopes[s].bindings[deferredEntry.name].value
       ELSE entry = 0

(* A constant is evaluated once: whatever evaluations come later, and however  *)
(* they nest, it keeps the value and the type its first use has given it.      *)
EvaluatedOnce ==
  [][\A s \in DOMAIN scopes : \A n \in DOMAIN scopes[s].bindings :
       scopes[s].bindings[n].status = "EVALUATED" =>
         scopes'[s].bindings[n] = scopes[s].bindings[n]]_vars

(* Memory handed to a string or a reservation is never handed out again, and   *)
(* the bytes there stay.  Only a reservation so large that the sum wraps, such *)
(* as res(-1), takes memory back: the check of the capacity comes after it.    *)
MemoryOnlyGrows ==
  [][/\ \A a \in MemoryAddr : a < memorySize => memory'[a] = memory[a]
     /\ memorySize' < memorySize =>
          Gets("call") /\ Top.name = "res" /\ memorySize + answer.value >= WordSize]_vars

(* Every assembly ends, well or badly: constants that need each other are      *)
(* noticed, and files that include each other use up the stack.                *)
AssemblyEnds == <>(phase \in Ended)

(* What resolveFuncall says of ref and val: "ref expects a register", "val     *)
(* expects a register".                                                        *)
RefAndValTakeRegisters ==
  phase = "assembled" =>
    \A i \in DOMAIN symbols :
      LET e == symbols[i].expr
      IN  e.type = "funcall" /\ e.name \in {"ref", "val"} => e.args[1].type = "reg"
=============================================================================
