------------------------- MODULE SasmAssemblerProofs -------------------------
(***************************************************************************)
(* The SASM assembler, for all sources, all names and expressions and      *)
(* arrays of any size: everything stays within its array and every pointer *)
(* leads somewhere; what the assembler asserts of its own passes holds; a  *)
(* constant is evaluated once; and memory handed out is kept.              *)
(***************************************************************************)
EXTENDS SasmMeaning, Induction, FiniteSetTheorems

-----------------------------------------------------------------------------
(* The inductive invariant, one part for each group of variables.              *)
NoExpr == [type |-> "int", value |-> 0]
BindingMaps == UNION {[D -> Binding] : D \in SUBSET Name}
ScopeRec == [chain : SUBSET Nat, bindings : BindingMaps]
CallRec == [block : Block, pass : {1, 2}, at : Nat, as : {"root", "include", "scope"}]
InstRec == [op : Opcode, operand : Word, operand2 : Word, opr1IsReg : BOOLEAN, opr2IsReg : BOOLEAN]
SymbolRec == [addr : Nat, expr : Expr, scope : Nat]
EvalRec == [do : {"expr"}, expr : Expr \cup {NoExpr}]
           \cup [do : {"bind"}, scope : Nat, name : Name] \cup [do : {"call"}, name : STRING]

\* The walk's calls stand inside the source.
CallOK(i, c) == /\ c.block \in DOMAIN source
                /\ c.at \in 1 .. Len(source[c.block]) + 1
                /\ c.as = "root" <=> i = 1
WalkOK == /\ source \in Sources /\ phase \in Phases
          /\ calls \in Seq(CallRec)
          /\ \A i \in 1 .. Len(calls) : CallOK(i, calls[i])
          /\ Files <= FrameCapacity
          /\ phase = "translate" => calls # <<>>

\* A binding not yet evaluated has no type but the one it was made with, and a
\* label's number is that of an instruction, or the one behind the last.
BindingOK(b, size) == /\ b.status \in {"UNEVALUATED", "EVALUATING"} => b.type = "FLOAT"
                      /\ b.type = "INST_ADDR" => b.value <= size
ScopeOK(s, sc, size) == /\ s \in sc.chain /\ sc.chain \subseteq 1 .. s
                        /\ IsFiniteSet(DOMAIN sc.bindings)
                        /\ Cardinality(DOMAIN sc.bindings) <= BINDINGS_CAPACITY
                        /\ \A n \in DOMAIN sc.bindings : BindingOK(sc.bindings[n], size)
ScopesOK == /\ scopes \in Seq(ScopeRec)
            /\ \A s \in 1 .. Len(scopes) : ScopeOK(s, scopes[s], Len(insts))
            /\ scope \in 0 .. Len(scopes)
            /\ deferredEntry \in [set : BOOLEAN, name : Name, scope : 0 .. Len(scopes)]

CodeOK == /\ insts \in Seq(InstRec) /\ Len(insts) <= PROGRAM_CAPACITY
          /\ symbols \in Seq(SymbolRec) /\ Len(symbols) <= LABELS_CAPACITY
          /\ \A i \in 1 .. Len(symbols) : symbols[i].addr \in 1 .. Len(insts)
                                          /\ symbols[i].scope \in 1 .. Len(scopes)
          /\ entry \in 0 .. Len(insts)

DataOK == /\ memory \in [MemoryAddr -> Char]
          /\ memorySize \in 0 .. MEMORY_CAPACITY /\ memoryCapacity \in memorySize .. MEMORY_CAPACITY
          /\ stringLens \in Seq([addr : Word, length : Word])
          /\ Len(stringLens) <= STRING_LENGTHS_CAPACITY

\* The constants being evaluated are marked, each once.
Marked(f) == /\ f.scope \in 1 .. Len(scopes)
             /\ f.name \in DOMAIN scopes[f.scope].bindings
             /\ scopes[f.scope].bindings[f.name].status = "EVALUATING"
EvalOK == /\ next \in 1 .. Len(symbols) + 1 /\ second \in BOOLEAN /\ (second => next > 1)
          /\ eval # <<>> \/ answer # NoAnswer => next <= Len(symbols)
          /\ eval \in Seq(EvalRec)
          /\ answer \in Answer
          /\ answer = NoAnswer \/ answer.status = "OK"
          /\ answer.type = "INST_ADDR" => answer.value <= Len(insts)
MarksOK == /\ \A i \in 1 .. Len(eval) : eval[i].do = "bind" => Marked(eval[i])
           /\ \A i, j \in 1 .. Len(eval) :
                eval[i].do = "bind" /\ eval[j].do = "bind" /\ eval[i] = eval[j] => i = j

\* While the walk lasts each call has its scope, in which the labels that it has
\* bound and not yet placed are marked, each once, and no other label is.
Pending(c) == {k \in 1 .. Len(source[c.block]) :
                 source[c.block][k].kind = "label" /\ (c.pass = 1 <=> k < c.at)}
InScopes(of) ==
  /\ of \in [1 .. Len(calls) -> 1 .. Len(scopes)]
  /\ of[Len(calls)] = scope
  /\ \A i \in 1 .. Len(calls) : i # 1 =>
       of[i - 1] = IF calls[i].as = "scope" THEN Outer(of[i]) ELSE of[i]
PendingAt(i) == Pending(calls[i])
LabelAt(i, k) == source[calls[i].block][k].name
BoundIn(s) == scopes[s].bindings
Awaits(b, where) == b.status = "DEFERRED" /\ b.location = where
LabelsAwaited(of) ==
  /\ \A i \in 1 .. Len(calls) : \A k \in PendingAt(i) :
       /\ LabelAt(i, k) \in DOMAIN BoundIn(of[i])
       /\ Awaits(BoundIn(of[i])[LabelAt(i, k)], <<calls[i].block, k>>)
  /\ \A i, j \in 1 .. Len(calls) : \A k \in PendingAt(i), l \in PendingAt(j) :
       of[i] = of[j] /\ LabelAt(i, k) = LabelAt(j, l) => i = j /\ k = l
  /\ \A s \in 1 .. Len(scopes) : \A n \in DOMAIN BoundIn(s) :
       BoundIn(s)[n].status = "DEFERRED" =>
         \E i \in 1 .. Len(calls) : of[i] = s /\ \E k \in PendingAt(i) : LabelAt(i, k) = n
NoneDeferred == \A s \in 1 .. Len(scopes) : \A n \in DOMAIN scopes[s].bindings :
                  scopes[s].bindings[n].status # "DEFERRED"
PassesOK == /\ phase = "translate" => \E of : InScopes(of) /\ LabelsAwaited(of)
            /\ phase \in {"operands", "entry"} => NoneDeferred
            /\ phase # "broken"

AssemblerInv == WalkOK /\ ScopesOK /\ CodeOK /\ DataOK /\ EvalOK /\ MarksOK /\ PassesOK
-----------------------------------------------------------------------------
(* The source.                                                                 *)
LEMMA BlockFacts ==
  ASSUME source \in Sources, NEW b \in DOMAIN source
  PROVE  /\ b \in Block
         /\ Len(source[b]) \in Nat /\ DOMAIN source[b] = 1 .. Len(source[b])
         /\ \A i \in 1 .. Len(source[b]) :
              /\ StmtShape(source[b][i])
              /\ source[b][i].kind = "scope" => source[b][i].body \in DOMAIN source
<1>1. source[b] \in Seq({source[b][i] : i \in DOMAIN source[b]})
  BY SourceAssumption
<1>2. Len(source[b]) \in Nat /\ DOMAIN source[b] = 1 .. Len(source[b])
  BY <1>1, LenProperties
<1> QED BY <1>2, SourceAssumption

(* What the walk stands before.                                                *)
LEMMA CurrentFacts ==
  ASSUME WalkOK, phase = "translate"
  PROVE  /\ Len(calls) \in Nat \ {0} /\ Current \in CallRec /\ Len(calls) \in 1 .. Len(calls)
         /\ Current.block \in DOMAIN source
         /\ Len(source[Current.block]) \in Nat
         /\ Current.at \in 1 .. Len(source[Current.block]) + 1
         /\ ~AtEnd => /\ Current.at \in 1 .. Len(source[Current.block])
                      /\ StmtShape(Stmt)
                      /\ Stmt.kind = "scope" => Stmt.body \in DOMAIN source
                      /\ Where \in Block \X (Nat \ {0})
<1>1. calls \in Seq(CallRec) /\ calls # <<>>
  BY DEF WalkOK
<1>2. Len(calls) \in Nat \ {0} /\ Len(calls) \in 1 .. Len(calls)
  BY <1>1, EmptySeq, LenProperties
<1>3. Current \in CallRec
  BY <1>1, <1>2, ElementOfSeq DEF Current
<1>4. Current.block \in DOMAIN source /\ Current.at \in 1 .. Len(source[Current.block]) + 1
  BY <1>2 DEF WalkOK, CallOK, Current
<1>5. /\ Current.block \in Block
      /\ Len(source[Current.block]) \in Nat
      /\ \A i \in 1 .. Len(source[Current.block]) :
           /\ StmtShape(source[Current.block][i])
           /\ source[Current.block][i].kind = "scope" => source[Current.block][i].body \in DOMAIN source
  BY <1>4, BlockFacts DEF WalkOK
<1>6. ~AtEnd => Current.at \in 1 .. Len(source[Current.block]) /\ Current.at \in Nat \ {0}
  BY <1>4, <1>5 DEF AtEnd
<1> QED BY <1>2, <1>3, <1>4, <1>5, <1>6 DEF Stmt, Where
-----------------------------------------------------------------------------
(* Scopes.                                                                     *)
LEMMA InnermostIsGreatest ==
  ASSUME NEW n \in Nat, NEW S, S \subseteq 1 .. n, S # {}
  PROVE  Innermost(S) \in S /\ \A t \in S : t <= Innermost(S)
<1> DEFINE T == {k \in Nat : \E s \in S : k = n - s}
<1>1. T \subseteq Nat /\ T # {}
  <2>1. PICK s \in S : s \in 1 .. n
    OBVIOUS
  <2>2. n - s \in T
    BY <2>1
  <2> QED BY <2>2
<1> HIDE DEF T
<1>2. PICK m \in T : \A k \in T : m <= k
  BY <1>1, LeastNatural
<1>3. PICK s \in S : m = n - s
  BY <1>2 DEF T
<1>4. \A t \in S : t <= s
  <2> TAKE t \in S
  <2>1. n - t \in T
    BY DEF T
  <2>2. n - s <= n - t /\ s \in Int /\ t \in Int
    BY <1>2, <1>3, <2>1
  <2> QED BY <2>2
<1> QED BY <1>4 DEF Innermost

LEMMA ScopeFacts ==
  ASSUME ScopesOK, NEW s \in 1 .. Len(scopes)
  PROVE  /\ Len(scopes) \in Nat /\ s \in Nat \ {0}
         /\ scopes[s] \in ScopeRec
         /\ s \in scopes[s].chain /\ scopes[s].chain \subseteq 1 .. s /\ scopes[s].chain \subseteq 1 .. Len(scopes)
         /\ DOMAIN scopes[s].bindings \subseteq Name
         /\ \A n \in DOMAIN scopes[s].bindings : scopes[s].bindings[n] \in Binding
                                                 /\ BindingOK(scopes[s].bindings[n], Len(insts))
<1>1. Len(scopes) \in Nat /\ scopes[s] \in ScopeRec
  BY LenProperties, ElementOfSeq DEF ScopesOK
<1>2. scopes[s].bindings \in BindingMaps
  BY <1>1 DEF ScopeRec
<1>3. PICK D \in SUBSET Name : scopes[s].bindings \in [D -> Binding]
  BY <1>2 DEF BindingMaps
<1> QED BY <1>1, <1>3 DEF ScopesOK, ScopeOK

(* A name is bound in the scope it is found in, and found in a scope that      *)
(* binds it.                                                                   *)
LEMMA ResolveFacts ==
  ASSUME ScopesOK, NEW s \in 0 .. Len(scopes), NEW name
  PROVE  /\ Resolve(s, name) # 0 => /\ Resolve(s, name) \in 1 .. Len(scopes)
                                    /\ name \in DOMAIN scopes[Resolve(s, name)].bindings
         /\ s # 0 /\ name \in DOMAIN scopes[s].bindings => Resolve(s, name) = s
<1> DEFINE S == {t \in IF s = 0 THEN {} ELSE scopes[s].chain : name \in DOMAIN scopes[t].bindings}
<1>1. Resolve(s, name) = IF S = {} THEN 0 ELSE Innermost(S)
  BY DEF Resolve
<1>2. CASE s = 0
  BY <1>1, <1>2
<1>3. CASE s # 0
  <2>1. s \in 1 .. Len(scopes)
    BY <1>3
  <2>2. /\ s \in Nat /\ s \in scopes[s].chain /\ scopes[s].chain \subseteq 1 .. s
        /\ scopes[s].chain \subseteq 1 .. Len(scopes)
    BY <2>1, ScopeFacts
  <2>3. S \subseteq 1 .. s /\ S \subseteq 1 .. Len(scopes) /\ \A t \in S : name \in DOMAIN scopes[t].bindings
    BY <1>3, <2>2
  <2>4. name \in DOMAIN scopes[s].bindings => s \in S
    BY <1>3, <2>2
  <2> HIDE DEF S
  <2>5. S # {} => Innermost(S) \in S /\ \A t \in S : t <= Innermost(S)
    BY <2>2, <2>3, InnermostIsGreatest
  <2>6. ASSUME s \in S PROVE Innermost(S) = s
    <3>1. PICK t : t = Innermost(S)
      OBVIOUS
    <3>2. t \in S /\ s <= t
      BY <2>5, <2>6, <3>1
    <3>3. t \in 1 .. s
      BY <2>3, <3>2
    <3> QED BY <2>2, <3>1, <3>2, <3>3
  <2>7. 0 \notin S
    BY <2>3
  <2> QED BY <1>1, <1>3, <2>3, <2>4, <2>5, <2>6, <2>7
<1> QED BY <1>2, <1>3

LEMMA OuterFacts ==
  ASSUME ScopesOK, NEW s \in 1 .. Len(scopes)
  PROVE  Outer(s) \in 0 .. Len(scopes)
<1> DEFINE S == scopes[s].chain \ {s}
<1>1. S \subseteq 1 .. Len(scopes) /\ Len(scopes) \in Nat
  BY ScopeFacts
<1>2. S # {} => Innermost(S) \in S
  <2> HIDE DEF S
  <2> QED BY <1>1, InnermostIsGreatest
<1> QED BY <1>1, <1>2 DEF Outer

(* A binding set in a scope, and everything else as it was.                    *)
Rebound(s, name, b) ==
  /\ Len(scopes') = Len(scopes)
  /\ \A t \in 1 .. Len(scopes) : scopes'[t].chain = scopes[t].chain /\ (t # s => scopes'[t] = scopes[t])
  /\ DOMAIN scopes'[s].bindings = DOMAIN scopes[s].bindings \cup {name}
  /\ \A n \in DOMAIN scopes'[s].bindings :
       scopes'[s].bindings[n] = IF n = name THEN b ELSE scopes[s].bindings[n]

LEMMA RebindKeeps ==
  ASSUME ScopesOK, NEW s \in 1 .. Len(scopes), NEW name \in Name, NEW b \in Binding,
         BindingOK(b, Len(insts)), Rebind(s, name, b),
         name \in DOMAIN scopes[s].bindings \/ Cardinality(DOMAIN scopes[s].bindings) < BINDINGS_CAPACITY,
         UNCHANGED <<scope, deferredEntry>>, Len(insts') = Len(insts)
  PROVE  ScopesOK' /\ Rebound(s, name, b)
<1> DEFINE old == scopes[s].bindings
           new == [n \in DOMAIN old \cup {name} |-> IF n = name THEN b ELSE old[n]]
           sc == [scopes[s] EXCEPT !.bindings = new]
<1>1. /\ scopes \in Seq(ScopeRec) /\ scopes[s] \in ScopeRec
      /\ DOMAIN old \subseteq Name /\ \A n \in DOMAIN old : old[n] \in Binding /\ BindingOK(old[n], Len(insts))
      /\ scope \in 0 .. Len(scopes) /\ deferredEntry \in [set : BOOLEAN, name : Name, scope : 0 .. Len(scopes)]
  BY ScopeFacts DEF ScopesOK
<1>2. scopes' = [scopes EXCEPT ![s] = sc]
  BY DEF Rebind
<1>3. new \in BindingMaps
  <2>1. new \in [DOMAIN old \cup {name} -> Binding] /\ DOMAIN old \cup {name} \in SUBSET Name
    BY <1>1
  <2> HIDE DEF new
  <2> QED BY <2>1 DEF BindingMaps
<1>4. /\ \A n \in DOMAIN new : new[n] = IF n = name THEN b ELSE old[n]
      /\ DOMAIN new = DOMAIN old \cup {name}
  OBVIOUS
<1> HIDE DEF new
<1>5. sc \in ScopeRec /\ sc.chain = scopes[s].chain /\ sc.bindings = new
  BY <1>1, <1>3 DEF ScopeRec
<1> HIDE DEF sc
<1>6. /\ scopes' \in Seq(ScopeRec) /\ Len(scopes') = Len(scopes)
      /\ \A t \in 1 .. Len(scopes) : scopes'[t] = IF t = s THEN sc ELSE scopes[t]
  BY <1>1, <1>2, <1>5, ExceptSeq
<1>7. ScopeOK(s, sc, Len(insts))
  <2>1. IsFiniteSet(DOMAIN old) /\ Cardinality(DOMAIN old) <= BINDINGS_CAPACITY
    BY DEF ScopesOK, ScopeOK
  <2>2. IsFiniteSet(DOMAIN new) /\ Cardinality(DOMAIN new) <= BINDINGS_CAPACITY
    <3>1. CASE name \in DOMAIN old
      <4>1. DOMAIN new = DOMAIN old
        BY <1>4, <3>1
      <4> QED BY <2>1, <4>1
    <3>2. CASE name \notin DOMAIN old
      <4>1. IsFiniteSet(DOMAIN new) /\ Cardinality(DOMAIN new) = Cardinality(DOMAIN old) + 1
        BY <1>4, <2>1, <3>2, FS_AddElement
      <4>2. Cardinality(DOMAIN old) \in Nat /\ BINDINGS_CAPACITY \in Nat
        BY <2>1, FS_CardinalityType, SizesAssumption
      <4> QED BY <3>2, <4>1, <4>2
    <3> QED BY <3>1, <3>2
  <2>3. \A n \in DOMAIN new : BindingOK(new[n], Len(insts))
    BY <1>1, <1>4
  <2> QED BY <1>5, <2>2, <2>3 DEF ScopesOK, ScopeOK
<1>8. \A t \in 1 .. Len(scopes) : ScopeOK(t, scopes'[t], Len(insts'))
  BY <1>6, <1>7 DEF ScopesOK
<1>9. ScopesOK'
  BY <1>1, <1>6, <1>8 DEF ScopesOK
<1> QED BY <1>4, <1>5, <1>6, <1>9 DEF Rebound
-----------------------------------------------------------------------------
(* Calls.                                                                      *)
FileSet(c) == {i \in DOMAIN c : c[i].as # "scope"}

LEMMA MovedFacts ==
  ASSUME WalkOK, phase = "translate", ~AtEnd
  PROVE  /\ Moved \in Seq(CallRec) /\ Len(Moved) = Len(calls)
         /\ \A i \in 1 .. Len(calls) : /\ CallOK(i, Moved[i])
                                       /\ i # Len(calls) => Moved[i] = calls[i]
         /\ Moved[Len(calls)] = [Current EXCEPT !.at = @ + 1]
         /\ FileSet(Moved) = FileSet(calls)
<1> DEFINE c == [Current EXCEPT !.at = @ + 1]
<1>1. /\ calls \in Seq(CallRec) /\ Len(calls) \in 1 .. Len(calls) /\ Current \in CallRec
      /\ Current.block \in DOMAIN source
      /\ Current.at \in 1 .. Len(source[Current.block]) /\ Len(source[Current.block]) \in Nat
  BY CurrentFacts DEF WalkOK
<1>2. c \in CallRec /\ c.block = Current.block /\ c.as = Current.as /\ c.at = Current.at + 1
  BY <1>1 DEF CallRec
<1>3. Moved = [calls EXCEPT ![Len(calls)] = c]
  BY DEF Moved, Current
<1> HIDE DEF c
<1>4. /\ Moved \in Seq(CallRec) /\ Len(Moved) = Len(calls)
      /\ \A i \in 1 .. Len(calls) : Moved[i] = IF i = Len(calls) THEN c ELSE calls[i]
  BY <1>1, <1>2, <1>3, ExceptSeq
<1>5. \A i \in 1 .. Len(calls) : CallOK(i, Moved[i]) /\ Moved[i].as = calls[i].as
  <2> TAKE i \in 1 .. Len(calls)
  <2>1. CASE i = Len(calls)
    BY <1>1, <1>2, <1>4, <2>1 DEF WalkOK, CallOK, Current
  <2>2. CASE i # Len(calls)
    BY <1>4, <2>2 DEF WalkOK
  <2> QED BY <2>1, <2>2
<1>6. FileSet(Moved) = FileSet(calls)
  BY <1>1, <1>4, <1>5, LenProperties DEF FileSet
<1> QED BY <1>1, <1>4, <1>5, <1>6 DEF c

LEMMA MovedKeeps ==
  ASSUME WalkOK, phase = "translate", ~AtEnd, calls' = Moved, UNCHANGED <<source, phase>>
  PROVE  WalkOK'
<1>1. /\ calls' \in Seq(CallRec) /\ Len(calls') = Len(calls) /\ Len(calls) \in Nat \ {0}
      /\ \A i \in 1 .. Len(calls) : CallOK(i, calls'[i])
      /\ FileSet(calls') = FileSet(calls)
  BY MovedFacts, CurrentFacts
<1>2. Files' = Files
  BY <1>1 DEF Files, FileSet
<1>3. calls' # <<>>
  BY <1>1, EmptySeq
<1>4. \A i \in 1 .. Len(calls') : CallOK(i, calls[i])'
  BY <1>1 DEF CallOK
<1> QED BY <1>1, <1>2, <1>3, <1>4 DEF WalkOK

LEMMA CallKeeps ==
  ASSUME WalkOK, phase = "translate", ~AtEnd, UNCHANGED <<source, phase>>,
         NEW b \in DOMAIN source, NEW how \in {"include", "scope"},
         how = "include" => Files < FrameCapacity,
         calls' = Append(Moved, Frame(b, how))
  PROVE  /\ WalkOK' /\ Len(calls') = Len(calls) + 1
         /\ \A i \in 1 .. Len(calls) : calls'[i] = Moved[i]
         /\ calls'[Len(calls) + 1] = Frame(b, how)
<1> DEFINE c == Frame(b, how)
<1>1. /\ Moved \in Seq(CallRec) /\ Len(Moved) = Len(calls) /\ Len(calls) \in Nat \ {0}
      /\ \A i \in 1 .. Len(calls) : CallOK(i, Moved[i])
      /\ FileSet(Moved) = FileSet(calls)
  BY MovedFacts, CurrentFacts
<1>2. c \in CallRec /\ c.block = b /\ c.at = 1 /\ c.as = how
  BY BlockFacts DEF Frame, CallRec, WalkOK
<1>3. CallOK(Len(calls) + 1, c)
  <2>1. Len(source[b]) \in Nat
    BY BlockFacts DEF WalkOK
  <2> QED BY <1>1, <1>2, <2>1 DEF CallOK
<1> HIDE DEF c
<1>4. /\ calls' \in Seq(CallRec) /\ Len(calls') = Len(calls) + 1
      /\ \A i \in 1 .. Len(calls) : calls'[i] = Moved[i]
      /\ calls'[Len(calls) + 1] = c
  BY <1>1, <1>2, AppendProperties DEF c
<1>5. DOMAIN calls' = 1 .. Len(calls) + 1 /\ DOMAIN Moved = 1 .. Len(calls)
  BY <1>1, <1>4, LenProperties
<1>6. \A i \in 1 .. Len(calls') : CallOK(i, calls[i])'
  <2> TAKE i \in 1 .. Len(calls')
  <2>1. CallOK(i, calls'[i])
    BY <1>1, <1>3, <1>4
  <2> QED BY <2>1 DEF CallOK
<1>7. Files' <= FrameCapacity
  <2>1. Files = Cardinality(FileSet(Moved)) /\ Files' = Cardinality(FileSet(calls'))
    BY <1>1 DEF Files, FileSet
  <2>2. FileSet(calls') = IF how = "scope" THEN FileSet(Moved) ELSE FileSet(Moved) \cup {Len(calls) + 1}
    BY <1>1, <1>2, <1>4, <1>5 DEF FileSet
  <2>3. IsFiniteSet(FileSet(Moved)) /\ Len(calls) + 1 \notin FileSet(Moved)
    <3>1. IsFiniteSet(1 .. Len(calls))
      BY <1>1, FS_Interval
    <3> QED BY <1>1, <1>5, <3>1, FS_Subset DEF FileSet
  <2>4. Cardinality(FileSet(Moved) \cup {Len(calls) + 1}) = Cardinality(FileSet(Moved)) + 1
    BY <2>3, FS_AddElement
  <2>5. Files \in Nat /\ Files <= FrameCapacity /\ FrameCapacity \in Nat
    BY <2>1, <2>3, FS_CardinalityType, SizesAssumption DEF WalkOK
  <2> QED BY <2>1, <2>2, <2>4, <2>5
<1>8. calls' # <<>>
  BY <1>1, <1>4, EmptySeq
<1> QED BY <1>4, <1>6, <1>7, <1>8 DEF WalkOK, c
-----------------------------------------------------------------------------
(* What an action leaves alone keeps its part of the invariant.                *)
LEMMA CodeStays ==
  ASSUME CodeOK, UNCHANGED <<insts, symbols, entry>>, Len(scopes') \in Nat, Len(scopes) <= Len(scopes'),
         Len(scopes) \in Nat
  PROVE  CodeOK'
BY DEF CodeOK

LEMMA DataStays ==
  ASSUME DataOK, UNCHANGED data
  PROVE  DataOK'
BY DEF DataOK, data

LEMMA EvalStays ==
  ASSUME EvalOK, UNCHANGED <<next, second, eval, answer>>,
         Len(symbols) \in Nat, Len(symbols') \in Nat, Len(symbols) <= Len(symbols'),
         Len(insts) \in Nat, Len(insts') \in Nat, Len(insts) <= Len(insts')
  PROVE  EvalOK'
<1>1. next \in 1 .. Len(symbols') + 1 /\ (eval # <<>> \/ answer # NoAnswer => next <= Len(symbols'))
  BY DEF EvalOK
<1>2. answer.type = "INST_ADDR" => answer.value <= Len(insts')
  BY DEF EvalOK, Answer, Word
<1> QED BY <1>1, <1>2 DEF EvalOK

LEMMA MarksStay ==
  ASSUME MarksOK, UNCHANGED eval,
         \A i \in 1 .. Len(eval) : eval[i].do = "bind" /\ Marked(eval[i]) => Marked(eval[i])'
  PROVE  MarksOK'
BY DEF MarksOK

(* A name bound anew, or a binding changed that is not being evaluated, leaves *)
(* the constants being evaluated marked.                                       *)
LEMMA MarkedElsewhere ==
  ASSUME NEW s \in 1 .. Len(scopes), NEW name, NEW b, Rebound(s, name, b), NEW f, Marked(f),
         f.scope # s \/ f.name # name
  PROVE  /\ f.scope \in 1 .. Len(scopes') /\ f.name \in DOMAIN scopes'[f.scope].bindings
         /\ scopes'[f.scope].bindings[f.name] = scopes[f.scope].bindings[f.name]
<1>1. CASE f.scope # s
  BY <1>1 DEF Rebound, Marked
<1>2. CASE f.scope = s
  BY <1>2 DEF Rebound, Marked
<1> QED BY <1>1, <1>2

LEMMA MarksStayElsewhere ==
  ASSUME MarksOK, UNCHANGED eval, NEW s \in 1 .. Len(scopes), NEW name, NEW b, Rebound(s, name, b),
         name \in DOMAIN scopes[s].bindings => scopes[s].bindings[name].status # "EVALUATING"
  PROVE  MarksOK'
<1>1. ASSUME NEW i \in 1 .. Len(eval), eval[i].do = "bind", Marked(eval[i])
      PROVE  Marked(eval[i])'
  <2>1. eval[i].scope # s \/ eval[i].name # name
    BY <1>1 DEF Marked
  <2> QED BY <1>1, <2>1, MarkedElsewhere DEF Marked
<1> QED BY <1>1, MarksStay

LEMMA StopKeeps ==
  ASSUME AssemblerInv, NEW how \in Ended \ {"broken"}, Stop(how)
  PROVE  AssemblerInv'
<1>1. /\ phase' = how /\ how \in Phases /\ how \notin {"translate", "operands", "entry", "broken"}
      /\ UNCHANGED <<source, calls, scopes, scope, symbols, insts, deferredEntry, entry, data, next, second, eval, answer>>
  BY DEF Stop, Ended, Phases
<1>2. WalkOK'
  BY <1>1 DEF AssemblerInv, WalkOK, CallOK, Files
<1>3. ScopesOK' /\ CodeOK'
  BY <1>1 DEF AssemblerInv, ScopesOK, CodeOK
<1>4. DataOK' /\ EvalOK' /\ MarksOK'
  BY <1>1 DEF AssemblerInv, DataOK, data, EvalOK, MarksOK, Marked
<1>5. PassesOK'
  BY <1>1 DEF PassesOK
<1> QED BY <1>2, <1>3, <1>4, <1>5 DEF AssemblerInv

(* The parts that a step of the walk keeps without looking at them.            *)
LEMMA UnevaluatedKeeps ==
  ASSUME AssemblerInv, Unevaluated,
         Len(symbols) <= Len(symbols'), Len(insts) <= Len(insts'),
         Len(symbols') \in Nat, Len(insts') \in Nat
  PROVE  DataOK' /\ EvalOK'
<1>1. Len(symbols) \in Nat /\ Len(insts) \in Nat
  BY LenProperties DEF AssemblerInv, CodeOK
<1>2. EvalOK'
  BY <1>1, EvalStays DEF AssemblerInv, Unevaluated
<1> QED BY <1>2, DataStays DEF AssemblerInv, Unevaluated
-----------------------------------------------------------------------------
(* The labels that wait to be placed.                                          *)
LEMMA PendingMoved ==
  ASSUME WalkOK, phase = "translate", ~AtEnd, NEW c, c = [Current EXCEPT !.at = @ + 1]
  PROVE  /\ c.block = Current.block /\ c.pass = Current.pass
         /\ Stmt.kind # "label" => Pending(c) = Pending(Current)
         /\ Stmt.kind = "label" /\ Current.pass = 1 => Pending(c) = Pending(Current) \cup {Current.at}
                                                       /\ Current.at \notin Pending(Current)
         /\ Stmt.kind = "label" /\ Current.pass = 2 => Pending(c) = Pending(Current) \ {Current.at}
                                                       /\ Current.at \in Pending(Current)
<1>1. /\ Current \in CallRec /\ Current.at \in 1 .. Len(source[Current.block])
      /\ Len(source[Current.block]) \in Nat
  BY CurrentFacts
<1>2. c.block = Current.block /\ c.pass = Current.pass /\ c.at = Current.at + 1
  BY <1>1 DEF CallRec
<1>3. \A k \in 1 .. Len(source[Current.block]) : k < c.at <=> k < Current.at \/ k = Current.at
  BY <1>1, <1>2
<1>4. ~(Current.at < Current.at)
  BY <1>1
<1>5. Current.pass \in {1, 2}
  BY <1>1 DEF CallRec
<1> QED BY <1>1, <1>2, <1>3, <1>4, <1>5 DEF Pending, Stmt

(* Calls that await nothing may come and go, and empty scopes come.            *)
LEMMA AwaitedStay ==
  ASSUME NEW of, LabelsAwaited(of), NEW og, NEW m \in Nat, UNCHANGED source,
         Len(calls) \in Nat, Len(calls') \in Nat, m <= Len(calls), m <= Len(calls'),
         \A i \in 1 .. m : /\ og[i] = of[i] /\ calls'[i].block = calls[i].block
                           /\ Pending(calls'[i]) = Pending(calls[i]),
         \A i \in 1 .. Len(calls) : i > m => Pending(calls[i]) = {},
         \A i \in 1 .. Len(calls') : i > m => Pending(calls'[i]) = {},
         Len(scopes) \in Nat, Len(scopes') \in Nat, Len(scopes) <= Len(scopes'),
         \A i \in 1 .. m : of[i] \in 1 .. Len(scopes),
         \A s \in 1 .. Len(scopes) : scopes'[s].bindings = scopes[s].bindings,
         \A s \in 1 .. Len(scopes') : s > Len(scopes) => DOMAIN scopes'[s].bindings = {}
  PROVE  LabelsAwaited(og)'
<1> DEFINE P(i) == Pending(calls[i])
           Q(i) == Pending(calls'[i])
           N(i, k) == source[calls[i].block][k].name
           M(i, k) == source'[calls'[i].block][k].name
           B(s) == scopes[s].bindings
           C(s) == scopes'[s].bindings
<1>1. \A i \in 1 .. Len(calls') : \A k \in Q(i) :
        /\ i \in 1 .. Len(calls) /\ k \in P(i) /\ og[i] = of[i] /\ C(of[i]) = B(of[i]) /\ M(i, k) = N(i, k)
        /\ calls'[i].block = calls[i].block
  <2> TAKE i \in 1 .. Len(calls')
  <2>1. CASE i > m
    <3>1. Q(i) = {}
      BY <2>1
    <3> QED BY <3>1
  <2>2. CASE i <= m
    <3>1. i \in 1 .. m
      BY <2>2
    <3> QED BY <3>1
  <2> QED BY <2>1, <2>2
<1>2. \A i \in 1 .. Len(calls) : \A k \in P(i) :
        i \in 1 .. Len(calls') /\ k \in Q(i) /\ og[i] = of[i] /\ M(i, k) = N(i, k)
  <2> TAKE i \in 1 .. Len(calls)
  <2>1. CASE i > m
    <3>1. P(i) = {}
      BY <2>1
    <3> QED BY <3>1
  <2>2. CASE i <= m
    <3>1. i \in 1 .. m
      BY <2>2
    <3> QED BY <3>1
  <2> QED BY <2>1, <2>2
<1>3. \A s \in 1 .. Len(scopes') : \A n \in DOMAIN C(s) : s \in 1 .. Len(scopes) /\ C(s) = B(s)
  OBVIOUS
<1>4. /\ \A i \in 1 .. Len(calls) : \A k \in P(i) :
           N(i, k) \in DOMAIN B(of[i]) /\ Awaits(B(of[i])[N(i, k)], <<calls[i].block, k>>)
      /\ \A i, j \in 1 .. Len(calls) : \A k \in P(i), l \in P(j) :
           of[i] = of[j] /\ N(i, k) = N(j, l) => i = j /\ k = l
      /\ \A s \in 1 .. Len(scopes) : \A n \in DOMAIN B(s) : B(s)[n].status = "DEFERRED" =>
           \E i \in 1 .. Len(calls) : of[i] = s /\ \E k \in P(i) : N(i, k) = n
  BY DEF LabelsAwaited, PendingAt, LabelAt, BoundIn
<1> HIDE DEF P, Q, N, M, B, C
<1>5. /\ \A i \in 1 .. Len(calls') : \A k \in Q(i) :
           M(i, k) \in DOMAIN C(og[i]) /\ Awaits(C(og[i])[M(i, k)], <<calls'[i].block, k>>)
      /\ \A i, j \in 1 .. Len(calls') : \A k \in Q(i), l \in Q(j) :
           og[i] = og[j] /\ M(i, k) = M(j, l) => i = j /\ k = l
  BY <1>1, <1>4
<1>6. \A s \in 1 .. Len(scopes') : \A n \in DOMAIN C(s) : C(s)[n].status = "DEFERRED" =>
        \E i \in 1 .. Len(calls') : og[i] = s /\ \E k \in Q(i) : M(i, k) = n
  <2> SUFFICES ASSUME NEW s \in 1 .. Len(scopes'), NEW n \in DOMAIN C(s), C(s)[n].status = "DEFERRED"
               PROVE  \E i \in 1 .. Len(calls') : og[i] = s /\ \E k \in Q(i) : M(i, k) = n
    OBVIOUS
  <2>1. PICK i \in 1 .. Len(calls) : of[i] = s /\ \E k \in P(i) : N(i, k) = n
    BY <1>3, <1>4
  <2>2. PICK k \in P(i) : N(i, k) = n
    BY <2>1
  <2> QED BY <1>2, <2>1, <2>2
<1>7. /\ \A i : PendingAt(i)' = Q(i)
      /\ \A i, k : LabelAt(i, k)' = M(i, k)
      /\ \A s : BoundIn(s)' = C(s)
  <2>1. \A i : PendingAt(i)' = Q(i)
    BY DEF PendingAt, Pending, Q
  <2>2. \A i, k : LabelAt(i, k)' = M(i, k)
    BY DEF LabelAt, M
  <2>3. \A s : BoundIn(s)' = C(s)
    BY DEF BoundIn, C
  <2> QED BY <2>1, <2>2, <2>3
<1> QED BY <1>5, <1>6, <1>7 DEF LabelsAwaited

(* A statement binds a name or places a label.                                 *)
LEMMA AwaitedRebound ==
  ASSUME WalkOK, ScopesOK, phase = "translate", ~AtEnd, NEW of, InScopes(of), LabelsAwaited(of),
         calls' = Moved, UNCHANGED source, NEW name, NEW b, Rebound(scope, name, b), scope # 0,
         \/ /\ name \notin DOMAIN scopes[scope].bindings
            /\ IF Stmt.kind = "label" THEN Current.pass = 1 /\ name = Stmt.name /\ Awaits(b, Where)
                                      ELSE b.status # "DEFERRED"
         \/ Stmt.kind = "label" /\ Current.pass = 2 /\ name = Stmt.name /\ b.status # "DEFERRED"
  PROVE  LabelsAwaited(of)'
<1> DEFINE top == Len(calls)
           here == Current.at
           P(i) == Pending(calls[i])
           Q(i) == Pending(calls'[i])
           N(i, k) == source[calls[i].block][k].name
           M(i, k) == source'[calls'[i].block][k].name
           B(s) == scopes[s].bindings
           C(s) == scopes'[s].bindings
           new == name \notin DOMAIN B(scope)
           label == Stmt.kind = "label"
<1>1. /\ Len(calls') = top /\ top \in 1 .. top
      /\ \A i \in 1 .. top : i # top => calls'[i] = calls[i]
      /\ calls'[top] = [Current EXCEPT !.at = @ + 1] /\ calls[top] = Current
  BY MovedFacts, CurrentFacts DEF Current
<1>2. /\ calls'[top].block = calls[top].block
      /\ ~label => Q(top) = P(top)
      /\ label /\ Current.pass = 1 => Q(top) = P(top) \cup {here}
      /\ label /\ Current.pass = 2 => Q(top) = P(top) \ {here} /\ here \in P(top)
      /\ N(top, here) = Stmt.name
  <2>1. Q(top) = Pending([Current EXCEPT !.at = @ + 1]) /\ P(top) = Pending(Current)
    BY <1>1
  <2> HIDE DEF P, Q
  <2> QED BY <1>1, <2>1, PendingMoved DEF Stmt
<1>3. \A i \in 1 .. top : (i # top => Q(i) = P(i)) /\ \A k : M(i, k) = N(i, k)
  BY <1>1, <1>2
<1>4. of[top] = scope /\ \A i \in 1 .. top : of[i] \in 1 .. Len(scopes)
  BY DEF InScopes
<1>5. /\ \A i \in 1 .. top : \A k \in P(i) :
           N(i, k) \in DOMAIN B(of[i]) /\ Awaits(B(of[i])[N(i, k)], <<calls[i].block, k>>)
      /\ \A i, j \in 1 .. top : \A k \in P(i), l \in P(j) :
           of[i] = of[j] /\ N(i, k) = N(j, l) => i = j /\ k = l
      /\ \A s \in 1 .. Len(scopes) : \A n \in DOMAIN B(s) : B(s)[n].status = "DEFERRED" =>
           \E i \in 1 .. top : of[i] = s /\ \E k \in P(i) : N(i, k) = n
  BY DEF LabelsAwaited, PendingAt, LabelAt, BoundIn
<1>6. /\ Len(scopes') = Len(scopes)
      /\ \A s \in 1 .. Len(scopes) : s # scope => C(s) = B(s)
      /\ DOMAIN C(scope) = DOMAIN B(scope) \cup {name}
      /\ C(scope)[name] = b
      /\ \A n \in DOMAIN B(scope) : n # name => C(scope)[n] = B(scope)[n]
  BY DEF Rebound
<1>7. \/ new /\ label /\ name = Stmt.name /\ Awaits(b, <<calls[top].block, here>>) /\ Q(top) = P(top) \cup {here}
      \/ new /\ ~label /\ b.status # "DEFERRED" /\ Q(top) = P(top)
      \/ name = Stmt.name /\ b.status # "DEFERRED" /\ Q(top) = P(top) \ {here} /\ here \in P(top)
  BY <1>1, <1>2 DEF Where
<1> HIDE DEF P, Q, N, M, B, C, label, here, top
\* What still waits waited, but for the label bound.
<1>8. \A i \in 1 .. top : \A k \in Q(i) :
        \/ k \in P(i) /\ ~(of[i] = scope /\ N(i, k) = name)
        \/ i = top /\ k = here /\ N(i, k) = name /\ Awaits(b, <<calls[i].block, k>>) /\ new
  <2> TAKE i \in 1 .. top
  <2> TAKE k \in Q(i)
  <2>1. CASE k \in P(i) /\ of[i] = scope /\ N(i, k) = name
    <3>1. ~new
      BY <1>5, <2>1
    <3>2. name = Stmt.name /\ Q(top) = P(top) \ {here} /\ here \in P(top)
      BY <1>7, <3>1
    <3>3. i = top /\ k = here
      BY <1>1, <1>2, <1>4, <1>5, <2>1, <3>2
    <3> QED BY <3>2, <3>3
  <2>2. CASE k \notin P(i)
    BY <1>2, <1>3, <1>7, <2>2
  <2> QED BY <2>1, <2>2
<1>9. \A i \in 1 .. top : \A k \in P(i) : k \in Q(i) \/ (of[i] = scope /\ N(i, k) = name /\ b.status # "DEFERRED")
  BY <1>2, <1>3, <1>4, <1>7
<1>10. \A i \in 1 .. top : \A k \in Q(i) : /\ N(i, k) \in DOMAIN C(of[i])
                                                  /\ Awaits(C(of[i])[N(i, k)], <<calls[i].block, k>>)
  BY <1>4, <1>5, <1>6, <1>8
<1>11. \A i, j \in 1 .. top : \A k \in Q(i), l \in Q(j) :
         of[i] = of[j] /\ N(i, k) = N(j, l) => i = j /\ k = l
  <2>1. \A i \in 1 .. top : \A k \in Q(i) :
          \/ k \in P(i) /\ ~(of[i] = scope /\ N(i, k) = name)
          \/ i = top /\ k = here /\ N(i, k) = name /\ new
    BY <1>8
  <2> QED BY <1>4, <1>5, <2>1
<1>12. \A s \in 1 .. Len(scopes) : \A n \in DOMAIN C(s) : C(s)[n].status = "DEFERRED" =>
         \E i \in 1 .. top : of[i] = s /\ \E k \in Q(i) : N(i, k) = n
  <2> SUFFICES ASSUME NEW s \in 1 .. Len(scopes), NEW n \in DOMAIN C(s), C(s)[n].status = "DEFERRED"
               PROVE  \E i \in 1 .. top : of[i] = s /\ \E k \in Q(i) : N(i, k) = n
    OBVIOUS
  <2>1. CASE s = scope /\ n = name
    <3>1. Q(top) = P(top) \cup {here} /\ name = Stmt.name
      BY <1>6, <1>7, <2>1
    <3> QED BY <1>1, <1>2, <1>4, <2>1, <3>1
  <2>2. CASE ~(s = scope /\ n = name)
    <3>1. n \in DOMAIN B(s) /\ B(s)[n].status = "DEFERRED"
      BY <1>6, <2>2
    <3>2. PICK i \in 1 .. top : of[i] = s /\ \E k \in P(i) : N(i, k) = n
      BY <1>5, <3>1
    <3>3. PICK k \in P(i) : N(i, k) = n
      BY <3>2
    <3> QED BY <1>9, <2>2, <3>2, <3>3
  <2> QED BY <2>1, <2>2
<1>13. /\ \A i \in 1 .. Len(calls') : \A k \in Q(i) :
            M(i, k) \in DOMAIN C(of[i]) /\ Awaits(C(of[i])[M(i, k)], <<calls'[i].block, k>>)
       /\ \A i, j \in 1 .. Len(calls') : \A k \in Q(i), l \in Q(j) :
            of[i] = of[j] /\ M(i, k) = M(j, l) => i = j /\ k = l
  <2>1. \A i \in 1 .. top : calls'[i].block = calls[i].block
    BY <1>1, <1>2
  <2> QED BY <1>1, <1>3, <1>10, <1>11, <2>1
<1>14. \A s \in 1 .. Len(scopes') : \A n \in DOMAIN C(s) : C(s)[n].status = "DEFERRED" =>
         \E i \in 1 .. Len(calls') : of[i] = s /\ \E k \in Q(i) : M(i, k) = n
  <2> TAKE s \in 1 .. Len(scopes')
  <2> TAKE n \in DOMAIN C(s)
  <2> HAVE C(s)[n].status = "DEFERRED"
  <2>1. PICK i \in 1 .. top : of[i] = s /\ \E k \in Q(i) : N(i, k) = n
    BY <1>6, <1>12
  <2> QED BY <1>1, <1>3, <2>1
<1>15. /\ \A i : PendingAt(i)' = Q(i)
      /\ \A i, k : LabelAt(i, k)' = M(i, k)
      /\ \A s : BoundIn(s)' = C(s)
  <2>1. \A i : PendingAt(i)' = Q(i)
    BY DEF PendingAt, Pending, Q
  <2>2. \A i, k : LabelAt(i, k)' = M(i, k)
    BY DEF LabelAt, M
  <2>3. \A s : BoundIn(s)' = C(s)
    BY DEF BoundIn, C
  <2> QED BY <2>1, <2>2, <2>3
<1> QED BY <1>13, <1>14, <1>15 DEF LabelsAwaited

LEMMA InScopesStay ==
  ASSUME NEW of, InScopes(of), UNCHANGED scope, Len(calls') = Len(calls), Len(scopes') = Len(scopes),
         \A i \in 1 .. Len(calls) : calls'[i].as = calls[i].as,
         \A s \in 1 .. Len(scopes) : scopes'[s].chain = scopes[s].chain
  PROVE  InScopes(of)'
<1>1. \A s \in 1 .. Len(scopes) : Outer(s)' = Outer(s)
  BY DEF Outer
<1>2. \A i \in 1 .. Len(calls) : of[i] \in 1 .. Len(scopes)
  BY DEF InScopes
<1>3. (\A i \in 1 .. Len(calls) : i # 1 => of[i - 1] = IF calls[i].as = "scope" THEN Outer(of[i]) ELSE of[i])'
  BY <1>1, <1>2 DEF InScopes, Outer
<1> QED BY <1>3 DEF InScopes

(* A step of the walk that keeps its own parts keeps them all.                 *)
LEMMA WalkKeeps ==
  ASSUME AssemblerInv, phase = "translate", UNCHANGED phase, Unevaluated,
         WalkOK', ScopesOK', CodeOK', MarksOK', Len(symbols) <= Len(symbols'), Len(insts) <= Len(insts'),
         NEW of, InScopes(of)', LabelsAwaited(of)'
  PROVE  AssemblerInv'
<1>1. Len(symbols') \in Nat /\ Len(insts') \in Nat
  BY LenProperties DEF CodeOK
<1>2. DataOK' /\ EvalOK'
  BY <1>1, UnevaluatedKeeps
<1>3. PassesOK'
  BY DEF PassesOK
<1> QED BY <1>2, <1>3 DEF AssemblerInv

(* In the walk the scope is open.                                              *)
LEMMA ScopeOpen ==
  ASSUME WalkOK, ScopesOK, phase = "translate", NEW of, InScopes(of)
  PROVE  scope \in 1 .. Len(scopes) /\ scope # 0
<1>1. Len(calls) \in 1 .. Len(calls)
  BY CurrentFacts
<1> QED BY <1>1 DEF InScopes
-----------------------------------------------------------------------------
(* Each action keeps the invariant: first those of the walk.                   *)
LEMMA BindKeeps ==
  ASSUME AssemblerInv, Bind
  PROVE  AssemblerInv'
<1>1. /\ WalkOK /\ ScopesOK /\ CodeOK /\ MarksOK
      /\ phase = "translate" /\ Current.pass = 1 /\ ~AtEnd /\ Stmt.kind \in {"label", "const"}
  BY DEF AssemblerInv, Bind, At
<1>2. PICK of : InScopes(of) /\ LabelsAwaited(of)
  BY <1>1 DEF AssemblerInv, PassesOK
<1> DEFINE bound == DOMAIN scopes[scope].bindings
           b == IF Stmt.kind = "label" THEN Label(Where) ELSE Const(Stmt.value, Where)
<1>3. CASE Stop("aborted") \/ Stop("failed")
  BY <1>3, StopKeeps DEF Ended
<1>4. CASE /\ Cardinality(bound) < BINDINGS_CAPACITY /\ Stmt.name \notin bound
           /\ Rebind(scope, Stmt.name, b)
           /\ calls' = Moved
           /\ UNCHANGED <<phase, scope, symbols, insts, deferredEntry>> /\ Unevaluated
  <2>1. scope \in 1 .. Len(scopes) /\ scope # 0
    BY <1>1, <1>2, ScopeOpen
  <2>2. StmtShape(Stmt) /\ Where \in Block \X (Nat \ {0})
    BY <1>1, CurrentFacts
  <2>3. Stmt.name \in Name /\ (Stmt.kind = "const" => Stmt.value \in Expr)
    BY <1>1, <2>2 DEF StmtShape
  <2>4. 0 \in Word
    BY SizesAssumption DEF Word
  <2>5. b \in Binding /\ BindingOK(b, Len(insts)) 
        /\ IF Stmt.kind = "label" THEN Awaits(b, Where) ELSE b.status = "UNEVALUATED"
    <3>1. Len(insts) \in Nat
      BY <1>1, LenProperties DEF CodeOK
    <3>2. CASE Stmt.kind = "label"
      BY <2>2, <2>4, <3>1, <3>2 DEF Label, Awaits, Binding, BindStatus, BindType, BindingOK
    <3>3. CASE Stmt.kind = "const"
      BY <1>1, <2>2, <2>3, <2>4, <3>1, <3>3 DEF Const, Binding, BindStatus, BindType, BindingOK
    <3> QED BY <1>1, <3>2, <3>3
  <2> HIDE DEF b
  <2>6. ScopesOK' /\ Rebound(scope, Stmt.name, b)
    BY <1>1, <1>4, <2>1, <2>3, <2>5, RebindKeeps
  <2>7. Len(scopes') = Len(scopes) /\ \A s \in 1 .. Len(scopes) : scopes'[s].chain = scopes[s].chain
    BY <2>6 DEF Rebound
  <2>8. WalkOK' /\ UNCHANGED <<source, phase, scope, symbols, insts, entry, eval>>
    BY <1>1, <1>4, MovedKeeps DEF Unevaluated
  <2>9. CodeOK' /\ Len(symbols) \in Nat /\ Len(insts) \in Nat
    BY <1>1, <2>7, <2>8, CodeStays, LenProperties DEF CodeOK, ScopesOK
  <2>10. MarksOK'
    BY <1>1, <1>4, <2>1, <2>6, <2>8, MarksStayElsewhere
  <2>11. InScopes(of)'
    <3>1. Len(calls') = Len(calls) /\ \A i \in 1 .. Len(calls) : calls'[i].as = calls[i].as
      BY <1>1, <1>4, MovedFacts, CurrentFacts DEF CallRec, Current
    <3> QED BY <1>2, <2>7, <2>8, <3>1, InScopesStay
  <2>12. LabelsAwaited(of)'
    <3>1. IF Stmt.kind = "label" THEN Awaits(b, Where) ELSE b.status # "DEFERRED"
      BY <2>5
    <3> QED BY <1>1, <1>2, <1>4, <2>1, <2>6, <2>8, <3>1, AwaitedRebound
  <2> QED BY <1>1, <1>4, <2>6, <2>8, <2>9, <2>10, <2>11, <2>12, WalkKeeps
<1> QED BY <1>3, <1>4 DEF Bind

(* A step that binds nothing and places nothing.                               *)
LEMMA StepKeeps ==
  ASSUME AssemblerInv, phase = "translate", Unevaluated, UNCHANGED <<phase, scopes, scope>>,
         WalkOK', CodeOK', Len(symbols) <= Len(symbols'), Len(insts) <= Len(insts'),
         deferredEntry' \in [set : BOOLEAN, name : Name, scope : 0 .. Len(scopes)],
         Len(calls') = Len(calls),
         \A i \in 1 .. Len(calls) : /\ calls'[i].as = calls[i].as /\ calls'[i].block = calls[i].block
                                    /\ Pending(calls'[i]) = Pending(calls[i])
  PROVE  AssemblerInv'
<1>1. WalkOK /\ ScopesOK /\ CodeOK /\ MarksOK /\ UNCHANGED <<source, eval>>
  BY DEF AssemblerInv, Unevaluated
<1>2. PICK of : InScopes(of) /\ LabelsAwaited(of)
  BY DEF AssemblerInv, PassesOK
<1>3. Len(calls) \in Nat /\ Len(scopes) \in Nat /\ Len(insts) \in Nat /\ Len(insts') \in Nat
  BY <1>1, LenProperties DEF WalkOK, ScopesOK, CodeOK
<1>4. ScopesOK'
  <2>1. \A s \in 1 .. Len(scopes) : ScopeOK(s, scopes[s], Len(insts'))
    <3> TAKE s \in 1 .. Len(scopes)
    <3>1. \A n \in DOMAIN scopes[s].bindings : scopes[s].bindings[n].value \in Nat
      BY <1>1, ScopeFacts, SizesAssumption DEF Binding, Word
    <3> QED BY <1>1, <1>3, <3>1 DEF ScopesOK, ScopeOK, BindingOK
  <2> QED BY <1>1, <2>1 DEF ScopesOK
<1>5. MarksOK'
  BY <1>1, MarksStay DEF Marked
<1>6. InScopes(of)'
  BY <1>2, InScopesStay
<1>7. LabelsAwaited(of)'
  <2>1. \A i \in 1 .. Len(calls) : of[i] \in 1 .. Len(scopes)
    BY <1>2 DEF InScopes
  <2>2. /\ Len(calls) <= Len(calls) /\ Len(calls) <= Len(calls') /\ Len(scopes) <= Len(scopes')
        /\ \A i \in 1 .. Len(calls) : ~(i > Len(calls))
        /\ \A s \in 1 .. Len(scopes) : ~(s > Len(scopes))
    BY <1>3
  <2>3. \A s \in 1 .. Len(scopes') : s > Len(scopes) => DOMAIN scopes'[s].bindings = {}
    BY <2>2
  <2> QED BY <1>1, <1>2, <1>3, <2>1, <2>2, <2>3, AwaitedStay
<1> QED BY <1>4, <1>5, <1>6, <1>7, WalkKeeps

LEMMA MoveKeeps ==
  ASSUME AssemblerInv, phase = "translate", ~AtEnd, Unevaluated, UNCHANGED <<phase, scopes, scope>>,
         calls' = Moved, Stmt.kind # "label" \/ Pending([Current EXCEPT !.at = @ + 1]) = Pending(Current),
         CodeOK', Len(symbols) <= Len(symbols'), Len(insts) <= Len(insts'),
         deferredEntry' \in [set : BOOLEAN, name : Name, scope : 0 .. Len(scopes)]
  PROVE  AssemblerInv'
<1>1. WalkOK /\ WalkOK'
  BY MovedKeeps DEF AssemblerInv, Unevaluated
<1>2. /\ Len(calls') = Len(calls) /\ \A i \in 1 .. Len(calls) : i # Len(calls) => calls'[i] = calls[i]
      /\ calls'[Len(calls)] = [Current EXCEPT !.at = @ + 1] /\ calls[Len(calls)] = Current /\ Current \in CallRec
  BY <1>1, MovedFacts, CurrentFacts DEF Current
<1>3. Pending([Current EXCEPT !.at = @ + 1]) = Pending(Current)
  BY <1>1, PendingMoved
<1>4. \A i \in 1 .. Len(calls) : /\ calls'[i].as = calls[i].as /\ calls'[i].block = calls[i].block
                                 /\ Pending(calls'[i]) = Pending(calls[i])
  BY <1>2, <1>3 DEF CallRec
<1> QED BY <1>1, <1>2, <1>4, StepKeeps

LEMMA EntryKeeps ==
  ASSUME AssemblerInv, Entry
  PROVE  AssemblerInv'
<1>1. WalkOK /\ ScopesOK /\ CodeOK /\ phase = "translate" /\ ~AtEnd /\ Stmt.kind = "entry"
  BY DEF AssemblerInv, Entry, At
<1>2. CASE Stop("failed")
  BY <1>2, StopKeeps DEF Ended
<1>3. CASE /\ Stmt.value.type = "binding"
           /\ deferredEntry' = [set |-> TRUE, name |-> Stmt.value.name, scope |-> scope]
           /\ calls' = Moved
           /\ UNCHANGED <<phase, scope, scopes, symbols, insts>> /\ Unevaluated
  <2>1. StmtShape(Stmt)
    BY <1>1, CurrentFacts
  <2>2. Stmt.value \in Expr
    BY <1>1, <2>1 DEF StmtShape
  <2>3. Stmt.value.name \in Name
    BY <1>3, <2>2, ExprAssumption DEF ExprShape
  <2>4. deferredEntry' \in [set : BOOLEAN, name : Name, scope : 0 .. Len(scopes)]
    BY <1>1, <1>3, <2>3 DEF ScopesOK
  <2>5. CodeOK' /\ Len(symbols) \in Nat /\ Len(insts) \in Nat /\ Len(scopes) \in Nat
    BY <1>1, <1>3, LenProperties, CodeStays DEF Unevaluated, CodeOK, ScopesOK
  <2> QED BY <1>1, <1>3, <2>4, <2>5, MoveKeeps
<1> QED BY <1>2, <1>3 DEF Entry

LEMMA PassByKeeps ==
  ASSUME AssemblerInv, PassBy
  PROVE  AssemblerInv'
<1>1. /\ WalkOK /\ ScopesOK /\ CodeOK /\ phase = "translate" /\ ~AtEnd /\ Stmt.kind # "label"
      /\ calls' = Moved /\ UNCHANGED <<phase, scope, scopes, symbols, insts, deferredEntry, entry>> /\ Unevaluated
  BY DEF AssemblerInv, PassBy, At, names, Unevaluated
<1>2. CodeOK' /\ Len(symbols) \in Nat /\ Len(insts) \in Nat /\ Len(scopes) \in Nat
  BY <1>1, LenProperties, CodeStays DEF CodeOK, ScopesOK
<1>3. deferredEntry' \in [set : BOOLEAN, name : Name, scope : 0 .. Len(scopes)]
  BY <1>1 DEF ScopesOK
<1> QED BY <1>1, <1>2, <1>3, MoveKeeps

LEMMA SecondPassKeeps ==
  ASSUME AssemblerInv, SecondPass
  PROVE  AssemblerInv'
<1> DEFINE top == Len(calls)
           c == [Current EXCEPT !.pass = 2, !.at = 1]
<1>1. /\ WalkOK /\ ScopesOK /\ CodeOK /\ phase = "translate" /\ AtEnd /\ Current.pass = 1
      /\ calls' = [calls EXCEPT ![top].pass = 2, ![top].at = 1]
      /\ UNCHANGED <<phase, scope, scopes, symbols, insts, deferredEntry, entry, source>> /\ Unevaluated
  BY DEF AssemblerInv, SecondPass, names, Unevaluated
<1>2. /\ calls \in Seq(CallRec) /\ top \in 1 .. top /\ top \in Nat \ {0} /\ Current \in CallRec /\ calls[top] = Current
      /\ Current.block \in DOMAIN source /\ Len(source[Current.block]) \in Nat
      /\ Current.at = Len(source[Current.block]) + 1
  BY <1>1, CurrentFacts DEF WalkOK, AtEnd, Current
<1>3. c \in CallRec /\ c.block = Current.block /\ c.as = Current.as /\ c.pass = 2 /\ c.at = 1
  BY <1>2 DEF CallRec
<1>4. calls' = [calls EXCEPT ![top] = c]
  BY <1>1, <1>2
<1>5. Pending(c) = Pending(Current)
  <2>1. \A k \in 1 .. Len(source[Current.block]) : k < Current.at /\ ~(k < 1)
    BY <1>2
  <2> QED BY <1>1, <1>3, <2>1 DEF Pending
<1> HIDE DEF c
<1>6. /\ calls' \in Seq(CallRec) /\ Len(calls') = top
      /\ \A i \in 1 .. top : calls'[i] = IF i = top THEN c ELSE calls[i]
  BY <1>2, <1>3, <1>4, ExceptSeq
<1>7. \A i \in 1 .. top : /\ calls'[i].as = calls[i].as /\ calls'[i].block = calls[i].block
                          /\ Pending(calls'[i]) = Pending(calls[i])
  BY <1>2, <1>3, <1>5, <1>6
<1>8. WalkOK'
  <2>1. CallOK(top, c)
    <3>1. Current.as = "root" <=> top = 1
      BY <1>1, <1>2 DEF WalkOK, CallOK
    <3>2. 1 \in 1 .. Len(source[Current.block]) + 1
      BY <1>2
    <3> QED BY <1>2, <1>3, <3>1, <3>2 DEF CallOK
  <2>2. \A i \in 1 .. Len(calls') : CallOK(i, calls[i])'
    BY <1>1, <1>6, <2>1 DEF WalkOK, CallOK
  <2>3. Files' = Files
    <3>1. FileSet(calls') = FileSet(calls)
      BY <1>2, <1>6, <1>7, LenProperties DEF FileSet
    <3> QED BY <3>1 DEF Files, FileSet
  <2>4. calls' # <<>>
    BY <1>2, <1>6, EmptySeq
  <2> QED BY <1>1, <1>6, <2>2, <2>3, <2>4 DEF WalkOK
<1>9. CodeOK' /\ Len(symbols) \in Nat /\ Len(insts) \in Nat
  BY <1>1, LenProperties, CodeStays DEF CodeOK, ScopesOK
<1>10. deferredEntry' \in [set : BOOLEAN, name : Name, scope : 0 .. Len(scopes)]
  BY <1>1 DEF ScopesOK
<1> QED BY <1>1, <1>6, <1>7, <1>8, <1>9, <1>10, StepKeeps

LEMMA EmitKeeps ==
  ASSUME AssemblerInv, Emit
  PROVE  AssemblerInv'
<1>1. /\ WalkOK /\ ScopesOK /\ CodeOK /\ phase = "translate" /\ ~AtEnd /\ Stmt.kind = "inst"
  BY DEF AssemblerInv, Emit, At
<1>2. CASE Stop("aborted")
  BY <1>2, StopKeeps DEF Ended
<1> DEFINE ops == Stmt.operands
           i0 == [op |-> Stmt.op, operand |-> 0, operand2 |-> 0, opr1IsReg |-> FALSE, opr2IsReg |-> FALSE]
           noted == [k \in 1 .. Len(ops) |-> [addr |-> Len(insts) + 1, expr |-> ops[k], scope |-> scope]]
<1>3. CASE /\ RoomFor(Len(ops))
           /\ insts' = Append(insts, i0)
           /\ symbols' = symbols \o noted
           /\ calls' = Moved
           /\ UNCHANGED <<phase, scope, scopes, deferredEntry>> /\ Unevaluated
  <2>1. Stmt.op \in Opcode /\ ops \in Seq(Expr)
    BY <1>1, CurrentFacts DEF StmtShape
  <2>2. Len(insts) \in Nat /\ Len(symbols) \in Nat /\ Len(ops) \in Nat /\ 0 \in Word
        /\ PROGRAM_CAPACITY \in Nat /\ LABELS_CAPACITY \in Nat /\ Len(scopes) \in Nat
    BY <1>1, <2>1, LenProperties, SizesAssumption DEF CodeOK, ScopesOK, Word
  <2>3. scope \in 1 .. Len(scopes)
    BY <1>1, ScopeOpen DEF AssemblerInv, PassesOK
  <2>4. i0 \in InstRec
    BY <2>1, <2>2 DEF InstRec
  <2> HIDE DEF i0
  <2>5. insts' \in Seq(InstRec) /\ Len(insts') = Len(insts) + 1
    BY <1>1, <1>3, <2>4, AppendProperties DEF CodeOK
  <2>6. /\ noted \in Seq(SymbolRec) /\ Len(noted) = Len(ops)
        /\ \A k \in 1 .. Len(ops) : noted[k].addr = Len(insts) + 1 /\ noted[k].scope = scope
    <3>1. \A k \in 1 .. Len(ops) : ops[k] \in Expr
      BY <2>1, ElementOfSeq
    <3>2. \A k \in 1 .. Len(ops) : [addr |-> Len(insts) + 1, expr |-> ops[k], scope |-> scope] \in SymbolRec
      BY <2>2, <2>3, <3>1 DEF SymbolRec
    <3> QED BY <2>2, <3>2
  <2> HIDE DEF noted
  <2>7. /\ symbols' \in Seq(SymbolRec) /\ Len(symbols') = Len(symbols) + Len(ops)
        /\ \A i \in 1 .. Len(symbols') : symbols'[i] = IF i <= Len(symbols) THEN symbols[i] ELSE noted[i - Len(symbols)]
    <3>1. symbols \in Seq(SymbolRec)
      BY <1>1 DEF CodeOK
    <3>2. /\ symbols \o noted \in Seq(SymbolRec) /\ Len(symbols \o noted) = Len(symbols) + Len(noted)
          /\ \A i \in 1 .. Len(symbols) + Len(noted) :
               (symbols \o noted)[i] = IF i <= Len(symbols) THEN symbols[i] ELSE noted[i - Len(symbols)]
      <4>1. noted \in Seq(SymbolRec)
        BY <2>6
      <4> QED BY <3>1, <4>1, ConcatProperties, Zenon
    <3> QED BY <1>3, <2>6, <3>2
  <2>8. \A i \in 1 .. Len(symbols') : symbols'[i].addr \in 1 .. Len(insts') /\ symbols'[i].scope \in 1 .. Len(scopes)
    <3> TAKE i \in 1 .. Len(symbols')
    <3>1. CASE i <= Len(symbols)
      <4>1. i \in 1 .. Len(symbols) /\ symbols'[i] = symbols[i]
        BY <2>2, <2>7, <3>1
      <4>2. symbols[i].addr \in 1 .. Len(insts) /\ symbols[i].scope \in 1 .. Len(scopes)
        BY <1>1, <4>1 DEF CodeOK
      <4> QED BY <2>2, <2>5, <4>1, <4>2
    <3>2. CASE ~(i <= Len(symbols))
      <4>1. i - Len(symbols) \in 1 .. Len(ops) /\ symbols'[i] = noted[i - Len(symbols)]
        BY <2>2, <2>7, <3>2
      <4>2. symbols'[i].addr = Len(insts) + 1 /\ symbols'[i].scope = scope
        BY <2>6, <4>1
      <4> QED BY <2>2, <2>3, <2>5, <4>2
    <3> QED BY <3>1, <3>2
  <2>9. CodeOK'
    <3>1. Len(insts') <= PROGRAM_CAPACITY /\ Len(symbols') <= LABELS_CAPACITY
      BY <1>3, <2>2, <2>5, <2>7 DEF RoomFor
    <3>2. entry' \in 0 .. Len(insts')
      BY <1>1, <1>3, <2>2, <2>5 DEF CodeOK, Unevaluated
    <3> QED BY <1>3, <2>5, <2>7, <2>8, <3>1, <3>2 DEF CodeOK
  <2>10. deferredEntry' \in [set : BOOLEAN, name : Name, scope : 0 .. Len(scopes)]
    BY <1>1, <1>3 DEF ScopesOK
  <2>11. Len(symbols) <= Len(symbols') /\ Len(insts) <= Len(insts')
    BY <2>2, <2>5, <2>7
  <2> QED BY <1>1, <1>3, <2>9, <2>10, <2>11, MoveKeeps
<1> QED BY <1>2, <1>3 DEF Emit

(* The name of a label met again is bound in the scope itself, and waits.      *)
LEMMA LabelWaits ==
  ASSUME AssemblerInv, phase = "translate", Current.pass = 2, ~AtEnd, Stmt.kind = "label"
  PROVE  /\ scope \in 1 .. Len(scopes) /\ scope # 0 /\ Resolve(scope, Stmt.name) = scope
         /\ Stmt.name \in DOMAIN scopes[scope].bindings /\ Awaits(scopes[scope].bindings[Stmt.name], Where)
<1>1. WalkOK /\ ScopesOK
  BY DEF AssemblerInv
<1>2. PICK of : InScopes(of) /\ LabelsAwaited(of)
  BY DEF AssemblerInv, PassesOK
<1>3. scope \in 1 .. Len(scopes) /\ scope # 0 /\ scope \in 0 .. Len(scopes)
  BY <1>1, <1>2, ScopeOpen DEF ScopesOK
<1>4. Stmt.name \in DOMAIN scopes[scope].bindings /\ Awaits(scopes[scope].bindings[Stmt.name], Where)
  <2>1. Current.at \in Pending(Current)
    BY <1>1, PendingMoved
  <2>2. Len(calls) \in 1 .. Len(calls) /\ calls[Len(calls)] = Current /\ of[Len(calls)] = scope
    BY <1>1, <1>2, CurrentFacts DEF Current, InScopes
  <2>3. \A i \in 1 .. Len(calls) : \A k \in Pending(calls[i]) :
          /\ source[calls[i].block][k].name \in DOMAIN scopes[of[i]].bindings
          /\ Awaits(scopes[of[i]].bindings[source[calls[i].block][k].name], <<calls[i].block, k>>)
    BY <1>2 DEF LabelsAwaited, PendingAt, LabelAt, BoundIn
  <2>4. Stmt.name = source[Current.block][Current.at].name
    BY DEF Stmt
  <2> QED BY <2>1, <2>2, <2>3, <2>4 DEF Where
<1> QED BY <1>1, <1>3, <1>4, ResolveFacts

LEMMA PlaceLabelKeeps ==
  ASSUME AssemblerInv, PlaceLabel
  PROVE  AssemblerInv'
<1> DEFINE n == Stmt.name
           s == Resolve(scope, n)
           old == scopes[s].bindings[n]
           b == [old EXCEPT !.status = "EVALUATED", !.value = Len(insts)]
<1>1. /\ WalkOK /\ ScopesOK /\ CodeOK /\ MarksOK
      /\ phase = "translate" /\ Current.pass = 2 /\ ~AtEnd /\ Stmt.kind = "label"
  BY DEF AssemblerInv, PlaceLabel, At
<1>2. PICK of : InScopes(of) /\ LabelsAwaited(of)
  BY <1>1 DEF AssemblerInv, PassesOK
<1>3. scope \in 1 .. Len(scopes) /\ scope # 0
  BY <1>1, LabelWaits
<1>4. n \in DOMAIN scopes[scope].bindings /\ Awaits(scopes[scope].bindings[n], Where)
  BY <1>1, LabelWaits
<1>5. s = scope
  BY <1>1, LabelWaits
<1>6. /\ Rebind(scope, n, b) /\ calls' = Moved
      /\ UNCHANGED <<phase, scope, symbols, insts, deferredEntry>> /\ Unevaluated
  BY <1>3, <1>4, <1>5 DEF PlaceLabel, Awaits
<1>7. old \in Binding /\ BindingOK(old, Len(insts)) /\ n \in Name /\ old.status = "DEFERRED"
  BY <1>1, <1>3, <1>4, <1>5, ScopeFacts DEF Awaits
<1>8. b \in Binding /\ BindingOK(b, Len(insts)) /\ b.status = "EVALUATED"
  <2>1. Len(insts) \in Word /\ Len(insts) \in Nat
    BY <1>1, LenProperties, SizesAssumption DEF CodeOK, Word
  <2>2. b \in Binding
    BY <1>7, <2>1 DEF Binding, BindStatus
  <2>3. b.status = "EVALUATED" /\ b.value = Len(insts)
    BY <1>7 DEF Binding
  <2> QED BY <2>1, <2>2, <2>3 DEF BindingOK
<1> HIDE DEF b
<1>9. ScopesOK' /\ Rebound(scope, n, b)
  BY <1>1, <1>3, <1>4, <1>6, <1>7, <1>8, RebindKeeps
<1>10. Len(scopes') = Len(scopes) /\ \A t \in 1 .. Len(scopes) : scopes'[t].chain = scopes[t].chain
  BY <1>9 DEF Rebound
<1>11. WalkOK' /\ UNCHANGED <<source, phase, scope, symbols, insts, entry, eval>>
  BY <1>1, <1>6, MovedKeeps DEF Unevaluated
<1>12. CodeOK' /\ Len(symbols) \in Nat /\ Len(insts) \in Nat
  BY <1>1, <1>10, <1>11, CodeStays, LenProperties DEF CodeOK, ScopesOK
<1>13. MarksOK'
  BY <1>1, <1>3, <1>4, <1>9, <1>11, MarksStayElsewhere DEF Awaits
<1>14. InScopes(of)'
  <2>1. Len(calls') = Len(calls) /\ \A i \in 1 .. Len(calls) : calls'[i].as = calls[i].as
    BY <1>1, <1>6, MovedFacts, CurrentFacts DEF CallRec, Current
  <2> QED BY <1>2, <1>10, <1>11, <2>1, InScopesStay
<1>15. LabelsAwaited(of)'
  BY <1>1, <1>2, <1>3, <1>6, <1>8, <1>9, <1>11, AwaitedRebound
<1> QED BY <1>1, <1>6, <1>9, <1>11, <1>12, <1>13, <1>14, <1>15, WalkKeeps

(* A call of the walk for another chain of statements.                         *)
LEMMA EnterKeeps ==
  ASSUME AssemblerInv, phase = "translate", ~AtEnd, Stmt.kind # "label",
         UNCHANGED <<phase, symbols, insts>>, Unevaluated,
         NEW b \in DOMAIN source, NEW how \in {"include", "scope"},
         how = "include" => Files < FrameCapacity, calls' = Append(Moved, Frame(b, how)),
         ScopesOK', Len(scopes) <= Len(scopes'), scope' \in 1 .. Len(scopes'),
         \A s \in 1 .. Len(scopes) : scopes'[s] = scopes[s],
         \A s \in 1 .. Len(scopes') : s > Len(scopes) => DOMAIN scopes'[s].bindings = {},
         scope = IF how = "scope" THEN Outer(scope)' ELSE scope'
  PROVE  AssemblerInv'
<1> DEFINE n == Len(calls)
<1>1. WalkOK /\ ScopesOK /\ CodeOK /\ MarksOK /\ UNCHANGED <<source, eval, symbols, insts, entry>>
  BY DEF AssemblerInv, Unevaluated
<1>2. PICK of : InScopes(of) /\ LabelsAwaited(of)
  BY DEF AssemblerInv, PassesOK
<1>3. /\ n \in Nat \ {0} /\ n \in 1 .. n /\ Len(scopes) \in Nat /\ Len(scopes') \in Nat
      /\ Len(symbols) \in Nat /\ Len(insts) \in Nat
  BY <1>1, CurrentFacts, LenProperties DEF ScopesOK, CodeOK
<1>4. /\ WalkOK' /\ Len(calls') = n + 1 /\ \A i \in 1 .. n : calls'[i] = Moved[i]
      /\ calls'[n + 1] = Frame(b, how)
  BY <1>1, CallKeeps
<1>5. \A i \in 1 .. n : /\ calls'[i].as = calls[i].as /\ calls'[i].block = calls[i].block
                        /\ Pending(calls'[i]) = Pending(calls[i])
  <2>1. Current \in CallRec /\ Pending([Current EXCEPT !.at = @ + 1]) = Pending(Current) /\ calls[n] = Current
    BY <1>1, CurrentFacts, PendingMoved DEF Current
  <2> QED BY <1>1, <1>4, <2>1, MovedFacts DEF CallRec
<1>6. Pending(Frame(b, how)) = {} /\ Frame(b, how).as = how
  BY DEF Pending, Frame
<1>7. MarksOK'
  <2>1. \A i \in 1 .. Len(eval) : eval[i].do = "bind" /\ Marked(eval[i]) => Marked(eval[i])'
    BY <1>1, <1>3 DEF Marked
  <2> QED BY <1>1, <2>1, MarksStay
<1>8. CodeOK'
  BY <1>1, <1>3, CodeStays
<1> DEFINE og == [i \in 1 .. n + 1 |-> IF i = n + 1 THEN scope' ELSE of[i]]
<1>9. PICK g : g = og
  OBVIOUS
<1>10. g[n + 1] = scope' /\ (\A i \in 1 .. n : g[i] = of[i]) /\ g \in [1 .. n + 1 -> 1 .. Len(scopes')]
       /\ \A i \in 1 .. n : of[i] \in 1 .. Len(scopes)
  <2>1. of \in [1 .. n -> 1 .. Len(scopes)]
    BY <1>2 DEF InScopes
  <2>2. n + 1 \in 1 .. n + 1 /\ (\A i \in 1 .. n : i \in 1 .. n + 1 /\ i # n + 1)
        /\ (\A i \in 1 .. n + 1 : i \in 1 .. n \/ i = n + 1) /\ 1 .. Len(scopes) \subseteq 1 .. Len(scopes')
    BY <1>3
  <2> HIDE DEF n
  <2> QED BY <1>9, <2>1, <2>2
<1> HIDE DEF og
<1>11. InScopes(g)'
  <2>1. (\A i \in 1 .. Len(calls) : i # 1 => g[i - 1] = IF calls[i].as = "scope" THEN Outer(g[i]) ELSE g[i])'
    <3> SUFFICES ASSUME NEW i \in 1 .. n + 1, i # 1
                 PROVE  g[i - 1] = IF calls'[i].as = "scope" THEN Outer(g[i])' ELSE g[i]
      BY <1>4
    <3>1. CASE i = n + 1
      <4>1. g[i - 1] = scope /\ calls'[i].as = how
        BY <1>2, <1>3, <1>4, <1>6, <1>10, <3>1 DEF InScopes
      <4>2. g[i] = scope' /\ Outer(g[i])' = Outer(scope)'
        BY <1>10, <3>1 DEF Outer
      <4> QED BY <4>1, <4>2
    <3>2. CASE i # n + 1
      <4>1. i \in 1 .. n /\ i - 1 \in 1 .. n
        BY <1>3, <3>2
      <4>2. g[i] = of[i] /\ g[i - 1] = of[i - 1] /\ of[i] \in 1 .. Len(scopes)
            /\ of[i - 1] = IF calls[i].as = "scope" THEN Outer(of[i]) ELSE of[i]
        BY <1>2, <1>10, <4>1 DEF InScopes
      <4>3. Outer(g[i])' = Outer(of[i])
        BY <4>2 DEF Outer
      <4> QED BY <1>5, <4>1, <4>2, <4>3
    <3> QED BY <3>1, <3>2
  <2> QED BY <1>4, <1>10, <2>1 DEF InScopes
<1>12. LabelsAwaited(g)'
  <2>1. /\ n <= Len(calls') /\ n <= Len(calls) /\ Len(calls') \in Nat
        /\ \A i \in 1 .. Len(calls) : ~(i > n)
        /\ \A i \in 1 .. Len(calls') : i > n => i = n + 1
    BY <1>3, <1>4
  <2>2. \A i \in 1 .. Len(calls') : i > n => Pending(calls'[i]) = {}
    BY <1>4, <1>6, <2>1
  <2>3. \A s \in 1 .. Len(scopes) : scopes'[s].bindings = scopes[s].bindings
    OBVIOUS
  <2>4. \A i \in 1 .. n : /\ g[i] = of[i] /\ calls'[i].block = calls[i].block
                          /\ Pending(calls'[i]) = Pending(calls[i])
    BY <1>5, <1>10
  <2> QED BY <1>1, <1>2, <1>3, <1>10, <2>1, <2>2, <2>3, <2>4, AwaitedStay
<1>13. Len(symbols) <= Len(symbols') /\ Len(insts) <= Len(insts')
  BY <1>1, <1>3
<1> QED BY <1>4, <1>7, <1>8, <1>11, <1>12, <1>13, WalkKeeps

LEMMA IncludeKeeps ==
  ASSUME AssemblerInv, Include
  PROVE  AssemblerInv'
<1>1. WalkOK /\ ScopesOK /\ phase = "translate" /\ ~AtEnd /\ Stmt.kind = "include"
  BY DEF AssemblerInv, Include, At
<1>2. CASE Stop("failed") \/ Stop("overrun")
  BY <1>2, StopKeeps DEF Ended
<1>3. CASE /\ Stmt.path \in DOMAIN source /\ Files < FrameCapacity
           /\ calls' = Append(Moved, Frame(Stmt.path, "include"))
           /\ UNCHANGED <<phase, scope, names>> /\ Unevaluated
  <2>1. UNCHANGED <<phase, scope, scopes, symbols, insts, deferredEntry>>
    BY <1>3 DEF names
  <2>2. ScopesOK' /\ Len(scopes) \in Nat
    BY <1>1, <2>1, LenProperties DEF ScopesOK
  <2>3. scope \in 1 .. Len(scopes)
    BY <1>1, ScopeOpen DEF AssemblerInv, PassesOK
  <2>4. \A s \in 1 .. Len(scopes') : ~(s > Len(scopes))
    BY <2>1, <2>2
  <2> QED BY <1>1, <1>3, <2>1, <2>2, <2>3, <2>4, EnterKeeps
<1> QED BY <1>2, <1>3 DEF Include

LEMMA OpenScopeKeeps ==
  ASSUME AssemblerInv, OpenScope
  PROVE  AssemblerInv'
<1> DEFINE n == Len(scopes)
           sc == NewScope(n + 1, scope)
<1>1. /\ WalkOK /\ ScopesOK /\ CodeOK /\ phase = "translate" /\ ~AtEnd /\ Stmt.kind = "scope"
      /\ scopes' = Append(scopes, sc) /\ scope' = n + 1
      /\ calls' = Append(Moved, Frame(Stmt.body, "scope"))
      /\ UNCHANGED <<phase, symbols, insts, deferredEntry>> /\ Unevaluated
  BY DEF AssemblerInv, OpenScope, At
<1>2. n \in Nat /\ scope \in 1 .. n /\ Stmt.body \in DOMAIN source
  <2>1. scope \in 1 .. Len(scopes)
    BY <1>1, ScopeOpen DEF AssemblerInv, PassesOK
  <2> QED BY <1>1, <2>1, CurrentFacts, LenProperties DEF ScopesOK
<1>3. sc.chain = {n + 1} \cup scopes[scope].chain /\ sc.bindings = <<>> /\ sc = [chain |-> sc.chain, bindings |-> <<>>]
  BY <1>2 DEF NewScope
<1>4. /\ scope \in scopes[scope].chain /\ scopes[scope].chain \subseteq 1 .. scope
      /\ scopes[scope].chain \subseteq 1 .. n
  BY <1>1, <1>2, ScopeFacts
<1>5. DOMAIN sc.bindings = {} /\ sc \in ScopeRec
  <2>1. <<>> \in [{} -> Binding] /\ {} \in SUBSET Name
    OBVIOUS
  <2>2. <<>> \in BindingMaps
    BY <2>1 DEF BindingMaps
  <2>3. sc.chain \subseteq Nat
    BY <1>2, <1>3, <1>4
  <2> HIDE DEF sc
  <2> QED BY <1>3, <2>2, <2>3 DEF ScopeRec
<1> HIDE DEF sc
<1>6. /\ scopes' \in Seq(ScopeRec) /\ Len(scopes') = n + 1 /\ scopes'[n + 1] = sc
      /\ \A s \in 1 .. n : scopes'[s] = scopes[s]
  BY <1>1, <1>5, AppendProperties DEF ScopesOK
<1>7. ScopesOK'
  <2>1. ScopeOK(n + 1, sc, Len(insts))
    <3>1. IsFiniteSet({}) /\ Cardinality({}) = 0 /\ BINDINGS_CAPACITY \in Nat
      BY FS_EmptySet, SizesAssumption
    <3>2. n + 1 \in sc.chain /\ sc.chain \subseteq 1 .. n + 1
      BY <1>2, <1>3, <1>4
    <3> QED BY <1>5, <3>1, <3>2 DEF ScopeOK
  <2>2. \A s \in 1 .. Len(scopes') : ScopeOK(s, scopes'[s], Len(insts'))
    <3> TAKE s \in 1 .. Len(scopes')
    <3>1. s \in 1 .. n \/ s = n + 1
      BY <1>2, <1>6
    <3> QED BY <1>1, <1>6, <2>1, <3>1 DEF ScopesOK
  <2>3. scope' \in 0 .. Len(scopes') /\ deferredEntry' \in [set : BOOLEAN, name : Name, scope : 0 .. Len(scopes')]
    BY <1>1, <1>2, <1>6 DEF ScopesOK
  <2> QED BY <1>6, <2>2, <2>3 DEF ScopesOK
\* The new scope's outer one is the scope it was opened in.
<1>8. scope = Outer(scope)'
  <2> DEFINE S == scopes[scope].chain
  <2>1. sc.chain \ {n + 1} = S
    BY <1>2, <1>3, <1>4
  <2>2. S # {} /\ S \subseteq 1 .. n
    BY <1>4
  <2>3. PICK t : t = Innermost(S)
    OBVIOUS
  <2>4. t \in S /\ scope <= t
    <3> HIDE DEF S
    <3>1. Innermost(S) \in S /\ \A u \in S : u <= Innermost(S)
      BY <1>2, <2>2, InnermostIsGreatest
    <3> QED BY <1>4, <2>3, <3>1 DEF S
  <2>5. t = scope
    BY <1>2, <1>4, <2>4
  <2>6. Outer(scope)' = IF S = {} THEN 0 ELSE Innermost(S)
    BY <1>1, <1>6, <2>1 DEF Outer
  <2> QED BY <2>2, <2>3, <2>5, <2>6
<1>9. /\ n <= Len(scopes') /\ scope' \in 1 .. Len(scopes')
      /\ \A s \in 1 .. Len(scopes') : s > n => DOMAIN scopes'[s].bindings = {}
  <2>1. \A s \in 1 .. Len(scopes') : s > n => s = n + 1
    BY <1>2, <1>6
  <2> QED BY <1>1, <1>2, <1>5, <1>6, <2>1
<1> QED BY <1>1, <1>2, <1>6, <1>7, <1>8, <1>9, EnterKeeps

LEMMA ReturnKeeps ==
  ASSUME AssemblerInv, Return
  PROVE  AssemblerInv'
<1> DEFINE n == Len(calls)
<1>1. /\ WalkOK /\ ScopesOK /\ CodeOK /\ MarksOK /\ phase = "translate" /\ AtEnd /\ Current.pass = 2
  BY DEF AssemblerInv, Return
<1>2. CASE Stop("failed")
  BY <1>2, StopKeeps DEF Ended
<1>3. CASE /\ calls' = SubSeq(calls, 1, n - 1)
           /\ scope' = IF Current.as = "include" THEN scope ELSE Outer(scope)
           /\ phase' = IF Current.as = "root" THEN "operands" ELSE phase
           /\ UNCHANGED names /\ Unevaluated
  <2>1. /\ n \in Nat \ {0} /\ n \in 1 .. n /\ calls \in Seq(CallRec) /\ Current \in CallRec /\ calls[n] = Current
        /\ Current.at = Len(source[Current.block]) + 1 /\ Len(source[Current.block]) \in Nat
        /\ Len(scopes) \in Nat /\ Len(symbols) \in Nat /\ Len(insts) \in Nat
    BY <1>1, CurrentFacts, LenProperties DEF WalkOK, ScopesOK, CodeOK, AtEnd, Current
  <2>2. UNCHANGED <<source, scopes, symbols, insts, deferredEntry, entry, eval>>
    BY <1>3 DEF names, Unevaluated
  <2>3. Pending(calls[n]) = {}
    <3>1. \A k \in 1 .. Len(source[Current.block]) : k < Current.at
      BY <2>1
    <3> QED BY <1>1, <2>1, <3>1 DEF Pending
  <2>4. /\ calls' \in Seq(CallRec) /\ Len(calls') = n - 1
        /\ \A i \in 1 .. n - 1 : calls'[i] = calls[i]
    <3>1. \A i \in 1 .. n - 1 : calls[i] \in CallRec
      <4> TAKE i \in 1 .. n - 1
      <4>1. i \in 1 .. Len(calls)
        BY <2>1
      <4> QED BY <2>1, <4>1, ElementOfSeq
    <3>2. /\ SubSeq(calls, 1, n - 1) \in Seq(CallRec)
          /\ Len(SubSeq(calls, 1, n - 1)) = IF 1 <= n - 1 THEN n - 1 - 1 + 1 ELSE 0
          /\ \A i \in 1 .. n - 1 - 1 + 1 : SubSeq(calls, 1, n - 1)[i] = calls[1 + i - 1]
      BY <2>1, <3>1, SubSeqProperties
    <3> HIDE DEF n
    <3> QED BY <1>3, <2>1, <3>2
  <2>5. WalkOK'
    <3>1. \A i \in 1 .. Len(calls') : CallOK(i, calls[i])'
      <4> TAKE i \in 1 .. Len(calls')
      <4>1. CallOK(i, calls[i]) /\ calls'[i] = calls[i]
        BY <1>1, <2>1, <2>4 DEF WalkOK
      <4> QED BY <2>2, <4>1 DEF CallOK
    <3>2. Files' <= FrameCapacity
      <4>1. DOMAIN calls = 1 .. n /\ DOMAIN calls' = 1 .. n - 1
        BY <2>1, <2>4, LenProperties
      <4>2. FileSet(calls') \subseteq FileSet(calls)
        BY <2>1, <2>4, <4>1 DEF FileSet
      <4>3. IsFiniteSet(FileSet(calls))
        <5>1. IsFiniteSet(1 .. n)
          BY <2>1, FS_Interval
        <5> QED BY <4>1, <5>1, FS_Subset DEF FileSet
      <4>4. /\ Cardinality(FileSet(calls')) <= Cardinality(FileSet(calls))
            /\ Cardinality(FileSet(calls)) \in Nat /\ Cardinality(FileSet(calls')) \in Nat
        BY <4>2, <4>3, FS_Subset, FS_CardinalityType
      <4>5. Cardinality(FileSet(calls)) <= FrameCapacity /\ FrameCapacity \in Nat
        BY <1>1, SizesAssumption DEF WalkOK, Files, FileSet
      <4>6. Cardinality(FileSet(calls')) <= FrameCapacity
        BY <4>4, <4>5
      <4> QED BY <4>6 DEF Files, FileSet
    <3>3. phase' = "translate" => calls' # <<>>
      <4>1. Current.as = "root" <=> n = 1
        BY <1>1, <2>1 DEF WalkOK, CallOK
      <4>2. n # 1 => Len(calls') # 0
        BY <2>1, <2>4
      <4> QED BY <1>3, <4>1, <4>2, EmptySeq
    <3>4. phase' \in Phases
      BY <1>3, <1>1 DEF Phases
    <3> QED BY <1>1, <2>2, <2>4, <3>1, <3>2, <3>3, <3>4 DEF WalkOK
  <2>6. scope' \in 0 .. Len(scopes) /\ scope \in 1 .. Len(scopes)
    <3>1. scope \in 1 .. Len(scopes)
      BY <1>1, ScopeOpen DEF AssemblerInv, PassesOK
    <3>2. Outer(scope) \in 0 .. Len(scopes)
      BY <1>1, <3>1, OuterFacts
    <3> QED BY <1>3, <2>1, <3>1, <3>2
  <2>7. ScopesOK'
    BY <1>1, <2>2, <2>6 DEF ScopesOK
  <2>8. MarksOK'
    BY <1>1, <2>2, MarksStay DEF Marked
  <2>9. CodeOK'
    BY <1>1, <2>1, <2>2, CodeStays
  <2>10. PICK of : InScopes(of) /\ LabelsAwaited(of)
    BY <1>1 DEF AssemblerInv, PassesOK
  <2>11. Len(symbols) <= Len(symbols') /\ Len(insts) <= Len(insts')
    BY <2>1, <2>2
  <2>12. CASE Current.as = "root"
    <3>1. n = 1
      BY <1>1, <2>1, <2>12 DEF WalkOK, CallOK
    <3>2. NoneDeferred
      <4>1. \A i \in 1 .. Len(calls) : Pending(calls[i]) = {}
        BY <2>1, <2>3, <3>1
      <4> QED BY <2>10, <4>1 DEF LabelsAwaited, PendingAt, LabelAt, BoundIn, NoneDeferred
    <3>3. PassesOK'
      BY <1>3, <2>2, <2>12, <3>2 DEF PassesOK, NoneDeferred
    <3>4. DataOK' /\ EvalOK'
      BY <1>3, <2>1, <2>2, <2>11, UnevaluatedKeeps
    <3> QED BY <2>5, <2>7, <2>8, <2>9, <3>3, <3>4 DEF AssemblerInv
  <2>13. CASE Current.as # "root"
    <3>1. n # 1 /\ n - 1 \in 1 .. n - 1 /\ n - 1 \in 1 .. n
      BY <1>1, <2>1, <2>13 DEF WalkOK, CallOK
    <3> DEFINE og == [i \in 1 .. n - 1 |-> of[i]]
    <3>2. PICK g : g = og
      OBVIOUS
    <3>3. /\ g \in [1 .. n - 1 -> 1 .. Len(scopes)] /\ \A i \in 1 .. n - 1 : g[i] = of[i]
          /\ \A i \in 1 .. n : of[i] \in 1 .. Len(scopes)
      <4>1. of \in [1 .. n -> 1 .. Len(scopes)]
        BY <2>10 DEF InScopes
      <4>2. \A i \in 1 .. n - 1 : i \in 1 .. n
        BY <2>1
      <4> HIDE DEF n
      <4> QED BY <3>2, <4>1, <4>2
    <3> HIDE DEF og
    <3>4. g[n - 1] = scope'
      <4>1. of[n] = scope /\ of[n - 1] = IF calls[n].as = "scope" THEN Outer(of[n]) ELSE of[n]
        BY <2>1, <2>10, <3>1 DEF InScopes
      <4>2. Current.as \in {"include", "scope"}
        BY <2>1, <2>13 DEF CallRec
      <4> QED BY <1>3, <2>1, <2>13, <3>1, <3>3, <4>1, <4>2
    <3>5. InScopes(g)'
      <4>1. (\A i \in 1 .. Len(calls) : i # 1 => g[i - 1] = IF calls[i].as = "scope" THEN Outer(g[i]) ELSE g[i])'
        <5> SUFFICES ASSUME NEW i \in 1 .. n - 1, i # 1
                     PROVE  g[i - 1] = IF calls'[i].as = "scope" THEN Outer(g[i])' ELSE g[i]
          BY <2>4
        <5>1. i \in 1 .. n /\ i - 1 \in 1 .. n - 1
          BY <2>1
        <5>2. g[i] = of[i] /\ g[i - 1] = of[i - 1]
              /\ of[i - 1] = IF calls[i].as = "scope" THEN Outer(of[i]) ELSE of[i]
          BY <2>10, <3>3, <5>1 DEF InScopes
        <5>3. Outer(g[i])' = Outer(of[i])
          BY <2>2, <5>2 DEF Outer
        <5> QED BY <2>4, <5>2, <5>3
      <4> QED BY <2>2, <2>4, <3>3, <3>4, <4>1 DEF InScopes
    <3>6. LabelsAwaited(g)'
      <4>1. /\ n - 1 \in Nat /\ n - 1 <= Len(calls) /\ n - 1 <= Len(calls') /\ Len(calls') \in Nat
            /\ \A i \in 1 .. Len(calls) : i > n - 1 => i = n
            /\ \A i \in 1 .. Len(calls') : ~(i > n - 1)
            /\ \A i \in 1 .. n - 1 : i \in 1 .. n
            /\ \A s \in 1 .. Len(scopes') : ~(s > Len(scopes)) /\ Len(scopes) <= Len(scopes')
        BY <2>1, <2>2, <2>4
      <4>2. \A i \in 1 .. Len(calls) : i > n - 1 => Pending(calls[i]) = {}
        BY <2>3, <4>1
      <4>3. \A i \in 1 .. n - 1 : /\ g[i] = of[i] /\ calls'[i].block = calls[i].block
                                  /\ Pending(calls'[i]) = Pending(calls[i]) /\ of[i] \in 1 .. Len(scopes)
        BY <2>4, <3>3, <4>1
      <4>4. Len(scopes) <= Len(scopes') /\ \A s \in 1 .. Len(scopes) : scopes'[s].bindings = scopes[s].bindings
        BY <2>1, <2>2
      <4> QED BY <2>1, <2>2, <2>10, <4>1, <4>2, <4>3, <4>4, AwaitedStay
    <3> QED BY <1>1, <1>3, <2>5, <2>7, <2>8, <2>9, <2>11, <2>13, <3>5, <3>6, WalkKeeps
  <2> QED BY <2>12, <2>13
<1> QED BY <1>2, <1>3 DEF Return
-----------------------------------------------------------------------------
(* Then those of an evaluation.                                                *)
LEMMA EvaluationKeeps ==
  ASSUME AssemblerInv, phase = "operands", Walked,
         ScopesOK', Len(scopes') = Len(scopes), NoneDeferred', DataOK', EvalOK', MarksOK'
  PROVE  AssemblerInv'
<1>1. WalkOK /\ ScopesOK /\ CodeOK /\ UNCHANGED <<source, phase, calls, scope, symbols, insts, deferredEntry, entry>>
  BY DEF AssemblerInv, Walked
<1>2. WalkOK'
  BY <1>1 DEF WalkOK, CallOK, Files
<1>3. CodeOK'
  BY <1>1, LenProperties, CodeStays DEF ScopesOK
<1>4. PassesOK'
  BY <1>1 DEF PassesOK
<1> QED BY <1>2, <1>3, <1>4 DEF AssemblerInv

(* The innermost call of an evaluation, and what is left without it.           *)
LEMMA TopFacts ==
  ASSUME EvalOK, Evaluating
  PROVE  /\ Len(eval) \in Nat \ {0} /\ Len(eval) \in 1 .. Len(eval)
         /\ Top \in EvalRec /\ Top = eval[Len(eval)] /\ next <= Len(symbols)
         /\ Popped \in Seq(EvalRec) /\ Len(Popped) = Len(eval) - 1
         /\ \A i \in 1 .. Len(eval) - 1 : Popped[i] = eval[i] /\ i \in 1 .. Len(eval) /\ i # Len(eval)
<1>1. eval \in Seq(EvalRec) /\ eval # <<>> /\ next <= Len(symbols)
  BY DEF EvalOK, Evaluating
<1>2. Len(eval) \in Nat \ {0} /\ Len(eval) \in 1 .. Len(eval)
  BY <1>1, EmptySeq
<1>3. Top \in EvalRec
  BY <1>1, <1>2, ElementOfSeq DEF Top
<1> DEFINE n == Len(eval)
<1>4. \A i \in 1 .. n - 1 : i \in 1 .. n /\ i # n
  BY <1>2
<1>5. \A i \in 1 .. n - 1 : eval[i] \in EvalRec
  BY <1>1, <1>4, ElementOfSeq
<1>6. /\ SubSeq(eval, 1, n - 1) \in Seq(EvalRec)
      /\ Len(SubSeq(eval, 1, n - 1)) = IF 1 <= n - 1 THEN n - 1 - 1 + 1 ELSE 0
      /\ \A i \in 1 .. n - 1 - 1 + 1 : SubSeq(eval, 1, n - 1)[i] = eval[1 + i - 1]
  BY <1>2, <1>5, SubSeqProperties
<1>7. Popped = SubSeq(eval, 1, n - 1)
  BY DEF Popped
<1>8. n \in Nat \ {0}
  BY <1>2
<1>9. Popped \in Seq(EvalRec) /\ Len(Popped) = n - 1 /\ \A i \in 1 .. n - 1 : Popped[i] = eval[i]
  <2> HIDE DEF n
  <2> QED BY <1>6, <1>7, <1>8
<1> QED BY <1>1, <1>2, <1>3, <1>4, <1>9 DEF Top

LEMMA AnswerKeeps ==
  ASSUME AssemblerInv, Evaluating, NEW a \in Answer, Answers(a), a.status = "OK",
         a.type = "INST_ADDR" => a.value <= Len(insts),
         Walked, UNCHANGED scopes, DataOK'
  PROVE  AssemblerInv'
<1>1. /\ ScopesOK /\ EvalOK /\ MarksOK /\ NoneDeferred /\ phase = "operands"
      /\ UNCHANGED <<scope, symbols, insts, deferredEntry, next, second>>
      /\ eval' = Popped /\ answer' = a
  BY DEF AssemblerInv, PassesOK, Evaluating, Walked, Answers
<1>2. /\ Len(eval) \in Nat \ {0} /\ next <= Len(symbols)
      /\ Popped \in Seq(EvalRec) /\ Len(Popped) = Len(eval) - 1
      /\ \A i \in 1 .. Len(eval) - 1 : Popped[i] = eval[i] /\ i \in 1 .. Len(eval)
  BY <1>1, TopFacts
<1>3. ScopesOK' /\ NoneDeferred'
  BY <1>1 DEF ScopesOK, NoneDeferred
<1>4. EvalOK'
  BY <1>1, <1>2 DEF EvalOK
<1>5. MarksOK'
  <2>1. \A i \in 1 .. Len(eval') : i \in 1 .. Len(eval) /\ eval'[i] = eval[i]
    BY <1>1, <1>2
  <2>2. \A i \in 1 .. Len(eval) : Marked(eval[i])' <=>
          /\ eval'[i].scope \in 1 .. Len(scopes)
          /\ eval'[i].name \in DOMAIN scopes[eval'[i].scope].bindings
          /\ scopes[eval'[i].scope].bindings[eval'[i].name].status = "EVALUATING"
    BY DEF Marked
  <2> QED BY <1>1, <2>1, <2>2 DEF MarksOK, Marked
<1> QED BY <1>1, <1>3, <1>4, <1>5, EvaluationKeeps

LEMMA LiteralKeeps ==
  ASSUME AssemblerInv, Literal
  PROVE  AssemblerInv'
<1> DEFINE v == Top.expr.value
<1>1. /\ Evaluating /\ Top.do = "expr" /\ Top.expr.type \in {"int", "reg"}
      /\ Answers(OK(v, "UINT")) /\ Walked /\ UNCHANGED <<scopes, data>> /\ EvalOK /\ DataOK
  BY DEF AssemblerInv, Literal, Wants
<1>2. Top \in EvalRec
  BY <1>1, TopFacts
<1>3. Top.expr \in Expr \cup {NoExpr}
  BY <1>1, <1>2 DEF EvalRec
<1>4. v \in Word
  <2>1. CASE Top.expr \in Expr
    <3>1. v \in Word \/ v \in 0 .. REG_COUNT - 1
      BY <1>1, <2>1, ExprAssumption DEF ExprShape
    <3> QED BY <3>1, SizesAssumption DEF Word
  <2>2. CASE Top.expr = NoExpr
    BY <2>2, SizesAssumption DEF Word, NoExpr
  <2> QED BY <1>3, <2>1, <2>2
<1>5. OK(v, "UINT") \in Answer /\ OK(v, "UINT").status = "OK" /\ OK(v, "UINT").type = "UINT"
  BY <1>4 DEF OK, Answer, BindType
<1>6. DataOK'
  BY <1>1, DataStays
<1> QED BY <1>1, <1>5, <1>6, AnswerKeeps

LEMMA StringKeeps ==
  ASSUME AssemblerInv, String
  PROVE  AssemblerInv'
<1> DEFINE text == Top.expr.text
           m == memorySize + Len(text)
<1>1. Evaluating /\ EvalOK /\ DataOK /\ Top.do = "expr" /\ Top.expr.type = "str"
  BY DEF AssemblerInv, String, Wants
<1>2. CASE Stop("aborted") \/ Stop("wild")
  BY <1>2, StopKeeps DEF Ended
<1>3. CASE /\ m <= MEMORY_CAPACITY /\ Len(stringLens) < STRING_LENGTHS_CAPACITY
           /\ memory' = Written(text)
           /\ Reserved(m)
           /\ stringLens' = Append(stringLens, [addr |-> memorySize, length |-> Len(text)])
           /\ Answers(OK(memorySize, "MEM_ADDR"))
           /\ Walked /\ UNCHANGED scopes
  <2>1. Top.expr \in Expr
    <3>1. Top \in EvalRec
      BY <1>1, TopFacts
    <3>2. Top.expr \in Expr \cup {NoExpr}
      BY <1>1, <3>1 DEF EvalRec
    <3> QED BY <1>1, <3>2 DEF NoExpr
  <2>2. text \in Seq(Char)
    BY <1>1, <2>1, ExprAssumption DEF ExprShape
  <2>3. /\ memorySize \in Nat /\ Len(text) \in Nat /\ memorySize \in Word /\ Len(text) \in Word
        /\ MEMORY_CAPACITY \in Nat /\ STRING_LENGTHS_CAPACITY \in Nat
    <3>1. Len(text) \in Nat /\ memorySize \in Nat /\ memorySize <= MEMORY_CAPACITY
      BY <1>1, <2>2, LenProperties, SizesAssumption DEF DataOK
    <3> HIDE DEF text
    <3> QED BY <1>3, <3>1, SizesAssumption DEF Word
  <2>4. memory' \in [MemoryAddr -> Char]
    <3>1. \A a \in MemoryAddr : memory[a] \in Char
      BY <1>1 DEF DataOK
    <3>2. \A a \in MemoryAddr : a \in memorySize .. memorySize + Len(text) - 1 => text[a - memorySize + 1] \in Char
      <4> TAKE a \in MemoryAddr
      <4> HAVE a \in memorySize .. memorySize + Len(text) - 1
      <4>1. a - memorySize + 1 \in 1 .. Len(text)
        <5> HIDE DEF text
        <5> QED BY <2>3
      <4> QED BY <2>2, <4>1, ElementOfSeq
    <3>3. Written(text) \in [MemoryAddr -> Char]
      <4>1. \A a \in MemoryAddr : (IF a \in memorySize .. memorySize + Len(text) - 1
                                    THEN text[a - memorySize + 1] ELSE memory[a]) \in Char
        BY <3>1, <3>2
      <4> HIDE DEF text
      <4> QED BY <4>1 DEF Written
    <3> QED BY <1>3, <3>3
  <2>5. stringLens' \in Seq([addr : Word, length : Word]) /\ Len(stringLens') = Len(stringLens) + 1
        /\ Len(stringLens) \in Nat
    <3>1. [addr |-> memorySize, length |-> Len(text)] \in [addr : Word, length : Word]
      BY <2>3
    <3> QED BY <1>1, <1>3, <3>1, AppendProperties, LenProperties DEF DataOK
  <2>6. memorySize' \in 0 .. MEMORY_CAPACITY /\ memoryCapacity' \in memorySize' .. MEMORY_CAPACITY
    <3> HIDE DEF text
    <3> QED BY <1>1, <1>3, <2>3 DEF Reserved, DataOK
  <2>7. DataOK'
    BY <1>3, <2>3, <2>4, <2>5, <2>6 DEF DataOK
  <2>8. /\ OK(memorySize, "MEM_ADDR") \in Answer /\ OK(memorySize, "MEM_ADDR").status = "OK"
        /\ OK(memorySize, "MEM_ADDR").type = "MEM_ADDR"
    BY <2>3 DEF OK, Answer, BindType
  <2> QED BY <1>1, <1>3, <2>7, <2>8, AnswerKeeps
<1> QED BY <1>2, <1>3 DEF String

Pushed(f, e) == Popped \o <<f, Todo(e)>>
LEMMA PushedFacts ==
  ASSUME EvalOK, Evaluating, NEW f \in EvalRec, NEW e \in Expr \cup {NoExpr}, NEW g, g = Pushed(f, e)
  PROVE  /\ g \in Seq(EvalRec) /\ Len(g) = Len(eval) + 1
         /\ \A i \in 1 .. Len(eval) - 1 : g[i] = eval[i] /\ i \in 1 .. Len(eval) /\ i # Len(eval)
         /\ g[Len(eval)] = f /\ g[Len(eval) + 1] = Todo(e)
<1> DEFINE n == Len(eval)
           two == <<f, Todo(e)>>
<1>1. /\ n \in Nat \ {0} /\ Popped \in Seq(EvalRec) /\ Len(Popped) = n - 1
      /\ \A i \in 1 .. n - 1 : Popped[i] = eval[i] /\ i \in 1 .. n /\ i # n
  BY TopFacts
<1>2. Todo(e) \in EvalRec
  BY DEF Todo, EvalRec
<1>3. two \in Seq(EvalRec) /\ Len(two) = 2 /\ two[1] = f /\ two[2] = Todo(e)
  BY <1>2
<1> HIDE DEF n, two
<1>4. /\ Popped \o two \in Seq(EvalRec) /\ Len(Popped \o two) = Len(Popped) + Len(two)
      /\ \A i \in 1 .. Len(Popped) + Len(two) :
           (Popped \o two)[i] = IF i <= Len(Popped) THEN Popped[i] ELSE two[i - Len(Popped)]
  <2>1. two \in Seq(EvalRec) /\ Popped \in Seq(EvalRec)
    BY <1>1, <1>3
  <2> QED BY <2>1, ConcatProperties, Zenon
<1>5. g = Popped \o two
  BY DEF two, Pushed
<1>6. \A i \in 1 .. n + 1 : g[i] = IF i <= n - 1 THEN Popped[i] ELSE two[i - (n - 1)]
  BY <1>1, <1>3, <1>4, <1>5
<1>7. g \in Seq(EvalRec) /\ Len(g) = n + 1
  BY <1>1, <1>3, <1>4, <1>5
<1>8. \A i \in 1 .. n - 1 : g[i] = eval[i]
  BY <1>1, <1>6
<1>9. g[n] = f /\ g[n + 1] = Todo(e)
  <2>1. /\ n \in 1 .. n + 1 /\ ~(n <= n - 1) /\ n - (n - 1) = 1
        /\ n + 1 \in 1 .. n + 1 /\ ~(n + 1 <= n - 1) /\ n + 1 - (n - 1) = 2
    BY <1>1
  <2>2. g[n] = two[1]
    BY <1>6, <2>1
  <2>3. g[n + 1] = two[n + 1 - (n - 1)]
    BY <1>6, <2>1
  <2> QED BY <1>3, <2>1, <2>2, <2>3
<1> QED BY <1>1, <1>7, <1>8, <1>9 DEF n

(* A call that must wait for another's answer keeps everything if the calls    *)
(* around it and its own mark are kept.                                        *)
LEMMA PushKeeps ==
  ASSUME AssemblerInv, Evaluating, answer = NoAnswer, NEW f \in EvalRec, NEW e \in Expr \cup {NoExpr},
         eval' = Pushed(f, e), Walked, UNCHANGED <<data, answer>>,
         ScopesOK', Len(scopes') = Len(scopes), NoneDeferred',
         \A i \in 1 .. Len(eval) - 1 : eval[i].do = "bind" => Marked(eval[i])' /\ eval[i] # f,
         f.do = "bind" => Marked(f)'
  PROVE  AssemblerInv'
<1> DEFINE n == Len(eval)
<1>1. /\ EvalOK /\ MarksOK /\ DataOK /\ phase = "operands"
      /\ UNCHANGED <<symbols, insts, next, second>>
  BY DEF AssemblerInv, Evaluating, Walked
<1>2. n \in Nat \ {0} /\ next <= Len(symbols)
  BY <1>1, TopFacts
<1>3. /\ eval' \in Seq(EvalRec) /\ Len(eval') = n + 1
      /\ \A i \in 1 .. n - 1 : eval'[i] = eval[i] /\ i \in 1 .. n
      /\ eval'[n] = f /\ eval'[n + 1] = Todo(e)
  BY <1>1, PushedFacts
<1>4. EvalOK'
  BY <1>1, <1>2, <1>3 DEF EvalOK
<1>5. MarksOK'
  <2>1. \A i \in 1 .. Len(eval') : i \in 1 .. n - 1 \/ i = n \/ i = n + 1
    BY <1>2, <1>3
  <2>2. Todo(e).do # "bind"
    BY DEF Todo
  <2>3. \A i \in 1 .. Len(eval') : eval'[i].do = "bind" =>
          \/ i \in 1 .. n - 1 /\ eval'[i] = eval[i] /\ eval[i] # f /\ i \in 1 .. n
          \/ i = n /\ eval'[i] = f
    BY <1>3, <2>1, <2>2
  <2>4. \A i \in 1 .. Len(eval') : eval'[i].do = "bind" => Marked(eval[i])'
    <3> TAKE i \in 1 .. Len(eval')
    <3> HAVE eval'[i].do = "bind"
    <3>1. CASE i \in 1 .. n - 1 /\ eval'[i] = eval[i]
      BY <3>1 DEF Marked
    <3>2. CASE i = n /\ eval'[i] = f
      BY <3>2 DEF Marked
    <3> QED BY <2>3, <3>1, <3>2
  <2>5. \A i, j \in 1 .. Len(eval') :
          eval'[i].do = "bind" /\ eval'[j].do = "bind" /\ eval'[i] = eval'[j] => i = j
    <3> TAKE i, j \in 1 .. Len(eval')
    <3> HAVE eval'[i].do = "bind" /\ eval'[j].do = "bind" /\ eval'[i] = eval'[j]
    <3>1. CASE i = n \/ j = n
      BY <1>3, <2>3, <3>1
    <3>2. CASE i # n /\ j # n
      <4>1. /\ eval'[i] = eval[i] /\ i \in 1 .. n
            /\ eval'[j] = eval[j] /\ j \in 1 .. n
        BY <2>3, <3>2
      <4> QED BY <1>1, <4>1 DEF MarksOK
    <3> QED BY <3>1, <3>2
  <2> QED BY <2>4, <2>5 DEF MarksOK
<1>6. DataOK'
  BY <1>1, DataStays
<1> QED BY <1>1, <1>4, <1>5, <1>6, EvaluationKeeps

LEMMA FuncallKeeps ==
  ASSUME AssemblerInv, Funcall
  PROVE  AssemblerInv'
<1> DEFINE f == [do |-> "call", name |-> Top.expr.name]
<1>1. /\ EvalOK /\ ScopesOK /\ MarksOK /\ Evaluating /\ NoneDeferred
      /\ answer = NoAnswer /\ Top.do = "expr" /\ Top.expr.type = "funcall"
  BY DEF AssemblerInv, Funcall, Wants, PassesOK, Evaluating
<1>2. CASE Stop("failed")
  BY <1>2, StopKeeps DEF Ended
<1>3. CASE /\ Len(Top.expr.args) = 1
           /\ eval' = Pushed(f, Top.expr.args[1])
           /\ Walked /\ UNCHANGED <<scopes, data, answer>>
  <2>1. Top.expr \in Expr
    <3>1. Top \in EvalRec
      BY <1>1, TopFacts
    <3>2. Top.expr \in Expr \cup {NoExpr}
      BY <1>1, <3>1 DEF EvalRec
    <3> QED BY <1>1, <3>2 DEF NoExpr
  <2>2. Top.expr.name \in STRING /\ Top.expr.args \in Seq(Expr)
    BY <1>1, <2>1, ExprAssumption DEF ExprShape
  <2>3. f \in EvalRec /\ f.do = "call" /\ Top.expr.args[1] \in Expr
    <3>1. 1 \in 1 .. Len(Top.expr.args)
      BY <1>3
    <3> QED BY <2>2, <3>1, ElementOfSeq DEF EvalRec
  <2>4. ScopesOK' /\ NoneDeferred' /\ Len(scopes') = Len(scopes)
    BY <1>1, <1>3 DEF ScopesOK, NoneDeferred, Walked
  <2>5. \A i \in 1 .. Len(eval) - 1 : eval[i].do = "bind" => Marked(eval[i])' /\ eval[i] # f
    <3> TAKE i \in 1 .. Len(eval) - 1
    <3> HAVE eval[i].do = "bind"
    <3>1. Marked(eval[i])
      BY <1>1, TopFacts DEF MarksOK
    <3>2. PICK q : q = eval[i]
      OBVIOUS
    <3>3. Len(eval) + 1 \in Nat /\ eval'[i] = eval[i]
      BY <1>1, <1>3, <2>3, PushedFacts, TopFacts
    <3>4. Marked(eval[i])'
      BY <1>3, <3>1, <3>3 DEF Marked
    <3> QED BY <3>4
  <2> HIDE DEF f
  <2> QED BY <1>1, <1>3, <2>3, <2>4, <2>5, PushKeeps
<1> QED BY <1>2, <1>3 DEF Funcall, Pushed

LEMMA NoneDeferredStays ==
  ASSUME NoneDeferred, NEW s \in 1 .. Len(scopes), NEW name, NEW b, Rebound(s, name, b), b.status # "DEFERRED"
  PROVE  NoneDeferred'
BY DEF NoneDeferred, Rebound

LEMMA NamedKeeps ==
  ASSUME AssemblerInv, Named
  PROVE  AssemblerInv'
<1>1. /\ EvalOK /\ ScopesOK /\ CodeOK /\ MarksOK /\ DataOK /\ Evaluating /\ NoneDeferred
      /\ answer = NoAnswer /\ Top.do = "expr" /\ Top.expr.type = "binding"
  BY DEF AssemblerInv, Named, Wants, PassesOK, Evaluating
<1>2. PICK n : n = Top.expr.name
  OBVIOUS
<1>3. PICK s : s = Resolve(scope, n)
  OBVIOUS
<1>4. PICK b : b = scopes[s].bindings[n]
  OBVIOUS
<1> DEFINE c == [b EXCEPT !.status = "EVALUATING"]
           f == [do |-> "bind", scope |-> s, name |-> n]
<1>5. CASE Stop("failed")
  BY <1>5, StopKeeps DEF Ended
<1>6. s # 0 => s \in 1 .. Len(scopes) /\ n \in DOMAIN scopes[s].bindings
  BY <1>1, <1>3, ResolveFacts DEF ScopesOK
<1>7. s # 0 => n \in Name /\ b \in Binding /\ BindingOK(b, Len(insts)) /\ b.status # "DEFERRED"
  BY <1>1, <1>4, <1>6, ScopeFacts DEF NoneDeferred
<1>8. CASE /\ s # 0 /\ ToEvaluate(b)
           /\ Rebind(s, n, c)
           /\ eval' = Pushed(f, b.expr)
           /\ Walked /\ UNCHANGED <<data, answer>>
  <2>1. /\ s \in 1 .. Len(scopes) /\ n \in DOMAIN scopes[s].bindings /\ n \in Name /\ s \in Nat
        /\ b \in Binding /\ BindingOK(b, Len(insts)) /\ b.status = "UNEVALUATED"
        /\ scopes[s].bindings[n].status = "UNEVALUATED"
    BY <1>4, <1>6, <1>7, <1>8 DEF ToEvaluate
  <2>2. c \in Binding /\ c.status = "EVALUATING" /\ c.type = b.type
    BY <2>1 DEF Binding, BindStatus
  <2>3. BindingOK(c, Len(insts))
    BY <2>1, <2>2 DEF BindingOK
  <2>4. f \in EvalRec /\ f.scope = s /\ f.name = n /\ b.expr \in Expr \cup {NoExpr}
    BY <2>1 DEF EvalRec, Binding, NoExpr
  <2> HIDE DEF f, c
  <2>5. ScopesOK' /\ Rebound(s, n, c)
    <3>1. UNCHANGED <<scope, deferredEntry>> /\ Len(insts') = Len(insts)
      BY <1>8 DEF Walked
    <3> QED BY <1>1, <1>8, <2>1, <2>2, <2>3, <3>1, RebindKeeps
  <2>6. NoneDeferred' /\ Len(scopes') = Len(scopes)
    BY <1>1, <2>1, <2>2, <2>5, NoneDeferredStays DEF Rebound
  <2>7. \A i \in 1 .. Len(eval) - 1 : eval[i].do = "bind" => Marked(eval[i])' /\ eval[i] # f
    <3> TAKE i \in 1 .. Len(eval) - 1
    <3> HAVE eval[i].do = "bind"
    <3>1. Marked(eval[i])
      BY <1>1, TopFacts DEF MarksOK
    <3>2. eval[i].scope # s \/ eval[i].name # n
      BY <2>1, <3>1 DEF Marked
    <3>3. eval'[i] = eval[i]
      BY <1>1, <1>8, <2>4, PushedFacts
    <3>4. Marked(eval[i])'
      BY <2>1, <2>5, <3>1, <3>2, <3>3, MarkedElsewhere DEF Marked
    <3> QED BY <2>4, <3>2, <3>4
  <2>8. Marked(f)'
    BY <2>1, <2>2, <2>4, <2>5 DEF Marked, Rebound
  <2> QED BY <1>1, <1>8, <2>4, <2>5, <2>6, <2>7, <2>8, PushKeeps
<1>9. CASE /\ s # 0 /\ b.status \in {"EVALUATED", "DEFERRED"}
           /\ Answers(IF b.status = "EVALUATED" THEN OK(b.value, b.type) ELSE Deferred)
           /\ Walked /\ UNCHANGED <<scopes, data>>
  <2>1. b \in Binding /\ BindingOK(b, Len(insts)) /\ b.status = "EVALUATED"
    BY <1>7, <1>9
  <2>2. OK(b.value, b.type) \in Answer
    BY <2>1 DEF OK, Answer, Binding
  <2>3. /\ OK(b.value, b.type).status = "OK"
        /\ OK(b.value, b.type).type = "INST_ADDR" => OK(b.value, b.type).value <= Len(insts)
    BY <2>1 DEF OK, BindingOK
  <2>4. DataOK'
    BY <1>1, <1>9, DataStays
  <2>5. Answers(OK(b.value, b.type))
    BY <1>9, <2>1
  <2> QED BY <1>1, <1>9, <2>2, <2>3, <2>4, <2>5, AnswerKeeps
<1> QED BY <1>2, <1>3, <1>4, <1>5, <1>8, <1>9 DEF Named, Pushed

LEMMA BoundKeeps ==
  ASSUME AssemblerInv, Bound
  PROVE  AssemblerInv'
<1>1. /\ EvalOK /\ ScopesOK /\ CodeOK /\ MarksOK /\ DataOK /\ Evaluating /\ NoneDeferred /\ phase = "operands"
      /\ answer \in Answer /\ answer.status = "OK" /\ Top.do = "bind"
      /\ answer.type = "INST_ADDR" => answer.value <= Len(insts)
  BY DEF AssemblerInv, Bound, Gets, PassesOK, Evaluating, EvalOK
<1>2. PICK t : t = Top
  OBVIOUS
<1>3. PICK b : b = scopes[t.scope].bindings[t.name]
  OBVIOUS
<1> DEFINE c == [b EXCEPT !.status = "EVALUATED", !.type = answer.type, !.value = answer.value]
<1>4. /\ Len(eval) \in Nat \ {0} /\ next <= Len(symbols) /\ Len(eval) \in 1 .. Len(eval)
      /\ t = eval[Len(eval)] /\ t \in EvalRec /\ t.do = "bind"
      /\ Popped \in Seq(EvalRec) /\ Len(Popped) = Len(eval) - 1
      /\ \A i \in 1 .. Len(eval) - 1 : Popped[i] = eval[i] /\ i \in 1 .. Len(eval) /\ i # Len(eval)
  BY <1>1, <1>2, TopFacts
<1>5. /\ t.scope \in 1 .. Len(scopes) /\ t.name \in DOMAIN scopes[t.scope].bindings
      /\ b.status = "EVALUATING"
  BY <1>1, <1>3, <1>4 DEF MarksOK, Marked
<1>6. b \in Binding /\ BindingOK(b, Len(insts)) /\ t.name \in Name
  BY <1>1, <1>3, <1>5, ScopeFacts
<1>7. /\ Rebind(t.scope, t.name, c) /\ eval' = Popped /\ Walked /\ UNCHANGED <<data, answer>>
  <2>1. c = [[b EXCEPT !.status = "EVALUATED"] EXCEPT !.type = answer.type, !.value = answer.value]
    OBVIOUS
  <2> HIDE DEF c
  <2> QED BY <1>1, <1>2, <1>3, <2>1 DEF Bound
<1>8. c \in Binding /\ c.status = "EVALUATED" /\ c.type = answer.type /\ c.value = answer.value
  BY <1>1, <1>6 DEF Binding, BindStatus, Answer
<1>9. BindingOK(c, Len(insts))
  BY <1>1, <1>8 DEF BindingOK
<1> HIDE DEF c
<1>10. UNCHANGED <<scope, deferredEntry, symbols, insts, next, second>>
  BY <1>7 DEF Walked
<1>11. ScopesOK' /\ Rebound(t.scope, t.name, c)
  BY <1>1, <1>5, <1>6, <1>7, <1>8, <1>9, <1>10, RebindKeeps
<1>12. NoneDeferred' /\ Len(scopes') = Len(scopes)
  BY <1>1, <1>5, <1>8, <1>11, NoneDeferredStays DEF Rebound
<1>13. DataOK' /\ EvalOK'
  <2>1. EvalOK'
    BY <1>1, <1>4, <1>7, <1>10 DEF EvalOK
  <2> QED BY <1>1, <1>7, <2>1, DataStays
<1>14. MarksOK'
  <2>1. \A i \in 1 .. Len(eval') : eval'[i] = eval[i] /\ i \in 1 .. Len(eval) /\ i # Len(eval)
    BY <1>4, <1>7
  <2>2. \A i \in 1 .. Len(eval') : eval'[i].do = "bind" => Marked(eval[i])'
    <3> TAKE i \in 1 .. Len(eval')
    <3> HAVE eval'[i].do = "bind"
    <3>1. eval[i].do = "bind" /\ eval[i] \in EvalRec /\ eval[i] # t /\ Marked(eval[i])
      BY <1>1, <1>4, <2>1, ElementOfSeq DEF MarksOK, EvalOK
    <3>2. eval[i].scope # t.scope \/ eval[i].name # t.name
      <4>1. \A g \in EvalRec : g.do = "bind" => g \in [do : {"bind"}, scope : Nat, name : Name]
        BY DEF EvalRec
      <4>2. \A g \in [do : {"bind"}, scope : Nat, name : Name] : g = [do |-> "bind", scope |-> g.scope, name |-> g.name]
        OBVIOUS
      <4> QED BY <1>4, <3>1, <4>1, <4>2
    <3> QED BY <1>5, <1>11, <2>1, <3>1, <3>2, MarkedElsewhere DEF Marked
  <2>3. \A i, j \in 1 .. Len(eval') :
          eval'[i].do = "bind" /\ eval'[j].do = "bind" /\ eval'[i] = eval'[j] => i = j
    BY <1>1, <2>1 DEF MarksOK
  <2> QED BY <2>2, <2>3 DEF MarksOK
<1> QED BY <1>1, <1>7, <1>11, <1>12, <1>13, <1>14, EvaluationKeeps

LEMMA LengthOfKeeps ==
  ASSUME AssemblerInv, LengthOf
  PROVE  AssemblerInv'
<1>1. /\ EvalOK /\ DataOK /\ Evaluating /\ answer \in Answer /\ answer.status = "OK"
  BY DEF AssemblerInv, LengthOf, Gets, PassesOK, EvalOK
<1>2. CASE Stop("failed")
  BY <1>2, StopKeeps DEF Ended
<1>3. CASE /\ StringAt(answer.value)
           /\ Answers(OK(LengthAt(answer.value), "UINT"))
           /\ Walked /\ UNCHANGED <<scopes, data>>
  <2> DEFINE S == {i \in DOMAIN stringLens : stringLens[i].addr = answer.value}
             P(i) == i \in DOMAIN stringLens /\ stringLens[i].addr = answer.value
                     /\ \A j \in 1 .. i - 1 : stringLens[j].addr # answer.value
  <2>1. /\ Len(stringLens) \in Nat /\ DOMAIN stringLens = 1 .. Len(stringLens)
        /\ \A i \in 1 .. Len(stringLens) : stringLens[i] \in [addr : Word, length : Word]
    BY <1>1, LenProperties, ElementOfSeq DEF DataOK
  <2>2. S \subseteq Nat /\ S # {}
    BY <1>3, <2>1 DEF StringAt
  <2>3. \E i : P(i)
    <3> HIDE DEF S
    <3>1. PICK i \in S : \A j \in S : i <= j
      BY <2>2, LeastNatural
    <3>2. P(i)
      <4>1. i \in 1 .. Len(stringLens) /\ stringLens[i].addr = answer.value
        BY <2>1, <3>1 DEF S
      <4>2. \A j \in 1 .. i - 1 : j \in 1 .. Len(stringLens) /\ ~(i <= j)
        BY <2>1, <4>1
      <4> QED BY <2>1, <3>1, <4>1, <4>2 DEF S
    <3> QED BY <3>2
  <2>4. LengthAt(answer.value) \in Word
    <3> DEFINE i == CHOOSE i \in DOMAIN stringLens : /\ stringLens[i].addr = answer.value
                                                     /\ \A j \in 1 .. i - 1 : stringLens[j].addr # answer.value
    <3>1. i \in DOMAIN stringLens
      BY <2>3
    <3>2. LengthAt(answer.value) = stringLens[i].length
      BY DEF LengthAt
    <3> HIDE DEF i
    <3> QED BY <2>1, <3>1, <3>2
  <2>5. /\ OK(LengthAt(answer.value), "UINT") \in Answer /\ OK(LengthAt(answer.value), "UINT").status = "OK"
        /\ OK(LengthAt(answer.value), "UINT").type = "UINT"
    BY <2>4 DEF OK, Answer, BindType
  <2>6. DataOK'
    BY <1>1, <1>3, DataStays
  <2> QED BY <1>1, <1>3, <2>5, <2>6, AnswerKeeps
<1> QED BY <1>1, <1>2, <1>3 DEF LengthOf

LEMMA ResKeeps ==
  ASSUME AssemblerInv, Res
  PROVE  AssemblerInv'
<1> DEFINE size == Wrap(memorySize + answer.value)
<1>1. EvalOK /\ DataOK /\ Evaluating /\ answer \in Answer
  BY DEF AssemblerInv, Res, Gets, EvalOK
<1>2. CASE Stop("aborted")
  BY <1>2, StopKeeps DEF Ended
<1>3. CASE /\ size <= MEMORY_CAPACITY
           /\ Reserved(size)
           /\ Answers(OK(memorySize, "UINT"))
           /\ Walked /\ UNCHANGED <<scopes, memory, stringLens>>
  <2>1. memorySize \in Nat /\ answer.value \in Nat /\ WordSize \in Nat \ {0} /\ MEMORY_CAPACITY \in Nat
        /\ memorySize \in Word
    BY <1>1, SizesAssumption DEF DataOK, Answer, Word
  <2>2. size \in 0 .. MEMORY_CAPACITY
    <3>1. size \in Nat
      BY <2>1 DEF Wrap
    <3> QED BY <1>3, <2>1, <3>1
  <2> HIDE DEF size
  <2>3. memorySize' \in 0 .. MEMORY_CAPACITY /\ memoryCapacity' \in memorySize' .. MEMORY_CAPACITY
    BY <1>1, <1>3, <2>1, <2>2 DEF Reserved, DataOK
  <2>4. DataOK'
    BY <1>1, <1>3, <2>3 DEF DataOK
  <2>5. /\ OK(memorySize, "UINT") \in Answer /\ OK(memorySize, "UINT").status = "OK"
        /\ OK(memorySize, "UINT").type = "UINT"
    BY <2>1 DEF OK, Answer, BindType
  <2> QED BY <1>1, <1>3, <2>4, <2>5, AnswerKeeps
<1> QED BY <1>2, <1>3 DEF Res

LEMMA RefKeeps ==
  ASSUME AssemblerInv, Ref
  PROVE  AssemblerInv'
<1>1. /\ EvalOK /\ DataOK /\ Evaluating /\ answer \in Answer /\ answer.status = "OK"
      /\ answer.type = "INST_ADDR" => answer.value <= Len(insts)
      /\ Answers(answer) /\ Walked /\ UNCHANGED <<scopes, data>>
  BY DEF AssemblerInv, Ref, Gets, EvalOK
<1>2. DataOK'
  BY <1>1, DataStays
<1> QED BY <1>1, <1>2, AnswerKeeps

LEMMA ValKeeps ==
  ASSUME AssemblerInv, Val
  PROVE  AssemblerInv'
<1> DEFINE v == Wrap(answer.value + REG_COUNT)
<1>1. EvalOK /\ DataOK /\ Evaluating /\ answer \in Answer /\ answer.status = "OK"
  BY DEF AssemblerInv, Val, Gets, EvalOK
<1>2. Answers(OK(v, "UINT")) /\ Walked /\ UNCHANGED <<scopes, data>>
  BY <1>1 DEF Val
<1>3. v \in Word
  <2>1. answer.value \in Nat /\ REG_COUNT \in Nat /\ WordSize \in Nat \ {0}
    BY <1>1, SizesAssumption DEF Answer, Word
  <2>2. (answer.value + REG_COUNT) % WordSize \in 0 .. WordSize - 1
    BY <2>1
  <2> QED BY <2>2 DEF Wrap, Word
<1> HIDE DEF v
<1>4. OK(v, "UINT") \in Answer /\ OK(v, "UINT").status = "OK" /\ OK(v, "UINT").type = "UINT"
  BY <1>3 DEF OK, Answer, BindType
<1>5. DataOK'
  BY <1>1, <1>2, DataStays
<1> QED BY <1>1, <1>2, <1>4, <1>5, AnswerKeeps

LEMMA BeginOperandKeeps ==
  ASSUME AssemblerInv, BeginOperand
  PROVE  AssemblerInv'
<1>1. /\ WalkOK /\ EvalOK /\ ScopesOK /\ CodeOK /\ DataOK /\ MarksOK /\ NoneDeferred /\ phase = "operands"
      /\ eval = <<>> /\ answer = NoAnswer /\ next <= Len(symbols)
      /\ eval' = <<Todo(symbols[next].expr)>>
      /\ scope' = IF second THEN scope ELSE symbols[next].scope
      /\ UNCHANGED <<source, phase, calls, scopes, symbols, insts, deferredEntry, entry, next, second, answer>>
      /\ UNCHANGED data
  BY DEF AssemblerInv, BeginOperand, PassesOK, names
<1>2. next \in 1 .. Len(symbols) /\ Len(symbols) \in Nat /\ Len(scopes) \in Nat
  BY <1>1, LenProperties DEF EvalOK, CodeOK, ScopesOK
<1>3. symbols[next] \in SymbolRec /\ symbols[next].scope \in 1 .. Len(scopes)
  BY <1>1, <1>2, ElementOfSeq DEF CodeOK
<1>4. WalkOK' /\ CodeOK' /\ DataOK'
  BY <1>1, DataStays DEF WalkOK, CallOK, Files, CodeOK
<1>5. ScopesOK'
  <2>1. scope' \in 0 .. Len(scopes)
    BY <1>1, <1>2, <1>3 DEF ScopesOK
  <2> QED BY <1>1, <2>1 DEF ScopesOK
<1>6. EvalOK'
  <2>1. Todo(symbols[next].expr) \in EvalRec
    BY <1>3 DEF Todo, EvalRec, SymbolRec
  <2> QED BY <1>1, <2>1 DEF EvalOK
<1>7. MarksOK'
  <2>1. Len(eval') = 1 /\ eval'[1].do = "expr"
    BY <1>1 DEF Todo
  <2>2. \A i \in 1 .. Len(eval') : i = 1
    BY <2>1
  <2>3. \A i \in 1 .. Len(eval') : eval'[i].do = "expr"
    BY <2>1, <2>2
  <2> QED BY <2>3 DEF MarksOK
<1>8. PassesOK'
  BY <1>1 DEF PassesOK, NoneDeferred
<1> QED BY <1>4, <1>5, <1>6, <1>7, <1>8 DEF AssemblerInv

LEMMA StoreOperandKeeps ==
  ASSUME AssemblerInv, StoreOperand
  PROVE  AssemblerInv'
<1> DEFINE a == First.addr
           r == insts[a]
           q == IF second
                THEN [r EXCEPT !.operand2 = answer.value, !.opr2IsReg = OfRegister(First.expr)]
                ELSE [r EXCEPT !.operand = answer.value, !.opr1IsReg = OfRegister(First.expr)]
<1>1. /\ WalkOK /\ EvalOK /\ ScopesOK /\ CodeOK /\ DataOK /\ MarksOK /\ NoneDeferred /\ phase = "operands"
      /\ eval = <<>> /\ answer # NoAnswer /\ answer \in Answer /\ answer.status = "OK"
  BY DEF AssemblerInv, StoreOperand, PassesOK, EvalOK
<1>2. ~Stop("broken")
  BY <1>1 DEF Stop, StoreOperand
<1>3. /\ insts' = IF second
                  THEN [insts EXCEPT ![a].operand2 = answer.value, ![a].opr2IsReg = OfRegister(First.expr)]
                  ELSE [insts EXCEPT ![a].operand = answer.value, ![a].opr1IsReg = OfRegister(First.expr)]
      /\ second' = (OperandCount[insts[a].op] = 2 /\ ~second)
      /\ next' = next + 1 /\ answer' = NoAnswer
      /\ UNCHANGED <<source, phase, calls, scope, scopes, symbols, deferredEntry, entry, data, eval>>
  BY <1>1, <1>2 DEF StoreOperand
<1>4. /\ next \in 1 .. Len(symbols) /\ (second => next - 1 \in 1 .. Len(symbols)) /\ second \in BOOLEAN
      /\ Len(symbols) \in Nat /\ Len(insts) \in Nat
  <2>1. Len(symbols) \in Nat /\ Len(insts) \in Nat
    BY <1>1, LenProperties DEF CodeOK
  <2> QED BY <1>1, <2>1 DEF EvalOK
<1>5. a \in 1 .. Len(insts)
  BY <1>1, <1>4 DEF First, CodeOK
<1>6. r \in InstRec /\ OfRegister(First.expr) \in BOOLEAN /\ answer.value \in Word
  BY <1>1, <1>5, ElementOfSeq DEF CodeOK, OfRegister, Answer
<1>7. q \in InstRec
  <2> HIDE DEF r
  <2> QED BY <1>6 DEF InstRec
<1>8. insts' = [insts EXCEPT ![a] = q]
  <2> HIDE DEF a
  <2>1. CASE second
    BY <1>3, <2>1
  <2>2. CASE ~second
    BY <1>3, <2>2
  <2> QED BY <2>1, <2>2
<1> HIDE DEF a, q
<1>9. insts' \in Seq(InstRec) /\ Len(insts') = Len(insts)
  BY <1>1, <1>5, <1>7, <1>8, ExceptSeq DEF CodeOK
<1>10. WalkOK' /\ ScopesOK' /\ DataOK'
  BY <1>1, <1>3, <1>9, DataStays DEF WalkOK, CallOK, Files, ScopesOK
<1>11. CodeOK'
  BY <1>1, <1>3, <1>9 DEF CodeOK
<1>12. EvalOK'
  <2>1. /\ NoAnswer \in Answer /\ NoAnswer.type # "INST_ADDR"
    BY SizesAssumption DEF NoAnswer, Answer, Word, BindType
  <2>2. next' \in 1 .. Len(symbols') + 1 /\ next' > 1 /\ second' \in BOOLEAN
    BY <1>3, <1>4
  <2> QED BY <1>1, <1>3, <2>1, <2>2 DEF EvalOK
<1>13. MarksOK'
  BY <1>1, <1>3, MarksStay DEF Marked
<1>14. PassesOK'
  BY <1>1, <1>3 DEF PassesOK, NoneDeferred
<1> QED BY <1>10, <1>11, <1>12, <1>13, <1>14 DEF AssemblerInv

LEMMA OperandsDoneKeeps ==
  ASSUME AssemblerInv, OperandsDone
  PROVE  AssemblerInv'
<1>1. /\ WalkOK /\ EvalOK /\ ScopesOK /\ CodeOK /\ DataOK /\ MarksOK /\ NoneDeferred
      /\ phase' = "entry" /\ scope' = 0
      /\ UNCHANGED <<source, calls, scopes, symbols, insts, deferredEntry, entry, next, second, eval, answer>>
      /\ UNCHANGED data
  BY DEF AssemblerInv, OperandsDone, PassesOK, names
<1>2. WalkOK' /\ CodeOK' /\ DataOK' /\ EvalOK'
  BY <1>1, DataStays DEF WalkOK, CallOK, Files, CodeOK, EvalOK, Phases
<1>3. ScopesOK'
  BY <1>1, LenProperties DEF ScopesOK
<1>4. MarksOK'
  BY <1>1, MarksStay DEF Marked
<1>5. PassesOK'
  BY <1>1 DEF PassesOK, NoneDeferred
<1> QED BY <1>2, <1>3, <1>4, <1>5 DEF AssemblerInv

LEMMA ResolveEntryKeeps ==
  ASSUME AssemblerInv, ResolveEntry
  PROVE  AssemblerInv'
<1>1. /\ WalkOK /\ EvalOK /\ ScopesOK /\ CodeOK /\ DataOK /\ MarksOK /\ NoneDeferred
      /\ UNCHANGED <<source, calls, scope, scopes, symbols, insts, deferredEntry, next, second, eval, answer>>
      /\ UNCHANGED data
  BY DEF AssemblerInv, ResolveEntry, PassesOK, names
<1>2. PICK n : n = deferredEntry.name
  OBVIOUS
<1>3. PICK s : s = Resolve(deferredEntry.scope, n)
  OBVIOUS
<1>4. PICK b : b = scopes[s].bindings[n]
  OBVIOUS
<1>5. deferredEntry.scope \in 0 .. Len(scopes)
  BY <1>1 DEF ScopesOK
<1>6. s # 0 => s \in 1 .. Len(scopes) /\ n \in DOMAIN scopes[s].bindings
  BY <1>1, <1>3, <1>5, ResolveFacts
<1>7. s # 0 => /\ b.status \in BindStatus /\ b.status # "DEFERRED" /\ BindingOK(b, Len(insts)) /\ b.value \in Word
  BY <1>1, <1>4, <1>6, ScopeFacts DEF NoneDeferred, Binding
\* A name that is an instruction's has been evaluated.
<1>8. s # 0 /\ b.type = "INST_ADDR" => b.status = "EVALUATED" /\ b.value <= Len(insts)
  BY <1>7 DEF BindingOK, BindStatus
<1>9. phase' \in {"assembled", "failed"} /\ entry' \in 0 .. Len(insts)
  <2>1. Len(insts) \in Nat /\ entry \in 0 .. Len(insts)
    BY <1>1, LenProperties DEF CodeOK
  <2>2. CASE ~deferredEntry.set
    BY <2>1, <2>2 DEF ResolveEntry
  <2>3. CASE deferredEntry.set /\ (s = 0 \/ b.type # "INST_ADDR")
    BY <1>2, <1>3, <1>4, <2>1, <2>3 DEF ResolveEntry
  <2>4. CASE deferredEntry.set /\ s # 0 /\ b.type = "INST_ADDR"
    <3>1. b.value \in 0 .. Len(insts)
      BY <1>7, <1>8, <2>1, <2>4, SizesAssumption DEF Word
    <3> QED BY <1>2, <1>3, <1>4, <1>8, <2>4, <3>1 DEF ResolveEntry
  <2> QED BY <2>2, <2>3, <2>4
<1>10. WalkOK' /\ CodeOK' /\ DataOK' /\ EvalOK' /\ ScopesOK'
  BY <1>1, <1>9, DataStays DEF WalkOK, CallOK, Files, CodeOK, EvalOK, Phases, ScopesOK
<1>11. MarksOK'
  BY <1>1, MarksStay DEF Marked
<1>12. PassesOK'
  BY <1>9 DEF PassesOK
<1> QED BY <1>10, <1>11, <1>12 DEF AssemblerInv
-----------------------------------------------------------------------------
(* The theorems.                                                               *)
LEMMA InitEstablishes == Init => AssemblerInv
<1> SUFFICES ASSUME Init PROVE AssemblerInv
  OBVIOUS
<1> DEFINE f == Frame(Root, "root")
           sc == [chain |-> {1}, bindings |-> <<>>]
<1>1. /\ source \in Sources /\ phase = "translate" /\ calls = <<f>> /\ scopes = <<sc>> /\ scope = 1
      /\ symbols = <<>> /\ insts = <<>> /\ deferredEntry = NoEntry /\ entry = 0
      /\ memory = [a \in MemoryAddr |-> 0] /\ memorySize = 0 /\ memoryCapacity = 0 /\ stringLens = <<>>
      /\ next = 1 /\ second = FALSE /\ eval = <<>> /\ answer = NoAnswer
  BY DEF Init
<1>2. Root \in DOMAIN source /\ Root \in Block
  BY <1>1, SourceAssumption
<1>3. f \in CallRec /\ f.block = Root /\ f.at = 1 /\ f.as = "root" /\ f.pass = 1
  BY <1>2 DEF Frame, CallRec
<1>4. Len(source[Root]) \in Nat
  BY <1>1, <1>2, BlockFacts
<1> HIDE DEF f
<1>5. calls \in Seq(CallRec) /\ Len(calls) = 1 /\ calls[1] = f /\ \A i \in 1 .. Len(calls) : i = 1
  BY <1>1, <1>3
<1>6. WalkOK
  <2>1. Files <= FrameCapacity
    <3>1. FileSet(calls) = {1}
      BY <1>3, <1>5, LenProperties DEF FileSet
    <3>2. Files = 1
      BY <3>1, FS_Singleton DEF Files, FileSet
    <3> QED BY <3>2, SizesAssumption
  <2>2. \A i \in 1 .. Len(calls) : CallOK(i, calls[i])
    BY <1>2, <1>3, <1>4, <1>5 DEF CallOK
  <2> QED BY <1>1, <1>5, <2>1, <2>2, EmptySeq DEF WalkOK, Phases
<1>7. scopes \in Seq(ScopeRec) /\ Len(scopes) = 1 /\ scopes[1] = sc /\ DOMAIN sc.bindings = {}
  <2>1. <<>> \in [{} -> Binding] /\ {} \in SUBSET Name
    OBVIOUS
  <2>2. <<>> \in BindingMaps
    BY <2>1 DEF BindingMaps
  <2>3. sc \in ScopeRec
    BY <2>2 DEF ScopeRec
  <2>4. DOMAIN sc.bindings = {}
    BY <2>1
  <2> HIDE DEF sc
  <2> QED BY <1>1, <2>3, <2>4
<1>8. \A s \in 1 .. Len(scopes) : s = 1
  BY <1>7
<1>9. ScopesOK
  <2>1. IsFiniteSet({}) /\ Cardinality({}) = 0 /\ BINDINGS_CAPACITY \in Nat
    BY FS_EmptySet, SizesAssumption
  <2>2. ScopeOK(1, sc, Len(insts))
    BY <1>7, <2>1 DEF ScopeOK
  <2>3. deferredEntry \in [set : BOOLEAN, name : Name, scope : 0 .. Len(scopes)]
    BY <1>1, <1>7, SizesAssumption DEF NoEntry
  <2> HIDE DEF sc
  <2> QED BY <1>1, <1>7, <1>8, <2>2, <2>3 DEF ScopesOK
<1>10. /\ insts \in Seq(InstRec) /\ symbols \in Seq(SymbolRec) /\ Len(insts) = 0 /\ Len(symbols) = 0
       /\ stringLens \in Seq([addr : Word, length : Word]) /\ Len(stringLens) = 0
       /\ eval \in Seq(EvalRec) /\ Len(eval) = 0
  BY <1>1, EmptySeq
<1>11. CodeOK
  BY <1>1, <1>10, SizesAssumption DEF CodeOK
<1>12. DataOK
  BY <1>1, <1>10, SizesAssumption DEF DataOK
<1>13. EvalOK /\ MarksOK
  <2>1. NoAnswer \in Answer /\ NoAnswer.type # "INST_ADDR"
    BY SizesAssumption DEF NoAnswer, Answer, Word, BindType
  <2>2. EvalOK
    <3>1. next \in 1 .. Len(symbols) + 1
      BY <1>1, <1>10
    <3>2. second \in BOOLEAN /\ ~second
      BY <1>1
    <3> QED BY <1>1, <1>10, <2>1, <3>1, <3>2, Zenon DEF EvalOK
  <2>3. \A i \in 1 .. Len(eval) : FALSE
    BY <1>10
  <2> QED BY <2>2, <2>3 DEF MarksOK
<1>14. PassesOK
  <2> DEFINE of == [i \in 1 .. 1 |-> 1]
  <2>1. InScopes(of)
    BY <1>1, <1>5, <1>7 DEF InScopes
  <2>2. Pending(f) = {}
    <3>1. \A k \in 1 .. Len(source[f.block]) : ~(k < f.at)
      BY <1>3, <1>4
    <3> QED BY <1>3, <3>1 DEF Pending
  <2>3. LabelsAwaited(of)
    <3>1. \A i \in 1 .. Len(calls) : Pending(calls[i]) = {}
      BY <1>5, <2>2
    <3>2. \A s \in 1 .. Len(scopes) : DOMAIN scopes[s].bindings = {}
      BY <1>7, <1>8
    <3> HIDE DEF of
    <3> QED BY <3>1, <3>2 DEF LabelsAwaited, PendingAt, LabelAt, BoundIn
  <2> HIDE DEF of
  <2>4. \E g : InScopes(g) /\ LabelsAwaited(g)
    BY <2>1, <2>3
  <2> QED BY <1>1, <2>4 DEF PassesOK
<1> QED BY <1>6, <1>9, <1>11, <1>12, <1>13, <1>14 DEF AssemblerInv

LEMMA NextKeeps == AssemblerInv /\ [Next]_vars => AssemblerInv'
<1> SUFFICES ASSUME AssemblerInv, [Next]_vars PROVE AssemblerInv'
  OBVIOUS
<1>1. CASE Bind \/ Include \/ Entry \/ PassBy \/ SecondPass \/ Emit \/ PlaceLabel \/ OpenScope \/ Return
  BY <1>1, BindKeeps, IncludeKeeps, EntryKeeps, PassByKeeps, SecondPassKeeps, EmitKeeps, PlaceLabelKeeps,
     OpenScopeKeeps, ReturnKeeps
<1>2. CASE BeginOperand \/ Literal \/ String \/ Named \/ Bound \/ Funcall \/ LengthOf \/ Res \/ Ref \/ Val
  BY <1>2, BeginOperandKeeps, LiteralKeeps, StringKeeps, NamedKeeps, BoundKeeps, FuncallKeeps, LengthOfKeeps,
     ResKeeps, RefKeeps, ValKeeps
<1>3. CASE StoreOperand \/ OperandsDone \/ ResolveEntry
  BY <1>3, StoreOperandKeeps, OperandsDoneKeeps, ResolveEntryKeeps
<1>4. CASE UNCHANGED vars
  <2>1. UNCHANGED <<source, phase, calls, scopes, scope, symbols, insts, deferredEntry, entry, next, second, eval, answer>>
        /\ UNCHANGED data
    BY <1>4 DEF vars, data
  <2>2. WalkOK' /\ ScopesOK' /\ CodeOK' /\ DataOK' /\ EvalOK'
    BY <2>1, DataStays DEF AssemblerInv, WalkOK, CallOK, Files, ScopesOK, CodeOK, EvalOK
  <2>3. MarksOK'
    BY <2>1, MarksStay DEF AssemblerInv, Marked
  <2>4. PassesOK'
    <3>1. CASE phase = "translate"
      <4>1. PICK of : InScopes(of) /\ LabelsAwaited(of)
        BY <3>1 DEF AssemblerInv, PassesOK
      <4>2. InScopes(of)'
        BY <2>1, <4>1, InScopesStay
      <4>3. LabelsAwaited(of)'
        <5>1. \A i : PendingAt(i)' = PendingAt(i)
          BY <2>1 DEF PendingAt, Pending
        <5>2. \A i, k : LabelAt(i, k)' = LabelAt(i, k)
          BY <2>1 DEF LabelAt
        <5>3. \A s : BoundIn(s)' = BoundIn(s)
          BY <2>1 DEF BoundIn
        <5> QED BY <2>1, <4>1, <5>1, <5>2, <5>3 DEF LabelsAwaited
      <4> QED BY <2>1, <3>1, <4>2, <4>3 DEF PassesOK
    <3>2. CASE phase # "translate"
      BY <2>1, <3>2 DEF AssemblerInv, PassesOK, NoneDeferred
    <3> QED BY <3>1, <3>2
  <2> QED BY <2>2, <2>3, <2>4 DEF AssemblerInv
<1> QED BY <1>1, <1>2, <1>3, <1>4 DEF Next

(* The inductive invariant holds in every state of every assembly.             *)
THEOREM AssemblerInvariant == Spec => []AssemblerInv
BY InitEstablishes, NextKeeps, PTL DEF Spec

(* Whatever the source, everything has its type: nothing is read or written    *)
(* behind an array of Sasm or Scope, and every number of a scope, of an        *)
(* instruction or of an operand is that of one there is.                       *)
THEOREM AssemblerTypes == Spec => []TypeOK
<1>1. AssemblerInv => TypeOK
  <2> SUFFICES ASSUME AssemblerInv PROVE TypeOK
    OBVIOUS
  <2>1. WalkOK /\ ScopesOK /\ CodeOK /\ DataOK /\ EvalOK
    BY DEF AssemblerInv
  <2>2. /\ DOMAIN calls = 1 .. Len(calls) /\ DOMAIN scopes = 1 .. Len(scopes)
        /\ DOMAIN insts = 1 .. Len(insts) /\ DOMAIN symbols = 1 .. Len(symbols)
        /\ Len(scopes) \in Nat /\ Len(insts) \in Nat
    BY <2>1, LenProperties DEF WalkOK, ScopesOK, CodeOK
  <2>3. \A i \in DOMAIN calls : /\ calls[i].block \in DOMAIN source
                                /\ calls[i].at \in 1 .. Len(source[calls[i].block]) + 1
                                /\ calls[i].pass \in {1, 2}
                                /\ calls[i].as = "root" <=> i = 1
    <3> TAKE i \in DOMAIN calls
    <3>1. i \in 1 .. Len(calls) /\ calls[i] \in CallRec
      BY <2>1, <2>2, ElementOfSeq DEF WalkOK
    <3>2. calls[i].pass \in {1, 2}
      BY <3>1 DEF CallRec
    <3> QED BY <2>1, <3>1, <3>2 DEF WalkOK, CallOK
  <2>4. \A s \in DOMAIN scopes : /\ s \in scopes[s].chain /\ scopes[s].chain \subseteq 1 .. s
                                 /\ DOMAIN scopes[s].bindings \subseteq Name
                                 /\ Cardinality(DOMAIN scopes[s].bindings) <= BINDINGS_CAPACITY
                                 /\ \A n \in DOMAIN scopes[s].bindings : scopes[s].bindings[n] \in Binding
    BY <2>1, <2>2, ScopeFacts DEF ScopesOK, ScopeOK
  <2>5. \A k \in DOMAIN insts : insts[k] \in InstRec
    BY <2>1, <2>2, ElementOfSeq DEF CodeOK
  <2>6. \A i \in DOMAIN symbols : symbols[i] \in [addr : DOMAIN insts, expr : Expr, scope : DOMAIN scopes]
    <3> TAKE i \in DOMAIN symbols
    <3>1. symbols[i] \in SymbolRec /\ symbols[i].addr \in DOMAIN insts /\ symbols[i].scope \in DOMAIN scopes
      BY <2>1, <2>2, ElementOfSeq DEF CodeOK
    <3> QED BY <3>1 DEF SymbolRec
  <2> QED BY <2>1, <2>3, <2>4, <2>5, <2>6 DEF TypeOK, WalkOK, ScopesOK, CodeOK, DataOK, EvalOK, InstRec
<1> QED BY <1>1, AssemblerInvariant, PTL

(* Whatever the files, scopes and names: a label met in the second pass is the *)
(* one the first pass bound in the same scope and is still to be placed, and   *)
(* no operand or entry point is deferred when it is asked for.                 *)
THEOREM AssertionsNeverFail == Spec => []AssertionsHold
<1>1. AssemblerInv => AssertionsHold
  BY DEF AssemblerInv, PassesOK, AssertionsHold
<1> QED BY <1>1, AssemblerInvariant, PTL

(* A binding changed that has not been evaluated leaves those that have been.  *)
LEMMA EvaluatedStay ==
  ASSUME ScopesOK, NEW s \in 1 .. Len(scopes), NEW name, NEW b, Rebind(s, name, b),
         name \in DOMAIN scopes[s].bindings => scopes[s].bindings[name].status # "EVALUATED",
         NEW t \in DOMAIN scopes, NEW n \in DOMAIN scopes[t].bindings,
         scopes[t].bindings[n].status = "EVALUATED"
  PROVE  scopes'[t].bindings[n] = scopes[t].bindings[n]
<1>1. DOMAIN scopes = 1 .. Len(scopes) /\ scopes \in Seq(ScopeRec) /\ scopes[s] \in ScopeRec
  BY LenProperties, ElementOfSeq DEF ScopesOK
<1>2. CASE t # s
  BY <1>1, <1>2 DEF Rebind
<1>3. CASE t = s
  <2>1. n # name
    BY <1>3
  <2> QED BY <1>1, <1>3, <2>1 DEF Rebind, ScopeRec
<1> QED BY <1>2, <1>3

(* Whatever evaluations come later, and however they nest, a binding that has  *)
(* been evaluated keeps its value and type: evaluateBinding evaluates only     *)
(* what is unevaluated, sets only what it has marked, and a label is placed    *)
(* only once.                                                                  *)
THEOREM ConstantsEvaluatedOnce == Spec => EvaluatedOnce
<1> DEFINE Kept == \A s \in DOMAIN scopes : \A n \in DOMAIN scopes[s].bindings :
                     scopes[s].bindings[n].status = "EVALUATED" =>
                       scopes'[s].bindings[n] = scopes[s].bindings[n]
<1>1. ASSUME AssemblerInv, Next
      PROVE  Kept
  <2>1. ScopesOK /\ WalkOK
    BY <1>1 DEF AssemblerInv
  <2>2. CASE UNCHANGED scopes
    BY <2>2
  <2>3. CASE Bind
    <3>1. phase = "translate"
      BY <2>3 DEF Bind, At
    <3>2. scope \in 1 .. Len(scopes)
      BY <1>1, <2>1, <3>1, ScopeOpen DEF AssemblerInv, PassesOK
    <3>3. CASE Stop("aborted") \/ Stop("failed")
      BY <2>2, <3>3 DEF Stop
    <3>4. CASE ~(Stop("aborted") \/ Stop("failed"))
      <4>1. PICK b : Rebind(scope, Stmt.name, b) /\ Stmt.name \notin DOMAIN scopes[scope].bindings
        BY <2>3, <3>4 DEF Bind
      <4> QED BY <2>1, <3>2, <4>1, EvaluatedStay
    <3> QED BY <3>3, <3>4
  <2>4. CASE PlaceLabel
    <3>1. CASE Stop("broken")
      BY <2>2, <3>1 DEF Stop
    <3>2. CASE ~Stop("broken")
      <4>1. PICK s, b : /\ s = Resolve(scope, Stmt.name) /\ s # 0
                        /\ scopes[s].bindings[Stmt.name].status = "DEFERRED" /\ Rebind(s, Stmt.name, b)
        BY <2>4, <3>2 DEF PlaceLabel
      <4>2. s \in 1 .. Len(scopes)
        BY <2>1, <4>1, ResolveFacts DEF ScopesOK
      <4> QED BY <2>1, <4>1, <4>2, EvaluatedStay
    <3> QED BY <3>1, <3>2
  <2>5. CASE OpenScope
    <3>1. \A s \in 1 .. Len(scopes) : scopes'[s] = scopes[s]
      BY <2>1, <2>5, AppendProperties DEF OpenScope, ScopesOK
    <3> QED BY <2>1, <3>1, LenProperties DEF ScopesOK
  <2>6. CASE Named
    <3>1. CASE UNCHANGED scopes
      BY <2>2, <3>1
    <3>2. CASE ~UNCHANGED scopes
      <4>1. PICK s, b : /\ s = Resolve(scope, Top.expr.name) /\ s # 0
                        /\ scopes[s].bindings[Top.expr.name].status = "UNEVALUATED" /\ Rebind(s, Top.expr.name, b)
        BY <2>6, <3>2 DEF Named, Stop, ToEvaluate
      <4>2. s \in 1 .. Len(scopes)
        BY <2>1, <4>1, ResolveFacts DEF ScopesOK
      <4> QED BY <2>1, <4>1, <4>2, EvaluatedStay
    <3> QED BY <3>1, <3>2
  <2>7. CASE Bound
    <3>1. Evaluating /\ EvalOK /\ MarksOK /\ Top.do = "bind"
      BY <1>1, <2>7 DEF AssemblerInv, Bound, Gets
    <3>2. Marked(Top)
      BY <3>1, TopFacts DEF MarksOK
    <3>3. PICK b : Rebind(Top.scope, Top.name, b)
      BY <2>7 DEF Bound
    <3> QED BY <2>1, <3>2, <3>3, EvaluatedStay DEF Marked
  <2>8. CASE Include \/ Entry \/ PassBy \/ SecondPass \/ Emit \/ Return
    BY <2>2, <2>8 DEF Include, Entry, PassBy, SecondPass, Emit, Return, Stop, names
  <2>9. CASE BeginOperand \/ Literal \/ String \/ Funcall \/ LengthOf \/ Res \/ Ref \/ Val
    BY <2>2, <2>9 DEF BeginOperand, Literal, String, Funcall, LengthOf, Res, Ref, Val, Stop, names
  <2>10. CASE StoreOperand \/ OperandsDone \/ ResolveEntry
    BY <2>2, <2>10 DEF StoreOperand, OperandsDone, ResolveEntry, Stop, names
  <2> QED BY <1>1, <2>3, <2>4, <2>5, <2>6, <2>7, <2>8, <2>9, <2>10 DEF Next
<1>2. Spec => [][Kept]_vars
  BY <1>1, AssemblerInvariant, PTL DEF Spec
<1> QED BY <1>2 DEF EvaluatedOnce

(* Whatever the source and the numbers in it: the bytes a string or a          *)
(* reservation has been given stay, and only a reservation whose sum with what *)
(* is in use wraps takes memory back, since the capacity is checked after it.  *)
THEOREM MemoryIsKept == Spec => MemoryOnlyGrows
<1> DEFINE Grows == /\ \A a \in MemoryAddr : a < memorySize => memory'[a] = memory[a]
                    /\ memorySize' < memorySize =>
                         Gets("call") /\ Top.name = "res" /\ memorySize + answer.value >= WordSize
<1>1. ASSUME AssemblerInv, Next
      PROVE  Grows
  <2>1. DataOK /\ EvalOK
    BY <1>1 DEF AssemblerInv
  <2>2. memorySize \in Nat
    BY <2>1, SizesAssumption DEF DataOK
  <2>3. CASE UNCHANGED <<memory, memorySize>>
    BY <2>2, <2>3
  <2>4. CASE String
    <3> DEFINE text == Top.expr.text
    <3>1. CASE Stop("aborted") \/ Stop("wild")
      BY <2>3, <3>1 DEF Stop, data
    <3>2. CASE memory' = Written(text) /\ memorySize' = memorySize + Len(text)
      <4>1. Len(text) \in Nat
        <5>1. Top \in EvalRec /\ Top.do = "expr"
          BY <2>1, <2>4, TopFacts DEF String, Wants
        <5>2. Top.expr \in Expr /\ Top.expr.type = "str"
          BY <2>4, <5>1 DEF String, Wants, EvalRec, NoExpr
        <5>3. text \in Seq(Char)
          BY <5>2, ExprAssumption DEF ExprShape
        <5> QED BY <5>3, LenProperties
      <4>2. \A a \in MemoryAddr : a < memorySize => memory'[a] = memory[a]
        <5> TAKE a \in MemoryAddr
        <5> HAVE a < memorySize
        <5>1. a \in Nat
          BY SizesAssumption DEF MemoryAddr
        <5>2. ~(a \in memorySize .. memorySize + Len(text) - 1)
          <6> HIDE DEF text
          <6> QED BY <2>2, <4>1, <5>1
        <5>3. Written(text)[a] = memory[a]
          BY <5>2 DEF Written
        <5> QED BY <3>2, <5>3
      <4>3. ~(memorySize' < memorySize)
        <5> HIDE DEF text
        <5> QED BY <2>2, <3>2, <4>1
      <4> QED BY <4>2, <4>3
    <3> QED BY <2>4, <3>1, <3>2 DEF String, Reserved
  <2>5. CASE Res
    <3> DEFINE sum == memorySize + answer.value
    <3>1. CASE Stop("aborted")
      BY <2>3, <3>1 DEF Stop, data
    <3>2. CASE UNCHANGED memory /\ memorySize' = Wrap(sum)
      <4>1. Gets("call") /\ Top.name = "res"
        BY <2>5 DEF Res
      <4>2. answer.value \in Nat /\ WordSize \in Nat \ {0}
        BY <2>1, <4>1, SizesAssumption DEF EvalOK, Gets, Answer, Word
      <4>3. sum < WordSize => memorySize' = sum
        BY <2>2, <3>2, <4>2 DEF Wrap
      <4> HIDE DEF sum
      <4>4. sum >= memorySize /\ sum \in Nat
        BY <2>2, <4>2 DEF sum
      <4>5. memorySize' < memorySize => sum >= WordSize
        BY <2>2, <4>2, <4>3, <4>4
      <4> QED BY <3>2, <4>1, <4>5 DEF sum
    <3> QED BY <2>5, <3>1, <3>2 DEF Res, Reserved
  <2>6. CASE Bind \/ Include \/ Entry \/ PassBy \/ SecondPass \/ Emit \/ PlaceLabel \/ OpenScope \/ Return
    BY <2>3, <2>6 DEF Bind, Include, Entry, PassBy, SecondPass, Emit, PlaceLabel, OpenScope, Return, Stop, Unevaluated, data
  <2>7. CASE BeginOperand \/ Literal \/ Named \/ Bound \/ Funcall \/ LengthOf \/ Ref \/ Val
    BY <2>3, <2>7 DEF BeginOperand, Literal, Named, Bound, Funcall, LengthOf, Ref, Val, Stop, data
  <2>8. CASE StoreOperand \/ OperandsDone \/ ResolveEntry
    BY <2>3, <2>8 DEF StoreOperand, OperandsDone, ResolveEntry, Stop, data
  <2> QED BY <1>1, <2>4, <2>5, <2>6, <2>7, <2>8 DEF Next
<1>2. Spec => [][Grows]_vars
  BY <1>1, AssemblerInvariant, PTL DEF Spec
<1> QED BY <1>2 DEF MemoryOnlyGrows
-----------------------------------------------------------------------------
(* A set that grows inside a finite one and, once it has stood still, stands   *)
(* still has stopped growing when it has had as many steps as there are        *)
(* elements.                                                                   *)
LEMMA GrowthStops ==
  ASSUME NEW D, IsFiniteSet(D), NEW s \in [Nat -> SUBSET D],
         \A n \in Nat : s[n] \subseteq s[n + 1],
         \A n \in Nat : s[n + 1] = s[n] => s[(n + 1) + 1] = s[n + 1]
  PROVE  s[Cardinality(D) + 1] = s[Cardinality(D)]
<1>1. PICK c \in Nat : c = Cardinality(D)
  BY FS_CardinalityType
<1>2. SUFFICES ASSUME s[c + 1] # s[c] PROVE FALSE
  BY <1>1
<1>3. ASSUME NEW k \in Nat, k <= c PROVE s[k + 1] # s[k]
  <2> SUFFICES ASSUME s[k + 1] = s[k] PROVE FALSE
    OBVIOUS
  <2> DEFINE T == {m \in Nat : s[(k + m) + 1] = s[k + m]}
  <2>1. 0 \in T
    OBVIOUS
  <2>2. ASSUME NEW m \in Nat, m \in T PROVE m + 1 \in T
    <3>1. s[((k + m) + 1) + 1] = s[(k + m) + 1] /\ k + (m + 1) = (k + m) + 1
      BY <2>2
    <3> QED BY <3>1
  <2>3. Nat \subseteq T
    <3> HIDE DEF T
    <3> QED BY <2>1, <2>2, NaturalInduction
  <2>4. c - k \in Nat /\ k + (c - k) = c
    BY <1>3
  <2>5. c - k \in T
    BY <2>3, <2>4
  <2> QED BY <1>2, <2>4, <2>5
<1>4. \A n \in Nat : IsFiniteSet(s[n]) /\ Cardinality(s[n]) \in Nat /\ Cardinality(s[n]) <= c
  <2> TAKE n \in Nat
  <2>1. s[n] \subseteq D
    OBVIOUS
  <2> QED BY <1>1, <2>1, FS_Subset, FS_CardinalityType
<1> DEFINE T == {n \in Nat : n <= c + 1 => Cardinality(s[n]) >= n}
<1>5. 0 \in T
  BY <1>4
<1>6. ASSUME NEW n \in Nat, n \in T PROVE n + 1 \in T
  <2> SUFFICES ASSUME n + 1 <= c + 1 PROVE Cardinality(s[n + 1]) >= n + 1
    OBVIOUS
  <2>1. n <= c /\ n <= c + 1
    BY <1>1
  <2>2. s[n] \subseteq s[n + 1] /\ s[n + 1] # s[n]
    BY <1>3, <2>1
  <2>3. Cardinality(s[n]) <= Cardinality(s[n + 1]) /\ Cardinality(s[n]) # Cardinality(s[n + 1])
    BY <1>4, <2>2, FS_Subset
  <2>4. Cardinality(s[n]) >= n
    BY <1>6, <2>1
  <2>5. Cardinality(s[n]) \in Nat /\ Cardinality(s[n + 1]) \in Nat
    BY <1>4
  <2> HIDE DEF T
  <2> QED BY <2>3, <2>4, <2>5
<1>7. Nat \subseteq T
  <2> HIDE DEF T
  <2> QED BY <1>5, <1>6, NaturalInduction
<1>8. Cardinality(s[c + 1]) >= c + 1 /\ Cardinality(s[c + 1]) <= c /\ Cardinality(s[c + 1]) \in Nat
  BY <1>4, <1>7
<1> QED BY <1>8
-----------------------------------------------------------------------------
(* The layout.                                                                 *)
Spots == {w \in Block \X (Nat \ {0}) : w[1] \in DOMAIN source /\ w[2] \in 1 .. Len(source[w[1]])}
LineUp == [Block -> Seq(Spots)]

LEMMA PieceFacts ==
  ASSUME source \in Sources, NEW b \in DOMAIN source, NEW f \in LineUp
  PROVE  /\ OfFiles(b, f) \in Seq(Seq(Spots)) /\ Len(OfFiles(b, f)) = Len(source[b])
         /\ OfItsOwn(b, f) \in Seq(Seq(Spots)) /\ Len(OfItsOwn(b, f)) = Len(source[b])
         /\ LaysDown(b, f) \in Seq(Spots)
<1>1. PICK n \in Nat : n = Len(source[b])
  BY BlockFacts
<1>2. \A i \in 1 .. n : StmtShape(source[b][i]) /\ (source[b][i].kind = "scope" => source[b][i].body \in Block)
  BY <1>1, BlockFacts
<1>3. \A i \in 1 .. n : <<b, i>> \in Spots
  BY <1>1, BlockFacts DEF Spots
<1>4. \A c \in Block : f[c] \in Seq(Spots)
  BY DEF LineUp
<1>5. <<>> \in Seq(Spots) /\ \A i \in 1 .. n : << <<b, i>> >> \in Seq(Spots)
  BY <1>3, EmptySeq
<1>6. \A i \in 1 .. n : OfFiles(b, f)[i] \in Seq(Spots)
  <2> TAKE i \in 1 .. n
  <2>1. source[b][i].kind = "include" => source[b][i].path \in Block
    BY <1>2 DEF StmtShape
  <2> QED BY <1>1, <1>4, <1>5, <2>1 DEF OfFiles
<1>7. \A i \in 1 .. n : OfItsOwn(b, f)[i] \in Seq(Spots)
  <2> TAKE i \in 1 .. n
  <2> QED BY <1>1, <1>2, <1>4, <1>5 DEF OfItsOwn
<1>8. OfFiles(b, f) \in [1 .. n -> Seq(Spots)]
  BY <1>1, <1>6 DEF OfFiles
<1>9. OfItsOwn(b, f) \in [1 .. n -> Seq(Spots)]
  BY <1>1, <1>7 DEF OfItsOwn
<1>10. /\ OfFiles(b, f) \in Seq(Seq(Spots)) /\ Len(OfFiles(b, f)) = n
       /\ OfItsOwn(b, f) \in Seq(Seq(Spots)) /\ Len(OfItsOwn(b, f)) = n
  BY <1>8, <1>9
<1>11. FlattenSeq(OfFiles(b, f)) \in Seq(Spots) /\ FlattenSeq(OfItsOwn(b, f)) \in Seq(Spots)
  BY <1>5, <1>10, FlattenAppend
<1> QED BY <1>1, <1>10, <1>11, ConcatProperties DEF LaysDown

LEMMA LayoutFacts ==
  ASSUME source \in Sources
  PROVE  /\ Layout \in [Nat -> LineUp]
         /\ \A b \in Block : Layout[0][b] = <<>>
         /\ \A n \in Nat : \A b \in DOMAIN source : n # 0 => Layout[n][b] = LaysDown(b, Layout[n - 1])
<1> DEFINE none == [b \in Block |-> <<>>]
           lay(f) == [b \in Block |-> IF b \notin DOMAIN source THEN <<>> ELSE LaysDown(b, f)]
           step == [n \in Nat |-> [f \in LineUp |-> lay(f)]]
           IsLayout(g) == g = [n \in Nat |-> [b \in Block |-> IF n = 0 \/ b \notin DOMAIN source THEN <<>>
                                                              ELSE LaysDown(b, g[n - 1])]]
<1>1. none \in LineUp
  BY EmptySeq DEF LineUp
<1>2. \A f \in LineUp : lay(f) \in LineUp
  <2> TAKE f \in LineUp
  <2>1. \A b \in Block : (IF b \notin DOMAIN source THEN <<>> ELSE LaysDown(b, f)) \in Seq(Spots)
    BY PieceFacts, EmptySeq
  <2> QED BY <2>1 DEF LineUp
<1>3. step \in [Nat -> [LineUp -> LineUp]]
  BY <1>2
<1>4. PICK g \in [Nat -> LineUp] : g[0] = none /\ \A i \in Nat : i # 0 => g[i] = step[i][g[i - 1]]
  <2> HIDE DEF none, step
  <2> QED BY <1>1, <1>3, RecursionOnNat
<1>5. \A n \in Nat : n # 0 => g[n] = lay(g[n - 1])
  <2> TAKE n \in Nat
  <2> HAVE n # 0
  <2>1. n - 1 \in Nat /\ g[n - 1] \in LineUp
    OBVIOUS
  <2> QED BY <1>4, <2>1
<1>6. IsLayout(g)
  <2>1. ASSUME NEW n \in Nat
        PROVE  g[n] = [b \in Block |-> IF n = 0 \/ b \notin DOMAIN source THEN <<>> ELSE LaysDown(b, g[n - 1])]
    <3>1. CASE n = 0
      BY <1>4, <3>1
    <3>2. CASE n # 0
      BY <1>5, <3>2
    <3> QED BY <3>1, <3>2
  <2> QED BY <2>1
<1>7. IsLayout(Layout)
  <2>1. Layout = CHOOSE h : IsLayout(h)
    BY DEF Layout
  <2> HIDE DEF IsLayout
  <2> QED BY <1>6, <2>1
<1>8. \A n \in Nat : Layout[n] \in LineUp
  <2> DEFINE T == {n \in Nat : Layout[n] = g[n]}
  <2>1. 0 \in T
    BY <1>4, <1>7
  <2>2. ASSUME NEW n \in Nat, n \in T PROVE n + 1 \in T
    <3>1. n + 1 \in Nat /\ n + 1 # 0 /\ (n + 1) - 1 = n
      OBVIOUS
    <3>2. Layout[n + 1] = lay(Layout[n])
      BY <1>7, <3>1
    <3>3. g[n + 1] = lay(g[n])
      BY <1>5, <3>1
    <3> QED BY <2>2, <3>1, <3>2, <3>3
  <2>3. Nat \subseteq T
    <3> HIDE DEF T
    <3> QED BY <2>1, <2>2, NaturalInduction
  <2> QED BY <2>3
<1>9. \A n \in Nat : \A b \in Block :
        Layout[n][b] = IF n = 0 \/ b \notin DOMAIN source THEN <<>> ELSE LaysDown(b, Layout[n - 1])
  <2> TAKE n \in Nat
  <2>1. Layout[n] = [b \in Block |-> IF n = 0 \/ b \notin DOMAIN source THEN <<>> ELSE LaysDown(b, Layout[n - 1])]
    BY <1>7
  <2> HIDE DEF IsLayout
  <2> QED BY <2>1
<1>10. DOMAIN Layout = Nat /\ Layout = [n \in Nat |-> Layout[n]]
  BY <1>7
<1> HIDE DEF IsLayout
<1>11. Layout \in [Nat -> LineUp]
  BY <1>8, <1>10
<1> QED BY <1>9, <1>11, BlockFacts

\* The blocks whose statements name blocks of the set only; those that nest less
\* than n deep; and those that nest at all.
NamedBy(b) == {c \in Block : \E i \in 1 .. Len(source[b]) :
                 \/ source[b][i].kind = "include" /\ c = source[b][i].path
                 \/ source[b][i].kind = "scope" /\ c = source[b][i].body}
NamingOnly(S) == {b \in DOMAIN source : NamedBy(b) \subseteq S}
Nest[n \in Nat] == IF n = 0 THEN {} ELSE NamingOnly(Nest[n - 1])
Deepest == Cardinality(DOMAIN source)
Nested == Nest[Deepest]
Whole == Layout[Deepest]

LEMMA NestFacts ==
  ASSUME source \in Sources
  PROVE  /\ Nest \in [Nat -> SUBSET (DOMAIN source)]
         /\ Nest[0] = {}
         /\ \A n \in Nat : Nest[n + 1] = NamingOnly(Nest[n])
<1> DEFINE D == DOMAIN source
           V == SUBSET D
           step == [n \in Nat |-> [S \in V |-> NamingOnly(S)]]
           IsNest(g) == g = [n \in Nat |-> IF n = 0 THEN {} ELSE NamingOnly(g[n - 1])]
<1>1. {} \in V /\ \A S : NamingOnly(S) \in V
  BY DEF NamingOnly
<1>2. step \in [Nat -> [V -> V]]
  BY <1>1
<1>3. PICK g \in [Nat -> V] : g[0] = {} /\ \A i \in Nat : i # 0 => g[i] = step[i][g[i - 1]]
  <2>1. {} \in V
    BY <1>1
  <2> HIDE DEF V, step
  <2> QED BY ONLY <2>1, <1>2, RecursionOnNat
<1>4. \A n \in Nat : n # 0 => g[n] = NamingOnly(g[n - 1])
  <2> TAKE n \in Nat
  <2> HAVE n # 0
  <2>1. n - 1 \in Nat /\ g[n - 1] \in V
    OBVIOUS
  <2> QED BY <1>3, <2>1
<1>5. IsNest(g)
  BY <1>3, <1>4
<1>6. IsNest(Nest)
  <2>1. Nest = CHOOSE h : IsNest(h)
    BY DEF Nest
  <2> HIDE DEF IsNest
  <2> QED BY <1>5, <2>1
<1>7. \A n \in Nat : Nest[n] \in V
  BY <1>1, <1>6
<1>8. \A n \in Nat : Nest[n + 1] = NamingOnly(Nest[n])
  <2> TAKE n \in Nat
  <2>1. n + 1 \in Nat /\ n + 1 # 0 /\ (n + 1) - 1 = n
    OBVIOUS
  <2> QED BY <1>6, <2>1
<1>9. DOMAIN Nest = Nat /\ Nest = [n \in Nat |-> Nest[n]] /\ Nest[0] = {}
  BY <1>6
<1> HIDE DEF IsNest, V
<1> QED BY <1>7, <1>8, <1>9 DEF V

(* A block all of whose blocks nest nests.                                     *)
LEMMA NestedIsClosed ==
  ASSUME source \in Sources
  PROVE  /\ Deepest \in Nat
         /\ Nested = NamingOnly(Nested)
         /\ \A n \in Nat : Nest[n] \subseteq Nest[n + 1]
<1>1. IsFiniteSet(DOMAIN source)
  BY SourceAssumption
<1>2. Deepest \in Nat
  BY <1>1, FS_CardinalityType DEF Deepest
<1>3. /\ Nest \in [Nat -> SUBSET (DOMAIN source)] /\ Nest[0] = {}
      /\ \A n \in Nat : Nest[n + 1] = NamingOnly(Nest[n])
  BY NestFacts
<1>4. \A S, R : S \subseteq R => NamingOnly(S) \subseteq NamingOnly(R)
  BY DEF NamingOnly
<1> DEFINE T == {n \in Nat : Nest[n] \subseteq Nest[n + 1]}
<1>5. 0 \in T
  BY <1>3
<1>6. ASSUME NEW n \in Nat, n \in T PROVE n + 1 \in T
  <2>1. n + 1 \in Nat /\ Nest[n + 1] = NamingOnly(Nest[n]) /\ Nest[(n + 1) + 1] = NamingOnly(Nest[n + 1])
    BY <1>3
  <2>2. NamingOnly(Nest[n]) \subseteq NamingOnly(Nest[n + 1])
    BY <1>4, <1>6
  <2> QED BY <2>1, <2>2
<1>7. Nat \subseteq T
  <2> HIDE DEF T
  <2> QED BY <1>5, <1>6, NaturalInduction
<1>8. \A n \in Nat : Nest[n] \subseteq Nest[n + 1]
  BY <1>7
<1>9. \A n \in Nat : Nest[n + 1] = Nest[n] => Nest[(n + 1) + 1] = Nest[n + 1]
  BY <1>3
<1>10. Nest[Deepest + 1] = Nest[Deepest]
  BY <1>1, <1>3, <1>8, <1>9, GrowthStops DEF Deepest
<1> QED BY <1>2, <1>3, <1>8, <1>10 DEF Nested

(* What a block lays down depends on the blocks it names alone.                *)
LEMMA LaysDownAlike ==
  ASSUME source \in Sources, NEW b \in DOMAIN source, NEW f, NEW g, \A c \in NamedBy(b) : f[c] = g[c]
  PROVE  LaysDown(b, f) = LaysDown(b, g)
<1>1. PICK n \in Nat : n = Len(source[b])
  BY BlockFacts
<1>2. \A i \in 1 .. n : /\ source[b][i].kind = "include" => source[b][i].path \in NamedBy(b)
                        /\ source[b][i].kind = "scope" => source[b][i].body \in NamedBy(b)
  <2> TAKE i \in 1 .. n
  <2>1. source[b][i].kind = "include" => source[b][i].path \in Block
    BY <1>1, BlockFacts DEF StmtShape
  <2>2. source[b][i].kind = "scope" => source[b][i].body \in Block
    BY <1>1, BlockFacts
  <2> QED BY <1>1, <2>1, <2>2 DEF NamedBy
<1>3. OfFiles(b, f) = OfFiles(b, g)
  BY <1>1, <1>2 DEF OfFiles
<1>4. OfItsOwn(b, f) = OfItsOwn(b, g)
  BY <1>1, <1>2 DEF OfItsOwn
<1> QED BY <1>3, <1>4 DEF LaysDown

(* A block that nests less than n deep is laid out when n blocks are followed. *)
LEMMA LayoutSettles ==
  ASSUME source \in Sources
  PROVE  \A n \in Nat : \A b \in Nest[n] : \A m \in Nat : m >= n => Layout[m][b] = Layout[n][b]
<1>1. /\ Nest \in [Nat -> SUBSET (DOMAIN source)] /\ Nest[0] = {}
      /\ \A n \in Nat : Nest[n + 1] = NamingOnly(Nest[n])
  BY NestFacts
<1>2. \A n \in Nat : \A b \in DOMAIN source : n # 0 => Layout[n][b] = LaysDown(b, Layout[n - 1])
  BY LayoutFacts
<1> DEFINE T == {n \in Nat : \A b \in Nest[n] : \A m \in Nat : m >= n => Layout[m][b] = Layout[n][b]}
<1>3. 0 \in T
  BY <1>1
<1>4. ASSUME NEW n \in Nat, n \in T PROVE n + 1 \in T
  <2> SUFFICES ASSUME NEW b \in Nest[n + 1], NEW m \in Nat, m >= n + 1 PROVE Layout[m][b] = Layout[n + 1][b]
    OBVIOUS
  <2>1. b \in DOMAIN source /\ NamedBy(b) \subseteq Nest[n]
    BY <1>1 DEF NamingOnly
  <2>2. m - 1 \in Nat /\ m # 0 /\ m - 1 >= n /\ n + 1 \in Nat /\ n + 1 # 0 /\ (n + 1) - 1 = n
    OBVIOUS
  <2>3. Layout[m][b] = LaysDown(b, Layout[m - 1]) /\ Layout[n + 1][b] = LaysDown(b, Layout[n])
    BY <1>2, <2>1, <2>2
  <2>4. \A c \in NamedBy(b) : Layout[m - 1][c] = Layout[n][c]
    BY <1>4, <2>1, <2>2
  <2>5. LaysDown(b, Layout[m - 1]) = LaysDown(b, Layout[n])
    BY <2>1, <2>4, LaysDownAlike
  <2> QED BY <2>3, <2>5
<1>5. Nat \subseteq T
  <2> HIDE DEF T
  <2> QED BY <1>3, <1>4, NaturalInduction
<1> QED BY <1>5

(* The whole layout is what it should be, for the blocks that nest.            *)
LEMMA WholeFacts ==
  ASSUME source \in Sources
  PROVE  /\ Whole \in LineUp
         /\ WholeLayout = Whole[Root] /\ Root \in DOMAIN source
         /\ \A b \in DOMAIN source : NamedBy(b) \subseteq Nested => b \in Nested
         /\ \A b \in Nested : b \in DOMAIN source /\ Whole[b] = LaysDown(b, Whole)
<1>1. Deepest \in Nat /\ Nested = NamingOnly(Nested) /\ \A n \in Nat : Nest[n] \subseteq Nest[n + 1]
  BY NestedIsClosed
<1>2. /\ Layout \in [Nat -> LineUp]
      /\ \A n \in Nat : \A b \in DOMAIN source : n # 0 => Layout[n][b] = LaysDown(b, Layout[n - 1])
  BY LayoutFacts
<1>3. \A b \in DOMAIN source : NamedBy(b) \subseteq Nested => b \in Nested
  BY <1>1 DEF NamingOnly
<1>4. ASSUME NEW b \in Nested PROVE b \in DOMAIN source /\ Whole[b] = LaysDown(b, Whole)
  <2>1. b \in DOMAIN source
    BY <1>1 DEF NamingOnly
  <2>2. Deepest # 0
    BY NestFacts DEF Nested
  <2>3. PICK n \in Nat : Deepest = n + 1
    <3>1. Deepest - 1 \in Nat /\ Deepest = (Deepest - 1) + 1
      BY <1>1, <2>2
    <3> QED BY <3>1
  <2>4. Nested = NamingOnly(Nest[n])
    BY <2>3, NestFacts DEF Nested
  <2>5. Layout[Deepest][b] = LaysDown(b, Layout[n])
    <3>1. Deepest - 1 = n
      BY <2>3
    <3> QED BY <1>1, <1>2, <2>1, <2>2, <3>1
  <2>6. \A c \in NamedBy(b) : Layout[Deepest][c] = Layout[n][c]
    <3>1. NamedBy(b) \subseteq Nest[n] /\ Deepest >= n
      BY <2>3, <2>4 DEF NamingOnly
    <3> QED BY <1>1, <3>1, LayoutSettles
  <2>7. LaysDown(b, Layout[Deepest]) = LaysDown(b, Layout[n])
    BY <2>1, <2>6, LaysDownAlike
  <2> QED BY <2>1, <2>5, <2>7 DEF Whole
<1>5. Root \in DOMAIN source
  BY SourceAssumption
<1> QED BY <1>1, <1>2, <1>3, <1>4, <1>5 DEF Whole, WholeLayout, Deepest
-----------------------------------------------------------------------------
(* How far a walk has come.                                                    *)
\* What the first sequences of a sequence come to; what the first k statements of
\* a call's block come to in its pass, and the next one adds.
Heads(e) == CHOOSE h : Growth(h, e, Spots)
Done(c, k) == IF c.pass = 1 THEN Heads(OfFiles(c.block, Whole))[k]
              ELSE FlattenSeq(OfFiles(c.block, Whole)) \o Heads(OfItsOwn(c.block, Whole))[k]
Piece(c, k) == IF c.pass = 1 THEN OfFiles(c.block, Whole)[k] ELSE OfItsOwn(c.block, Whole)[k]

LEMMA HeadsFacts ==
  ASSUME NEW e \in Seq(Seq(Spots))
  PROVE  Growth(Heads(e), e, Spots) /\ FlattenSeq(e) = Heads(e)[Len(e)] /\ FlattenSeq(e) \in Seq(Spots)
<1>1. PICK h : Growth(h, e, Spots) /\ FlattenSeq(e) = h[Len(e)]
  BY FlattenGrows
<1>2. Growth(Heads(e), e, Spots)
  BY <1>1 DEF Heads
<1>3. Len(e) \in Nat /\ Len(e) <= Len(e) /\ \A i \in 1 .. Len(e) : e[i] = e[i]
  BY LenProperties
<1>4. \A i \in 0 .. Len(e) : h[i] = Heads(e)[i]
  BY ONLY <1>1, <1>2, <1>3, e \in Seq(Seq(Spots)), GrowthIsUnique
<1>5. Len(e) \in 0 .. Len(e)
  BY <1>3
<1>6. h[Len(e)] = Heads(e)[Len(e)] /\ h[Len(e)] \in Seq(Spots)
  BY <1>1, <1>4, <1>5 DEF Growth
<1> QED BY <1>1, <1>2, <1>6

LEMMA DoneFacts ==
  ASSUME source \in Sources, NEW c \in CallRec, c.block \in DOMAIN source, NEW n, n = Len(source[c.block])
  PROVE  /\ n \in Nat
         /\ \A k \in 0 .. n : Done(c, k) \in Seq(Spots)
         /\ \A k \in 1 .. n : Piece(c, k) \in Seq(Spots)
         /\ \A j \in 0 .. n, k \in 1 .. n : k = j + 1 => Done(c, k) = Done(c, j) \o Piece(c, k)
         /\ c.pass = 1 => Done(c, 0) = <<>> /\ Done(c, n) = FlattenSeq(OfFiles(c.block, Whole))
         /\ c.pass = 2 => /\ Done(c, 0) = FlattenSeq(OfFiles(c.block, Whole))
                          /\ Done(c, n) = LaysDown(c.block, Whole)
<1> DEFINE e == OfFiles(c.block, Whole)
           f == OfItsOwn(c.block, Whole)
           F == FlattenSeq(e)
<1>1. /\ n \in Nat /\ e \in Seq(Seq(Spots)) /\ Len(e) = n /\ f \in Seq(Seq(Spots)) /\ Len(f) = n
  BY WholeFacts, PieceFacts, BlockFacts
<1>2. /\ Growth(Heads(e), e, Spots) /\ F = Heads(e)[n] /\ F \in Seq(Spots)
      /\ Growth(Heads(f), f, Spots) /\ FlattenSeq(f) = Heads(f)[n]
  BY <1>1, HeadsFacts
<1>3. /\ \A k \in 0 .. n : Heads(e)[k] \in Seq(Spots) /\ Heads(f)[k] \in Seq(Spots)
      /\ Heads(e)[0] = <<>> /\ Heads(f)[0] = <<>>
      /\ \A j, k \in 0 .. n : k = j + 1 => Heads(e)[k] = Heads(e)[j] \o e[k] /\ Heads(f)[k] = Heads(f)[j] \o f[k]
  BY <1>1, <1>2 DEF Growth
<1>4. \A k \in 1 .. n : e[k] \in Seq(Spots) /\ f[k] \in Seq(Spots)
  BY <1>1, ElementOfSeq
<1>5. LaysDown(c.block, Whole) = F \o FlattenSeq(f)
  BY DEF LaysDown
<1>6. c.pass \in {1, 2}
  BY DEF CallRec
<1>7. /\ c.pass = 1 => \A k : Done(c, k) = Heads(e)[k] /\ Piece(c, k) = e[k]
      /\ c.pass = 2 => \A k : Done(c, k) = F \o Heads(f)[k] /\ Piece(c, k) = f[k]
  <2>1. ASSUME NEW k, c.pass = 1 PROVE Done(c, k) = Heads(e)[k] /\ Piece(c, k) = e[k]
    BY <2>1 DEF Done, Piece
  <2>2. ASSUME NEW k, c.pass = 2 PROVE Done(c, k) = F \o Heads(f)[k] /\ Piece(c, k) = f[k]
    BY <2>2 DEF Done, Piece
  <2> HIDE DEF e, f, F
  <2> QED BY <2>1, <2>2
<1> HIDE DEF e, f, F
<1>8. CASE c.pass = 1
  <2>1. \A k \in 1 .. n : k \in 0 .. n
    BY <1>1
  <2>2. \A k \in 0 .. n : Done(c, k) \in Seq(Spots)
    BY <1>3, <1>7, <1>8
  <2>3. \A k \in 1 .. n : Piece(c, k) \in Seq(Spots)
    BY <1>4, <1>7, <1>8
  <2>4. \A j \in 0 .. n, k \in 1 .. n : k = j + 1 => Done(c, k) = Done(c, j) \o Piece(c, k)
    <3> TAKE j \in 0 .. n, k \in 1 .. n
    <3> HAVE k = j + 1
    <3>1. Heads(e)[k] = Heads(e)[j] \o e[k]
      BY <1>3, <2>1
    <3> QED BY <1>7, <1>8, <3>1
  <2>5. Done(c, 0) = <<>> /\ Done(c, n) = F
    BY <1>2, <1>3, <1>7, <1>8
  <2> QED BY <1>1, <1>8, <2>2, <2>3, <2>4, <2>5 DEF e, F
<1>9. CASE c.pass = 2
  <2>1. \A k \in 0 .. n : F \o Heads(f)[k] \in Seq(Spots)
    BY <1>2, <1>3, ConcatProperties
  <2>2. ASSUME NEW j \in 0 .. n, NEW k \in 1 .. n, k = j + 1
        PROVE  F \o Heads(f)[k] = (F \o Heads(f)[j]) \o f[k]
    <3>0. k \in 0 .. n
      BY <1>1
    <3>1. Heads(f)[k] = Heads(f)[j] \o f[k] /\ Heads(f)[j] \in Seq(Spots) /\ f[k] \in Seq(Spots)
      BY <1>3, <1>4, <2>2, <3>0
    <3>2. \A p, q, r \in Seq(Spots) : p \o (q \o r) = (p \o q) \o r
      BY ONLY Regroup
    <3>3. F \o (Heads(f)[j] \o f[k]) = (F \o Heads(f)[j]) \o f[k]
      BY ONLY <1>2, <3>1, <3>2
    <3> QED BY <3>1, <3>3
  <2>3. F \o <<>> = F
    BY <1>2, ConcatEmptySeq
  <2>4. Done(c, 0) = F /\ Done(c, n) = F \o FlattenSeq(f)
    BY <1>2, <1>3, <1>7, <1>9, <2>3
  <2>5. \A j \in 0 .. n, k \in 1 .. n : k = j + 1 => Done(c, k) = Done(c, j) \o Piece(c, k)
    <3> TAKE j \in 0 .. n, k \in 1 .. n
    <3> HAVE k = j + 1
    <3>1. F \o Heads(f)[k] = (F \o Heads(f)[j]) \o f[k]
      BY <2>2
    <3> QED BY <1>7, <1>9, <3>1
  <2>6. (\A k \in 0 .. n : Done(c, k) \in Seq(Spots)) /\ \A k \in 1 .. n : Piece(c, k) \in Seq(Spots)
    BY <1>4, <1>7, <1>9, <2>1
  <2> QED BY <1>1, <1>5, <1>9, <2>4, <2>5, <2>6 DEF e, F
<1> QED BY <1>6, <1>8, <1>9
-----------------------------------------------------------------------------
(* What the lists of instructions and of operands come to.                     *)
InstSpots == {w \in Spots : Is(w, "inst")}

LEMMA InstsGrow ==
  ASSUME NEW laid \in Seq(Spots)
  PROVE  /\ InstsOf(laid) \in Seq(InstSpots)
         /\ \A w \in Spots : InstsOf(laid \o <<w>>)
                               = IF Is(w, "inst") THEN Append(InstsOf(laid), w) ELSE InstsOf(laid)
<1> DEFINE one(w) == IF Is(w, "inst") THEN <<w>> ELSE <<>>
           list(q) == [k \in 1 .. Len(q) |-> IF Is(q[k], "inst") THEN <<q[k]>> ELSE <<>>]
<1>1. PICK n \in Nat : n = Len(laid)
  BY LenProperties
<1>2. \A w \in Spots : one(w) \in Seq(InstSpots)
  <2> TAKE w \in Spots
  <2>1. CASE Is(w, "inst")
    <3>1. w \in InstSpots
      BY <2>1 DEF InstSpots
    <3> QED BY <2>1, <3>1
  <2>2. CASE ~Is(w, "inst")
    BY <2>2, EmptySeq
  <2> QED BY <2>1, <2>2
<1>3. \A k \in 1 .. n : laid[k] \in Spots
  BY <1>1, ElementOfSeq
<1>4. list(laid) \in Seq(Seq(InstSpots)) /\ Len(list(laid)) = n /\ \A k \in 1 .. n : list(laid)[k] = one(laid[k])
  <2>1. \A k \in 1 .. n : list(laid)[k] = one(laid[k]) /\ list(laid)[k] \in Seq(InstSpots)
    BY <1>1, <1>2, <1>3
  <2>2. list(laid) \in [1 .. n -> Seq(InstSpots)]
    BY <1>1, <2>1
  <2> HIDE DEF list, one
  <2> QED BY <2>1, <2>2
<1>5. InstsOf(laid) = FlattenSeq(list(laid))
  BY DEF InstsOf
<1>6. InstsOf(laid) \in Seq(InstSpots)
  <2> HIDE DEF list, one
  <2>1. <<>> \in Seq(InstSpots)
    BY EmptySeq
  <2> QED BY <1>4, <1>5, <2>1, FlattenAppend
<1>7. ASSUME NEW w \in Spots
      PROVE  InstsOf(laid \o <<w>>) = IF Is(w, "inst") THEN Append(InstsOf(laid), w) ELSE InstsOf(laid)
  <2> DEFINE long == laid \o <<w>>
  <2>1. long \in Seq(Spots) /\ Len(long) = n + 1 /\ long[n + 1] = w /\ \A k \in 1 .. n : long[k] = laid[k]
    BY <1>1
  <2> HIDE DEF long
  <2>2. list(long) = Append(list(laid), one(w))
    <3>1. \A k \in 1 .. n + 1 : long[k] \in Spots
      BY <1>3, <2>1
    <3>2. \A k \in 1 .. n + 1 : list(long)[k] = one(long[k]) /\ list(long)[k] \in Seq(InstSpots)
      BY <1>2, <2>1, <3>1
    <3>3. list(long) \in [1 .. n + 1 -> Seq(InstSpots)]
      BY <2>1, <3>2
    <3>4. one(w) \in Seq(InstSpots)
      BY <1>2
    <3> HIDE DEF list, one
    <3>5. list(long) \in Seq(Seq(InstSpots)) /\ Len(list(long)) = n + 1
      BY <3>3
    <3>6. /\ Append(list(laid), one(w)) \in Seq(Seq(InstSpots)) /\ Len(Append(list(laid), one(w))) = n + 1
          /\ \A k \in 1 .. n : Append(list(laid), one(w))[k] = one(laid[k])
          /\ Append(list(laid), one(w))[n + 1] = one(w)
      <4>1. PICK e : e = list(laid)
        OBVIOUS
      <4>2. PICK x : x = one(w)
        OBVIOUS
      <4>3. PICK T : T = Seq(InstSpots)
        OBVIOUS
      <4>4. e \in Seq(T) /\ x \in T /\ Len(e) = n /\ \A k \in 1 .. n : e[k] = one(laid[k])
        BY <1>4, <3>4, <4>1, <4>2, <4>3
      <4>5. /\ Append(e, x) \in Seq(T) /\ Len(Append(e, x)) = n + 1 /\ Append(e, x)[n + 1] = x
            /\ \A k \in 1 .. n : Append(e, x)[k] = e[k]
        BY <4>4, AppendProperties
      <4> QED BY <4>1, <4>2, <4>3, <4>4, <4>5
    <3>7. \A k \in 1 .. n + 1 : list(long)[k] = Append(list(laid), one(w))[k]
      <4> TAKE k \in 1 .. n + 1
      <4>1. k \in 1 .. n \/ k = n + 1
        OBVIOUS
      <4> QED BY <2>1, <3>2, <3>6, <4>1
    <3> QED BY <3>5, <3>6, <3>7, SeqEqual
  <2>3. InstsOf(long) = FlattenSeq(list(long))
    BY DEF InstsOf
  <2>4. FlattenSeq(Append(list(laid), one(w))) = FlattenSeq(list(laid)) \o one(w)
    <3>1. one(w) \in Seq(InstSpots)
      BY <1>2
    <3> HIDE DEF list, one
    <3> QED BY <1>4, <3>1, FlattenAppend
  <2>5. InstsOf(long) = InstsOf(laid) \o one(w)
    BY <1>5, <2>2, <2>3, <2>4
  <2>6. InstsOf(laid) \o <<w>> = Append(InstsOf(laid), w) /\ InstsOf(laid) \o <<>> = InstsOf(laid)
    BY <1>6, ConcatEmptySeq
  <2> QED BY <2>5, <2>6 DEF long
<1> QED BY <1>6, <1>7

OperandsAt(k, w) == [j \in 1 .. Len(Statement(w).operands) |-> <<k, Statement(w).operands[j]>>]

LEMMA OperandsAtFacts ==
  ASSUME source \in Sources, NEW w \in InstSpots, NEW k \in Nat
  PROVE  OperandsAt(k, w) \in Seq(Nat \X Expr)
<1>1. w[1] \in DOMAIN source /\ w[2] \in 1 .. Len(source[w[1]]) /\ Statement(w).kind = "inst"
  BY DEF InstSpots, Spots, Is
<1>2. StmtShape(Statement(w))
  BY <1>1, BlockFacts DEF Statement
<1>3. Statement(w).operands \in Seq(Expr)
  BY <1>1, <1>2 DEF StmtShape
<1>4. PICK m \in Nat : m = Len(Statement(w).operands)
  BY <1>3, LenProperties
<1>5. \A j \in 1 .. m : Statement(w).operands[j] \in Expr
  BY <1>3, <1>4, ElementOfSeq
<1> QED BY <1>4, <1>5 DEF OperandsAt

LEMMA OperandsGrow ==
  ASSUME source \in Sources, NEW q \in Seq(InstSpots), NEW w \in InstSpots
  PROVE  /\ OperandsOf(q) \in Seq(Nat \X Expr)
         /\ OperandsOf(Append(q, w)) = OperandsOf(q) \o OperandsAt(Len(q) + 1, w)
<1> DEFINE T == Nat \X Expr
           list(p) == [k \in 1 .. Len(p) |-> OperandsAt(k, p[k])]
           long == Append(q, w)
<1>1. PICK n \in Nat : n = Len(q)
  BY LenProperties
<1>2. \A p : OperandsOf(p) = FlattenSeq(list(p))
  BY DEF OperandsOf, OperandsAt
<1>3. \A v \in InstSpots : \A k \in Nat : OperandsAt(k, v) \in Seq(T)
  BY OperandsAtFacts
<1>4. \A k \in 1 .. n : q[k] \in InstSpots
  BY <1>1, ElementOfSeq
<1>5. long \in Seq(InstSpots) /\ Len(long) = n + 1 /\ long[n + 1] = w /\ \A k \in 1 .. n : long[k] = q[k]
  BY <1>1, AppendProperties
<1> HIDE DEF T, long
<1>6. list(q) \in Seq(Seq(T)) /\ Len(list(q)) = n /\ \A k \in 1 .. n : list(q)[k] = OperandsAt(k, q[k])
  <2>1. \A k \in 1 .. n : list(q)[k] = OperandsAt(k, q[k]) /\ list(q)[k] \in Seq(T)
    BY <1>1, <1>3, <1>4
  <2>2. list(q) \in [1 .. n -> Seq(T)]
    BY <1>1, <2>1
  <2> HIDE DEF list
  <2> QED BY <2>1, <2>2
<1>7. list(long) \in Seq(Seq(T)) /\ Len(list(long)) = n + 1 /\ \A k \in 1 .. n + 1 : list(long)[k] = OperandsAt(k, long[k])
  <2>1. \A k \in 1 .. n + 1 : list(long)[k] = OperandsAt(k, long[k]) /\ list(long)[k] \in Seq(T)
    <3>1. \A k \in 1 .. n + 1 : long[k] \in InstSpots
      BY <1>5, ElementOfSeq
    <3> QED BY <1>3, <1>5, <3>1
  <2>2. list(long) \in [1 .. n + 1 -> Seq(T)]
    BY <1>5, <2>1
  <2> HIDE DEF list
  <2> QED BY <2>1, <2>2
<1>8. OperandsAt(n + 1, w) \in Seq(T)
  BY <1>3
<1> HIDE DEF list
<1>9. list(long) = Append(list(q), OperandsAt(n + 1, w))
  <2>1. /\ Append(list(q), OperandsAt(n + 1, w)) \in Seq(Seq(T))
        /\ Len(Append(list(q), OperandsAt(n + 1, w))) = n + 1
        /\ \A k \in 1 .. n : Append(list(q), OperandsAt(n + 1, w))[k] = OperandsAt(k, q[k])
        /\ Append(list(q), OperandsAt(n + 1, w))[n + 1] = OperandsAt(n + 1, w)
    BY <1>6, <1>8, AppendProperties
  <2>2. \A k \in 1 .. n + 1 : list(long)[k] = Append(list(q), OperandsAt(n + 1, w))[k]
    <3> TAKE k \in 1 .. n + 1
    <3>1. k \in 1 .. n \/ k = n + 1
      OBVIOUS
    <3> QED BY <1>5, <1>7, <2>1, <3>1
  <2> QED BY <1>7, <2>1, <2>2, SeqEqual
<1>10. /\ FlattenSeq(list(q)) \in Seq(T)
       /\ FlattenSeq(Append(list(q), OperandsAt(n + 1, w))) = FlattenSeq(list(q)) \o OperandsAt(n + 1, w)
  BY <1>6, <1>8, FlattenAppend
<1>11. OperandsOf(long) = FlattenSeq(list(q)) \o OperandsAt(n + 1, w)
  BY <1>2, <1>9, <1>10
<1> QED BY <1>1, <1>2, <1>10, <1>11 DEF T, long

LEMMA PlacesAre ==
  \A x, laid, v : v \in Places(x, laid)
                    <=> \E k \in 1 .. Len(laid) : laid[k] = x /\ v = Len(InstsOf(SubSeq(laid, 1, k - 1)))
BY Zenon DEF Places

(* Labels keep their places when more is laid, and one laid last has the       *)
(* number of instructions before it.                                           *)
LEMMA PlacesGrow ==
  ASSUME NEW laid \in Seq(Spots), NEW w \in Spots
  PROVE  /\ \A x : Places(x, laid) \subseteq Places(x, laid \o <<w>>)
         /\ Len(InstsOf(laid)) \in Places(w, laid \o <<w>>)
<1> DEFINE long == laid \o <<w>>
<1>1. PICK n \in Nat : n = Len(laid)
  BY LenProperties
<1>2. long \in Seq(Spots) /\ Len(long) = n + 1 /\ long[n + 1] = w /\ \A k \in 1 .. n : long[k] = laid[k]
  BY <1>1
<1> HIDE DEF long
<1>3. ASSUME NEW k \in 1 .. n + 1 PROVE SubSeq(long, 1, k - 1) = SubSeq(laid, 1, k - 1)
  <2>1. \A i \in 1 .. k - 1 : long[i] = laid[i] /\ long[i] \in Spots /\ laid[i] \in Spots /\ 1 + i - 1 = i
    <3> TAKE i \in 1 .. k - 1
    <3>1. i \in 1 .. n /\ i \in 1 .. n + 1
      OBVIOUS
    <3> QED BY <1>1, <1>2, <3>1, ElementOfSeq
  <2>2. \A i \in 1 .. (k - 1) - 1 + 1 : i \in 1 .. k - 1 /\ 1 + i - 1 = i
    OBVIOUS
  <2>3. k - 1 \in Int /\ 1 \in Int /\ IF 1 <= k - 1 THEN (k - 1) - 1 + 1 = k - 1 ELSE k - 1 = 0
    OBVIOUS
  <2>4. /\ SubSeq(long, 1, k - 1) \in Seq(Spots)
        /\ Len(SubSeq(long, 1, k - 1)) = IF 1 <= k - 1 THEN (k - 1) - 1 + 1 ELSE 0
        /\ \A i \in 1 .. (k - 1) - 1 + 1 : SubSeq(long, 1, k - 1)[i] = long[1 + i - 1]
    BY <2>1, <2>3, SubSeqProperties
  <2>5. /\ SubSeq(laid, 1, k - 1) \in Seq(Spots)
        /\ Len(SubSeq(laid, 1, k - 1)) = IF 1 <= k - 1 THEN (k - 1) - 1 + 1 ELSE 0
        /\ \A i \in 1 .. (k - 1) - 1 + 1 : SubSeq(laid, 1, k - 1)[i] = laid[1 + i - 1]
    BY <2>1, <2>3, SubSeqProperties
  <2>6. Len(SubSeq(long, 1, k - 1)) = k - 1 /\ Len(SubSeq(laid, 1, k - 1)) = k - 1
    BY <2>3, <2>4, <2>5
  <2>7. \A i \in 1 .. k - 1 : SubSeq(long, 1, k - 1)[i] = SubSeq(laid, 1, k - 1)[i]
    <3> TAKE i \in 1 .. k - 1
    <3>1. i \in 1 .. (k - 1) - 1 + 1 /\ 1 + i - 1 = i
      OBVIOUS
    <3> QED BY <2>1, <2>4, <2>5, <3>1
  <2> QED BY <2>4, <2>5, <2>6, <2>7, SeqEqual
<1>4. SubSeq(laid, 1, n) = laid
  BY <1>1, SubSeqFull
<1>5. \A x : Places(x, laid) \subseteq Places(x, long)
  <2> SUFFICES ASSUME NEW x, NEW v, v \in Places(x, laid) PROVE v \in Places(x, long)
    OBVIOUS
  <2>1. PICK k \in 1 .. Len(laid) : laid[k] = x /\ v = Len(InstsOf(SubSeq(laid, 1, k - 1)))
    BY PlacesAre
  <2>2. k \in 1 .. n + 1 /\ k \in 1 .. Len(long) /\ long[k] = x
    BY <1>1, <1>2, <2>1
  <2>3. v = Len(InstsOf(SubSeq(long, 1, k - 1)))
    BY <1>3, <2>1, <2>2
  <2> QED BY <2>2, <2>3, PlacesAre
<1>6. Len(InstsOf(laid)) \in Places(w, long)
  <2>1. n + 1 \in 1 .. n + 1 /\ (n + 1) - 1 = n
    OBVIOUS
  <2>2. SubSeq(long, 1, (n + 1) - 1) = laid
    BY <1>3, <1>4, <2>1
  <2> QED BY <1>2, <2>1, <2>2, PlacesAre
<1> QED BY <1>5, <1>6 DEF long
-----------------------------------------------------------------------------
\* The walk's calls, from the root file on: each has passed its statements before
\* the one it stands before, but the last of them only when the call behind it, for
\* the block this statement names, is over.  What a block's statements passed name
\* nests, and before[i] is what has been laid down before call i.
Passed(i) == IF i = Len(calls) THEN calls[i].at - 1 ELSE calls[i].at - 2
Settled(c, k) == \A j \in 1 .. Len(source[c.block]) :
  /\ source[c.block][j].kind = "include" /\ (c.pass = 1 => j <= k) => source[c.block][j].path \in Nested
  /\ source[c.block][j].kind = "scope" /\ c.pass = 2 /\ j <= k => source[c.block][j].body \in Nested
Leads(c, d) == /\ c.at > 1
               /\ IF c.pass = 1 THEN /\ source[c.block][c.at - 1].kind = "include"
                                     /\ d.block = source[c.block][c.at - 1].path
                  ELSE /\ source[c.block][c.at - 1].kind = "scope"
                       /\ d.block = source[c.block][c.at - 1].body
LaidBefore(before) ==
  /\ before \in [1 .. Len(calls) -> Seq(Spots)]
  /\ before[1] = <<>> /\ calls[1].block = Root
  /\ \A i \in 1 .. Len(calls) : Settled(calls[i], Passed(i))
  /\ \A i, j \in 1 .. Len(calls) : j = i + 1 => /\ Leads(calls[i], calls[j])
                                                /\ before[j] = before[i] \o Done(calls[i], Passed(i))
Laid(before) == before[Len(calls)] \o Done(Current, Current.at - 1)

LEMMA SameSource ==
  ASSUME UNCHANGED source
  PROVE  /\ \A c, k : Done(c, k)' = Done(c, k) /\ Settled(c, k)' = Settled(c, k)
         /\ \A c, d : Leads(c, d)' = Leads(c, d)
         /\ \A p, q : InstsOf(p)' = InstsOf(p) /\ OperandsOf(p)' = OperandsOf(p) /\ Places(p, q)' = Places(p, q)
         /\ Spots' = Spots /\ Nested' = Nested /\ WholeLayout' = WholeLayout
<1>1. \A c, k : Done(c, k)' = Done(c, k)
  BY DEF Done, Heads, Whole, Layout, LaysDown, OfFiles, OfItsOwn, Deepest, Spots, Growth
<1>2. (\A c, k : Settled(c, k)' = Settled(c, k)) /\ Nested' = Nested
  BY DEF Settled, Nested, Nest, NamingOnly, NamedBy, Deepest
<1>3. \A c, d : Leads(c, d)' = Leads(c, d)
  BY DEF Leads
<1>4. \A p, q : InstsOf(p)' = InstsOf(p) /\ OperandsOf(p)' = OperandsOf(p) /\ Places(p, q)' = Places(p, q)
  BY DEF InstsOf, OperandsOf, Places, Is, Statement
<1>5. Spots' = Spots /\ WholeLayout' = WholeLayout
  BY DEF Spots, WholeLayout, Layout, LaysDown, OfFiles, OfItsOwn
<1> QED BY <1>1, <1>2, <1>3, <1>4, <1>5

LEMMA LaidFacts ==
  ASSUME WalkOK, phase = "translate", NEW before, LaidBefore(before)
  PROVE  /\ Len(calls) \in Nat \ {0} /\ Len(calls) \in 1 .. Len(calls) /\ calls[Len(calls)] = Current
         /\ before[Len(calls)] \in Seq(Spots) /\ Laid(before) \in Seq(Spots)
         /\ Current \in CallRec /\ Current.block \in DOMAIN source /\ Settled(Current, Current.at - 1)
         /\ Current.at - 1 \in 0 .. Len(source[Current.block]) /\ Current.at \in Nat
         /\ Done(Current, Current.at - 1) \in Seq(Spots)
<1>1. /\ Len(calls) \in Nat \ {0} /\ Len(calls) \in 1 .. Len(calls) /\ Current \in CallRec
      /\ Current.block \in DOMAIN source /\ Current.at \in 1 .. Len(source[Current.block]) + 1
      /\ Len(source[Current.block]) \in Nat
  BY CurrentFacts
<1>2. calls[Len(calls)] = Current /\ before[Len(calls)] \in Seq(Spots)
  BY <1>1 DEF Current, LaidBefore
<1>3. Settled(Current, Current.at - 1)
  BY <1>1, <1>2 DEF LaidBefore, Passed
<1>4. Current.at - 1 \in 0 .. Len(source[Current.block]) /\ Current.at \in Nat
  BY <1>1
<1>5. Done(Current, Current.at - 1) \in Seq(Spots)
  BY <1>1, <1>4, DoneFacts DEF WalkOK
<1>6. Laid(before) \in Seq(Spots)
  BY <1>2, <1>5, ConcatProperties DEF Laid
<1> QED BY <1>1, <1>2, <1>3, <1>4, <1>5, <1>6

(* A call that changes its pass or its place, and has still passed what it     *)
(* should have, leaves what was laid before the calls.                         *)
LEMMA TopMoves ==
  ASSUME WalkOK, phase = "translate", UNCHANGED source, NEW before, LaidBefore(before),
         NEW c \in CallRec, c.block = Current.block, Settled(c, c.at - 1),
         Len(calls') = Len(calls), \A i \in 1 .. Len(calls) : calls'[i] = IF i = Len(calls) THEN c ELSE calls[i]
  PROVE  LaidBefore(before)' /\ Laid(before)' = before[Len(calls)] \o Done(c, c.at - 1)
<1> DEFINE n == Len(calls)
<1>1. n \in Nat \ {0} /\ n \in 1 .. n /\ calls[n] = Current /\ 1 \in 1 .. n
  BY LaidFacts
<1>2. Current' = c /\ calls'[n] = c
  BY <1>1 DEF Current
<1>3. \A i \in 1 .. n : Passed(i)' = IF i = n THEN c.at - 1 ELSE Passed(i)
  BY <1>1 DEF Passed
<1>4. calls'[1].block = Root
  BY <1>1 DEF LaidBefore
<1>5. \A i \in 1 .. n : Settled(calls'[i], Passed(i)')
  BY <1>3 DEF LaidBefore
<1>6. ASSUME NEW i \in 1 .. n, NEW j \in 1 .. n, j = i + 1
      PROVE  Leads(calls'[i], calls'[j]) /\ before[j] = before[i] \o Done(calls'[i], Passed(i)')
  <2>1. i # n /\ calls'[i] = calls[i] /\ calls'[j].block = calls[j].block /\ Passed(i)' = Passed(i)
    BY <1>1, <1>2, <1>3, <1>6
  <2>2. Leads(calls[i], calls[j]) /\ before[j] = before[i] \o Done(calls[i], Passed(i))
    BY <1>6 DEF LaidBefore
  <2> QED BY <2>1, <2>2 DEF Leads
<1>7. before \in [1 .. Len(calls') -> Seq(Spots')]
  BY SameSource DEF LaidBefore
<1>8. LaidBefore(before)'
  <2>1. \A i \in 1 .. Len(calls') : (Settled(calls[i], Passed(i)))'
    BY <1>5, SameSource
  <2>2. \A i, j \in 1 .. Len(calls') : j = i + 1 =>
          /\ (Leads(calls[i], calls[j]))'
          /\ before[j] = before[i] \o (Done(calls[i], Passed(i)))'
    <3>1. (\A c1, d : Leads(c1, d)' = Leads(c1, d)) /\ \A c1, k : Done(c1, k)' = Done(c1, k)
      BY SameSource
    <3> TAKE i, j \in 1 .. Len(calls')
    <3> HAVE j = i + 1
    <3>2. (Leads(calls[i], calls[j]))' = Leads(calls'[i], calls'[j])
      BY <3>1
    <3>3. (Done(calls[i], Passed(i)))' = Done(calls'[i], Passed(i)')
      BY <3>1
    <3> QED BY <1>6, <3>2, <3>3
  <2>3. before[1] = <<>> /\ Root' = Root
    BY DEF LaidBefore
  <2> QED BY <1>4, <1>7, <2>1, <2>2, <2>3 DEF LaidBefore
<1>9. Laid(before)' = before[n] \o Done(c, c.at - 1)
  BY <1>2, SameSource DEF Laid
<1> QED BY <1>8, <1>9

LEMMA MovedLays ==
  ASSUME WalkOK, phase = "translate", ~AtEnd, UNCHANGED source, NEW before, LaidBefore(before), calls' = Moved,
         Current.pass = 1 => Stmt.kind # "include", Current.pass = 2 => Stmt.kind # "scope"
  PROVE  /\ LaidBefore(before)' /\ Where \in Spots
         /\ Laid(before)' = IF Current.pass = 2 /\ Stmt.kind \in {"inst", "label"}
                            THEN Laid(before) \o <<Where>> ELSE Laid(before)
<1> DEFINE c == [Current EXCEPT !.at = @ + 1]
           b == Current.block
           k == Current.at
<1>1. /\ Current \in CallRec /\ b \in DOMAIN source /\ Settled(Current, k - 1)
      /\ before[Len(calls)] \in Seq(Spots) /\ Len(calls) \in Nat \ {0} /\ Done(Current, k - 1) \in Seq(Spots)
      /\ Laid(before) \in Seq(Spots)
  BY LaidFacts
<1>2. k \in 1 .. Len(source[b]) /\ Len(source[b]) \in Nat /\ Where \in Block \X (Nat \ {0}) /\ StmtShape(Stmt)
      /\ (Stmt.kind = "scope" => Stmt.body \in DOMAIN source)
  BY CurrentFacts
<1>3. c \in CallRec /\ c.block = b /\ c.pass = Current.pass /\ c.at = k + 1 /\ c.at - 1 = k
  <2>1. k \in Nat /\ k + 1 \in Nat /\ (k + 1) - 1 = k
    BY <1>2
  <2>2. c \in CallRec /\ c.block = b /\ c.pass = Current.pass /\ c.at = k + 1
    BY <1>1, <2>1 DEF CallRec
  <2> QED BY <2>1, <2>2
<1>4. Len(calls') = Len(calls) /\ \A i \in 1 .. Len(calls) : calls'[i] = IF i = Len(calls) THEN c ELSE calls[i]
  BY <1>1, MovedFacts DEF WalkOK
<1> HIDE DEF c
<1>5. \A j \in 1 .. Len(source[b]) : j <= k => j <= k - 1 \/ j = k
  BY <1>2
<1>6. Settled(c, c.at - 1)
  BY <1>1, <1>2, <1>3, <1>5 DEF Settled, Stmt, CallRec
<1>7. LaidBefore(before)' /\ Laid(before)' = before[Len(calls)] \o Done(c, c.at - 1)
  BY <1>3, <1>4, <1>6, TopMoves
<1>8. Done(c, c.at - 1) = Done(Current, k) /\ Done(Current, k) = Done(Current, k - 1) \o Piece(Current, k)
  <2>1. Done(c, c.at - 1) = Done(Current, k)
    BY <1>3 DEF Done
  <2>2. k - 1 \in 0 .. Len(source[b]) /\ k = (k - 1) + 1
    BY <1>2
  <2> QED BY <1>1, <1>2, <2>1, <2>2, DoneFacts DEF WalkOK
<1>9. Piece(Current, k) = IF Current.pass = 2 /\ Stmt.kind \in {"inst", "label"} THEN <<Where>> ELSE <<>>
  <2>1. CASE Current.pass = 1
    BY <1>2, <2>1 DEF Piece, OfFiles, Stmt
  <2>2. CASE Current.pass = 2
    BY <1>2, <2>2 DEF Piece, OfItsOwn, Stmt, Where
  <2> QED BY <1>1, <2>1, <2>2 DEF CallRec
<1>10. Where \in Spots
  BY <1>1, <1>2 DEF Where, Spots
<1>11. before[Len(calls)] \o (Done(Current, k - 1) \o Piece(Current, k)) = Laid(before) \o Piece(Current, k)
  <2>1. <<Where>> \in Seq(Spots) /\ <<>> \in Seq(Spots)
    BY <1>10
  <2>2. Piece(Current, k) \in Seq(Spots)
    BY <1>9, <2>1
  <2>3. Laid(before) = before[Len(calls)] \o Done(Current, k - 1)
    BY DEF Laid
  <2>4. \A p, q, r \in Seq(Spots) : p \o (q \o r) = (p \o q) \o r
    BY ONLY Regroup
  <2>5. before[Len(calls)] \in Seq(Spots) /\ Done(Current, k - 1) \in Seq(Spots)
    BY <1>1
  <2>6. before[Len(calls)] \o (Done(Current, k - 1) \o Piece(Current, k))
          = (before[Len(calls)] \o Done(Current, k - 1)) \o Piece(Current, k)
    BY ONLY <2>2, <2>4, <2>5
  <2> QED BY ONLY <2>3, <2>6, Zenon
<1>12. Laid(before) \o <<>> = Laid(before)
  BY <1>1, ConcatEmptySeq
<1> QED BY <1>7, <1>8, <1>9, <1>10, <1>11, <1>12

LEMMA SecondLays ==
  ASSUME WalkOK, SecondPass, NEW before, LaidBefore(before)
  PROVE  LaidBefore(before)' /\ Laid(before)' = Laid(before)
<1> DEFINE c == [Current EXCEPT !.pass = 2, !.at = 1]
           b == Current.block
           n == Len(calls)
<1>1. phase = "translate" /\ UNCHANGED source /\ AtEnd /\ Current.pass = 1
  BY DEF SecondPass, Unevaluated
<1>2. /\ Current \in CallRec /\ b \in DOMAIN source /\ Settled(Current, Current.at - 1)
      /\ Len(source[b]) \in Nat /\ Current.at = Len(source[b]) + 1 /\ Current.at - 1 = Len(source[b])
      /\ n \in 1 .. n /\ calls[n] = Current /\ calls \in Seq(CallRec)
  BY <1>1, LaidFacts, CurrentFacts DEF AtEnd, WalkOK
<1>3. c \in CallRec /\ c.block = b /\ c.pass = 2 /\ c.at = 1
  BY <1>2 DEF CallRec
<1>4. calls' = [calls EXCEPT ![n] = c]
  BY <1>2 DEF SecondPass
<1> HIDE DEF c
<1>5. Len(calls') = n /\ \A i \in 1 .. n : calls'[i] = IF i = n THEN c ELSE calls[i]
  BY <1>2, <1>3, <1>4, ExceptSeq
<1>6. Settled(c, c.at - 1)
  <2>1. \A j \in 1 .. Len(source[b]) : ~(j <= c.at - 1) /\ j <= Current.at - 1
    BY <1>2, <1>3
  <2> QED BY <1>1, <1>2, <1>3, <2>1 DEF Settled
<1>7. LaidBefore(before)' /\ Laid(before)' = before[n] \o Done(c, c.at - 1)
  BY <1>1, <1>3, <1>5, <1>6, TopMoves
<1>8. Done(c, 0) = FlattenSeq(OfFiles(b, Whole)) /\ Done(Current, Len(source[b])) = FlattenSeq(OfFiles(b, Whole))
  BY <1>1, <1>2, <1>3, DoneFacts DEF WalkOK
<1>9. c.at - 1 = 0
  BY <1>3
<1>10. Laid(before) = before[n] \o Done(Current, Len(source[b]))
  BY <1>2 DEF Laid
<1> QED BY <1>7, <1>8, <1>9, <1>10

LEMMA EnterLays ==
  ASSUME WalkOK, phase = "translate", ~AtEnd, UNCHANGED source, NEW before, LaidBefore(before),
         NEW d \in CallRec, d.block \in DOMAIN source, d.pass = 1, d.at = 1,
         calls' = Append(Moved, d),
         \/ Current.pass = 1 /\ Stmt.kind = "include" /\ d.block = Stmt.path
         \/ Current.pass = 2 /\ Stmt.kind = "scope" /\ d.block = Stmt.body
  PROVE  \E longer : LaidBefore(longer)' /\ Laid(longer)' = Laid(before)
<1>0. PICK n : n = Len(calls)
  OBVIOUS
<1>a. PICK k : k = Current.at
  OBVIOUS
<1>b. PICK longer : longer = [i \in 1 .. n + 1 |-> IF i = n + 1 THEN Laid(before) ELSE before[i]]
  OBVIOUS
<1> DEFINE c == [Current EXCEPT !.at = @ + 1]
<1>1. /\ Current \in CallRec /\ Current.block \in DOMAIN source /\ Settled(Current, k - 1)
      /\ n \in Nat \ {0} /\ n \in 1 .. n /\ calls[n] = Current /\ Laid(before) \in Seq(Spots)
  BY <1>0, <1>a, LaidFacts
<1>2. k \in 1 .. Len(source[Current.block]) /\ Len(source[Current.block]) \in Nat /\ k \in Nat /\ k + 1 \in Nat
      /\ (k + 1) - 2 = k - 1 /\ (k + 1) - 1 = k /\ k + 1 > 1
  BY <1>a, CurrentFacts
<1>3. c \in CallRec /\ c.block = Current.block /\ c.pass = Current.pass /\ c.at = k + 1
  BY <1>1, <1>2, <1>a DEF CallRec
<1>4. Moved \in Seq(CallRec) /\ Len(Moved) = n /\ \A i \in 1 .. n : Moved[i] = IF i = n THEN c ELSE calls[i]
  BY <1>0, <1>1, <1>3, MovedFacts, ExceptSeq DEF WalkOK, Moved, Current
<1> HIDE DEF c
<1>5. /\ Len(calls') = n + 1 /\ calls'[n + 1] = d
      /\ \A i \in 1 .. n : calls'[i] = IF i = n THEN c ELSE calls[i]
  BY <1>4, AppendProperties
<1>6. Current' = d /\ Passed(n + 1)' = 0
  <2>1. Current' = d
    BY <1>5 DEF Current
  <2>2. Passed(n + 1)' = calls'[n + 1].at - 1
    BY <1>5 DEF Passed
  <2>3. calls'[n + 1].at - 1 = 0
    BY <1>5
  <2> QED BY <2>1, <2>2, <2>3
<1>7. \A i \in 1 .. n : Passed(i)' = Passed(i)
  <2> TAKE i \in 1 .. n
  <2>1. i # n + 1 /\ (i # n => calls'[i] = calls[i]) /\ (i = n => calls'[i].at - 2 = k - 1)
    BY <1>1, <1>2, <1>3, <1>5
  <2> QED BY <1>0, <1>1, <1>5, <1>a, <2>1 DEF Passed
<1>8. Passed(n) = k - 1
  BY <1>0, <1>1, <1>a DEF Passed
<1>9. \A i \in 1 .. n : longer[i] = before[i]
  BY <1>1, <1>b
<1>10. longer[n + 1] = Laid(before) /\ longer \in [1 .. n + 1 -> Seq(Spots)]
  <2>1. \A i \in 1 .. n + 1 : i # n + 1 => before[i] \in Seq(Spots)
    BY <1>0, <1>1 DEF LaidBefore
  <2> QED BY <1>1, <1>b, <2>1
<1>11. Settled(d, 0) /\ Settled(c, k - 1)
  <2>1. Settled(c, k - 1)
    BY <1>1, <1>3 DEF Settled
  <2>2. \A j \in 1 .. Len(source[d.block]) : ~(j <= 0)
    BY BlockFacts DEF WalkOK
  <2> QED BY <2>1, <2>2 DEF Settled
<1>12. \A i \in 1 .. n + 1 : Settled(calls'[i], Passed(i)')
  <2> TAKE i \in 1 .. n + 1
  <2>1. CASE i = n + 1
    <3>1. calls'[i] = d /\ Passed(i)' = 0
      BY <1>5, <1>6, <2>1
    <3> QED BY <1>11, <3>1
  <2>2. CASE i = n
    BY <1>1, <1>5, <1>7, <1>8, <1>11, <2>2
  <2>3. CASE i # n + 1 /\ i # n
    <3>1. i \in 1 .. n
      BY <1>1, <2>3
    <3> QED BY <1>0, <1>5, <1>7, <2>3, <3>1 DEF LaidBefore
  <2> QED BY <2>1, <2>2, <2>3
<1>13. Leads(c, d)
  BY <1>2, <1>3, <1>a DEF Leads, Stmt
<1>14. ASSUME NEW i \in 1 .. n + 1, NEW j \in 1 .. n + 1, j = i + 1
       PROVE  Leads(calls'[i], calls'[j]) /\ longer[j] = longer[i] \o Done(calls'[i], Passed(i)')
  <2>1. i \in 1 .. n
    BY <1>1, <1>14
  <2>2. CASE i = n
    <3>1. calls'[i] = c /\ calls'[j] = d /\ Passed(i)' = k - 1
      BY <1>1, <1>5, <1>7, <1>8, <1>14, <2>2
    <3>2. Done(c, k - 1) = Done(Current, k - 1)
      BY <1>3 DEF Done
    <3>3. longer[j] = before[n] \o Done(Current, k - 1)
      BY <1>0, <1>10, <1>14, <1>a, <2>2 DEF Laid
    <3> QED BY <1>9, <1>13, <2>1, <2>2, <3>1, <3>2, <3>3
  <2>3. CASE i # n
    <3>1. j \in 1 .. n /\ calls'[i] = calls[i] /\ calls'[j].block = calls[j].block /\ Passed(i)' = Passed(i)
      BY <1>1, <1>3, <1>5, <1>7, <1>14, <2>1, <2>3
    <3>2. Leads(calls[i], calls[j]) /\ before[j] = before[i] \o Done(calls[i], Passed(i))
      BY <1>0, <1>14, <2>1, <3>1 DEF LaidBefore
    <3>3. Leads(calls'[i], calls'[j])
      BY <3>1, <3>2 DEF Leads
    <3> QED BY <1>9, <2>1, <3>1, <3>2, <3>3
  <2> QED BY <2>2, <2>3
<1>15. LaidBefore(longer)'
  <2>1. \A i \in 1 .. Len(calls') : (Settled(calls[i], Passed(i)))'
    BY <1>5, <1>12, SameSource
  <2>2. \A i, j \in 1 .. Len(calls') : j = i + 1 =>
          /\ (Leads(calls[i], calls[j]))'
          /\ longer[j] = longer[i] \o (Done(calls[i], Passed(i)))'
    <3>1. (\A c1, d1 : Leads(c1, d1)' = Leads(c1, d1)) /\ \A c1, m : Done(c1, m)' = Done(c1, m)
      BY SameSource
    <3> TAKE i, j \in 1 .. Len(calls')
    <3> HAVE j = i + 1
    <3>2. (Leads(calls[i], calls[j]))' = Leads(calls'[i], calls'[j])
      BY <3>1
    <3>3. (Done(calls[i], Passed(i)))' = Done(calls'[i], Passed(i)')
      BY <3>1
    <3> QED BY <1>5, <1>14, <3>2, <3>3
  <2>3. longer[1] = <<>> /\ calls'[1].block = Root /\ Root' = Root
    <3>1. 1 \in 1 .. n /\ calls'[1].block = calls[1].block
      BY <1>1, <1>3, <1>5
    <3> QED BY <1>9, <3>1 DEF LaidBefore
  <2>4. longer \in [1 .. Len(calls') -> Seq(Spots')]
    BY <1>5, <1>10, SameSource
  <2> QED BY <2>1, <2>2, <2>3, <2>4 DEF LaidBefore
<1>16. Laid(longer)' = Laid(before)
  <2>1. Done(d, 0) = <<>>
    BY DoneFacts DEF WalkOK
  <2>2. (Done(Current, Current.at - 1))' = Done(d, 0)
    <3>1. d.at - 1 = 0
      OBVIOUS
    <3> QED BY <1>6, <3>1, SameSource
  <2>3. Laid(longer)' = longer[n + 1] \o Done(d, 0)
    <3>1. Laid(longer)' = longer[Len(calls')] \o (Done(Current, Current.at - 1))'
      BY DEF Laid
    <3> QED BY <1>5, <2>2, <3>1
  <2> QED BY <1>1, <1>10, <2>1, <2>3, ConcatEmptySeq
<1> QED BY <1>15, <1>16

(* A block whose walk is over nests, and lies where it was called.             *)
LEMMA BlockEnds ==
  ASSUME WalkOK, phase = "translate", AtEnd, Current.pass = 2, NEW before, LaidBefore(before)
  PROVE  Current.block \in Nested /\ Done(Current, Current.at - 1) = Whole[Current.block]
<1> DEFINE b == Current.block
<1>1. /\ Current \in CallRec /\ b \in DOMAIN source /\ Settled(Current, Current.at - 1)
      /\ Current.at = Len(source[b]) + 1 /\ Len(source[b]) \in Nat /\ Current.at - 1 = Len(source[b])
  BY LaidFacts, CurrentFacts DEF AtEnd
<1>2. NamedBy(b) \subseteq Nested
  BY <1>1 DEF Settled, NamedBy
<1>3. b \in Nested /\ Whole[b] = LaysDown(b, Whole)
  BY <1>1, <1>2, WholeFacts DEF WalkOK
<1>4. Done(Current, Len(source[b])) = LaysDown(b, Whole)
  BY <1>1, DoneFacts DEF WalkOK
<1> QED BY <1>1, <1>3, <1>4

LEMMA RootEnds ==
  ASSUME WalkOK, phase = "translate", AtEnd, Current.pass = 2, NEW before, LaidBefore(before), Len(calls) = 1
  PROVE  Laid(before) = WholeLayout
<1>1. Current.block = Root /\ before[Len(calls)] = <<>>
  BY DEF LaidBefore, Current
<1>2. Done(Current, Current.at - 1) = WholeLayout /\ Done(Current, Current.at - 1) \in Seq(Spots)
  BY <1>1, BlockEnds, WholeFacts, LaidFacts DEF WalkOK
<1> QED BY <1>1, <1>2, ConcatEmptySeq DEF Laid

(* Returned to, a call has passed the statement that named the block whose walk *)
(* is over, and what lies before it is what the block has laid down.           *)
LEMMA ReturnLays ==
  ASSUME WalkOK, phase = "translate", AtEnd, Current.pass = 2, UNCHANGED source, Len(calls) > 1,
         NEW before, LaidBefore(before), calls' = SubSeq(calls, 1, Len(calls) - 1)
  PROVE  \E shorter : LaidBefore(shorter)' /\ Laid(shorter)' = Laid(before)
<1>1. PICK n : n = Len(calls)
  OBVIOUS
<1>2. /\ n \in Nat /\ n > 1 /\ n \in 1 .. n /\ n - 1 \in 1 .. n /\ n = (n - 1) + 1 /\ n - 1 \in Nat /\ n - 1 # n
      /\ n - 1 \in 1 .. n - 1
  <2>1. n \in Nat
    BY <1>1, CurrentFacts
  <2> QED BY <1>1, <2>1
<1>3. PICK m : m = n - 1
  OBVIOUS
<1>4. PICK c : c = calls[m]
  OBVIOUS
<1>5. PICK shorter : shorter = [i \in 1 .. m |-> before[i]]
  OBVIOUS
<1>6. Len(calls') = m /\ \A i \in 1 .. m : calls'[i] = calls[i]
  BY <1>1, <1>2, <1>3, SubSeqProperties DEF WalkOK
<1>7. /\ c \in CallRec /\ c.block \in DOMAIN source /\ Len(source[c.block]) \in Nat
      /\ c.at \in 1 .. Len(source[c.block]) + 1
  <2>1. c \in CallRec /\ CallOK(m, c)
    BY <1>1, <1>2, <1>3, <1>4, ElementOfSeq DEF WalkOK
  <2> QED BY <2>1, BlockFacts DEF CallOK, WalkOK
<1>8. Passed(m) = c.at - 2
  BY <1>1, <1>2, <1>3, <1>4 DEF Passed
<1>9. /\ Settled(c, c.at - 2) /\ Leads(c, calls[n])
      /\ before[n] = before[m] \o Done(c, c.at - 2) /\ before[m] \in Seq(Spots)
  BY <1>1, <1>2, <1>3, <1>4, <1>8 DEF LaidBefore
<1>10. PICK k : k = c.at - 1
  OBVIOUS
<1>11. /\ k \in 1 .. Len(source[c.block]) /\ c.at - 2 \in 0 .. Len(source[c.block]) /\ k = (c.at - 2) + 1
       /\ c.at - 2 = k - 1 /\ k \in Nat
  <2>1. c.at > 1
    BY <1>9 DEF Leads
  <2> QED BY <1>7, <1>10, <2>1
<1>12. PICK b : b = Current.block
  OBVIOUS
<1>13. calls[n] = Current
  BY <1>1 DEF Current
<1>14. b \in Nested /\ Done(Current, Current.at - 1) = Whole[b]
  BY <1>12, BlockEnds
<1>15. IF c.pass = 1 THEN source[c.block][k].kind = "include" /\ source[c.block][k].path = b
                     ELSE source[c.block][k].kind = "scope" /\ source[c.block][k].body = b
  BY <1>9, <1>10, <1>12, <1>13 DEF Leads
<1>16. Piece(c, k) = Whole[b]
  BY <1>11, <1>15 DEF Piece, OfFiles, OfItsOwn
<1>17. Settled(c, k)
  <2>1. \A j \in 1 .. Len(source[c.block]) : j <= k => j <= c.at - 2 \/ j = k
    BY <1>11
  <2>2. c.pass \in {1, 2}
    BY <1>7 DEF CallRec
  <2> SUFFICES ASSUME NEW j \in 1 .. Len(source[c.block])
               PROVE  /\ source[c.block][j].kind = "include" /\ (c.pass = 1 => j <= k) => source[c.block][j].path \in Nested
                      /\ source[c.block][j].kind = "scope" /\ c.pass = 2 /\ j <= k => source[c.block][j].body \in Nested
    BY DEF Settled
  <2>3. CASE c.pass = 1
    BY <1>9, <1>14, <1>15, <2>1, <2>3 DEF Settled
  <2>4. CASE c.pass = 2
    BY <1>9, <1>14, <1>15, <2>1, <2>4 DEF Settled
  <2> QED BY <2>2, <2>3, <2>4
<1>18. Done(c, k) = Done(c, c.at - 2) \o Whole[b] /\ Done(c, c.at - 2) \in Seq(Spots) /\ Whole[b] \in Seq(Spots)
  BY <1>7, <1>11, <1>16, DoneFacts DEF WalkOK
<1>19. Current' = c
  BY <1>3, <1>4, <1>2, <1>6 DEF Current
<1>20. \A i \in 1 .. m : Passed(i)' = IF i = m THEN k ELSE Passed(i)
  <2> TAKE i \in 1 .. m
  <2>1. Passed(i)' = IF i = m THEN calls[i].at - 1 ELSE calls[i].at - 2
    BY <1>6 DEF Passed
  <2>2. i # n
    BY <1>2, <1>3
  <2>3. Passed(i) = calls[i].at - 2
    BY <1>1, <2>2 DEF Passed
  <2> QED BY <1>4, <1>10, <2>1, <2>3
<1>21. \A i \in 1 .. m : i \in 1 .. n /\ shorter[i] = before[i]
  BY <1>2, <1>3, <1>5
<1>22. LaidBefore(shorter)'
  <2>1. \A i \in 1 .. m : (Settled(calls[i], Passed(i)))'
    <3> TAKE i \in 1 .. m
    <3>1. (Settled(calls[i], Passed(i)))' = Settled(calls'[i], Passed(i)')
      BY SameSource
    <3>2. CASE i = m
      BY <1>4, <1>6, <1>17, <1>20, <3>1, <3>2
    <3>3. CASE i # m
      <4>1. Settled(calls[i], Passed(i))
        BY <1>1, <1>21 DEF LaidBefore
      <4> QED BY <1>6, <1>20, <3>1, <3>3, <4>1
    <3> QED BY <3>2, <3>3
  <2>2. \A i, j \in 1 .. m : j = i + 1 => /\ (Leads(calls[i], calls[j]))'
                                          /\ shorter[j] = shorter[i] \o (Done(calls[i], Passed(i)))'
    <3> TAKE i, j \in 1 .. m
    <3> HAVE j = i + 1
    <3>1. (Leads(calls[i], calls[j]))' = Leads(calls'[i], calls'[j])
          /\ (Done(calls[i], Passed(i)))' = Done(calls'[i], Passed(i)')
      BY SameSource
    <3>2. i # m
      BY <1>2, <1>3
    <3>3. Leads(calls[i], calls[j]) /\ before[j] = before[i] \o Done(calls[i], Passed(i))
      BY <1>1, <1>21 DEF LaidBefore
    <3> QED BY <1>6, <1>20, <1>21, <3>1, <3>2, <3>3
  <2>3. shorter[1] = <<>> /\ calls'[1].block = Root /\ Root' = Root
    <3>1. 1 \in 1 .. m
      BY <1>2, <1>3
    <3> QED BY <1>6, <1>21, <3>1 DEF LaidBefore
  <2>4. shorter \in [1 .. Len(calls') -> Seq(Spots')]
    <3>1. \A i \in 1 .. m : before[i] \in Seq(Spots)
      BY <1>1, <1>21 DEF LaidBefore
    <3>2. Spots' = Spots
      BY SameSource
    <3> QED BY <1>5, <1>6, <3>1, <3>2
  <2> QED BY <1>6, <2>1, <2>2, <2>3, <2>4 DEF LaidBefore
<1>23. Laid(shorter)' = Laid(before)
  <2>1. (Done(Current, Current.at - 1))' = Done(c, k)
    <3>1. (Done(Current, Current.at - 1))' = Done(Current', Current'.at - 1)
      BY SameSource
    <3> QED BY <1>10, <1>19, <3>1
  <2>2. Laid(shorter)' = shorter[Len(calls')] \o (Done(Current, Current.at - 1))'
    BY DEF Laid
  <2>3. shorter[m] = before[m]
    BY <1>2, <1>3, <1>21
  <2>4. Laid(before) = (before[m] \o Done(c, c.at - 2)) \o Whole[b]
    BY <1>1, <1>9, <1>14 DEF Laid
  <2>5. \A p, q, r \in Seq(Spots) : p \o (q \o r) = (p \o q) \o r
    BY ONLY Regroup
  <2>6. before[m] \o (Done(c, c.at - 2) \o Whole[b]) = (before[m] \o Done(c, c.at - 2)) \o Whole[b]
    <3>1. before[m] \in Seq(Spots) /\ Done(c, c.at - 2) \in Seq(Spots) /\ Whole[b] \in Seq(Spots)
      BY <1>9, <1>18
    <3> QED BY ONLY <2>5, <3>1
  <2>7. Laid(shorter)' = before[m] \o Done(c, k)
    BY <1>6, <2>1, <2>2, <2>3
  <2> QED BY <1>18, <2>4, <2>6, <2>7
<1> QED BY <1>22, <1>23
-----------------------------------------------------------------------------
\* What is in the image is what has been laid down: the instructions, the operands
\* noted, and the labels, but those still to be placed.
OpsLaid(laid) == /\ Len(insts) = Len(InstsOf(laid))
                 /\ \A k \in 1 .. Len(insts) : insts[k].op = Statement(InstsOf(laid)[k]).op
Noted(i) == <<symbols[i].addr, symbols[i].expr>>
OperandsLaid(laid) == /\ Len(symbols) = Len(OperandsOf(InstsOf(laid)))
                      /\ \A i \in 1 .. Len(symbols) : Noted(i) = OperandsOf(InstsOf(laid))[i]
Placed(b, laid) == b.kind = "label" => \/ b.status = "DEFERRED"
                                       \/ b.status = "EVALUATED" /\ b.value \in Places(b.location, laid)
LabelsLaid(laid) == \A s \in 1 .. Len(scopes) : \A n \in DOMAIN BoundIn(s) : Placed(BoundIn(s)[n], laid)
Matches(laid) == OpsLaid(laid) /\ OperandsLaid(laid) /\ LabelsLaid(laid)
LayoutInv ==
  /\ phase = "translate" => \E before, laid : LaidBefore(before) /\ Laid(before) = laid /\ Matches(laid)
  /\ phase \in {"operands", "entry", "assembled"} => Matches(WholeLayout)
  /\ phase = "assembled" => NoneDeferred

(* A binding made or changed, and more laid down.                              *)
LEMMA PlacedStays ==
  ASSUME UNCHANGED source
  PROVE  /\ \A b, laid : Placed(b, laid)' = Placed(b, laid)
         /\ \A s : BoundIn(s)' = scopes'[s].bindings
         /\ \A laid : Statement(laid)' = Statement(laid)
<1>1. \A p, q : Places(p, q)' = Places(p, q)
  BY SameSource
<1>2. \A b, laid : Placed(b, laid)' = Placed(b, laid)
  BY <1>1 DEF Placed
<1> QED BY <1>2 DEF BoundIn, Statement

LEMMA LabelsStay ==
  ASSUME UNCHANGED source, NEW laid, NEW longer, LabelsLaid(laid),
         \A x : Places(x, laid) \subseteq Places(x, longer),
         \A s \in 1 .. Len(scopes') : \A n \in DOMAIN scopes'[s].bindings :
           \/ /\ s \in 1 .. Len(scopes) /\ n \in DOMAIN scopes[s].bindings
              /\ scopes'[s].bindings[n] = scopes[s].bindings[n]
           \/ Placed(scopes'[s].bindings[n], longer)
  PROVE  LabelsLaid(longer)'
<1>1. \A b : Placed(b, laid) => Placed(b, longer)
  BY DEF Placed
<1>2. \A s \in 1 .. Len(scopes) : \A n \in DOMAIN scopes[s].bindings : Placed(scopes[s].bindings[n], laid)
  BY DEF LabelsLaid, BoundIn
<1>3. \A s \in 1 .. Len(scopes') : \A n \in DOMAIN scopes'[s].bindings : Placed(scopes'[s].bindings[n], longer)
  BY <1>1, <1>2
<1> QED BY <1>3, PlacedStays DEF LabelsLaid

LEMMA RebindChanges ==
  ASSUME ScopesOK, NEW s \in 1 .. Len(scopes), NEW name, NEW b, Rebind(s, name, b)
  PROVE  \A t \in 1 .. Len(scopes') : \A n \in DOMAIN scopes'[t].bindings :
           /\ t \in 1 .. Len(scopes)
           /\ \/ n \in DOMAIN scopes[t].bindings /\ scopes'[t].bindings[n] = scopes[t].bindings[n]
              \/ t = s /\ n = name /\ scopes'[t].bindings[n] = b
<1> DEFINE old == scopes[s].bindings
           new == [n \in DOMAIN old \cup {name} |-> IF n = name THEN b ELSE old[n]]
<1>1. scopes \in Seq(ScopeRec) /\ scopes[s] \in ScopeRec /\ Len(scopes') = Len(scopes)
  BY ElementOfSeq DEF ScopesOK, Rebind
<1>2. \A t \in 1 .. Len(scopes) : t # s => scopes'[t] = scopes[t]
  BY <1>1 DEF Rebind
<1>3. scopes'[s].bindings = new
  BY <1>1 DEF Rebind, ScopeRec
<1> QED BY <1>1, <1>2, <1>3

LEMMA LabelsRebound ==
  ASSUME UNCHANGED source, ScopesOK, NEW laid, NEW longer, LabelsLaid(laid),
         \A x : Places(x, laid) \subseteq Places(x, longer),
         NEW s \in 1 .. Len(scopes), NEW name, NEW b, Rebind(s, name, b), Placed(b, longer)
  PROVE  LabelsLaid(longer)'
<1>1. \A t \in 1 .. Len(scopes') : \A n \in DOMAIN scopes'[t].bindings :
        \/ /\ t \in 1 .. Len(scopes) /\ n \in DOMAIN scopes[t].bindings
           /\ scopes'[t].bindings[n] = scopes[t].bindings[n]
        \/ Placed(scopes'[t].bindings[n], longer)
  BY RebindChanges
<1> QED BY <1>1, LabelsStay

LEMMA LabelsKept ==
  ASSUME UNCHANGED <<source, scopes>>, NEW laid, NEW longer, LabelsLaid(laid),
         \A x : Places(x, laid) \subseteq Places(x, longer)
  PROVE  LabelsLaid(longer)'
BY LabelsStay

(* Nothing more is laid down.                                                  *)
LEMMA CodeKept ==
  ASSUME UNCHANGED <<source, symbols>>, NEW laid, OpsLaid(laid), OperandsLaid(laid), Len(insts') = Len(insts),
         \A k \in 1 .. Len(insts) : insts'[k].op = insts[k].op
  PROVE  OpsLaid(laid)' /\ OperandsLaid(laid)'
<1>1. InstsOf(laid)' = InstsOf(laid) /\ OperandsOf(InstsOf(laid))' = OperandsOf(InstsOf(laid))
  BY SameSource
<1>2. OperandsLaid(laid)'
  BY <1>1 DEF OperandsLaid, Noted
<1>3. OpsLaid(laid)'
  BY <1>1 DEF OpsLaid, Statement
<1> QED BY <1>2, <1>3

LEMMA MatchKept ==
  ASSUME UNCHANGED <<source, symbols, insts, scopes>>, NEW laid, Matches(laid)
  PROVE  Matches(laid)'
<1>1. OpsLaid(laid)' /\ OperandsLaid(laid)'
  BY CodeKept DEF Matches
<1>2. LabelsLaid(laid)'
  BY LabelsKept DEF Matches
<1> QED BY <1>1, <1>2 DEF Matches

LEMMA StopLays ==
  ASSUME NEW how \in {"failed", "aborted", "broken", "overrun", "wild"}, Stop(how)
  PROVE  LayoutInv'
BY DEF Stop, LayoutInv
-----------------------------------------------------------------------------
(* The steps of the walk.                                                      *)
LEMMA LaidStays ==
  ASSUME phase' = "translate", NEW before, LaidBefore(before)', NEW laid, Laid(before)' = laid, Matches(laid)'
  PROVE  LayoutInv'
BY DEF LayoutInv

LEMMA BindLays ==
  ASSUME AssemblerInv, LayoutInv, Bind
  PROVE  LayoutInv'
<1>1. WalkOK /\ ScopesOK /\ phase = "translate" /\ ~AtEnd /\ Current.pass = 1 /\ Stmt.kind \in {"label", "const"}
  BY DEF AssemblerInv, Bind, At
<1>2. CASE Stop("aborted") \/ Stop("failed")
  BY <1>2, StopLays
<1> DEFINE b == IF Stmt.kind = "label" THEN Label(Where) ELSE Const(Stmt.value, Where)
<1>3. CASE Rebind(scope, Stmt.name, b) /\ calls' = Moved /\ UNCHANGED <<phase, symbols, insts>> /\ Unevaluated
  <2>1. PICK before, laid : LaidBefore(before) /\ Laid(before) = laid /\ Matches(laid)
    BY <1>1 DEF LayoutInv
  <2>2. UNCHANGED source
    BY <1>3 DEF Unevaluated
  <2>3. LaidBefore(before)' /\ Laid(before)' = laid
    BY <1>1, <1>3, <2>1, <2>2, MovedLays
  <2>4. scope \in 1 .. Len(scopes)
    BY <1>1, ScopeOpen DEF AssemblerInv, PassesOK
  <2>5. Placed(b, laid)
    BY DEF Placed, Label, Const
  <2> HIDE DEF b
  <2>6. LabelsLaid(laid)'
    BY <1>1, <1>3, <2>1, <2>2, <2>4, <2>5, LabelsRebound DEF Matches
  <2>7. OpsLaid(laid)' /\ OperandsLaid(laid)'
    BY <1>3, <2>1, <2>2, CodeKept DEF Matches
  <2>8. Matches(laid)'
    BY <2>6, <2>7 DEF Matches
  <2> QED BY <1>1, <1>3, <2>3, <2>8, LaidStays
<1> QED BY <1>2, <1>3 DEF Bind

LEMMA PassLays ==
  ASSUME AssemblerInv, LayoutInv, Entry \/ PassBy
  PROVE  LayoutInv'
<1>1. /\ WalkOK /\ phase = "translate" /\ ~AtEnd
      /\ \/ Current.pass = 1 /\ Stmt.kind \in {"entry", "scope", "inst"}
         \/ Current.pass = 2 /\ Stmt.kind \in {"const", "include", "entry"}
  BY DEF AssemblerInv, Entry, PassBy, At
<1>2. CASE Stop("failed")
  BY <1>2, StopLays
<1>3. CASE calls' = Moved /\ UNCHANGED <<phase, symbols, insts, scopes>> /\ Unevaluated
  <2>1. PICK before, laid : LaidBefore(before) /\ Laid(before) = laid /\ Matches(laid)
    BY <1>1 DEF LayoutInv
  <2>2. UNCHANGED source
    BY <1>3 DEF Unevaluated
  <2>3. LaidBefore(before)' /\ Laid(before)' = laid
    BY <1>1, <1>3, <2>1, <2>2, MovedLays
  <2>4. Matches(laid)'
    BY <1>3, <2>1, <2>2, MatchKept
  <2> QED BY <1>1, <1>3, <2>3, <2>4, LaidStays
<1> QED BY <1>2, <1>3 DEF Entry, PassBy, names

LEMMA SecondPassLays ==
  ASSUME AssemblerInv, LayoutInv, SecondPass
  PROVE  LayoutInv'
<1>1. WalkOK /\ phase = "translate" /\ UNCHANGED <<phase, symbols, insts, scopes, source>>
  BY DEF AssemblerInv, SecondPass, names, Unevaluated
<1>2. PICK before, laid : LaidBefore(before) /\ Laid(before) = laid /\ Matches(laid)
  BY <1>1 DEF LayoutInv
<1>3. LaidBefore(before)' /\ Laid(before)' = laid
  BY <1>1, <1>2, SecondLays
<1>4. Matches(laid)'
  BY <1>1, <1>2, MatchKept
<1> QED BY <1>1, <1>3, <1>4, LaidStays

LEMMA IncludeLays ==
  ASSUME AssemblerInv, LayoutInv, Include
  PROVE  LayoutInv'
<1>1. WalkOK /\ phase = "translate" /\ ~AtEnd /\ Current.pass = 1 /\ Stmt.kind = "include"
  BY DEF AssemblerInv, Include, At
<1>2. CASE Stop("failed") \/ Stop("overrun")
  BY <1>2, StopLays
<1> DEFINE d == Frame(Stmt.path, "include")
<1>3. CASE Stmt.path \in DOMAIN source /\ calls' = Append(Moved, d) /\ UNCHANGED <<phase, names>> /\ Unevaluated
  <2>1. PICK before, laid : LaidBefore(before) /\ Laid(before) = laid /\ Matches(laid)
    BY <1>1 DEF LayoutInv
  <2>2. UNCHANGED <<source, phase, scopes, symbols, insts>>
    BY <1>3 DEF Unevaluated, names
  <2>3. d \in CallRec /\ d.block = Stmt.path /\ d.block \in DOMAIN source /\ d.pass = 1 /\ d.at = 1
    BY <1>1, <1>3, BlockFacts DEF Frame, CallRec, WalkOK
  <2> HIDE DEF d
  <2>4. PICK longer : LaidBefore(longer)' /\ Laid(longer)' = laid
    BY <1>1, <1>3, <2>1, <2>2, <2>3, EnterLays
  <2>5. Matches(laid)'
    BY <2>1, <2>2, MatchKept
  <2> QED BY <1>1, <2>2, <2>4, <2>5, LaidStays
<1> QED BY <1>2, <1>3 DEF Include

LEMMA OpenScopeLays ==
  ASSUME AssemblerInv, LayoutInv, OpenScope
  PROVE  LayoutInv'
<1>1. /\ WalkOK /\ ScopesOK /\ phase = "translate" /\ ~AtEnd /\ Current.pass = 2 /\ Stmt.kind = "scope"
      /\ UNCHANGED <<source, phase, symbols, insts>>
  BY DEF AssemblerInv, OpenScope, At, Unevaluated
<1> DEFINE d == Frame(Stmt.body, "scope")
<1>2. calls' = Append(Moved, d) /\ scopes' = Append(scopes, NewScope(Len(scopes) + 1, scope))
  BY DEF OpenScope
<1>3. PICK before, laid : LaidBefore(before) /\ Laid(before) = laid /\ Matches(laid)
  BY <1>1 DEF LayoutInv
<1>4. d \in CallRec /\ d.block = Stmt.body /\ d.block \in DOMAIN source /\ d.pass = 1 /\ d.at = 1
  BY <1>1, CurrentFacts, BlockFacts DEF Frame, CallRec, WalkOK
<1> HIDE DEF d
<1>5. PICK longer : LaidBefore(longer)' /\ Laid(longer)' = laid
  BY <1>1, <1>2, <1>3, <1>4, EnterLays
<1>6. LabelsLaid(laid)'
  <2>1. Len(scopes) \in Nat /\ scopes \in Seq(ScopeRec)
    BY <1>1, LenProperties DEF ScopesOK
  <2>2. \A s \in 1 .. Len(scopes') : \/ s \in 1 .. Len(scopes) /\ scopes'[s] = scopes[s]
                                     \/ DOMAIN scopes'[s].bindings = {}
    BY <1>2, <2>1 DEF NewScope
  <2>3. \A s \in 1 .. Len(scopes') : \A n \in DOMAIN scopes'[s].bindings :
          /\ s \in 1 .. Len(scopes) /\ n \in DOMAIN scopes[s].bindings
          /\ scopes'[s].bindings[n] = scopes[s].bindings[n]
    BY <2>2
  <2> QED BY <1>1, <1>3, <2>3, LabelsStay DEF Matches
<1>7. Matches(laid)'
  BY <1>1, <1>3, <1>6, CodeKept DEF Matches
<1> QED BY <1>1, <1>5, <1>7, LaidStays

LEMMA PlaceLabelLays ==
  ASSUME AssemblerInv, LayoutInv, PlaceLabel
  PROVE  LayoutInv'
<1> DEFINE old == scopes[scope].bindings[Stmt.name]
           b == [old EXCEPT !.status = "EVALUATED", !.value = Len(insts)]
<1>1. /\ WalkOK /\ ScopesOK /\ phase = "translate" /\ Current.pass = 2 /\ ~AtEnd /\ Stmt.kind = "label"
  BY DEF AssemblerInv, PlaceLabel, At
<1>2. /\ scope \in 1 .. Len(scopes) /\ scope # 0 /\ Resolve(scope, Stmt.name) = scope
      /\ Stmt.name \in DOMAIN scopes[scope].bindings /\ Awaits(old, Where)
  BY <1>1, LabelWaits
<1>3. /\ Rebind(scope, Stmt.name, b) /\ calls' = Moved
      /\ UNCHANGED <<phase, symbols, insts, source>>
  BY <1>2 DEF PlaceLabel, Awaits, Unevaluated
<1>4. PICK before, laid : LaidBefore(before) /\ Laid(before) = laid /\ Matches(laid)
  BY <1>1 DEF LayoutInv
<1>5. PICK longer : longer = laid \o <<Where>>
  OBVIOUS
<1>6. LaidBefore(before)' /\ Laid(before)' = longer /\ Where \in Spots
  BY <1>1, <1>3, <1>4, <1>5, MovedLays
<1>7. laid \in Seq(Spots)
  BY <1>1, <1>4, LaidFacts
<1>8. /\ \A x : Places(x, laid) \subseteq Places(x, longer)
      /\ Len(InstsOf(laid)) \in Places(Where, longer)
      /\ InstsOf(longer) = InstsOf(laid)
  <2>1. ~Is(Where, "inst")
    BY <1>1 DEF Is, Statement, Where, Stmt
  <2> QED BY <1>5, <1>6, <1>7, <2>1, PlacesGrow, InstsGrow
<1>9. old \in Binding
  BY <1>1, <1>2, ScopeFacts
<1>10. b.status = "EVALUATED" /\ b.value = Len(insts) /\ b.location = Where
  BY <1>2, <1>9 DEF Binding, Awaits
<1>11. Placed(b, longer)
  BY <1>4, <1>8, <1>10 DEF Placed, Matches, OpsLaid
<1> HIDE DEF b
<1>12. LabelsLaid(longer)'
  BY <1>1, <1>2, <1>3, <1>4, <1>8, <1>11, LabelsRebound DEF Matches
<1>13. OpsLaid(longer) /\ OperandsLaid(longer)
  BY <1>4, <1>8 DEF Matches, OpsLaid, OperandsLaid
<1>14. Matches(longer)'
  BY <1>3, <1>12, <1>13, CodeKept DEF Matches
<1> QED BY <1>1, <1>3, <1>6, <1>14, LaidStays

LEMMA EmitLays ==
  ASSUME AssemblerInv, LayoutInv, Emit
  PROVE  LayoutInv'
<1> DEFINE ops == Stmt.operands
           i0 == [op |-> Stmt.op, operand |-> 0, operand2 |-> 0, opr1IsReg |-> FALSE, opr2IsReg |-> FALSE]
           noted == [k \in 1 .. Len(ops) |-> [addr |-> Len(insts) + 1, expr |-> ops[k], scope |-> scope]]
<1>1. /\ WalkOK /\ CodeOK /\ phase = "translate" /\ Current.pass = 2 /\ ~AtEnd /\ Stmt.kind = "inst"
  BY DEF AssemblerInv, Emit, At
<1>2. CASE Stop("aborted")
  BY <1>2, StopLays
<1>3. CASE /\ insts' = Append(insts, i0) /\ symbols' = symbols \o noted /\ calls' = Moved
           /\ UNCHANGED <<phase, scopes>> /\ Unevaluated
  <2>1. PICK before, laid : LaidBefore(before) /\ Laid(before) = laid /\ Matches(laid)
    BY <1>1 DEF LayoutInv
  <2>2. UNCHANGED source
    BY <1>3 DEF Unevaluated
  <2>3. PICK longer : longer = laid \o <<Where>>
    OBVIOUS
  <2>4. PICK w : w = Where
    OBVIOUS
  <2>5. LaidBefore(before)' /\ Laid(before)' = longer /\ w \in Spots
    BY <1>1, <1>3, <2>1, <2>2, <2>3, <2>4, MovedLays
  <2>6. laid \in Seq(Spots)
    BY <1>1, <2>1, LaidFacts
  <2>7. Statement(w) = Stmt /\ Is(w, "inst") /\ w \in InstSpots
    BY <1>1, <2>4, <2>5 DEF Statement, Is, Where, Stmt, InstSpots
  <2>8. PICK q : q = InstsOf(laid)
    OBVIOUS
  <2>9. PICK n \in Nat : n = Len(insts)
    BY <1>1, LenProperties DEF CodeOK
  <2>10. /\ q \in Seq(InstSpots) /\ Len(q) = n /\ InstsOf(longer) = Append(q, w)
         /\ \A x : Places(x, laid) \subseteq Places(x, longer)
    BY <2>1, <2>3, <2>4, <2>5, <2>6, <2>7, <2>8, <2>9, InstsGrow, PlacesGrow DEF Matches, OpsLaid
  <2>11. LabelsLaid(longer)'
    BY <1>3, <2>1, <2>2, <2>10, LabelsKept DEF Matches
  <2>12. PICK r : r = Append(q, w)
    OBVIOUS
  <2>13. Len(r) = n + 1 /\ r[n + 1] = w /\ \A k \in 1 .. n : r[k] = q[k]
    BY <2>7, <2>9, <2>10, <2>12, AppendProperties
  <2>14. OpsLaid(longer)'
    <3>1. i0.op = Stmt.op
      OBVIOUS
    <3> HIDE DEF i0
    <3>2. Len(insts') = n + 1 /\ insts'[n + 1] = i0 /\ \A k \in 1 .. n : insts'[k] = insts[k]
      BY <1>1, <1>3, <2>9 DEF CodeOK
    <3>3. InstsOf(longer)' = r
      BY <2>2, <2>10, <2>12, SameSource
    <3>4. \A k \in 1 .. n : insts[k].op = Statement(q[k]).op
      BY <2>1, <2>8, <2>9 DEF Matches, OpsLaid
    <3>5. \A k \in 1 .. n + 1 : insts'[k].op = Statement(r[k]).op
      <4> TAKE k \in 1 .. n + 1
      <4>1. k \in 1 .. n \/ k = n + 1
        BY <2>9
      <4> QED BY <2>7, <2>13, <3>1, <3>2, <3>4, <4>1
    <3>6. \A k : Statement(k)' = Statement(k)
      BY <2>2 DEF Statement
    <3> QED BY <2>13, <3>2, <3>3, <3>5, <3>6 DEF OpsLaid
  <2>15. PICK m \in Nat : m = Len(ops)
    BY <1>1, CurrentFacts, LenProperties DEF StmtShape
  <2>16. /\ Len(noted) = m /\ \A k \in 1 .. m : noted[k].addr = n + 1 /\ noted[k].expr = ops[k]
    BY <2>9, <2>15
  <2>17. /\ OperandsAt(n + 1, w) = [k \in 1 .. m |-> <<n + 1, ops[k]>>]
    BY <2>7, <2>15 DEF OperandsAt
  <2>18. noted \in Seq(SymbolRec)
    <3>1. ops \in Seq(Expr)
      BY <1>1, CurrentFacts DEF StmtShape
    <3>2. \A k \in 1 .. m : ops[k] \in Expr
      BY <2>15, <3>1, ElementOfSeq
    <3>3. scope \in Nat /\ n + 1 \in Nat
      BY <1>1, <2>9, ScopeOpen DEF AssemblerInv, PassesOK
    <3>4. \A k \in 1 .. m : [addr |-> n + 1, expr |-> ops[k], scope |-> scope] \in SymbolRec
      BY <3>2, <3>3 DEF SymbolRec
    <3> QED BY <2>9, <2>15, <3>4
  <2> HIDE DEF noted, ops
  <2>19. PICK p \in Nat : p = Len(symbols)
    BY <1>1, LenProperties DEF CodeOK
  <2>20. /\ Len(symbols') = p + m
         /\ \A i \in 1 .. p + m : symbols'[i] = IF i <= p THEN symbols[i] ELSE noted[i - p]
    <3>1. symbols \in Seq(SymbolRec)
      BY <1>1 DEF CodeOK
    <3> QED BY <1>3, <2>16, <2>18, <2>19, <3>1, ConcatProperties
  <2>21. PICK s : s = OperandsOf(q)
    OBVIOUS
  <2>22. /\ s \in Seq(Nat \X Expr) /\ Len(s) = p /\ \A i \in 1 .. p : Noted(i) = s[i]
    BY <1>1, <2>1, <2>7, <2>8, <2>10, <2>19, <2>21, OperandsGrow DEF Matches, OperandsLaid, WalkOK
  <2>23. OperandsOf(r) = s \o OperandsAt(n + 1, w) /\ OperandsAt(n + 1, w) \in Seq(Nat \X Expr)
    <3>1. source \in Sources /\ Len(q) + 1 = n + 1 /\ n + 1 \in Nat
      BY <1>1, <2>9, <2>10 DEF WalkOK
    <3>2. OperandsAt(n + 1, w) \in Seq(Nat \X Expr)
      BY <2>7, <3>1, OperandsAtFacts
    <3>3. OperandsOf(Append(q, w)) = OperandsOf(q) \o OperandsAt(Len(q) + 1, w)
      BY <2>7, <2>10, <3>1, OperandsGrow
    <3> QED BY <2>12, <2>21, <3>1, <3>2, <3>3
  <2>24. /\ Len(OperandsOf(r)) = p + m
         /\ \A i \in 1 .. p + m : OperandsOf(r)[i] = IF i <= p THEN s[i] ELSE <<n + 1, ops[i - p]>>
    <3>1. Len(OperandsAt(n + 1, w)) = m /\ \A k \in 1 .. m : OperandsAt(n + 1, w)[k] = <<n + 1, ops[k]>>
      BY <2>17
    <3>2. \A i \in 1 .. p + m : i <= p \/ i - p \in 1 .. m
      OBVIOUS
    <3>3. /\ Len(OperandsOf(r)) = p + m
          /\ \A i \in 1 .. p + m : OperandsOf(r)[i] = IF i <= p THEN s[i] ELSE OperandsAt(n + 1, w)[i - p]
      BY <2>22, <2>23, <3>1, ConcatProperties
    <3> QED BY <3>1, <3>2, <3>3
  <2>25. OperandsLaid(longer)'
    <3>1. InstsOf(longer)' = r /\ OperandsOf(r)' = OperandsOf(r)
      BY <2>2, <2>10, <2>12, SameSource
    <3>2. \A i \in 1 .. p + m : Noted(i)' = OperandsOf(r)[i]
      <4> TAKE i \in 1 .. p + m
      <4>1. CASE i <= p
        <5>1. i \in 1 .. p
          BY <4>1
        <5> QED BY <2>20, <2>22, <2>24, <4>1, <5>1 DEF Noted
      <4>2. CASE ~(i <= p)
        <5>1. i - p \in 1 .. m
          BY <4>2
        <5> QED BY <2>16, <2>20, <2>24, <4>2, <5>1 DEF Noted
      <4> QED BY <4>1, <4>2
    <3> QED BY <2>20, <2>24, <3>1, <3>2 DEF OperandsLaid
  <2>26. Matches(longer)'
    BY <2>11, <2>14, <2>25 DEF Matches
  <2> QED BY <1>1, <1>3, <2>5, <2>26, LaidStays
<1> QED BY <1>2, <1>3 DEF Emit

(* What matches a layout equal to that of the whole matches that of the whole.  *)
LEMMA WholeMatches ==
  ASSUME NEW laid, WholeLayout' = laid, Matches(laid)'
  PROVE  Matches(WholeLayout)'
<1>1. OpsLaid(laid)' /\ OperandsLaid(laid)' /\ LabelsLaid(laid)'
  BY DEF Matches
<1>2. OpsLaid(WholeLayout)'
  BY <1>1 DEF OpsLaid
<1>3. OperandsLaid(WholeLayout)'
  BY <1>1 DEF OperandsLaid
<1>4. LabelsLaid(WholeLayout)'
  BY <1>1 DEF LabelsLaid
<1> QED BY <1>2, <1>3, <1>4 DEF Matches

LEMMA ReturnsLays ==
  ASSUME AssemblerInv, LayoutInv, Return
  PROVE  LayoutInv'
<1>1. WalkOK /\ phase = "translate" /\ AtEnd /\ Current.pass = 2
  BY DEF AssemblerInv, Return
<1>2. CASE Stop("failed")
  BY <1>2, StopLays
<1>3. CASE /\ calls' = SubSeq(calls, 1, Len(calls) - 1)
           /\ phase' = IF Current.as = "root" THEN "operands" ELSE phase
           /\ UNCHANGED names /\ Unevaluated
  <2>1. PICK before, laid : LaidBefore(before) /\ Laid(before) = laid /\ Matches(laid)
    BY <1>1 DEF LayoutInv
  <2>2. UNCHANGED <<source, scopes, symbols, insts>>
    BY <1>3 DEF Unevaluated, names
  <2>3. Matches(laid)'
    BY <2>1, <2>2, MatchKept
  <2>4. (Current.as = "root" <=> Len(calls) = 1) /\ Len(calls) \in Nat \ {0}
    BY <1>1, CurrentFacts DEF WalkOK, CallOK, Current
  <2>5. CASE Len(calls) = 1
    <3>1. laid = WholeLayout /\ WholeLayout' = WholeLayout
      BY <1>1, <2>1, <2>2, <2>5, RootEnds, SameSource
    <3>2. Matches(WholeLayout)'
      BY <2>3, <3>1, WholeMatches
    <3> QED BY <1>3, <2>4, <2>5, <3>2 DEF LayoutInv
  <2>6. CASE Len(calls) # 1
    <3>1. Len(calls) > 1
      <4>1. PICK n \in Nat \ {0} : n = Len(calls)
        BY <2>4
      <4>2. n > 1
        BY <2>6, <4>1
      <4> QED BY <4>1, <4>2
    <3>2. PICK shorter : LaidBefore(shorter)' /\ Laid(shorter)' = laid
      BY <1>1, <1>3, <2>1, <2>2, <3>1, ReturnLays
    <3> QED BY <1>1, <1>3, <2>3, <2>4, <2>6, <3>2, LaidStays
  <2> QED BY <2>5, <2>6
<1> QED BY <1>2, <1>3 DEF Return

(* After the walk nothing is laid down, and only constants are bound.          *)
LEMMA WholeStays ==
  ASSUME LayoutInv, phase \in {"operands", "entry"}, UNCHANGED <<source, symbols>>,
         Len(insts') = Len(insts), \A k \in 1 .. Len(insts) : insts'[k].op = insts[k].op,
         \A laid : LabelsLaid(laid) => LabelsLaid(laid)',
         phase' # "translate", phase' = "assembled" => NoneDeferred'
  PROVE  LayoutInv'
<1>1. PICK laid : laid = WholeLayout
  OBVIOUS
<1>2. Matches(laid) /\ WholeLayout' = laid
  BY <1>1, SameSource DEF LayoutInv
<1>3. OpsLaid(laid)' /\ OperandsLaid(laid)'
  BY <1>2, CodeKept DEF Matches
<1>4. Matches(laid)'
  BY <1>2, <1>3 DEF Matches
<1>5. Matches(WholeLayout)'
  BY <1>2, <1>4, WholeMatches
<1> QED BY <1>5 DEF LayoutInv

LEMMA NoNamesLays ==
  ASSUME LayoutInv, phase \in {"operands", "entry"}, UNCHANGED <<source, symbols, scopes>>,
         Len(insts') = Len(insts), \A k \in 1 .. Len(insts) : insts'[k].op = insts[k].op,
         phase' # "translate", phase' = "assembled" => NoneDeferred'
  PROVE  LayoutInv'
<1>1. ASSUME NEW laid, LabelsLaid(laid)
      PROVE  LabelsLaid(laid)'
  BY <1>1, LabelsKept
<1> QED BY <1>1, WholeStays

LEMMA EvaluationLays ==
  ASSUME AssemblerInv, LayoutInv,
         BeginOperand \/ Literal \/ String \/ Funcall \/ LengthOf \/ Res \/ Ref \/ Val
  PROVE  LayoutInv'
<1>1. CASE \E how \in {"failed", "aborted", "wild"} : Stop(how)
  BY <1>1, StopLays
<1>2. CASE ~\E how \in {"failed", "aborted", "wild"} : Stop(how)
  <2>1. phase = "operands" /\ UNCHANGED <<source, symbols, scopes, insts, phase>>
    <3>1. CASE BeginOperand
      BY <3>1 DEF BeginOperand, names
    <3>2. CASE Literal \/ String \/ Ref \/ Val
      BY <1>2, <3>2 DEF Literal, String, Ref, Val, Wants, Gets, Evaluating, Walked
    <3>3. CASE Funcall \/ LengthOf \/ Res
      BY <1>2, <3>3 DEF Funcall, LengthOf, Res, Wants, Gets, Evaluating, Walked
    <3> QED BY <3>1, <3>2, <3>3
  <2> QED BY <2>1, NoNamesLays
<1> QED BY <1>1, <1>2

LEMMA ConstantLays ==
  ASSUME AssemblerInv, LayoutInv, phase = "operands", Walked, NEW s \in 1 .. Len(scopes), NEW name, NEW b,
         Rebind(s, name, b), name \in DOMAIN scopes[s].bindings,
         scopes[s].bindings[name].status \in {"UNEVALUATED", "EVALUATING"},
         b.kind = scopes[s].bindings[name].kind
  PROVE  LayoutInv'
<1>1. ASSUME NEW laid, LabelsLaid(laid)
      PROVE  LabelsLaid(laid)'
  <2>1. b.kind # "label"
    BY <1>1 DEF LabelsLaid, BoundIn, Placed
  <2>2. Placed(b, laid)
    BY <2>1 DEF Placed
  <2>3. \A x : Places(x, laid) \subseteq Places(x, laid)
    OBVIOUS
  <2> QED BY <1>1, <2>2, <2>3, LabelsRebound DEF AssemblerInv, Walked
<1> QED BY <1>1, WholeStays DEF Walked

LEMMA NamedLays ==
  ASSUME AssemblerInv, LayoutInv, Named
  PROVE  LayoutInv'
<1>1. ScopesOK /\ phase = "operands"
  BY DEF AssemblerInv, Named, Wants, Evaluating
<1>2. PICK n : n = Top.expr.name
  OBVIOUS
<1>3. PICK s : s = Resolve(scope, n)
  OBVIOUS
<1>4. PICK b : b = scopes[s].bindings[n]
  OBVIOUS
<1>5. CASE Stop("failed")
  BY <1>5, StopLays
<1>6. CASE s # 0 /\ b.status = "UNEVALUATED" /\ Rebind(s, n, [b EXCEPT !.status = "EVALUATING"]) /\ Walked
  <2>1. s \in 1 .. Len(scopes) /\ n \in DOMAIN scopes[s].bindings
    BY <1>1, <1>3, <1>6, ResolveFacts DEF ScopesOK
  <2>2. b \in Binding
    BY <1>1, <1>4, <2>1, ScopeFacts
  <2>3. PICK c : c = [b EXCEPT !.status = "EVALUATING"]
    OBVIOUS
  <2>4. c.kind = b.kind
    BY <2>2, <2>3 DEF Binding
  <2> QED BY <1>1, <1>4, <1>6, <2>1, <2>3, <2>4, ConstantLays
<1>7. CASE Walked /\ UNCHANGED scopes
  BY <1>1, <1>7, NoNamesLays DEF Walked
<1> QED BY <1>2, <1>3, <1>4, <1>5, <1>6, <1>7 DEF Named, ToEvaluate

LEMMA BoundLays ==
  ASSUME AssemblerInv, LayoutInv, Bound
  PROVE  LayoutInv'
<1>1. /\ EvalOK /\ ScopesOK /\ MarksOK /\ Evaluating /\ phase = "operands" /\ Top.do = "bind" /\ Walked
  BY DEF AssemblerInv, Bound, Gets, Evaluating
<1>2. Marked(Top)
  BY <1>1, TopFacts DEF MarksOK
<1>3. PICK b : b = scopes[Top.scope].bindings[Top.name]
  OBVIOUS
<1>4. Top.scope \in 1 .. Len(scopes) /\ Top.name \in DOMAIN scopes[Top.scope].bindings /\ b.status = "EVALUATING"
  BY <1>2, <1>3 DEF Marked
<1>5. b \in Binding
  BY <1>1, <1>3, <1>4, ScopeFacts
<1>6. PICK c : Rebind(Top.scope, Top.name, c) /\ c.kind = b.kind
  <2> DEFINE done == [b EXCEPT !.status = "EVALUATED"]
  <2>1. done.kind = b.kind /\ [done EXCEPT !.type = answer.type, !.value = answer.value].kind = b.kind
    BY <1>5 DEF Binding
  <2> QED BY <1>3, <2>1 DEF Bound
<1> QED BY <1>1, <1>3, <1>4, <1>6, ConstantLays

LEMMA StoreOperandLays ==
  ASSUME AssemblerInv, LayoutInv, StoreOperand
  PROVE  LayoutInv'
<1>1. CodeOK /\ phase = "operands"
  BY DEF AssemblerInv, StoreOperand
<1>2. CASE Stop("broken")
  BY <1>2, StopLays
<1>3. CASE ~Stop("broken")
  <2>1. insts \in Seq(InstRec) /\ DOMAIN insts = 1 .. Len(insts) /\ \A k \in 1 .. Len(insts) : insts[k] \in InstRec
    BY <1>1, LenProperties, ElementOfSeq DEF CodeOK
  <2>2. UNCHANGED <<source, phase, symbols, scopes>>
    BY <1>3 DEF StoreOperand
  <2>3. PICK a : a = First.addr
    OBVIOUS
  <2>4. PICK c : insts' = [insts EXCEPT ![a] = c] /\ (a \in DOMAIN insts => c.op = insts[a].op)
    <3>1. CASE second
      <4>1. PICK c : c = [insts[a] EXCEPT !.operand2 = answer.value, !.opr2IsReg = OfRegister(First.expr)]
        OBVIOUS
      <4>2. insts' = [insts EXCEPT ![a] = c]
        BY <1>3, <2>1, <2>3, <3>1, <4>1 DEF StoreOperand, InstRec
      <4>3. a \in DOMAIN insts => c.op = insts[a].op
        BY <2>1, <4>1 DEF InstRec
      <4> QED BY <4>2, <4>3
    <3>2. CASE ~second
      <4>1. PICK c : c = [insts[a] EXCEPT !.operand = answer.value, !.opr1IsReg = OfRegister(First.expr)]
        OBVIOUS
      <4>2. insts' = [insts EXCEPT ![a] = c]
        BY <1>3, <2>1, <2>3, <3>2, <4>1 DEF StoreOperand, InstRec
      <4>3. a \in DOMAIN insts => c.op = insts[a].op
        BY <2>1, <4>1 DEF InstRec
      <4> QED BY <4>2, <4>3
    <3> QED BY <3>1, <3>2
  <2>5. Len(insts') = Len(insts) /\ \A k \in 1 .. Len(insts) : insts'[k].op = insts[k].op
    BY <2>1, <2>4
  <2> QED BY <1>1, <2>2, <2>5, NoNamesLays
<1> QED BY <1>2, <1>3

LEMMA EndLays ==
  ASSUME AssemblerInv, LayoutInv, OperandsDone \/ ResolveEntry
  PROVE  LayoutInv'
<1>1. CASE OperandsDone
  BY <1>1, NoNamesLays DEF OperandsDone, names
<1>2. CASE ResolveEntry
  <2>1. phase = "entry" /\ UNCHANGED <<source, symbols, scopes, insts>> /\ NoneDeferred
    BY <1>2 DEF ResolveEntry, names, AssemblerInv, PassesOK
  <2>2. phase' # "translate"
    BY <1>2 DEF ResolveEntry
  <2>3. NoneDeferred'
    BY <2>1 DEF NoneDeferred
  <2> QED BY <2>1, <2>2, <2>3, NoNamesLays
<1> QED BY <1>1, <1>2

LEMMA NothingLies == InstsOf(<<>>) = <<>> /\ OperandsOf(<<>>) = <<>>
<1>1. FlattenSeq(<<>>) = <<>>
  <2>1. <<>> \in Seq(Seq(Spots)) /\ Len(<<>>) = 0
    BY EmptySeq
  <2>2. PICK h : Growth(h, <<>>, Spots) /\ FlattenSeq(<<>>) = h[0]
    BY <2>1, FlattenGrows
  <2> QED BY <2>2 DEF Growth
<1>2. [k \in 1 .. Len(<<>>) |-> IF Is(<<>>[k], "inst") THEN << <<>>[k] >> ELSE <<>>] = <<>>
  OBVIOUS
<1>3. [k \in 1 .. Len(<<>>) |-> OperandsAt(k, <<>>[k])] = <<>>
  OBVIOUS
<1>4. InstsOf(<<>>) = FlattenSeq([k \in 1 .. Len(<<>>) |-> IF Is(<<>>[k], "inst") THEN << <<>>[k] >> ELSE <<>>])
  BY DEF InstsOf
<1>5. OperandsOf(<<>>) = FlattenSeq([k \in 1 .. Len(<<>>) |-> OperandsAt(k, <<>>[k])])
  BY DEF OperandsOf, OperandsAt
<1> QED BY <1>1, <1>2, <1>3, <1>4, <1>5

LEMMA OperandsAreSeq ==
  ASSUME source \in Sources, NEW q \in Seq(InstSpots)
  PROVE  OperandsOf(q) \in Seq(Nat \X Expr)
<1>1. CASE q = <<>>
  <2>1. OperandsOf(q) = <<>>
    BY <1>1, NothingLies
  <2> QED BY <2>1, EmptySeq
<1>2. CASE q # <<>>
  <2>1. 1 \in 1 .. Len(q)
    BY <1>2, EmptySeq, LenProperties
  <2>2. q[1] \in InstSpots
    BY <2>1, ElementOfSeq
  <2> QED BY <2>2, OperandsGrow
<1> QED BY <1>1, <1>2

LEMMA InitLays == Init => LayoutInv
<1> SUFFICES ASSUME Init PROVE LayoutInv
  OBVIOUS
<1>1. AssemblerInv /\ phase = "translate" /\ WalkOK
  BY InitEstablishes DEF Init, AssemblerInv
<1>2. /\ source \in Sources /\ calls = <<Frame(Root, "root")>> /\ insts = <<>> /\ symbols = <<>>
      /\ scopes = <<[chain |-> {1}, bindings |-> <<>>]>>
  BY DEF Init
<1>3. Len(calls) = 1 /\ Current = Frame(Root, "root") /\ calls[1] = Current
  BY <1>2 DEF Current
<1>4. Current \in CallRec /\ Current.block = Root /\ Current.pass = 1 /\ Current.at = 1 /\ Current.at - 1 = 0
  <2>1. Root \in Block
    BY <1>2, SourceAssumption
  <2> QED BY <1>3, <2>1 DEF Frame, CallRec
<1>5. Passed(1) = 0
  BY <1>3, <1>4 DEF Passed
<1>6. Settled(Current, 0)
  <2>1. Root \in DOMAIN source
    BY <1>2, SourceAssumption
  <2>2. \A j \in 1 .. Len(source[Root]) : ~(j <= 0)
    BY <1>2, <2>1, BlockFacts
  <2> QED BY <1>4, <2>2 DEF Settled
<1>7. PICK before : before = [i \in 1 .. 1 |-> <<>>]
  OBVIOUS
<1>8. LaidBefore(before)
  <2>1. <<>> \in Seq(Spots)
    BY EmptySeq
  <2>2. before \in [1 .. Len(calls) -> Seq(Spots)] /\ before[1] = <<>>
    BY <1>3, <1>7, <2>1
  <2>3. \A i \in 1 .. Len(calls) : Settled(calls[i], Passed(i))
    BY <1>3, <1>5, <1>6
  <2>4. \A i, j \in 1 .. Len(calls) : ~(j = i + 1)
    BY <1>3
  <2> QED BY <1>3, <1>4, <2>2, <2>3, <2>4 DEF LaidBefore
<1>9. Laid(before) = <<>>
  <2>1. Root \in DOMAIN source
    BY <1>2, SourceAssumption
  <2>2. Done(Current, 0) = <<>>
    BY <1>2, <1>4, <2>1, DoneFacts
  <2>3. before[Len(calls)] = <<>>
    BY <1>3, <1>7
  <2>4. <<>> \o <<>> = <<>>
    BY ConcatEmptySeq, EmptySeq
  <2> QED BY <1>4, <2>2, <2>3, <2>4 DEF Laid
<1>10. Matches(<<>>)
  <2>1. InstsOf(<<>>) = <<>> /\ OperandsOf(<<>>) = <<>>
    BY NothingLies
  <2>2. DOMAIN BoundIn(1) = {} /\ Len(scopes) = 1
    BY <1>2 DEF BoundIn
  <2>3. LabelsLaid(<<>>)
    BY <2>2 DEF LabelsLaid
  <2>4. Len(insts) = 0 /\ Len(symbols) = 0
    BY <1>2
  <2> QED BY <2>1, <2>3, <2>4 DEF Matches, OpsLaid, OperandsLaid
<1> QED BY <1>1, <1>8, <1>9, <1>10 DEF LayoutInv

LEMMA StillLies ==
  ASSUME UNCHANGED <<source, calls>>, NEW before, LaidBefore(before)
  PROVE  LaidBefore(before)' /\ Laid(before)' = Laid(before)
<1>1. /\ \A i : Passed(i)' = Passed(i)
      /\ Current' = Current /\ Root' = Root
  BY DEF Passed, Current
<1>2. /\ \A c, k : Done(c, k)' = Done(c, k) /\ Settled(c, k)' = Settled(c, k)
      /\ \A c, d : Leads(c, d)' = Leads(c, d)
      /\ Spots' = Spots
  BY SameSource
<1>3. \A i : Settled(calls[i], Passed(i))' = Settled(calls[i], Passed(i))
             /\ Done(calls[i], Passed(i))' = Done(calls[i], Passed(i))
  BY <1>1, <1>2
<1>4. \A i, j : Leads(calls[i], calls[j])' = Leads(calls[i], calls[j])
  BY <1>2
<1>5. LaidBefore(before)'
  BY <1>1, <1>2, <1>3, <1>4 DEF LaidBefore
<1>6. Done(Current, Current.at - 1)' = Done(Current, Current.at - 1)
  BY <1>1, <1>2
<1> QED BY <1>5, <1>6 DEF Laid

LEMMA StepLays == AssemblerInv /\ LayoutInv /\ [Next]_vars => LayoutInv'
<1> SUFFICES ASSUME AssemblerInv, LayoutInv, [Next]_vars PROVE LayoutInv'
  OBVIOUS
<1>1. CASE Bind \/ Include \/ Entry \/ PassBy \/ SecondPass \/ Emit \/ PlaceLabel \/ OpenScope \/ Return
  BY <1>1, BindLays, IncludeLays, PassLays, SecondPassLays, EmitLays, PlaceLabelLays, OpenScopeLays, ReturnsLays
<1>2. CASE BeginOperand \/ Literal \/ String \/ Named \/ Bound \/ Funcall \/ LengthOf \/ Res \/ Ref \/ Val
  BY <1>2, EvaluationLays, NamedLays, BoundLays
<1>3. CASE StoreOperand \/ OperandsDone \/ ResolveEntry
  BY <1>3, StoreOperandLays, EndLays
<1>4. CASE UNCHANGED vars
  <2>1. UNCHANGED <<source, phase, calls, scopes, symbols, insts>>
    BY <1>4 DEF vars
  <2>2. CASE phase = "translate"
    <3>1. PICK before, laid : LaidBefore(before) /\ Laid(before) = laid /\ Matches(laid)
      BY <2>2 DEF LayoutInv
    <3>2. LaidBefore(before)' /\ Laid(before)' = laid
      BY <2>1, <3>1, StillLies
    <3>3. Matches(laid)'
      BY <2>1, <3>1, MatchKept
    <3> QED BY <2>1, <2>2, <3>2, <3>3, LaidStays
  <2>3. CASE phase # "translate"
    <3>1. PICK laid : laid = WholeLayout
      OBVIOUS
    <3>2. WholeLayout' = laid
      BY <2>1, <3>1, SameSource
    <3>3. Matches(laid) => Matches(WholeLayout)'
      BY <2>1, <3>2, MatchKept, WholeMatches
    <3>4. NoneDeferred => NoneDeferred'
      BY <2>1 DEF NoneDeferred
    <3> QED BY <2>1, <2>3, <3>1, <3>3, <3>4 DEF LayoutInv
  <2> QED BY <2>2, <2>3
<1> QED BY <1>1, <1>2, <1>3, <1>4 DEF Next

(* At every step of every assembly what is in the image is what the statements *)
(* passed lay down.                                                            *)
THEOREM LayoutInvariant == Spec => []LayoutInv
BY InitLays, StepLays, AssemblerInvariant, PTL DEF Spec

(* Whatever the source, however its files and scopes are nested and whatever   *)
(* comes first: when the walk over it ends, the instructions lie in the order  *)
(* of the layout, the operands noted are theirs, and every label is evaluated  *)
(* to the number of an instruction it stands before.                           *)
THEOREM ProgramLaidOut == Spec => []ProgramIsLaidOut
<1>1. AssemblerInv /\ LayoutInv => ProgramIsLaidOut
  <2> SUFFICES ASSUME AssemblerInv, LayoutInv, phase \in {"operands", "entry", "assembled"}
               PROVE  /\ LaidOut(WholeLayout)
                      /\ \A s \in DOMAIN scopes : \A n \in DOMAIN scopes[s].bindings :
                           LET b == scopes[s].bindings[n]
                           IN  b.kind = "label" => b.status = "EVALUATED" /\ b.value \in Places(b.location, WholeLayout)
    BY DEF ProgramIsLaidOut
  <2>1. PICK laid : laid = WholeLayout
    OBVIOUS
  <2>2. OpsLaid(laid) /\ OperandsLaid(laid) /\ LabelsLaid(laid) /\ NoneDeferred
    BY <2>1 DEF LayoutInv, Matches, AssemblerInv, PassesOK
  <2>3. DOMAIN scopes = 1 .. Len(scopes) /\ DOMAIN insts = 1 .. Len(insts) /\ DOMAIN symbols = 1 .. Len(symbols)
    BY LenProperties DEF AssemblerInv, ScopesOK, CodeOK
  <2>4. [k \in DOMAIN insts |-> insts[k].op] = [k \in 1 .. Len(InstsOf(laid)) |-> Statement(InstsOf(laid)[k]).op]
    BY <2>2, <2>3 DEF OpsLaid
  <2>5. [i \in DOMAIN symbols |-> <<symbols[i].addr, symbols[i].expr>>] = OperandsOf(InstsOf(laid))
    <3>1. PICK r : r = OperandsOf(InstsOf(laid))
      OBVIOUS
    <3>2. r \in Seq(Nat \X Expr)
      <4>1. laid \in Seq(Spots) /\ source \in Sources
        <5>1. source \in Sources
          BY DEF AssemblerInv, WalkOK
        <5>2. Whole \in LineUp /\ WholeLayout = Whole[Root] /\ Root \in Block
          BY <5>1, WholeFacts, SourceAssumption
        <5> QED BY <2>1, <5>1, <5>2 DEF LineUp
      <4>2. InstsOf(laid) \in Seq(InstSpots)
        BY <4>1, InstsGrow
      <4> QED BY <3>1, <4>1, <4>2, OperandsAreSeq
    <3>3. Len(symbols) = Len(r) /\ \A i \in 1 .. Len(symbols) : <<symbols[i].addr, symbols[i].expr>> = r[i]
      BY <2>2, <3>1 DEF OperandsLaid, Noted
    <3>4. r = [i \in 1 .. Len(r) |-> r[i]]
      BY <3>2
    <3> QED BY <2>3, <3>1, <3>3, <3>4
  <2>6. LaidOut(laid)
    BY <2>4, <2>5 DEF LaidOut
  <2>7. \A s \in DOMAIN scopes : \A n \in DOMAIN scopes[s].bindings :
          LET b == scopes[s].bindings[n]
          IN  b.kind = "label" => b.status = "EVALUATED" /\ b.value \in Places(b.location, laid)
    BY <2>2, <2>3 DEF LabelsLaid, BoundIn, Placed, NoneDeferred
  <2> QED BY <2>1, <2>6, <2>7
<1> QED BY <1>1, AssemblerInvariant, LayoutInvariant, PTL
=============================================================================
