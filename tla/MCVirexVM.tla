------------------------------ MODULE MCVirexVM ------------------------------
(***************************************************************************)
(* The instance of VirexVM that TLC checks: one-bit bytes, so a word has    *)
(* eight bits, a stack of three words, a memory of ten bytes, and every    *)
(* program made of a start that fills the stack to some depth, one           *)
(* instruction of a pool that holds every opcode and one that probes what   *)
(* the first has left behind.                                                *)
(***************************************************************************)
EXTENDS VirexVM

I0(op) == [op |-> op, operand |-> 0, operand2 |-> 0, opr1IsReg |-> FALSE, opr2IsReg |-> FALSE]
I1(op, x) == [I0(op) EXCEPT !.operand = x]
I2(op, x, y) == [I1(op, x) EXCEPT !.operand2 = y]
\* An instruction whose operand is val(r).
IVal(op, r) == [I1(op, REG_COUNT + r) EXCEPT !.opr1IsReg = TRUE]

Pool ==
  {I0(op) : op \in IntCompare \cup Reads \cup Writes \cup
                   {"DONOP", "RETVL", "SHUTS", "SPOP", "RET", "NOT", "NOTB"}}
  \cup {I1(op, x) : op \in {"DIVI", "MODI", "MULI"}, x \in {0, 3, 253, 255}}
  \cup {I1(op, 3) : op \in {"ADDI", "SUBI", "ADDU", "SUBU", "MULU"}}
  \cup {I1(op, x) : op \in {"DIVU", "MODU"}, x \in {0, 2}}
  \cup {I1(op, x) : op \in {"PUSH", "DUPS", "SWAP"}, x \in {0, 1, 2}}
  \cup {I1(op, x) : op \in {"JMPU", "JMPC", "CALL"}, x \in {0, 4}}
  \cup {I1("INVOK", x) : x \in {1, 7, 8, 9}}
  \cup {I1(op, r) : op \in {"PUSHR", "SPOPR", "GETR"}, r \in {REG_L2}}
  \cup {I2("SETR", 128, REG_L2), I2("SETR", 4, REG_L0), I2("SETR", 2, REG_KC),
        I2("COPY", REG_KC, REG_L2), I2("LOOP", 1, REG_KC)}
  \cup {IVal("PUSH", 0), IVal("PUSH", REG_L2), IVal("JMPU", REG_KC), IVal("DUPS", REG_L2)}

PushI(x) == I1("PUSH", x)
Starts == {<<>>, <<PushI(1)>>, <<I2("SETR", 2, REG_KC), PushI(9)>>, <<PushI(3), PushI(200)>>, <<PushI(9), PushI(129)>>, <<PushI(8), PushI(3), PushI(129)>>}

\* The instructions that follow: the ones that read what the first one left, go
\* back, or need room.
Probes == {I0("DONOP"), I0("SPOP"), I0("RET"), I0("READ8U"), I0("WRITE2"), I0("LTI"),
           PushI(5), I1("DUPS", 1), I1("SWAP", 1), I1("GETR", REG_L2), I1("JMPC", 0),
           I1("JMPU", 1), I2("LOOP", 1, REG_KC), IVal("PUSH", REG_L2)}

\* A loop around an instruction that may answer with any word has the states of
\* all its answers; such pairs are left out.
GoesBack(i) == i.op \in {"JMPU", "JMPC", "CALL", "LOOP", "RET"}
MayAnswerAnything(i) == i.op \in Reads \cup {"DUPS"}
Bounded(i, j) == /\ ~(GoesBack(i) /\ MayAnswerAnything(j))
                 /\ ~(GoesBack(j) /\ MayAnswerAnything(i))

\* Programs whose data is abstracted are few: each of their results is any word.
Opaque == {<<I0(op), I0("DONOP")>> : op \in Casts \cup FloatArith}
          \cup {<<I1("INVOK", 0)>>, <<I1("DIVF", 1)>>}
          \cup {<<PushI(1), PushI(2), I0(op)>> : op \in {"XOR", "GEF"}}

\* Stores by number into SP and what may follow, once it is beyond the stack;
\* stores into NX, the flags (number 19), past them, and through a number that
\* getReg cuts to RegIdSize; loads past the registers.
MovesSp == {I2("SETR", x, REG_SP) : x \in {3, 4, 5}} \cup {I1("SPOPR", 18), I2("COPY", 18, 8)}
Beyond == {I0("SPOP"), I0("RET"), I0("NOT"), I0("READ1U"), I0("WRITE1"), I0("LTI"),
           PushI(5), I1("SWAP", 3), I1("SPOPR", REG_L2), I1("PUSHR", REG_SP)}
Strays == {I2("SETR", 1, 72), I2("SETR", 2, 10), I2("SETR", 1, 19), I2("SETR", 2, 19),
           I2("COPY", 8, 19), I2("COPY", 19, 8), I2("LOOP", 1, 18), I2("LOOP", 2, 19), I2("LOOP", 2, 10)}
          \cup {I1("SPOPR", r) : r \in {10, 19, 72, 100}}
          \cup {I1("PUSHR", 100), I1("GETR", 18)}
Stray == {<<p[1], p[2]>> : p \in MovesSp \X Beyond}
         \cup {<<PushI(9), PushI(129), i, j>> : i \in Strays \cup MovesSp, j \in {PushI(5), I0("SPOP")}}

MCPrograms == {p[1] \o <<p[2], p[3]>> :
                 p \in {q \in Starts \X Pool \X Probes : Bounded(q[2], q[3])}}
              \cup Opaque \cup Stray
=============================================================================
