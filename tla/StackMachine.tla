----------------------------- MODULE StackMachine -----------------------------
(***************************************************************************)
(* What the Virex machine promises a program about its operand stack and   *)
(* its flow of control, with no registers, no memory and no array of       *)
(* slots: the stack is a sequence of words, an instruction takes words     *)
(* from its end and puts words there, and everything below is as it was.   *)
(*                                                                         *)
(* The promise has two holes, which are the machine's own (see GETR and    *)
(* DUPS below).  VirexVM implements this specification for every program   *)
(* that names the registers it stores into.                                *)
(***************************************************************************)
EXTENDS Integers, Sequences

CONSTANTS
  Word,         \* the words
  Capacity,     \* the words the stack holds
  FirstDynamic, \* a flagged operand above this is fetched from a register
  Programs,     \* the programs, sequences of instructions as in VirexVM
  StackErrors   \* the two errors the stack's checks report, by name

VARIABLES prog, nx, ops, error, mode

vars == <<prog, nx, ops, error, mode>>

Depth == Len(ops)
Fetchable == nx < Len(prog)
Inst == prog[nx + 1]

\* The values the operand may have: any word if a register supplies it.
Operands == IF Inst.opr1IsReg /\ Inst.operand > FirstDynamic THEN Word ELSE {Inst.operand}

Checked == {"PUSHR", "PUSH", "CALL", "DUPS"}
Unary == {"NOTB", "NOT", "READ1U", "READ2U", "READ4U", "READ8U",
          "READ1I", "READ2I", "READ4I", "READ8I"}
Pops == {"SPOPR", "SPOP", "JMPC", "RET"}
PopsTwo == {"WRITE1", "WRITE2", "WRITE4", "WRITE8"}
Binary == {"ANDB", "ORB", "XOR", "SHR", "SHL", "EQI", "GEI", "GTI", "LEI", "LTI", "NEI",
           "EQU", "GEU", "GTU", "LEU", "LTU", "NEU", "EQF", "GEF", "GTF", "LEF", "LTF", "NEF"}

\* The words an instruction with operand n must find on the stack.
Demand(n) == CASE Inst.op \in Unary \cup Pops -> 1
               [] Inst.op \in PopsTwo \cup Binary -> 2
               [] Inst.op = "SWAP" -> n + 1
               [] OTHER -> 0

Overflow == Inst.op \in Checked /\ Depth >= Capacity
Underflow(n) == Depth < Demand(n) \/ (Inst.op = "DUPS" /\ n = Depth)

\* The stack after an instruction with operand n that has passed its checks.
Below(k) == SubSeq(ops, 1, Depth - k)
NewStacks(n) ==
  CASE Inst.op = "CALL" -> {Append(ops, nx + 1)}
    [] Inst.op = "DUPS" /\ n < Depth -> {Append(ops, ops[Depth - n])}
    \* The first hole: DUPS of more than the depth pushes whatever lies below
    \* the stack's array.
    [] Inst.op \in {"PUSHR", "PUSH", "GETR"} \/ (Inst.op = "DUPS" /\ n > Depth) ->
         {Append(ops, w) : w \in Word}
    [] Inst.op \in Pops -> {Below(1)}
    [] Inst.op \in PopsTwo -> {Below(2)}
    [] Inst.op \in Unary -> {Append(Below(1), w) : w \in Word}
    [] Inst.op \in Binary -> {Append(Below(2), w) : w \in Word}
    [] Inst.op = "SWAP" -> {[ops EXCEPT ![Depth] = ops[Depth - n], ![Depth - n] = ops[Depth]]}
    [] OTHER -> {ops}

\* Where control goes next.
Successors(n) ==
  CASE Inst.op \in {"JMPU", "CALL"} -> {n}
    [] Inst.op \in {"JMPC", "LOOP"} -> {n, nx + 1}
    [] Inst.op = "RET" -> {ops[Depth]}
    [] Inst.op \in {"RETVL", "SHUTS"} -> {nx}
    [] OTHER -> {nx + 1}

Init == /\ prog \in Programs
        /\ nx = 0
        /\ ops = <<>>
        /\ error = "ERR_OK"
        /\ mode = "running"

\* An error stops the run where it is.
Stop(e) == /\ error' = e
           /\ mode' = "exited"
           /\ UNCHANGED <<prog, nx, ops>>

\* A stack error is reported exactly when the stack's checks call for it; what
\* else an instruction may report is left open here.
Fail == /\ mode = "running"
        /\ \/ /\ ~Fetchable
              /\ Stop("ERR_ILLEGAL_INST_ACCESS")
           \/ /\ Fetchable
              /\ \E n \in Operands :
                   \/ Overflow /\ Stop("ERR_STACK_OVERFLOW")
                   \/ ~Overflow /\ Underflow(n) /\ Stop("ERR_STACK_UNDERFLOW")
                   \/ /\ ~Overflow /\ ~Underflow(n)
                      /\ error' \notin StackErrors \cup {"ERR_OK"}
                      /\ Stop(error')

Execute == /\ mode = "running"
           /\ Fetchable
           /\ \E n \in Operands :
                /\ ~Overflow /\ ~Underflow(n)
                /\ ops' \in NewStacks(n)
                /\ nx' \in Successors(n)
           /\ Len(ops') <= Capacity
           /\ mode' \in IF Inst.op = "SHUTS" THEN {"returned"} ELSE {"running", "overrun"}
           /\ error' = "ERR_OK"
           /\ UNCHANGED prog

\* The second hole: GETR asks for no room, and on a full stack its store goes
\* past the array.  The process may end in front of a missing instruction, a
\* division that traps, an allocation, or a read of a register that does not exist.
Abort == /\ mode = "running"
         /\ \/ mode' = "wild" /\ Fetchable /\ Inst.op = "GETR" /\ Depth = Capacity
            \/ /\ mode' = "killed"
               /\ Fetchable => Inst.op \in {"DIVI", "MODI", "DUPS", "INVOK", "PUSHR", "GETR", "COPY"}
         /\ UNCHANGED <<prog, nx, ops, error>>

Next == Fail \/ Execute \/ Abort

Spec == Init /\ [][Next]_vars
=============================================================================
