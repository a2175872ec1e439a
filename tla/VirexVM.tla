------------------------------- MODULE VirexVM -------------------------------
(***************************************************************************)
(* The Virex virtual machine (VM/src/virex.c, VM/src/virex_vmcalls.c): the *)
(* CPU, the operand stack, the byte memory and the program, executing one  *)
(* instruction per step the way executeProgram drives executeInst.         *)
(*                                                                         *)
(* Words are the naturals below WordSize (2^64 in the code), bytes those   *)
(* below ByteSize (2^8), and a word is eight bytes.  What the code         *)
(* computes on doubles and with the bit operators is abstracted to "some   *)
(* word"; every other result is the code's own.                            *)
(*                                                                         *)
(* `prog' is the program in memory.  It does not change while it runs; the *)
(* session (module VirexSession) replaces it between runs.                 *)
(***************************************************************************)
EXTENDS Integers, Sequences

CONSTANTS
  ByteSize,         \* the number of values of a byte, 256 in the code
  STACK_CAPACITY,   \* words on the operand stack, 1024 in the code
  MEMORY_CAPACITY,  \* bytes of memory, 65536 in the code
  PROGRAM_CAPACITY, \* instructions of a program, 1024 in the code
  RegIdSize,        \* the values of a RegID, an enumeration of 32 bits: 2^32 in the code
  FrameCapacity,    \* calls of executeProgram the C stack has room for
  Programs          \* the programs an initial state may hold

\* Register numbers, in the order of the enumeration RegID.
REG_KC == 5
REG_L0 == 6
REG_L1 == 7
REG_L2 == 8
REG_L3 == 9
REG_NX == 10
REG_QT == 16
REG_RF == 17
REG_SP == 18
REG_COUNT == 19
RegID == 0 .. REG_COUNT - 1

WordSize == ByteSize ^ 8
Word == 0 .. WordSize - 1
Byte == 0 .. ByteSize - 1
MemoryAddr == 0 .. MEMORY_CAPACITY - 1
StackAddr == 0 .. STACK_CAPACITY - 1

\* The two's complement reading of a word, and the word a result wraps to.
Signed(w) == IF 2 * w >= WordSize THEN w - WordSize ELSE w
Wrap(n) == n % WordSize

\* The opcodes, grouped by the shape executeInst gives them.
IntArith == {"ADDI", "SUBI", "MULI", "DIVI", "MODI", "ADDU", "SUBU", "MULU", "DIVU", "MODU"}
FloatArith == {"ADDF", "SUBF", "MULF", "DIVF"}
IntCompare == {"EQI", "GEI", "GTI", "LEI", "LTI", "NEI",
               "EQU", "GEU", "GTU", "LEU", "LTU", "NEU"}
FloatCompare == {"EQF", "GEF", "GTF", "LEF", "LTF", "NEF"}
BitOps == {"ANDB", "ORB", "XOR", "SHR", "SHL"}
BinaryOps == IntCompare \cup FloatCompare \cup BitOps
Casts == {"I2F", "U2F", "F2I", "F2U"}
ReadsUnsigned == {"READ1U", "READ2U", "READ4U", "READ8U"}
ReadsSigned == {"READ1I", "READ2I", "READ4I", "READ8I"}
Reads == ReadsUnsigned \cup ReadsSigned
Writes == {"WRITE1", "WRITE2", "WRITE4", "WRITE8"}
Opcode == IntArith \cup FloatArith \cup BinaryOps \cup Casts \cup Reads \cup Writes
          \cup {"DONOP", "INVOK", "RETVL", "PUSHR", "SPOPR", "SHUTS", "SETR", "GETR",
                "CALL", "LOOP", "PUSH", "SPOP", "SWAP", "JMPU", "JMPC", "NOTB",
                "COPY", "DUPS", "RET", "NOT"}

\* How many bytes of memory a read or a write touches.
Width(op) == CASE op \in {"READ1U", "READ1I", "WRITE1"} -> 1
               [] op \in {"READ2U", "READ2I", "WRITE2"} -> 2
               [] op \in {"READ4U", "READ4I", "WRITE4"} -> 4
               [] OTHER -> 8

\* An instruction as it lies in program memory: operand, operand2 and the two
\* flags that say an operand was written as a function of a register.
Instruction == [op : Opcode, operand : Word, operand2 : Word,
                opr1IsReg : BOOLEAN, opr2IsReg : BOOLEAN]

(***************************************************************************)
(* A program is any sequence of instructions that fits: the parser takes   *)
(* every expression for a register operand, the assembler stores its value *)
(* and the machine indexes its registers with it, all of them unchecked.   *)
(***************************************************************************)
Program == {p \in Seq(Instruction) : Len(p) <= PROGRAM_CAPACITY}

\* The opcodes that store into a register the program gives by its number.
StoresByNumber == {"SPOPR", "SETR", "COPY", "LOOP"}

\* The powers of ByteSize are arithmetic that the provers do not know.
ASSUME ByteAssumption ==
  /\ ByteSize \in Nat /\ ByteSize >= 2
  /\ \A i \in 0 .. 8 : ByteSize ^ i \in Nat \ {0}
  /\ ByteSize ^ 0 = 1 /\ \A i \in 0 .. 7 : ByteSize ^ (i + 1) = ByteSize ^ i * ByteSize
ASSUME CapacityAssumption ==
  /\ STACK_CAPACITY \in Nat \ {0} /\ STACK_CAPACITY < WordSize
  /\ MEMORY_CAPACITY \in Nat /\ MEMORY_CAPACITY <= WordSize /\ MEMORY_CAPACITY >= 8
  /\ PROGRAM_CAPACITY \in Nat /\ PROGRAM_CAPACITY < WordSize
  /\ FrameCapacity \in Nat \ {0}
  /\ 2 * REG_COUNT < WordSize
  /\ RegIdSize \in Nat /\ RegIdSize > REG_COUNT /\ RegIdSize <= WordSize
ASSUME ProgramAssumption == Programs \subseteq Program

VARIABLES
  reg,    \* the register file, RegID -> Word; NX and SP are two of its words
  stack,  \* the operand stack's slots, StackAddr -> Word
  memory, \* the byte memory
  prog,   \* the instructions loaded
  halt,   \* the flag META_HALT
  lim,    \* executeProgram's argument lim
  frames, \* the calls of executeProgram the C stack holds
  error,  \* what the last executeInst returned
  mode    \* "running"  in executeProgram,
          \* "returned" executeProgram has returned to its caller,
          \* "exited"   the process has ended with an error message,
          \* "overrun"  the C stack had no room for another executeProgram,
          \* "killed"   another signal has ended the process,
          \* "wild"     a store has left its array: C says nothing from here on

vars == <<reg, stack, memory, prog, halt, lim, frames, error, mode>>

Modes == {"running", "returned", "exited", "overrun", "killed", "wild"}
Errors == {"ERR_OK", "ERR_STACK_OVERFLOW", "ERR_STACK_UNDERFLOW", "ERR_DIV_BY_ZERO",
           "ERR_ILLEGAL_INST_ACCESS", "ERR_ILLEGAL_OPERAND", "ERR_NULL_CALL",
           "ERR_ILLEGAL_MEMORY_ACCESS"}
-----------------------------------------------------------------------------
(* Reading the machine. *)

NX == reg[REG_NX]
SP == reg[REG_SP]
Fetchable == NX < Len(prog)
Inst == prog[NX + 1]

\* The slot k below the top: Top(0) is the top of the stack.
Top(k) == stack[SP - 1 - k]
\* The words it may read as.  A program can set SP by number to more than the
\* stack holds; beyond the array lie the machine's memory and its program.
Words(k) == IF SP - 1 - k < STACK_CAPACITY THEN {Top(k)} ELSE Word

\* val(r) reaches the machine as REG_COUNT + r with the flag set.  The test is
\* `>', so val of register 0 is taken for the literal 19.
Indirect(isReg, operand) == IF isReg /\ operand > REG_COUNT
                            THEN reg[operand % REG_COUNT] ELSE operand
Operand == Indirect(Inst.opr1IsReg, Inst.operand)
Operand2 == Indirect(Inst.opr2IsReg, Inst.operand2)

\* getReg's argument is a RegID; SETR alone indexes the array with all 64 bits.
RegNo(w) == w % RegIdSize
StoredReg == CASE Inst.op \in {"SPOPR", "COPY"} -> RegNo(Operand)
               [] Inst.op = "LOOP" -> RegNo(Operand2)
               [] OTHER -> Operand2
\* The words register n may read as: after the last lie the CPU's flags, and then
\* the rest of the Vm.
RegWords(n) == IF n \in RegID THEN {reg[n]} ELSE Word

\* The double a word stands for is not modelled; the zero word is 0.0.
FloatIsZero(w) == w = 0

\* The internal vm calls, by number.
VmCallI == [n \in 0 .. 7 |-> <<"alloc", "free", "print_f64", "print_i64", "print_u64",
                               "print_ptr", "dump_memory", "write">>[n + 1]]
InternalVmCallsDefined == 8

\* vmcall_write and vmcall_dump_memory: the range L0 .. L0 + QT, end included.
RangeIllegal == LET end == Wrap(reg[REG_L0] + reg[REG_QT])
                IN  \/ reg[REG_L0] >= MEMORY_CAPACITY
                    \/ end < reg[REG_L0]
                    \/ end >= MEMORY_CAPACITY
-----------------------------------------------------------------------------
(* The checks of executeInst.  Each comes before the stores of its instruction. *)

Overflows == Inst.op \in {"PUSHR", "CALL", "PUSH", "DUPS"} /\ SP >= STACK_CAPACITY

\* The words an instruction asks for; SWAP and DUPS compute theirs.
Needs == CASE Inst.op \in Reads \cup {"SPOPR", "SPOP", "JMPC", "NOTB", "RET", "NOT"} -> 1
           [] Inst.op \in BinaryOps \cup Writes -> 2
           [] OTHER -> 0
Underflows ==
  \/ SP < Needs
  \/ Inst.op = "SWAP" /\ Operand >= SP
  \* An unsigned comparison: SP - operand <= 0 catches only SP = operand.
  \/ Inst.op = "DUPS" /\ Wrap(SP - Operand) <= 0

DividesByZero ==
  \/ Inst.op \in {"DIVI", "MODI", "DIVU", "MODU"} /\ Operand = 0
  \/ Inst.op = "DIVF" /\ FloatIsZero(Operand)

\* The address a READ takes from the top of the stack, or a WRITE from below it.
Address == IF Inst.op \in Reads THEN Top(0) ELSE Top(1)
\* It lies outside the stack's array itself, and may be any word.
AddressIsOutside == \/ Inst.op \in Reads /\ SP > STACK_CAPACITY
                    \/ Inst.op \in Writes /\ SP > STACK_CAPACITY + 1
\* Mutant of AccessesIllegalMemory: a WRITE is checked the way READ_OP checks.
ChecksFirstByteOnly ==
  \/ Inst.op \in Reads \cup Writes /\ ~AddressIsOutside /\ Address >= MEMORY_CAPACITY
  \/ Inst.op = "INVOK" /\ Operand \in {6, 7} /\ RangeIllegal
AccessesIllegalMemory ==
  \/ Inst.op \in Reads /\ ~AddressIsOutside /\ Address >= MEMORY_CAPACITY
  \/ Inst.op \in Writes /\ ~AddressIsOutside
                       /\ Address >= MEMORY_CAPACITY - (Width(Inst.op) - 1)
  \/ Inst.op = "INVOK" /\ Operand \in {6, 7} /\ RangeIllegal

\* What executeInst returns from this state, if the address is not outside.
InstError ==
  IF ~Fetchable THEN "ERR_ILLEGAL_INST_ACCESS"
  ELSE IF Overflows THEN "ERR_STACK_OVERFLOW"
  ELSE IF Underflows THEN "ERR_STACK_UNDERFLOW"
  ELSE IF DividesByZero THEN "ERR_DIV_BY_ZERO"
  ELSE IF Inst.op = "INVOK" /\ Operand > InternalVmCallsDefined THEN "ERR_ILLEGAL_OPERAND"
  ELSE IF Inst.op = "INVOK" /\ Operand = InternalVmCallsDefined THEN "ERR_NULL_CALL"
  ELSE IF AccessesIllegalMemory THEN "ERR_ILLEGAL_MEMORY_ACCESS"
  ELSE "ERR_OK"

\* The stores that no check stops before they leave the array they index.
LeavesItsArray ==
  \/ Inst.op = "GETR" /\ SP >= STACK_CAPACITY
  \/ Inst.op \in StoresByNumber /\ StoredReg > REG_COUNT
  \/ Inst.op \in Reads \cup {"NOTB", "NOT", "SWAP"} /\ SP > STACK_CAPACITY
  \/ Inst.op \in BinaryOps /\ SP > STACK_CAPACITY + 1
  \/ Inst.op \in Writes /\ ~AddressIsOutside /\ Address + Width(Inst.op) > MEMORY_CAPACITY

\* idiv of the smallest integer by -1 has no quotient, and the processor traps.
Traps == /\ Inst.op \in {"DIVI", "MODI"}
         /\ Signed(Operand) = -1
         /\ 2 * reg[REG_L2] = WordSize
-----------------------------------------------------------------------------
(* What the instructions compute. *)

\* C's division rounds towards zero.
Abs(n) == IF n < 0 THEN -n ELSE n
Quotient(n, d) == IF (n < 0) = (d < 0) THEN Abs(n) \div Abs(d) ELSE -(Abs(n) \div Abs(d))
Remainder(n, d) == n - d * Quotient(n, d)

\* MULU adds: its case is a copy of ADDU's.
IntResult(op, x, y) ==
  CASE op \in {"ADDI", "ADDU", "MULU"} -> Wrap(x + y)
    [] op \in {"SUBI", "SUBU"} -> Wrap(x - y)
    [] op = "MULI" -> Wrap(x * y)
    [] op = "DIVI" -> Wrap(Quotient(Signed(x), Signed(y)))
    [] op = "MODI" -> Wrap(Remainder(Signed(x), Signed(y)))
    [] op = "DIVU" -> Wrap(x \div y)
    [] op = "MODU" -> Wrap(x % y)

\* Integer arithmetic works on one register for each kind of number.
Accumulator(op) == IF op \in {"ADDI", "SUBI", "MULI", "DIVI", "MODI"} THEN REG_L2 ELSE REG_L3

IntHolds(op, x, y) ==
  CASE op = "EQI" -> Signed(x) = Signed(y)   [] op = "EQU" -> x = y
    [] op = "NEI" -> Signed(x) # Signed(y)   [] op = "NEU" -> x # y
    [] op = "GEI" -> Signed(x) >= Signed(y)  [] op = "GEU" -> x >= y
    [] op = "GTI" -> Signed(x) > Signed(y)   [] op = "GTU" -> x > y
    [] op = "LEI" -> Signed(x) <= Signed(y)  [] op = "LEU" -> x <= y
    [] op = "LTI" -> Signed(x) < Signed(y)   [] op = "LTU" -> x < y

\* The words BINARY_OP may leave: one, or any where the data is abstracted.
BinaryResults(op, x, y) ==
  CASE op \in IntCompare -> {IF IntHolds(op, x, y) THEN 1 ELSE 0}
    [] op \in FloatCompare -> {0, 1}
    [] op \in BitOps -> Word

\* Byte number i of a word, the least significant being number 0.
\* Mutant of ByteOf: the bytes above stay.
ByteOfUncut(w, i) == w \div ByteSize ^ i
ByteOf(w, i) == (w \div ByteSize ^ i) % ByteSize

\* The words a read of n bytes at addr may give.  The check looks at the first
\* byte only; the bytes past the memory's end are those of whatever follows it.
ReadResults(addr, n) ==
  {w \in Word : /\ w < ByteSize ^ n
                /\ \A i \in 0 .. n - 1 :
                     addr + i < MEMORY_CAPACITY => ByteOf(w, i) = memory[addr + i]}
SignExtend(w, n) == IF 2 * w >= ByteSize ^ n THEN Wrap(w - ByteSize ^ n) ELSE w
-----------------------------------------------------------------------------
(* The step of executeProgram around an instruction. *)

\* After executeInst returned e with META_HALT at h: the limit and the flag end
\* the run before an error is looked at, and otherwise executeProgram calls
\* itself.  Its frame stays: `details' and `error' have had their addresses
\* taken, so the build (gcc -O3) does not turn the call into a jump.  The C
\* stack is used up long before lim, counting down, can wrap.
\*
\* Mutant of Drive: a loop in place of the recursion.
DriveByLoop(e, h) ==
  LET ends == lim = 0 \/ h
  IN  /\ error' = e
      /\ halt' = h
      /\ mode' = IF ends THEN "returned" ELSE IF e # "ERR_OK" THEN "exited" ELSE "running"
      /\ UNCHANGED <<lim, frames, prog>>
Drive(e, h) ==
  LET ends == lim = 0 \/ h
  IN  /\ error' = e
      /\ halt' = h
      /\ mode' = IF ends THEN "returned"
                 ELSE IF e # "ERR_OK" THEN "exited"
                 ELSE IF frames = FrameCapacity THEN "overrun" ELSE "running"
      /\ IF mode' = "running" THEN lim' = lim - 1 /\ frames' = frames + 1
                              ELSE UNCHANGED <<lim, frames>>
      /\ UNCHANGED prog

\* One of the instructions ops passes its checks.
Passes(ops) == /\ mode = "running"
               /\ InstError = "ERR_OK"
               /\ Inst.op \in ops
               /\ ~LeavesItsArray
               /\ ~Traps

\* It executes; SHUTS sets META_HALT.
Executes(ops) == Passes(ops) /\ Drive("ERR_OK", halt \/ Inst.op = "SHUTS")

\* It executes and stores w into a register by number.  The number REG_COUNT is
\* the flags', whose lowest bit is META_HALT.
Stores(w) == Drive("ERR_OK", IF StoredReg = REG_COUNT THEN w % 2 = 1 ELSE halt)
Stored(r, w) == IF StoredReg \in RegID THEN [r EXCEPT ![StoredReg] = w] ELSE r

\* The register file r with NX moved to the next instruction.
Advanced(r) == [r EXCEPT ![REG_NX] = Wrap(@ + 1)]
Popped(r, n) == [r EXCEPT ![REG_SP] = Wrap(@ - n)]

\* Push w, leaving the rest of the register file as r says.
Pushing(w, r) == /\ stack' = [stack EXCEPT ![SP] = w]
                 /\ reg' = [r EXCEPT ![REG_SP] = Wrap(SP + 1)]
                 /\ UNCHANGED memory

\* An instruction that changes nothing but registers.
Registers(r) == reg' = r /\ UNCHANGED <<stack, memory>>

\* Replace the n top words by w.
Replacing(n, w) == /\ stack' = [stack EXCEPT ![SP - n] = w]
                   /\ reg' = Advanced(Popped(reg, n - 1))
                   /\ UNCHANGED memory
-----------------------------------------------------------------------------
(* The instructions. *)

Donop == Executes({"DONOP"}) /\ Registers(Advanced(reg))

\* RETVL has an empty body: NX stays, and the machine executes it for ever.
Retvl == Executes({"RETVL"}) /\ Registers(reg)

\* alloc answers in RF, with a pointer; free and the printing calls leave the
\* machine alone.
Invok == /\ Executes({"INVOK"})
         /\ \E ptr \in IF VmCallI[Operand] = "alloc" THEN Word ELSE {reg[REG_RF]} :
              Registers(Advanced([reg EXCEPT ![REG_RF] = ptr]))

\* Of SP, PUSHR and GETR read the old value or the new: C leaves the order open.
PushedReg(n) == IF n = REG_SP THEN {SP, Wrap(SP + 1)} ELSE RegWords(n)
Pushr == Executes({"PUSHR"}) /\ \E w \in PushedReg(RegNo(Operand)) : Pushing(w, Advanced(reg))
Getr == Executes({"GETR"}) /\ \E w \in PushedReg(RegNo(Operand)) : Pushing(w, Advanced(reg))
Push == Executes({"PUSH"}) /\ Pushing(Operand, Advanced(reg))
Call == Executes({"CALL"}) /\ Pushing(Wrap(NX + 1), [reg EXCEPT ![REG_NX] = Operand])

Spopr == /\ Passes({"SPOPR"})
         /\ \E w \in Words(0) : Stores(w) /\ Registers(Advanced(Popped(Stored(reg, w), 1)))
Spop == /\ Executes({"SPOP"})
        /\ \E w \in Words(0) : Registers(Advanced(Popped([reg EXCEPT ![REG_QT] = w], 1)))
\* Mutant of Ret: the return address stays on the stack.
RetKeepsAddress == /\ Executes({"RET"})
                   /\ \E w \in Words(0) : Registers([reg EXCEPT ![REG_NX] = w])
Ret == /\ Executes({"RET"})
       /\ \E w \in Words(0) : Registers(Popped([reg EXCEPT ![REG_NX] = w], 1))

Shuts == Executes({"SHUTS"}) /\ Registers(reg)

Setr == /\ Passes({"SETR"})
        /\ Stores(Operand) /\ Registers(Advanced(Stored(reg, Operand)))
Copy == /\ Passes({"COPY"})
        /\ \E w \in RegWords(RegNo(Operand2)) :
             Stores(w) /\ Registers(Advanced(Stored(reg, w)))

Jmpu == Executes({"JMPU"}) /\ Registers([reg EXCEPT ![REG_NX] = Operand])
Jmpc == /\ Executes({"JMPC"})
        /\ \E w \in Words(0) :
             Registers(Popped(IF w # 0 THEN [reg EXCEPT ![REG_NX] = Operand] ELSE Advanced(reg), 1))

\* The counter goes down on the way out as well, from 0 to the largest word; it
\* is read once for the test and again, after the jump, for the countdown.
\* Mutant of Loop: the counter goes down only on the way out.
LoopCountsOnExit ==
  /\ Passes({"LOOP"})
  /\ \E c \in RegWords(StoredReg) :
       /\ Stores(IF c > 0 THEN c ELSE Wrap(c - 1))
       /\ Registers(IF c > 0 THEN [reg EXCEPT ![REG_NX] = Operand]
                    ELSE Stored(Advanced(reg), Wrap(c - 1)))
Loop ==
  /\ Passes({"LOOP"})
  /\ \E c \in RegWords(StoredReg) :
       LET jumped == IF c > 0 THEN [reg EXCEPT ![REG_NX] = Operand] ELSE Advanced(reg)
           counter == IF StoredReg \in RegID THEN jumped[StoredReg] ELSE c
       IN  Stores(Wrap(counter - 1)) /\ Registers(Stored(jumped, Wrap(counter - 1)))

Swap == /\ Executes({"SWAP"})
        /\ stack' = [stack EXCEPT ![SP - 1] = Top(Operand), ![SP - 1 - Operand] = Top(0)]
        /\ reg' = Advanced(reg)
        /\ UNCHANGED memory

\* An operand above SP has passed the check: the word read lies below the array.
Dups == /\ Executes({"DUPS"})
        /\ \E w \in IF Operand < SP THEN {Top(Operand)} ELSE Word : Pushing(w, Advanced(reg))

Arith == /\ Executes(IntArith)
         /\ LET acc == Accumulator(Inst.op)
            IN  Registers(Advanced([reg EXCEPT ![acc] = IntResult(Inst.op, @, Operand)]))

ArithF == /\ Executes(FloatArith)
          /\ \E w \in Word : Registers(Advanced([reg EXCEPT ![REG_L1] = w]))

Cast == /\ Executes(Casts)
        /\ LET dst == CASE Inst.op \in {"I2F", "U2F"} -> REG_L1
                        [] Inst.op = "F2I" -> REG_L2
                        [] Inst.op = "F2U" -> REG_L3
           IN  \E w \in Word : Registers(Advanced([reg EXCEPT ![dst] = w]))

Binary == /\ Executes(BinaryOps)
          /\ \E top \in Words(0) :
               \E w \in BinaryResults(Inst.op, Top(1), top) : Replacing(2, w)
Notb == Executes({"NOTB"}) /\ Replacing(1, WordSize - 1 - Top(0))
Not == Executes({"NOT"}) /\ Replacing(1, IF Top(0) = 0 THEN 1 ELSE 0)

ReadU == /\ Executes(ReadsUnsigned)
         /\ \E w \in ReadResults(Address, Width(Inst.op)) : Replacing(1, w)
ReadI == /\ Executes(ReadsSigned)
         /\ \E w \in ReadResults(Address, Width(Inst.op)) :
              Replacing(1, SignExtend(w, Width(Inst.op)))

\* The addresses a WRITE may use: the one on the stack, or any that is checked.
Addresses == IF AddressIsOutside THEN {a \in MemoryAddr : a + Width(Inst.op) <= MEMORY_CAPACITY}
             ELSE {Address}
\* Mutant of Write: the bytes are stored most significant first.
WriteBigEndian ==
  /\ Executes(Writes)
  /\ \E to \in Addresses, w \in Words(0) :
       memory' = [a \in MemoryAddr |->
                    IF a \in to .. to + Width(Inst.op) - 1
                    THEN ByteOf(w, to + Width(Inst.op) - 1 - a) ELSE memory[a]]
  /\ reg' = Advanced(Popped(reg, 2))
  /\ UNCHANGED stack
Write == /\ Executes(Writes)
         /\ \E to \in Addresses, w \in Words(0) :
              memory' = [a \in MemoryAddr |->
                           IF a \in to .. to + Width(Inst.op) - 1
                           THEN ByteOf(w, a - to) ELSE memory[a]]
         /\ reg' = Advanced(Popped(reg, 2))
         /\ UNCHANGED stack

\* An error return.
Fail == /\ mode = "running"
        /\ \/ InstError # "ERR_OK" /\ Drive(InstError, halt)
           \/ /\ InstError = "ERR_OK" /\ AddressIsOutside
              /\ Drive("ERR_ILLEGAL_MEMORY_ACCESS", halt)
        /\ UNCHANGED <<reg, stack, memory>>

\* The instruction reads past the registers and the flags, or past the stack.
ReadsOutside == \/ Inst.op \in {"PUSHR", "GETR"} /\ RegNo(Operand) > REG_COUNT
                \/ Inst.op = "COPY" /\ RegNo(Operand2) > REG_COUNT
                \/ SP > STACK_CAPACITY /\ (Needs > 0 \/ Inst.op = "SWAP")

\* The process dies of a signal: the debugger's window reads the instruction
\* at NX wherever that is, idiv traps, a read outside an array or of DUPS below
\* the stack finds no page, or alloc asks for more than malloc has (its answer
\* is not checked).
MayDie == \/ ~Fetchable
          \/ /\ InstError = "ERR_OK"
             /\ \/ Traps
                \/ ReadsOutside
                \/ Inst.op = "DUPS" /\ Operand >= SP
                \/ Inst.op = "INVOK" /\ VmCallI[Operand] = "alloc"
Killed == /\ mode = "running"
          /\ MayDie
          /\ mode' = "killed"
          /\ UNCHANGED <<reg, stack, memory, prog, halt, lim, frames, error>>

\* A store outside its array.
Wild == /\ mode = "running"
        /\ InstError = "ERR_OK"
        /\ LeavesItsArray
        /\ mode' = "wild"
        /\ UNCHANGED <<reg, stack, memory, prog, halt, lim, frames, error>>

Step == \/ Donop \/ Retvl \/ Invok \/ Pushr \/ Getr \/ Push \/ Call \/ Spopr \/ Spop \/ Ret
        \/ Shuts \/ Setr \/ Copy \/ Jmpu \/ Jmpc \/ Loop \/ Swap \/ Dups \/ Arith \/ ArithF
        \/ Cast \/ Binary \/ Notb \/ Not \/ ReadU \/ ReadI \/ Write \/ Fail \/ Killed \/ Wild

\* The limit every caller passes, which is no limit.
ExecLimit == -1

\* The statically allocated machine, all zero, with one of the programs in it.
Init == /\ reg = [r \in RegID |-> 0]
        /\ stack = [i \in StackAddr |-> 0]
        /\ memory = [a \in MemoryAddr |-> 0]
        /\ prog \in Programs
        /\ halt = FALSE
        /\ lim = ExecLimit
        /\ frames = 1
        /\ error = "ERR_OK"
        /\ mode = "running"

Spec == Init /\ [][Step]_vars

\* executeProgram calls executeInst again and again, and nothing else runs.
FairSpec == Spec /\ WF_vars(Step)
-----------------------------------------------------------------------------
(* Properties. *)

(* The registers, the stack and the memory hold words and bytes, and the      *)
(* run's state is one of those listed, whatever the program.                   *)
TypeOK == /\ reg \in [RegID -> Word]
          /\ stack \in [StackAddr -> Word]
          /\ memory \in [MemoryAddr -> Byte]
          /\ prog \in Program
          /\ halt \in BOOLEAN
          /\ lim \in Int
          /\ frames \in 1 .. FrameCapacity
          /\ error \in Errors
          /\ mode \in Modes

(* Which stores can leave the array they index, whatever the program: GETR's,  *)
(* on a full stack; a store into a register by a number past the flags; and    *)
(* with SP beyond the stack's array whatever stores there, but SP is there     *)
(* only in a program that stores into SP by its number.  Neither the pushes,   *)
(* pops and replacements in any order nor a WRITE next to the memory's end     *)
(* ever leaves an array, and no check of the assembler or the machine stops    *)
(* the ones listed.                                                            *)
MayNameSp(isReg, operand) == RegNo(operand) = REG_SP \/ (isReg /\ operand > REG_COUNT)
MaySetSp(i) == \/ i.op \in {"SPOPR", "COPY"} /\ MayNameSp(i.opr1IsReg, i.operand)
               \/ i.op \in {"SETR", "LOOP"} /\ MayNameSp(i.opr2IsReg, i.operand2)
SetsSp(p) == \E k \in 1 .. Len(p) : MaySetSp(p[k])
OutOfBoundsStores ==
  [][mode' = "wild" =>
       \/ Inst.op = "GETR" /\ SP = STACK_CAPACITY
       \/ Inst.op \in StoresByNumber /\ StoredReg > REG_COUNT
       \/ SP > STACK_CAPACITY /\ SetsSp(prog)]_vars

(* The programs whose stores into registers name one, other than NX and SP, as *)
(* programs do that write registers by name.  Nothing enforces it: this is the *)
(* premise of the two properties below that are false of other programs.       *)
NamedReg == RegID \ {REG_NX, REG_SP}
NamesRegisters(i) == /\ i.op \in {"SPOPR", "COPY"} => i.operand \in NamedReg
                     /\ i.op \in {"SETR", "LOOP"} => i.operand2 \in NamedReg
NamedProgram == {p \in Program : \A k \in 1 .. Len(p) : NamesRegisters(p[k])}

(* To a program that names the registers it stores into, the machine is the    *)
(* stack machine: the slots below SP are the operand stack, and no word above  *)
(* SP, left there by earlier pops, ever comes back.  It is about every case of *)
(* executeInst at once: how many words it asks for, how many it takes, where   *)
(* it puts what, and where it goes next.  A program that stores into SP or NX, *)
(* or past the registers, is promised nothing.                                 *)
Depth == IF SP <= STACK_CAPACITY THEN SP ELSE STACK_CAPACITY
OperandStack == [i \in 1 .. Depth |-> stack[i - 1]]
SM == INSTANCE StackMachine
        WITH Capacity <- STACK_CAPACITY, FirstDynamic <- REG_COUNT, Programs <- Program,
             StackErrors <- {"ERR_STACK_OVERFLOW", "ERR_STACK_UNDERFLOW"},
             nx <- NX, ops <- OperandStack
ImplementsStackMachine ==
  /\ SM!Init
  /\ [][SM!Next \/ prog \notin NamedProgram]_<<prog, NX, OperandStack, error, mode>>

(* Memory is random access memory: a WRITE of n bytes makes a READ of the same *)
(* width at the same address give back the value's n low bytes, no other byte  *)
(* changes, and no other instruction changes any.  The address and the value   *)
(* are those on the stack, unless SP points beyond it.  After a store that has *)
(* left its array (OutOfBoundsStores) nothing is claimed.                      *)
MemoryIsRandomAccess ==
  [][\/ /\ mode = "running" /\ InstError = "ERR_OK" /\ Inst.op \in Writes
        /\ \E a \in Addresses, n \in {1, 2, 4, 8}, v \in Words(0) :
             /\ n = Width(Inst.op)
             /\ ReadResults(a, n)' = {v % ByteSize ^ n}
             /\ \A b \in MemoryAddr \ (a .. a + n - 1) : memory'[b] = memory[b]
     \/ UNCHANGED memory]_vars

(* A program that names its registers and whose only way back is one LOOP, on  *)
(* a counter its body does not write, ends before it has used up the C stack,  *)
(* if its instructions, each counted as often as the loop may go round, fit    *)
(* there.  The counter wraps below 0 on the way out, so it is about a loop     *)
(* that is entered once.                                                       *)
WritesRegister(i, r) ==
  \/ i.op \in {"SPOPR", "COPY"} /\ i.operand = r
  \/ i.op = "SETR" /\ i.operand2 = r
  \/ i.op \in IntArith \cup FloatArith \cup Casts /\ r \in {REG_L1, REG_L2, REG_L3}
  \/ i.op = "SPOP" /\ r = REG_QT
  \/ i.op = "INVOK" /\ r = REG_RF
OneCountedLoop(p) ==
  /\ p \in NamedProgram
  /\ \A k \in 1 .. Len(p) :
       /\ p[k].op \notin {"RET", "RETVL"}
       /\ p[k].op \in {"JMPU", "JMPC", "CALL"} => ~p[k].opr1IsReg /\ p[k].operand >= k
       /\ p[k].op = "LOOP" =>
            /\ \A j \in (1 .. Len(p)) \ {k} : p[j].op # "LOOP"
            /\ \A j \in p[k].operand + 1 .. k - 1 : ~WritesRegister(p[j], p[k].operand2)
\* The C stack has room for every instruction once more than the counter, which
\* only SETR sets, makes the loop go round, and for the step past the end.
HasRoom(p) ==
  /\ 2 * Len(p) <= FrameCapacity
  /\ \A k, j \in 1 .. Len(p) :
       p[k].op = "LOOP" /\ WritesRegister(p[j], p[k].operand2) =>
         /\ p[j].op = "SETR" /\ ~p[j].opr1IsReg
         /\ Len(p) * (p[j].operand + 2) <= FrameCapacity
CountedLoopsEnd ==
  OneCountedLoop(prog) /\ HasRoom(prog) => <>(mode \notin {"running", "overrun"})

(* What univ_errors.h and virex.h say: an instruction that finds the stack     *)
(* full, or too short for it, is answered with the stack's error.              *)
StackErrorsAreReported ==
  [][mode = "running" /\ Fetchable =>
       /\ Inst.op \in {"PUSHR", "CALL", "PUSH", "GETR"} /\ SP = STACK_CAPACITY =>
            error' = "ERR_STACK_OVERFLOW"
       /\ Inst.op = "DUPS" /\ SP <= Operand /\ SP < STACK_CAPACITY =>
            error' = "ERR_STACK_UNDERFLOW"]_vars

(* What the sample programs' comments say of val: an operand written val(r),   *)
(* REG_COUNT + r in the instruction, is the content of register r.             *)
ValReadsItsRegister ==
  mode = "running" /\ Fetchable =>
    \A r \in RegID : Inst.opr1IsReg /\ Inst.operand = REG_COUNT + r => Operand = reg[r]

=============================================================================
